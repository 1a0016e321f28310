SPECIFICATION Spec
CONSTANTS
  Pid = {1, 2}
  MaxSignals = 1
  Metric = {"files_shipped", "time_since_success"}
  DefaultZeroMetrics <- ZeroedMetrics
  max_metrics_per_interval = 3
  MaxReports = 1
  CommandLine <- MonitorOnly
INVARIANT OneRecipient
CHECK_DEADLOCK FALSE
