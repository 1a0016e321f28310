SPECIFICATION FairSpec
CONSTANTS
  Pid = {1, 2}
  MaxSignals = 2
  Metric = {"files_shipped", "time_since_success"}
  DefaultZeroMetrics <- ZeroedMetrics
  max_metrics_per_interval = 3
  MaxReports = 3
  CommandLine <- OneOfEach
INVARIANTS TypeOK NoOrphan AgentSignalsItsChild ReportsConserved ZerosAreReported
PROPERTIES SigtermEnds EveryReportReported
CHECK_DEADLOCK FALSE
