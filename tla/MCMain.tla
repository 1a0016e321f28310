-------------------------------- MODULE MCMain --------------------------------
(* Instances of Main: sets of command lines, and two of the metrics. *)
EXTENDS Main

AllCommandLines ==
    [help : BOOLEAN, required : BOOLEAN, backup : BOOLEAN,
     monitor_port : {0, 4444}, monitor_mode : BOOLEAN,
     seconds_before_failover : {0, 60, 61}]

\* Options of one mode given in full, and the monitor's.
agentLine ==
    [help |-> FALSE, required |-> TRUE, backup |-> TRUE, monitor_port |-> 4444,
     monitor_mode |-> FALSE, seconds_before_failover |-> 61]

monitorLine == [agentLine EXCEPT !.monitor_mode = TRUE, !.required = FALSE]

OneOfEach ==
    {agentLine, monitorLine, [agentLine EXCEPT !.required = FALSE],
     [agentLine EXCEPT !.seconds_before_failover = 60]}

MonitorOnly == {monitorLine}

ZeroedMetrics == <<"files_shipped">>
=============================================================================
