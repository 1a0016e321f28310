--------------------------------- MODULE Main ---------------------------------
(***************************************************************************)
(* The process barn-agent: main parses the command line, sets the SIGTERM  *)
(* handler and becomes an agent or a monitor (barn-agent/src/main.cpp,     *)
(* params.cpp).  What an agent does besides running commands is the module *)
(* Agent.                                                                  *)
(***************************************************************************)
EXTENDS Monitor

CONSTANT CommandLine   \* the command lines it is started with

\* What of a command line the checks look at.
BarnConf == [help : BOOLEAN,
             required : BOOLEAN,  \* target-addr, source, service-name and category
             backup : BOOLEAN,    \* backup-addr
             monitor_port : Int, monitor_mode : BOOLEAN,
             seconds_before_failover : Int]

ASSUME CommandLineAssumption == CommandLine \subseteq BarnConf

VARIABLE barn_conf

vars == <<mode, barn_conf, procVars, repoVars, reportVars>>

TypeOK ==
    /\ SigHandleTypeOK /\ MonitorTypeOK
    /\ mode \in {"parse", "start", "agent", "monitor"}
    /\ barn_conf \in CommandLine

Init ==
    /\ mode = "parse"
    /\ barn_conf \in CommandLine
    /\ SigHandleInit /\ MonitorInit

\* parse_command_line: its chain of tests ends at the first that applies, so that
\* an agent without monitor_port is not asked for a backup.
ShowsDescription(conf) ==
    \/ conf.help
    \/ ~conf.monitor_mode /\ ~conf.required
    \/ conf.monitor_mode /\ conf.monitor_port <= 0
    \/ /\ conf.monitor_port > 0
       /\ conf.seconds_before_failover > 0 /\ ~conf.backup

FailsOverTooQuickly(conf) ==
    conf.seconds_before_failover # 0 /\ conf.seconds_before_failover <= 60

ParseCommandLine ==
    /\ running /\ mode = "parse"
    /\ IF ShowsDescription(barn_conf) \/ FailsOverTooQuickly(barn_conf)
       THEN running' = FALSE /\ UNCHANGED mode
       ELSE mode' = "start" /\ UNCHANGED running
    /\ UNCHANGED <<barn_conf, signalVars, commandVars, repoVars, reportVars>>

\* enable_kill_child_signal_handler, and the branch.
StartMode ==
    /\ running /\ mode = "start"
    /\ disposition' = "handler"
    /\ mode' = IF barn_conf.monitor_mode THEN "monitor" ELSE "agent"
    /\ UNCHANGED <<barn_conf, running, handler, terms, signalled, owed, reached,
                   commandVars, repoVars, reportVars>>

\* create_channel_selector
channel_selector(conf) ==
    IF conf.seconds_before_failover = 0
    THEN [failover |-> FALSE]
    ELSE [failover |-> TRUE, secondary |-> conf.backup]

\* An agent runs rsync, inotifywait and hostname.
AgentCommand == mode = "agent" /\ Launch

\* rsync is not installed: nothing catches what run_command throws.
AgentAborts ==
    /\ mode = "agent" /\ Free("main") /\ command = "none"
    /\ running' = FALSE
    /\ UNCHANGED <<signalVars, commandVars>>

Process ==
    /\ AgentCommand \/ AgentAborts \/ RunCommand \/ System \/ Signals
    /\ UNCHANGED <<mode, barn_conf, repoVars, reportVars>>

Next ==
    \/ ParseCommandLine \/ StartMode
    \/ Process
    \/ MonitorStep /\ UNCHANGED <<mode, barn_conf>>

Spec == Init /\ [][Next]_vars

\* The threads are scheduled, and children end (rsync and inotifywait are run
\* with a timeout).
Fairness ==
    /\ WF_vars(RunCommand /\ Process)
    /\ \A p \in Pid : WF_vars(ChildExits(p) /\ Process)
    /\ \A t \in Thread : WF_vars(Handler(t) /\ Process)
    /\ WF_vars((TakeReports \/ RearmTimer \/ \E m \in Metric : ReportGanglia(m))
                  /\ UNCHANGED <<mode, barn_conf>>)

FairSpec == Spec /\ Fairness

----------------------------------------------------------------------------
\* "how long before failing over to the backup barn-hdfs node (--backup-addr)"
\* (params.cpp): an agent that may fail over knows where to.
FailoverHasBackup ==
    mode = "agent" /\ channel_selector(barn_conf).failover =>
        channel_selector(barn_conf).secondary
=============================================================================
