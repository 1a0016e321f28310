----------------------------- MODULE Main_proofs -----------------------------
(***************************************************************************)
(* The signals of a barn-agent process, and the reports of a monitor, for  *)
(* any number of pids, signals, metrics and reports.                       *)
(***************************************************************************)
EXTENDS Main, SequenceTheorems, TLAPS

(***************************************************************************)
(* The inductive invariant of run_command and kill_child_handler.          *)
(***************************************************************************)

\* Before the mode is chosen nothing has been run and no handler is set.
Starting ==
    mode \in {"parse", "start"} =>
        /\ disposition = "default" /\ command = "none"
        /\ reached = {}
        /\ \A t \in Thread : handler[t] = "none"

\* The disposition goes back to the default on the way to the end only.
Disposed ==
    /\ mode \in {"agent", "monitor"} /\ disposition = "default" /\ running =>
          \E t \in Thread : handler[t] = "die"
    /\ \A t \in Thread : handler[t] = "die" => disposition = "default"
    /\ mode # "monitor" => handler["timer"] = "none"
    /\ terms = 0 => owed = {} /\ \A t \in Thread : handler[t] = "none"

\* From set_child_pid on the child is registered, and until wait its pid is its own.
Registered ==
    /\ command # "none" => child \in Pid
    /\ command \in {"wait", "reaped"} => child_pid_global = child
    /\ running /\ command \in {"launched", "wait"} => os[child] \in {"child", "zombie"}
    /\ running => \A p \in owed : os[p] \in {"child", "zombie"}

\* A child that is owed a signal is still registered, and nobody is past the kill.
OwedIsSignalled ==
    \A p \in Pid : p \in owed /\ os[p] = "child" /\ p \notin signalled =>
        /\ running /\ disposition = "handler" /\ child_pid_global = p
        /\ \A t \in Thread : handler[t] \notin {"restore", "die"}

\* In an agent nothing moves while the handler runs.
AgentStops ==
    mode = "agent" =>
        LET ending == handler["main"] \in {"restore", "die"} \/ ~running IN
        /\ handler["main"] = "kill" => child_pid_global # INVALID_PID
        /\ ending => \A p \in Pid :
              os[p] = "child" /\ p \notin signalled => command = "launched"
        /\ "everyone" \notin reached
        /\ "other" \in reached => command = "reaped" /\ ending

SignalInv ==
    /\ mode \in {"parse", "start", "agent", "monitor"}
    /\ SigHandleTypeOK
    /\ Starting /\ Disposed /\ Registered /\ OwedIsSignalled /\ AgentStops

(***************************************************************************)
(* The inductive invariant of the ring and the sums.                       *)
(***************************************************************************)

\* A report is of one metric, in the ring as well as in the sums, and an armed
\* timer has nothing left to report.
SumsAreApart ==
    /\ \A i, j \in 1 .. Len(metrics) :
          metrics[i].report = metrics[j].report /\ metrics[i].report # Zero =>
              metrics[i].metric = metrics[j].metric
    /\ \A m, n \in DOMAIN aggregated :
          m # n => aggregated[m] \cap aggregated[n] = {}
    /\ timer = "armed" => DOMAIN aggregated = {}

ReportInv == MonitorTypeOK /\ SumsAreApart /\ ReportsConserved /\ ZerosAreReported

\* The end of parse_command_line.
LEMMA ParseKeeps ==
    ASSUME SignalInv, ParseCommandLine
    PROVE  SignalInv'
<1> USE PidAssumption DEF SignalInv, INVALID_PID, Thread, Free, caller, signalVars, commandVars
<1>1. SigHandleTypeOK'
  BY DEF ParseCommandLine, SigHandleTypeOK, Registered, Starting
<1>2. Starting'
  BY DEF ParseCommandLine, Starting, SigHandleTypeOK
<1>3. Disposed'
  BY DEF ParseCommandLine, Disposed, Starting, SigHandleTypeOK
<1>4. Registered'
  BY DEF ParseCommandLine, Registered, SigHandleTypeOK, Starting
<1>5. OwedIsSignalled'
  BY DEF ParseCommandLine, OwedIsSignalled, Registered, Disposed, Starting, SigHandleTypeOK
<1>6. AgentStops'
  BY DEF ParseCommandLine, AgentStops, Registered, Disposed, Starting, SigHandleTypeOK
<1>7. mode' \in {"parse", "start", "agent", "monitor"}
  BY DEF ParseCommandLine
<1> QED
  BY <1>1, <1>2, <1>3, <1>4, <1>5, <1>6, <1>7

\* The mode is chosen and the handler set.
LEMMA StartKeeps ==
    ASSUME SignalInv, StartMode
    PROVE  SignalInv'
<1> USE PidAssumption DEF SignalInv, INVALID_PID, Thread, Free, caller, signalVars, commandVars
<1>1. SigHandleTypeOK'
  BY DEF StartMode, SigHandleTypeOK, Registered, Starting
<1>2. Starting'
  BY DEF StartMode, Starting, SigHandleTypeOK
<1>3. Disposed'
  BY DEF StartMode, Disposed, Starting, SigHandleTypeOK
<1>4. Registered'
  BY DEF StartMode, Registered, SigHandleTypeOK, Starting
<1>5. OwedIsSignalled'
  BY DEF StartMode, OwedIsSignalled, Registered, Disposed, Starting, SigHandleTypeOK
<1>6. AgentStops'
  BY DEF StartMode, AgentStops, Registered, Disposed, Starting, SigHandleTypeOK
<1>7. mode' \in {"parse", "start", "agent", "monitor"}
  BY DEF StartMode
<1> QED
  BY <1>1, <1>2, <1>3, <1>4, <1>5, <1>6, <1>7

\* posix_launch, from which the child runs unregistered.
LEMMA LaunchKeeps ==
    ASSUME SignalInv, Launch, mode \in {"agent", "monitor"}, UNCHANGED mode
    PROVE  SignalInv'
<1> USE PidAssumption DEF SignalInv, INVALID_PID, Thread, Free, caller, signalVars, commandVars
<1>1. SigHandleTypeOK'
  BY DEF Launch, SigHandleTypeOK, Registered, Starting
<1>2. Starting'
  BY DEF Launch, Starting, SigHandleTypeOK
<1>3. Disposed'
  BY DEF Launch, Disposed, Starting, SigHandleTypeOK
<1>4. Registered'
  BY DEF Launch, Registered, SigHandleTypeOK, Starting
<1>5. OwedIsSignalled'
  BY DEF Launch, OwedIsSignalled, Registered, Disposed, Starting, SigHandleTypeOK
<1>6. AgentStops'
  BY DEF Launch, AgentStops, Registered, Disposed, Starting, SigHandleTypeOK
<1>7. mode' \in {"parse", "start", "agent", "monitor"}
  BY DEF Launch
<1> QED
  BY <1>1, <1>2, <1>3, <1>4, <1>5, <1>6, <1>7

\* set_child_pid registers it.
LEMMA SetKeeps ==
    ASSUME SignalInv, SetChildPid, UNCHANGED mode
    PROVE  SignalInv'
<1> USE PidAssumption DEF SignalInv, INVALID_PID, Thread, Free, caller, signalVars, commandVars
<1>1. SigHandleTypeOK'
  BY DEF SetChildPid, SigHandleTypeOK, Registered, Starting
<1>2. Starting'
  BY DEF SetChildPid, Starting, SigHandleTypeOK
<1>3. Disposed'
  BY DEF SetChildPid, Disposed, Starting, SigHandleTypeOK
<1>4. Registered'
  BY DEF SetChildPid, Registered, SigHandleTypeOK, Starting
<1>5. OwedIsSignalled'
  BY DEF SetChildPid, OwedIsSignalled, Registered, Disposed, Starting, SigHandleTypeOK
<1>6. AgentStops'
  BY DEF SetChildPid, AgentStops, Registered, Disposed, Starting, SigHandleTypeOK
<1>7. mode' \in {"parse", "start", "agent", "monitor"}
  BY DEF SetChildPid
<1> QED
  BY <1>1, <1>2, <1>3, <1>4, <1>5, <1>6, <1>7

\* wait frees the pid.
LEMMA WaitKeeps ==
    ASSUME SignalInv, Wait, UNCHANGED mode
    PROVE  SignalInv'
<1> USE PidAssumption DEF SignalInv, INVALID_PID, Thread, Free, caller, signalVars, commandVars
<1>1. SigHandleTypeOK'
  BY DEF Wait, SigHandleTypeOK, Registered, Starting
<1>2. Starting'
  BY DEF Wait, Starting, SigHandleTypeOK
<1>3. Disposed'
  BY DEF Wait, Disposed, Starting, SigHandleTypeOK
<1>4. Registered'
  BY DEF Wait, Registered, SigHandleTypeOK, Starting
<1>5. OwedIsSignalled'
  BY DEF Wait, OwedIsSignalled, Registered, Disposed, Starting, SigHandleTypeOK
<1>6. AgentStops'
  BY DEF Wait, AgentStops, Registered, Disposed, Starting, SigHandleTypeOK
<1>7. mode' \in {"parse", "start", "agent", "monitor"}
  BY DEF Wait
<1> QED
  BY <1>1, <1>2, <1>3, <1>4, <1>5, <1>6, <1>7

\* unset_child_pid.
LEMMA UnsetKeeps ==
    ASSUME SignalInv, UnsetChildPid, UNCHANGED mode
    PROVE  SignalInv'
<1> USE PidAssumption DEF SignalInv, INVALID_PID, Thread, Free, caller, signalVars, commandVars
<1>1. SigHandleTypeOK'
  BY DEF UnsetChildPid, SigHandleTypeOK, Registered, Starting
<1>2. Starting'
  BY DEF UnsetChildPid, Starting, SigHandleTypeOK
<1>3. Disposed'
  BY DEF UnsetChildPid, Disposed, Starting, SigHandleTypeOK
<1>4. Registered'
  BY DEF UnsetChildPid, Registered, SigHandleTypeOK, Starting
<1>5. OwedIsSignalled'
  BY DEF UnsetChildPid, OwedIsSignalled, Registered, Disposed, Starting, SigHandleTypeOK
<1>6. AgentStops'
  BY DEF UnsetChildPid, AgentStops, Registered, Disposed, Starting, SigHandleTypeOK
<1>7. mode' \in {"parse", "start", "agent", "monitor"}
  BY DEF UnsetChildPid
<1> QED
  BY <1>1, <1>2, <1>3, <1>4, <1>5, <1>6, <1>7

\* An agent without rsync.
LEMMA AbortKeeps ==
    ASSUME SignalInv, AgentAborts, UNCHANGED mode
    PROVE  SignalInv'
<1> USE PidAssumption DEF SignalInv, INVALID_PID, Thread, Free, caller, signalVars, commandVars
<1>1. SigHandleTypeOK'
  BY DEF AgentAborts, SigHandleTypeOK, Registered, Starting
<1>2. Starting'
  BY DEF AgentAborts, Starting, SigHandleTypeOK
<1>3. Disposed'
  BY DEF AgentAborts, Disposed, Starting, SigHandleTypeOK
<1>4. Registered'
  BY DEF AgentAborts, Registered, SigHandleTypeOK, Starting
<1>5. OwedIsSignalled'
  BY DEF AgentAborts, OwedIsSignalled, Registered, Disposed, Starting, SigHandleTypeOK
<1>6. AgentStops'
  BY DEF AgentAborts, AgentStops, Registered, Disposed, Starting, SigHandleTypeOK
<1>7. mode' \in {"parse", "start", "agent", "monitor"}
  BY DEF AgentAborts
<1> QED
  BY <1>1, <1>2, <1>3, <1>4, <1>5, <1>6, <1>7

\* A child ends, and is a zombie while its parent runs.
LEMMA ExitKeeps ==
    ASSUME SignalInv, NEW p \in Pid, ChildExits(p), UNCHANGED mode
    PROVE  SignalInv'
<1> USE PidAssumption DEF SignalInv, INVALID_PID, Thread, Free, caller, signalVars, commandVars
<1>1. SigHandleTypeOK'
  BY DEF ChildExits, SigHandleTypeOK, Registered, Starting
<1>2. Starting'
  BY DEF ChildExits, Starting, SigHandleTypeOK
<1>3. Disposed'
  BY DEF ChildExits, Disposed, Starting, SigHandleTypeOK
<1>4. Registered'
  BY DEF ChildExits, Registered, SigHandleTypeOK, Starting
<1>5. OwedIsSignalled'
  BY DEF ChildExits, OwedIsSignalled, Registered, Disposed, Starting, SigHandleTypeOK
<1>6. AgentStops'
  BY DEF ChildExits, AgentStops, Registered, Disposed, Starting, SigHandleTypeOK
<1>7. mode' \in {"parse", "start", "agent", "monitor"}
  BY DEF ChildExits
<1> QED
  BY <1>1, <1>2, <1>3, <1>4, <1>5, <1>6, <1>7

\* Pids are given to other processes.
LEMMA OthersKeep ==
    ASSUME SignalInv, NEW p \in Pid, OtherStarts(p) \/ OtherEnds(p), UNCHANGED mode
    PROVE  SignalInv'
<1> USE PidAssumption DEF SignalInv, INVALID_PID, Thread, Free, caller, signalVars, commandVars
<1>1. SigHandleTypeOK'
  BY DEF OtherStarts, OtherEnds, SigHandleTypeOK, Registered, Starting
<1>2. Starting'
  <2>1. UNCHANGED <<mode, disposition, command, reached, handler>>
    BY DEF OtherStarts, OtherEnds
  <2> QED
    BY <2>1 DEF Starting
<1>3. Disposed'
  BY DEF OtherStarts, OtherEnds, Disposed, Starting, SigHandleTypeOK
<1>4. Registered'
  BY DEF OtherStarts, OtherEnds, Registered, SigHandleTypeOK, Starting
<1>5. OwedIsSignalled'
  BY DEF OtherStarts, OtherEnds, OwedIsSignalled, Registered, Disposed, Starting, SigHandleTypeOK
<1>6. AgentStops'
  BY DEF OtherStarts, OtherEnds, AgentStops, Registered, Disposed, Starting, SigHandleTypeOK
<1>7. mode' \in {"parse", "start", "agent", "monitor"}
  BY DEF OtherStarts, OtherEnds
<1> QED
  BY <1>1, <1>2, <1>3, <1>4, <1>5, <1>6, <1>7

\* SIGTERM arrives.
LEMMA SigtermKeeps ==
    ASSUME SignalInv, NEW t \in Thread, Sigterm(t), UNCHANGED mode
    PROVE  SignalInv'
<1> USE PidAssumption DEF SignalInv, INVALID_PID, Thread, Free, caller, signalVars, commandVars
<1>c. \/ disposition = "handler" /\ handler' = [handler EXCEPT ![t] = "check"] /\ running' = running
      \/ disposition = "default" /\ running' = FALSE /\ handler' = handler
  BY DEF Sigterm, SigHandleTypeOK
<1>o. \/ terms = 0 /\ owed' = {p \in Pid : p = child_pid_global /\ os[p] = "child"}
      \/ terms # 0 /\ owed' = owed
  BY DEF Sigterm
<1>u. /\ terms' = terms + 1 /\ terms < MaxSignals
      /\ UNCHANGED <<disposition, signalled, reached, child_pid_global, command, child, os>>
  BY DEF Sigterm
<1>1. SigHandleTypeOK'
  <2>1. terms' \in 0 .. MaxSignals
    BY <1>u DEF SigHandleTypeOK
  <2>2. handler' \in [Thread -> {"none", "check", "kill", "restore", "die"}] /\ running' \in BOOLEAN
    BY <1>c DEF SigHandleTypeOK
  <2>3. owed' \subseteq Pid
    BY <1>o DEF SigHandleTypeOK
  <2> QED
    BY <1>u, <2>1, <2>2, <2>3 DEF SigHandleTypeOK
<1>2. Starting'
  BY DEF Sigterm, Starting, SigHandleTypeOK
<1>3. Disposed'
  <2>1. terms' # 0
    BY <1>u DEF SigHandleTypeOK
  <2>2. t = "main" \/ mode = "monitor"
    BY DEF Sigterm
  <2> QED
    BY <1>c, <1>u, <2>1, <2>2 DEF Disposed, SigHandleTypeOK
<1>4. Registered'
  BY DEF Sigterm, Registered, SigHandleTypeOK, Starting
<1>5. OwedIsSignalled'
  BY DEF Sigterm, OwedIsSignalled, Registered, Disposed, Starting, SigHandleTypeOK
<1>6. AgentStops'
  BY DEF Sigterm, AgentStops, Registered, Disposed, Starting, SigHandleTypeOK
<1>7. mode' \in {"parse", "start", "agent", "monitor"}
  BY DEF Sigterm
<1> QED
  BY <1>1, <1>2, <1>3, <1>4, <1>5, <1>6, <1>7

\* The first look at the pid.
LEMMA ChecksKeeps ==
    ASSUME SignalInv, NEW t \in Thread, HandlerChecks(t), UNCHANGED mode
    PROVE  SignalInv'
<1> USE PidAssumption DEF SignalInv, INVALID_PID, Thread, Free, caller, signalVars, commandVars
<1>1. SigHandleTypeOK'
  BY DEF HandlerChecks, SigHandleTypeOK, Registered, Starting
<1>2. Starting'
  BY DEF HandlerChecks, Starting, SigHandleTypeOK
<1>3. Disposed'
  BY DEF HandlerChecks, Disposed, Starting, SigHandleTypeOK
<1>4. Registered'
  BY DEF HandlerChecks, Registered, SigHandleTypeOK, Starting
<1>5. OwedIsSignalled'
  BY DEF HandlerChecks, OwedIsSignalled, Registered, Disposed, Starting, SigHandleTypeOK
<1>6. AgentStops'
  BY DEF HandlerChecks, AgentStops, Registered, Disposed, Starting, SigHandleTypeOK
<1>7. mode' \in {"parse", "start", "agent", "monitor"}
  BY DEF HandlerChecks
<1> QED
  BY <1>1, <1>2, <1>3, <1>4, <1>5, <1>6, <1>7

\* The second look: a child that is owed the signal gets it.
LEMMA KillsKeeps ==
    ASSUME SignalInv, NEW t \in Thread, HandlerKills(t), UNCHANGED mode
    PROVE  SignalInv'
<1> USE PidAssumption DEF SignalInv, INVALID_PID, Thread, Free, caller, signalVars, commandVars
<1>1. SigHandleTypeOK'
  BY DEF HandlerKills, SigHandleTypeOK, Registered, Starting
<1>2. Starting'
  BY DEF HandlerKills, Starting, SigHandleTypeOK
<1>3. Disposed'
  BY DEF HandlerKills, Disposed, Starting, SigHandleTypeOK
<1>4. Registered'
  BY DEF HandlerKills, Registered, SigHandleTypeOK, Starting
<1>5. OwedIsSignalled'
  BY DEF HandlerKills, OwedIsSignalled, Registered, Disposed, Starting, SigHandleTypeOK
<1>6. AgentStops'
  BY DEF HandlerKills, AgentStops, Registered, Disposed, Starting, SigHandleTypeOK
<1>7. mode' \in {"parse", "start", "agent", "monitor"}
  BY DEF HandlerKills
<1> QED
  BY <1>1, <1>2, <1>3, <1>4, <1>5, <1>6, <1>7

\* The default is restored.
LEMMA RestoresKeeps ==
    ASSUME SignalInv, NEW t \in Thread, HandlerRestores(t), UNCHANGED mode
    PROVE  SignalInv'
<1> USE PidAssumption DEF SignalInv, INVALID_PID, Thread, Free, caller, signalVars, commandVars
<1>1. SigHandleTypeOK'
  BY DEF HandlerRestores, SigHandleTypeOK, Registered, Starting
<1>2. Starting'
  BY DEF HandlerRestores, Starting, SigHandleTypeOK
<1>3. Disposed'
  BY DEF HandlerRestores, Disposed, Starting, SigHandleTypeOK
<1>4. Registered'
  BY DEF HandlerRestores, Registered, SigHandleTypeOK, Starting
<1>5. OwedIsSignalled'
  BY DEF HandlerRestores, OwedIsSignalled, Registered, Disposed, Starting, SigHandleTypeOK
<1>6. AgentStops'
  BY DEF HandlerRestores, AgentStops, Registered, Disposed, Starting, SigHandleTypeOK
<1>7. mode' \in {"parse", "start", "agent", "monitor"}
  BY DEF HandlerRestores
<1> QED
  BY <1>1, <1>2, <1>3, <1>4, <1>5, <1>6, <1>7

\* The process ends.
LEMMA DiesKeeps ==
    ASSUME SignalInv, NEW t \in Thread, HandlerDies(t), UNCHANGED mode
    PROVE  SignalInv'
<1> USE PidAssumption DEF SignalInv, INVALID_PID, Thread, Free, caller, signalVars, commandVars
<1>1. SigHandleTypeOK'
  <2>1. disposition = "default" /\ running' = FALSE /\ handler' = handler
    BY DEF HandlerDies, Disposed
  <2> QED
    BY <2>1 DEF HandlerDies, SigHandleTypeOK
<1>2. Starting'
  BY DEF HandlerDies, Starting, SigHandleTypeOK
<1>3. Disposed'
  BY DEF HandlerDies, Disposed, Starting, SigHandleTypeOK
<1>4. Registered'
  BY DEF HandlerDies, Registered, SigHandleTypeOK, Starting
<1>5. OwedIsSignalled'
  BY DEF HandlerDies, OwedIsSignalled, Registered, Disposed, Starting, SigHandleTypeOK
<1>6. AgentStops'
  BY DEF HandlerDies, AgentStops, Registered, Disposed, Starting, SigHandleTypeOK
<1>7. mode' \in {"parse", "start", "agent", "monitor"}
  BY DEF HandlerDies
<1> QED
  BY <1>1, <1>2, <1>3, <1>4, <1>5, <1>6, <1>7

\* The signals have no part in a step that leaves the process alone.
LEMMA IdleKeeps ==
    ASSUME SignalInv, UNCHANGED <<mode, procVars>>
    PROVE  SignalInv'
BY DEF procVars, signalVars, commandVars, SignalInv, SigHandleTypeOK, Starting,
       Disposed, Registered, OwedIsSignalled, AgentStops

\* SignalInv is inductive.
LEMMA SignalInvInductive ==
    /\ Init => SignalInv
    /\ SignalInv /\ [Next]_vars => SignalInv'
<1>1. Init => SignalInv
  BY PidAssumption DEF Init, SigHandleInit, SignalInv, SigHandleTypeOK, Starting,
     Disposed, Registered, OwedIsSignalled, AgentStops, Thread, INVALID_PID
<1>2. SignalInv /\ [Next]_vars => SignalInv'
  <2> SUFFICES ASSUME SignalInv, [Next]_vars PROVE SignalInv'
    OBVIOUS
  <2>1. CASE ParseCommandLine
    BY <2>1, ParseKeeps
  <2>2. CASE StartMode
    BY <2>2, StartKeeps
  <2>3. CASE Process
    <3>0. UNCHANGED mode
      BY <2>3 DEF Process
    <3>1. CASE AgentCommand
      BY <3>0, <3>1, LaunchKeeps DEF AgentCommand
    <3>2. CASE AgentAborts
      BY <3>0, <3>2, AbortKeeps
    <3>3. CASE RunCommand
      BY <3>0, <3>3, SetKeeps, WaitKeeps, UnsetKeeps DEF RunCommand
    <3>4. CASE System
      <4>1. PICK p \in Pid : ChildExits(p) \/ OtherStarts(p) \/ OtherEnds(p)
        BY <3>4 DEF System
      <4> QED
        BY <3>0, <4>1, ExitKeeps, OthersKeep
    <3>5. CASE Signals
      <4>1. PICK t \in Thread : Sigterm(t) \/ Handler(t)
        BY <3>5 DEF Signals
      <4> QED
        BY <3>0, <4>1, SigtermKeeps, ChecksKeeps, KillsKeeps, RestoresKeeps, DiesKeeps
        DEF Handler
    <3> QED
      BY <2>3, <3>1, <3>2, <3>3, <3>4, <3>5 DEF Process
  <2>4. CASE MonitorStep /\ UNCHANGED <<mode, barn_conf>>
    <3>1. ASSUME NEW m \in Metric, ReportGanglia(m) PROVE SignalInv'
      <4>1. mode = "monitor" /\ (Launch \/ UNCHANGED procVars)
        BY <3>1 DEF ReportGanglia
      <4> QED
        BY <2>4, <4>1, LaunchKeeps, IdleKeeps
    <3>2. ASSUME NEW m \in Metric, ReceiveReport(m) PROVE SignalInv'
      BY <2>4, <3>2, IdleKeeps DEF ReceiveReport
    <3>3. CASE TakeReports
      BY <2>4, <3>3, IdleKeeps DEF TakeReports
    <3>4. CASE RearmTimer
      BY <2>4, <3>4, IdleKeeps DEF RearmTimer
    <3> QED
      BY <2>4, <3>1, <3>2, <3>3, <3>4 DEF MonitorStep
  <2>5. CASE UNCHANGED vars
    BY <2>5, IdleKeeps DEF vars
  <2> QED
    BY <2>1, <2>2, <2>3, <2>4, <2>5 DEF Next
<1> QED
  BY <1>1, <1>2

\* No SIGTERM leaves a registered child running without a signal, and an agent
\* leaves one behind only between posix_launch and set_child_pid.
THEOREM NoRegisteredOrphan == Spec => []NoOrphan
<1>1. SignalInv => NoOrphan
  BY DEF SignalInv, OwedIsSignalled, AgentStops, NoOrphan
<1> QED
  BY <1>1, SignalInvInductive, PTL DEF Spec

\* An agent's handler never signals everyone, and another process only in place
\* of a child that has ended before unset_child_pid.
THEOREM AgentSignalsOnlyItsChild == Spec => []AgentSignalsItsChild
<1>1. SignalInv => AgentSignalsItsChild
  BY DEF SignalInv, AgentStops, AgentSignalsItsChild
<1> QED
  BY <1>1, SignalInvInductive, PTL DEF Spec

(***************************************************************************)
(* The ring.                                                               *)
(***************************************************************************)

\* push_back appends x; a full ring stays full.
LEMMA PushBackLength ==
    ASSUME NEW R, NEW ring \in Seq(R), NEW x \in R, NEW new,
           Len(ring) <= max_metrics_per_interval, new = push_back(ring, x)
    PROVE  /\ new \in Seq(R) /\ Len(new) \in Nat \ {0} /\ Len(ring) \in Nat
           /\ Len(new) <= max_metrics_per_interval
           /\ Len(ring) = max_metrics_per_interval => Len(new) = max_metrics_per_interval
<1>0. max_metrics_per_interval \in Nat \ {0} /\ Len(ring) \in Nat
  BY MonitorAssumption, LenProperties
<1>1. CASE Len(ring) < max_metrics_per_interval
  <2>1. new = Append(ring, x)
    BY <1>1 DEF push_back
  <2>2. new \in Seq(R) /\ Len(new) = Len(ring) + 1
    BY <2>1
  <2> QED
    BY <1>0, <1>1, <2>2
<1>2. CASE Len(ring) = max_metrics_per_interval
  <2> DEFINE tail == Tail(ring)
  <2>1. new = Append(tail, x)
    BY <1>0, <1>2 DEF push_back
  <2>2. tail \in Seq(R) /\ Len(tail) = Len(ring) - 1
    BY <1>0, <1>2, EmptySeq, HeadTailProperties
  <2> HIDE DEF tail
  <2>3. new \in Seq(R) /\ Len(new) = Len(tail) + 1
    BY <2>1, <2>2
  <2> QED
    BY <1>0, <1>2, <2>2, <2>3
<1> QED
  BY <1>0, <1>1, <1>2

\* It is the last element, and the others were in the ring before.
LEMMA PushBackElements ==
    ASSUME NEW R, NEW ring \in Seq(R), NEW x \in R, NEW new,
           Len(ring) <= max_metrics_per_interval, new = push_back(ring, x)
    PROVE  /\ new[Len(new)] = x
           /\ \A i \in 1 .. Len(new) : new[i] = x \/ \E j \in 1 .. Len(ring) : new[i] = ring[j]
<1>0. max_metrics_per_interval \in Nat \ {0} /\ Len(ring) \in Nat
  BY MonitorAssumption, LenProperties
<1>1. CASE Len(ring) < max_metrics_per_interval
  <2>1. new = Append(ring, x)
    BY <1>1 DEF push_back
  <2>2. /\ Len(new) = Len(ring) + 1 /\ new[Len(ring) + 1] = x
        /\ \A i \in 1 .. Len(ring) : new[i] = ring[i]
    BY <1>0, <2>1
  <2> QED
    BY <1>0, <2>2
<1>2. CASE Len(ring) = max_metrics_per_interval
  <2> DEFINE tail == Tail(ring)
  <2>1. new = Append(tail, x)
    BY <1>0, <1>2 DEF push_back
  <2>2. /\ tail \in Seq(R) /\ Len(tail) = Len(ring) - 1 /\ Len(tail) \in Nat
        /\ \A i \in 1 .. Len(tail) : tail[i] = ring[i + 1]
    BY <1>0, <1>2, EmptySeq, HeadTailProperties
  <2> HIDE DEF tail
  <2>3. /\ Len(new) = Len(tail) + 1 /\ new[Len(tail) + 1] = x
        /\ \A i \in 1 .. Len(tail) : new[i] = tail[i]
    BY <2>1, <2>2
  <2>4. ASSUME NEW i \in 1 .. Len(tail)
        PROVE  \E j \in 1 .. Len(ring) : new[i] = ring[j]
    <3>1. new[i] = ring[i + 1] /\ i + 1 \in 1 .. Len(ring)
      BY <1>0, <2>2, <2>3
    <3> QED
      BY <3>1
  <2>5. ASSUME NEW n \in Nat, Len(new) = n + 1, NEW i \in 1 .. Len(new)
        PROVE  i = n + 1 \/ i \in 1 .. n
    BY <2>5
  <2> QED
    BY <2>2, <2>3, <2>4, <2>5
<1> QED
  BY <1>0, <1>1, <1>2

\* A ring that is not full keeps its elements in their places.
LEMMA PushBackKeeps ==
    ASSUME NEW R, NEW ring \in Seq(R), NEW x \in R, NEW new,
           Len(ring) < max_metrics_per_interval, new = push_back(ring, x),
           NEW i \in 1 .. Len(ring)
    PROVE  i \in 1 .. Len(new) /\ new[i] = ring[i]
<1>1. new = Append(ring, x)
  BY DEF push_back
<1>2. Len(new) = Len(ring) + 1 /\ Len(ring) \in Nat /\ new[i] = ring[i]
  BY <1>1, LenProperties
<1> QED
  BY <1>2

\* The zeros fit into the ring and are no reports.
LEMMA Zeros ==
    /\ \A n \in Nat : addDefaultMetrics \in Seq([metric : Metric, report : 0 .. n])
    /\ Len(addDefaultMetrics) = Len(DefaultZeroMetrics)
    /\ Len(DefaultZeroMetrics) \in Nat
    /\ Len(addDefaultMetrics) <= max_metrics_per_interval
    /\ \A i \in 1 .. Len(DefaultZeroMetrics) :
          /\ addDefaultMetrics[i].metric = DefaultZeroMetrics[i]
          /\ addDefaultMetrics[i].report = Zero
<1>1. Len(DefaultZeroMetrics) \in Nat
  BY MonitorAssumption, LenProperties
<1>2. \A i \in 1 .. Len(DefaultZeroMetrics) : DefaultZeroMetrics[i] \in Metric
  BY MonitorAssumption, ElementOfSeq
<1>3. ASSUME NEW n \in Nat
      PROVE  addDefaultMetrics \in Seq([metric : Metric, report : 0 .. n])
  <2>1. addDefaultMetrics \in [1 .. Len(DefaultZeroMetrics) -> [metric : Metric, report : 0 .. n]]
    BY <1>2 DEF addDefaultMetrics, Zero
  <2> QED
    BY <1>1, <2>1, SeqDef
<1>4. Len(addDefaultMetrics) = Len(DefaultZeroMetrics)
  BY <1>1 DEF addDefaultMetrics
<1> QED
  BY <1>1, <1>3, <1>4, MonitorAssumption DEF addDefaultMetrics

\* A report comes in, into a ring that may be full.
LEMMA ReceiveKeeps ==
    ASSUME ReportInv, NEW m \in Metric, ReceiveReport(m)
    PROVE  ReportInv'
<1> DEFINE R == [metric : Metric, report : 0 .. received']
           x == [metric |-> m, report |-> received']
<1>a. /\ received \in Nat /\ received' = received + 1 /\ received' \in 0 .. MaxReports
      /\ metrics' = push_back(metrics, x)
      /\ overwritten' = overwritten \cup (reports(metrics) \ reports(metrics'))
      /\ UNCHANGED <<taken, timer, aggregated, reported>>
  BY MonitorAssumption DEF ReportInv, MonitorTypeOK, ReceiveReport, reportVars
<1>b. metrics \in Seq(R) /\ x \in R /\ Len(metrics) <= max_metrics_per_interval
  <2>1. [metric : Metric, report : 0 .. received] \subseteq R
    BY <1>a
  <2>2. metrics \in Seq([metric : Metric, report : 0 .. received])
    BY DEF ReportInv, MonitorTypeOK
  <2>3. metrics \in Seq(R)
    BY <2>1, <2>2, SeqMonotonic
  <2>4. x \in R
    BY <1>a
  <2> QED
    BY <2>3, <2>4 DEF ReportInv, MonitorTypeOK
<1>c. /\ metrics' \in Seq(R) /\ Len(metrics') \in Nat \ {0} /\ Len(metrics) \in Nat
      /\ Len(metrics') <= max_metrics_per_interval
      /\ Len(metrics) = max_metrics_per_interval => Len(metrics') = max_metrics_per_interval
      /\ metrics'[Len(metrics')] = x
      /\ \A i \in 1 .. Len(metrics') :
            metrics'[i] = x \/ \E j \in 1 .. Len(metrics) : metrics'[i] = metrics[j]
  <2> HIDE DEF R, x
  <2>1. metrics' = push_back(metrics, x)
    BY <1>a
  <2>2. /\ metrics' \in Seq(R) /\ Len(metrics') \in Nat \ {0} /\ Len(metrics) \in Nat
        /\ Len(metrics') <= max_metrics_per_interval
        /\ Len(metrics) = max_metrics_per_interval => Len(metrics') = max_metrics_per_interval
    BY <1>b, <2>1, PushBackLength
  <2>3. /\ metrics'[Len(metrics')] = x
        /\ \A i \in 1 .. Len(metrics') :
              metrics'[i] = x \/ \E j \in 1 .. Len(metrics) : metrics'[i] = metrics[j]
    BY <1>b, <2>1, PushBackElements
  <2> QED
    BY <2>2, <2>3
<1>d. x.metric = m /\ x.report = received' /\ received' # Zero
  BY <1>a DEF Zero
<1>e. \A i \in 1 .. Len(metrics) : metrics[i].report \in 0 .. received
  <2> SUFFICES ASSUME NEW i \in 1 .. Len(metrics) PROVE metrics[i].report \in 0 .. received
    OBVIOUS
  <2>1. metrics[i] \in [metric : Metric, report : 0 .. received]
    BY ElementOfSeq DEF ReportInv, MonitorTypeOK
  <2> QED
    BY <2>1
<1>f. reports(metrics') \subseteq reports(metrics) \cup {received'}
  BY <1>c, <1>d DEF reports
<1>g. received' \in reports(metrics')
  BY <1>c, <1>d DEF reports
<1> HIDE DEF x
<1>1. MonitorTypeOK'
  BY <1>a, <1>c DEF ReportInv, MonitorTypeOK
<1>2. SumsAreApart'
  <2>1. ASSUME NEW i \in 1 .. Len(metrics'), NEW j \in 1 .. Len(metrics'),
               metrics'[i].report = metrics'[j].report, metrics'[i].report # Zero
        PROVE  metrics'[i].metric = metrics'[j].metric
    <3>1. CASE metrics'[i] = x /\ metrics'[j] = x
      BY <3>1
    <3>2. CASE metrics'[i] = x /\ \E l \in 1 .. Len(metrics) : metrics'[j] = metrics[l]
      BY <1>a, <1>d, <1>e, <2>1, <3>2
    <3>3. CASE metrics'[j] = x /\ \E k \in 1 .. Len(metrics) : metrics'[i] = metrics[k]
      BY <1>a, <1>d, <1>e, <2>1, <3>3
    <3>4. CASE /\ \E k \in 1 .. Len(metrics) : metrics'[i] = metrics[k]
               /\ \E l \in 1 .. Len(metrics) : metrics'[j] = metrics[l]
      BY <2>1, <3>4 DEF ReportInv, SumsAreApart
    <3> QED
      BY <1>c, <3>1, <3>2, <3>3, <3>4
  <2> QED
    BY <1>a, <2>1 DEF ReportInv, SumsAreApart
<1>3. ReportsConserved'
  <2>1. Pending' = Pending
    BY <1>a DEF Pending
  <2>2. 1 .. received' = (1 .. received) \cup {received'} /\ received' \notin 1 .. received
    BY <1>a
  <2>3. /\ 1 .. received = reports(metrics) \cup Pending \cup reported \cup overwritten
        /\ reports(metrics) \cap (Pending \cup reported \cup overwritten) = {}
        /\ Pending \cap (reported \cup overwritten) = {}
        /\ reported \cap overwritten = {}
    BY DEF ReportInv, ReportsConserved
  <2> QED
    BY <1>a, <1>f, <1>g, <2>1, <2>2, <2>3 DEF ReportsConserved
<1>4. ZerosAreReported'
  <2> SUFFICES ASSUME taken, Len(metrics') < max_metrics_per_interval,
                      NEW i \in 1 .. Len(DefaultZeroMetrics)
               PROVE  DefaultZeroMetrics[i] \in names(metrics')
    BY <1>a DEF ZerosAreReported
  <2>1. Len(metrics) < max_metrics_per_interval
    BY <1>b, <1>c, MonitorAssumption
  <2>2. PICK j \in 1 .. Len(metrics) : DefaultZeroMetrics[i] = metrics[j].metric
    BY <2>1 DEF ReportInv, ZerosAreReported, names
  <2>3. j \in 1 .. Len(metrics') /\ metrics'[j] = metrics[j]
    <3> HIDE DEF R
    <3> QED
      BY <1>a, <1>b, <2>1, PushBackKeeps
  <2> QED
    BY <2>2, <2>3 DEF names
<1> QED
  BY <1>1, <1>2, <1>3, <1>4 DEF ReportInv

\* The timer takes the ring and puts the zeros into it.
LEMMA TakeKeeps ==
    ASSUME ReportInv, TakeReports
    PROVE  ReportInv'
<1>a. /\ timer = "armed" /\ timer' = "action" /\ taken' = TRUE
      /\ metrics' = addDefaultMetrics /\ aggregated' = aggregate(metrics)
      /\ UNCHANGED <<received, overwritten, reported>>
  BY DEF TakeReports
<1>b. received \in Nat /\ received \in 0 .. MaxReports
  BY MonitorAssumption DEF ReportInv, MonitorTypeOK
<1>c. /\ DOMAIN aggregated' = names(metrics)
      /\ \A m \in names(metrics) : aggregated'[m] =
            {metrics[i].report : i \in {j \in 1 .. Len(metrics) : metrics[j].metric = m}} \ {Zero}
  BY <1>a DEF aggregate
<1>d. reports(metrics') = {}
  BY <1>a, Zeros DEF reports
<1>1. MonitorTypeOK'
  <2>1. names(metrics) \subseteq Metric
    <3> SUFFICES ASSUME NEW i \in 1 .. Len(metrics) PROVE metrics[i].metric \in Metric
      BY DEF names
    <3>1. metrics[i] \in [metric : Metric, report : 0 .. received]
      BY ElementOfSeq DEF ReportInv, MonitorTypeOK
    <3> QED
      BY <3>1
  <2> QED
    BY <1>a, <1>b, <1>c, <2>1, Zeros DEF MonitorTypeOK
<1>2. SumsAreApart'
  <2>1. ASSUME NEW m \in DOMAIN aggregated', NEW n \in DOMAIN aggregated', m # n,
               NEW r \in aggregated'[m] \cap aggregated'[n]
        PROVE  FALSE
    <3>1. PICK i \in 1 .. Len(metrics) : metrics[i].metric = m /\ metrics[i].report = r
      BY <1>c, <2>1
    <3>2. PICK j \in 1 .. Len(metrics) : metrics[j].metric = n /\ metrics[j].report = r
      BY <1>c, <2>1
    <3>3. r # Zero
      BY <1>c, <2>1
    <3> QED
      BY <2>1, <3>1, <3>2, <3>3 DEF ReportInv, SumsAreApart
  <2>2. \A i \in 1 .. Len(metrics') : metrics'[i].report = Zero
    BY <1>a, Zeros
  <2> QED
    BY <1>a, <2>1, <2>2 DEF SumsAreApart
<1>3. ReportsConserved'
  <2>1. Pending = {}
    BY <1>a DEF ReportInv, SumsAreApart, Pending
  <2>2. Pending' = reports(metrics)
    <3>1. Pending' \subseteq reports(metrics)
      BY <1>c DEF Pending, reports
    <3>2. ASSUME NEW r \in reports(metrics) PROVE r \in Pending'
      <4>1. PICK i \in 1 .. Len(metrics) : metrics[i].report = r /\ r # Zero
        BY <3>2 DEF reports
      <4>2. metrics[i].metric \in names(metrics) /\ r \in aggregated'[metrics[i].metric]
        BY <1>c, <4>1 DEF names
      <4> QED
        BY <1>c, <4>2 DEF Pending
    <3> QED
      BY <3>1, <3>2
  <2> QED
    BY <1>a, <1>d, <2>1, <2>2 DEF ReportInv, ReportsConserved
<1>4. ZerosAreReported'
  BY <1>a, Zeros DEF ZerosAreReported, names
<1> QED
  BY <1>1, <1>2, <1>3, <1>4 DEF ReportInv

\* One sum goes to gmetric.
LEMMA ReportKeeps ==
    ASSUME ReportInv, NEW m \in Metric, ReportGanglia(m)
    PROVE  ReportInv'
<1>a. /\ m \in DOMAIN aggregated /\ timer = "action" /\ timer' = timer
      /\ reported' = reported \cup aggregated[m]
      /\ aggregated' = [y \in DOMAIN aggregated \ {m} |-> aggregated[y]]
      /\ UNCHANGED <<metrics, received, taken, overwritten>>
  BY DEF ReportGanglia, repoVars
<1>1. MonitorTypeOK'
  BY <1>a DEF ReportInv, MonitorTypeOK
<1>2. SumsAreApart'
  BY <1>a DEF ReportInv, SumsAreApart
<1>3. ReportsConserved'
  <2>1. Pending = Pending' \cup aggregated[m]
    BY <1>a DEF Pending
  <2>2. Pending' \cap aggregated[m] = {}
    BY <1>a DEF Pending, ReportInv, SumsAreApart
  <2> QED
    BY <1>a, <2>1, <2>2 DEF ReportInv, ReportsConserved
<1>4. ZerosAreReported'
  BY <1>a DEF ReportInv, ZerosAreReported
<1> QED
  BY <1>1, <1>2, <1>3, <1>4 DEF ReportInv

\* Nothing happens to a report.
LEMMA RestKeeps ==
    ASSUME ReportInv, UNCHANGED <<repoVars, aggregated, reported>>,
           timer' = timer \/ (timer' = "armed" /\ DOMAIN aggregated = {})
    PROVE  ReportInv'
BY DEF repoVars, ReportInv, MonitorTypeOK, SumsAreApart, ReportsConserved, Pending,
       ZerosAreReported

\* ReportInv is inductive.
LEMMA ReportInvInductive ==
    /\ Init => ReportInv
    /\ ReportInv /\ [Next]_vars => ReportInv'
<1>1. Init => ReportInv
  <2> SUFFICES ASSUME MonitorInit PROVE ReportInv
    BY DEF Init
  <2>1. /\ metrics = <<>> /\ received = 0 /\ timer = "armed" /\ aggregated = <<>>
        /\ taken = FALSE /\ reported = {} /\ overwritten = {}
    BY DEF MonitorInit
  <2>2. Len(metrics) = 0 /\ metrics \in Seq([metric : Metric, report : 0 .. received])
    BY <2>1, EmptySeq
  <2>3. DOMAIN aggregated = {}
    BY <2>1
  <2>4. MonitorTypeOK
    <3>1. received \in 0 .. MaxReports /\ Len(metrics) <= max_metrics_per_interval
      BY <2>1, <2>2, MonitorAssumption
    <3>2. timer \in {"armed", "action"} /\ DOMAIN aggregated \subseteq Metric /\ taken \in BOOLEAN
      BY <2>1, <2>3
    <3> QED
      BY <2>2, <3>1, <3>2 DEF MonitorTypeOK
  <2>5. reports(metrics) = {} /\ Pending = {}
    BY <2>2, <2>3 DEF reports, Pending
  <2>6. ReportsConserved
    BY <2>1, <2>5 DEF ReportsConserved
  <2> QED
    BY <2>1, <2>2, <2>3, <2>4, <2>6 DEF ReportInv, SumsAreApart, ZerosAreReported
<1>2. ReportInv /\ [Next]_vars => ReportInv'
  <2> SUFFICES ASSUME ReportInv, [Next]_vars PROVE ReportInv'
    OBVIOUS
  <2>1. CASE UNCHANGED <<repoVars, reportVars>>
    BY <2>1, RestKeeps DEF reportVars
  <2>2. CASE MonitorStep
    <3>1. ASSUME NEW m \in Metric, ReceiveReport(m) \/ ReportGanglia(m) PROVE ReportInv'
      BY <3>1, ReceiveKeeps, ReportKeeps
    <3>2. CASE TakeReports
      BY <3>2, TakeKeeps
    <3>3. CASE RearmTimer
      BY <3>3, RestKeeps DEF RearmTimer
    <3> QED
      BY <2>2, <3>1, <3>2, <3>3 DEF MonitorStep
  <2>3. ParseCommandLine \/ StartMode \/ Process \/ UNCHANGED vars =>
            UNCHANGED <<repoVars, reportVars>>
    BY DEF ParseCommandLine, StartMode, Process, vars
  <2> QED
    BY <2>1, <2>2, <2>3 DEF Next
<1> QED
  BY <1>1, <1>2

\* Every report is in one place: the ring, a sum, with gmetric, or overwritten.
THEOREM NoReportIsLost == Spec => []ReportsConserved
<1>1. ReportInv => ReportsConserved
  BY DEF ReportInv
<1> QED
  BY <1>1, ReportInvInductive, PTL DEF Spec

\* After the first firing the zero metrics are in every ring that is not full.
THEOREM ZerosAreThere == Spec => []ZerosAreReported
<1>1. ReportInv => ZerosAreReported
  BY DEF ReportInv
<1> QED
  BY <1>1, ReportInvInductive, PTL DEF Spec

\* The variables of main, of its children and of the monitor have their types.
THEOREM ProcessTypeCorrect == Spec => []TypeOK
<1> DEFINE ConfInv == barn_conf \in CommandLine
<1>1. Init => ConfInv
  BY DEF Init
<1>2. ConfInv /\ [Next]_vars => ConfInv'
  <2>1. [Next]_vars => UNCHANGED barn_conf
    BY DEF Next, vars, ParseCommandLine, StartMode, Process
  <2> QED
    BY <2>1
<1>3. SignalInv /\ ReportInv /\ ConfInv => TypeOK
  BY DEF SignalInv, ReportInv, TypeOK
<1> QED
  BY <1>1, <1>2, <1>3, SignalInvInductive, ReportInvInductive, PTL DEF Spec
=============================================================================
