------------------------------ MODULE SigHandle ------------------------------
(***************************************************************************)
(* How barn-agent runs its child processes, and what SIGTERM does to them  *)
(* (barn-agent/src/process.cpp and sighandle.cpp).                         *)
(*                                                                         *)
(* run_command leaves the pid of its child in a global that the handler    *)
(* reads, twice.  As an agent the process has one thread and the handler   *)
(* interrupts run_command; as a monitor run_command is called on the       *)
(* timer's thread and the handler may well run on the other one.           *)
(* A part of the module Main, like ChannelSelector of Agent.               *)
(***************************************************************************)
EXTENDS Integers, FiniteSets

CONSTANTS Pid,         \* the pids the system hands out
          MaxSignals   \* bound: SIGTERMs that reach the process

ASSUME PidAssumption == Pid \subseteq Nat \ {0} /\ MaxSignals \in Nat

VARIABLES
    mode,              \* how far main has got; in the end "agent" or "monitor"
    running,           \* the process exists
    disposition,       \* what SIGTERM does: "default" or "handler"
    child_pid_global,
    command,           \* where run_command is
    child,             \* its child
    os,                \* os[p]: what the system runs under pid p
    handler,           \* per thread, where kill_child_handler is
    terms,             \* SIGTERMs received
    signalled,         \* children that were sent a signal
    owed,              \* history: the child that was registered when SIGTERM came
    reached            \* history: whom the handler has sent a signal

signalVars == <<disposition, handler, terms, signalled, owed, reached>>
commandVars == <<child_pid_global, command, child, os>>
procVars == <<running, signalVars, commandVars>>

INVALID_PID == -1

Thread == {"main", "timer"}

\* The thread that calls run_command.
caller == IF mode = "monitor" THEN "timer" ELSE "main"

SigHandleTypeOK ==
    /\ running \in BOOLEAN
    /\ disposition \in {"default", "handler"}
    /\ child_pid_global \in Pid \cup {INVALID_PID}
    /\ command \in {"none", "launched", "wait", "reaped"}
    /\ child \in Pid \cup {INVALID_PID}
    /\ os \in [Pid -> {"free", "child", "zombie", "other"}]
    /\ handler \in [Thread -> {"none", "check", "kill", "restore", "die"}]
    /\ terms \in 0 .. MaxSignals
    /\ signalled \subseteq Pid /\ owed \subseteq Pid
    /\ reached \subseteq {"child", "other", "everyone"}
    /\ \A p \in Pid : os[p] \in {"child", "zombie"} =>
          p = child /\ command \in {"launched", "wait"}
    /\ child_pid_global # INVALID_PID =>
          child_pid_global = child /\ command \in {"wait", "reaped"}

SigHandleInit ==
    /\ running = TRUE
    /\ disposition = "default"
    /\ child_pid_global = INVALID_PID
    /\ command = "none" /\ child = INVALID_PID
    /\ os = [p \in Pid |-> "free"]
    /\ handler = [t \in Thread |-> "none"]
    /\ terms = 0
    /\ signalled = {} /\ owed = {} /\ reached = {}

\* Thread t runs, and not in the handler.
Free(t) == running /\ handler[t] = "none"

----------------------------------------------------------------------------
(* run_command *)

\* posix_launch: from here on the child runs.
Launch ==
    /\ Free(caller) /\ command = "none"
    /\ \E p \in Pid :
          /\ os[p] = "free"
          /\ os' = [os EXCEPT ![p] = "child"]
          /\ child' = p
    /\ command' = "launched"
    /\ UNCHANGED <<running, signalVars, child_pid_global>>

SetChildPid ==
    /\ Free(caller) /\ command = "launched"
    /\ child_pid_global' = child
    /\ command' = "wait"
    /\ UNCHANGED <<running, signalVars, child, os>>

\* Its output has ended and wait returns, which frees the pid.
Wait ==
    /\ Free(caller) /\ command = "wait"
    /\ os[child] = "zombie"
    /\ os' = [os EXCEPT ![child] = "free"]
    /\ owed' = owed \ {child}
    /\ command' = "reaped"
    /\ UNCHANGED <<running, disposition, handler, terms, signalled, reached,
                   child_pid_global, child>>

\* Leaves the pid of the last child in place.
KeepChildPid ==
    /\ Free(caller) /\ command = "reaped"
    /\ command' = "none"
    /\ UNCHANGED <<running, signalVars, child_pid_global, child, os>>

UnsetChildPid ==
    /\ Free(caller) /\ command = "reaped"
    /\ child_pid_global' = INVALID_PID
    /\ command' = "none"
    /\ UNCHANGED <<running, signalVars, child, os>>

----------------------------------------------------------------------------
(* The system: children end, and pids are used again *)

ChildExits(p) ==
    /\ os[p] = "child"
    /\ os' = [os EXCEPT ![p] = IF running THEN "zombie" ELSE "free"]
    /\ signalled' = signalled \ {p}
    /\ UNCHANGED <<running, disposition, handler, terms, owed, reached,
                   child_pid_global, command, child>>

OtherStarts(p) ==
    /\ running /\ os[p] = "free"
    /\ os' = [os EXCEPT ![p] = "other"]
    /\ UNCHANGED <<running, signalVars, child_pid_global, command, child>>

OtherEnds(p) ==
    /\ running /\ os[p] = "other"
    /\ os' = [os EXCEPT ![p] = "free"]
    /\ UNCHANGED <<running, signalVars, child_pid_global, command, child>>

----------------------------------------------------------------------------
(* kill_child_handler, on any thread that is not in it *)

\* SIGTERM arrives, on any thread there is.
Sigterm(t) ==
    /\ t = "main" \/ mode = "monitor"
    /\ Free(t) /\ terms < MaxSignals
    /\ terms' = terms + 1
    /\ IF disposition = "handler"
       THEN handler' = [handler EXCEPT ![t] = "check"] /\ UNCHANGED running
       ELSE running' = FALSE /\ UNCHANGED handler
    /\ owed' = IF terms = 0
               THEN {p \in Pid : p = child_pid_global /\ os[p] = "child"}
               ELSE owed
    /\ UNCHANGED <<disposition, signalled, reached, commandVars>>

\* Goes on to kill itself at once.
HandlerSkips(t) ==
    /\ running /\ handler[t] = "check"
    /\ handler' = [handler EXCEPT ![t] = "restore"]
    /\ UNCHANGED <<running, disposition, terms, signalled, owed, reached, commandVars>>

\* The first look at child_pid_global.
HandlerChecks(t) ==
    /\ running /\ handler[t] = "check"
    /\ handler' = [handler EXCEPT ![t] =
                      IF child_pid_global # INVALID_PID THEN "kill" ELSE "restore"]
    /\ UNCHANGED <<running, disposition, terms, signalled, owed, reached, commandVars>>

\* The second look; to kill, -1 means every process there is.
HandlerKills(t) ==
    /\ running /\ handler[t] = "kill"
    /\ handler' = [handler EXCEPT ![t] = "restore"]
    /\ LET to == IF child_pid_global = INVALID_PID THEN Pid ELSE {child_pid_global}
       IN  /\ signalled' = signalled \cup {p \in to : os[p] = "child"}
           /\ reached' = reached \cup
                 IF child_pid_global = INVALID_PID THEN {"everyone"}
                 ELSE {os[p] : p \in to} \cap {"child", "other"}
    /\ UNCHANGED <<running, disposition, terms, owed, commandVars>>

\* Forgets to put the default back.
HandlerStays(t) ==
    /\ running /\ handler[t] = "restore"
    /\ handler' = [handler EXCEPT ![t] = "die"]
    /\ UNCHANGED <<running, disposition, terms, signalled, owed, reached, commandVars>>

HandlerRestores(t) ==
    /\ running /\ handler[t] = "restore"
    /\ disposition' = "default"
    /\ handler' = [handler EXCEPT ![t] = "die"]
    /\ UNCHANGED <<running, terms, signalled, owed, reached, commandVars>>

\* kill(getpid(), SIGTERM)
HandlerDies(t) ==
    /\ running /\ handler[t] = "die"
    /\ IF disposition = "default"
       THEN running' = FALSE /\ UNCHANGED handler
       ELSE handler' = [handler EXCEPT ![t] = "check"] /\ UNCHANGED running
    /\ UNCHANGED <<disposition, terms, signalled, owed, reached, commandVars>>

Handler(t) ==
    HandlerChecks(t) \/ HandlerKills(t) \/ HandlerRestores(t) \/ HandlerDies(t)

RunCommand == SetChildPid \/ Wait \/ UnsetChildPid
System == \E p \in Pid : ChildExits(p) \/ OtherStarts(p) \/ OtherEnds(p)
Signals == \E t \in Thread : Sigterm(t) \/ Handler(t)

----------------------------------------------------------------------------
(* Properties *)

\* When the process is gone, a child that still runs and was sent no signal was
\* not registered when SIGTERM came, and an agent leaves one behind only if
\* SIGTERM came between the launch and set_child_pid.
NoOrphan ==
    ~running => \A p \in Pid : os[p] = "child" /\ p \notin signalled =>
        p \notin owed /\ (mode = "agent" => command = "launched")

\* An agent signals a process that is not its child only when SIGTERM comes
\* between the end of the child and unset_child_pid, and its pid was given away
\* in the meantime; it never signals everyone.
AgentSignalsItsChild ==
    mode = "agent" =>
        /\ "everyone" \notin reached
        /\ "other" \in reached => command = "reaped"

\* SIGTERM ends the process (the handler restores the default and repeats it).
SigtermEnds == terms > 0 ~> ~running

\* "propagates the signal to a child PID" (sighandle.h): to no more than one.
OneRecipient == "everyone" \notin reached
=============================================================================
