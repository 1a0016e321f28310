--------------------------- MODULE ChannelSelector ---------------------------
(***************************************************************************)
(* The agent's choice of collector: the templates SingleChannelSelector    *)
(* and FailoverChannelSelector of barn-agent/src/channel_selector.h.       *)
(*                                                                         *)
(* The clock is kept as the age of last_heartbeat_time.  The code compares *)
(* that age with seconds_before_failover and does nothing else with it, so *)
(* the age stops growing once it has reached that limit.                   *)
(***************************************************************************)
EXTENDS Integers

CONSTANT seconds_before_failover \* 0: there is no backup collector

ASSUME FailoverAssumption == seconds_before_failover \in Nat

VARIABLES primary_ok,           \* TRUE: primary is in use, FALSE: secondary
          time_since_heartbeat  \* now_in_seconds() - last_heartbeat_time

selectorVars == <<primary_ok, time_since_heartbeat>>

Target == {"primary", "secondary"}

SelectorTypeOK ==
    /\ primary_ok \in BOOLEAN
    /\ time_since_heartbeat \in 0 .. seconds_before_failover

SelectorInit ==
    /\ primary_ok = TRUE
    /\ time_since_heartbeat = 0

\* create_channel_selector builds the failover selector only for a non-zero limit.
HasBackup == seconds_before_failover > 0

current == IF primary_ok THEN "primary" ELSE "secondary"

Overdue == HasBackup /\ time_since_heartbeat >= seconds_before_failover

----------------------------------------------------------------------------
\* Leaves the selector alone.
no_change == UNCHANGED selectorVars

\* A heartbeat that also renews the stay on the backup.
heartbeat_on_any_channel ==
    /\ time_since_heartbeat' = 0
    /\ UNCHANGED primary_ok

\* On the backup the age counts from the flip, so only the primary renews it.
heartbeat ==
    /\ time_since_heartbeat' = IF primary_ok THEN 0 ELSE time_since_heartbeat
    /\ UNCHANGED primary_ok

\* When the stay on the current channel has expired, switch and start anew.
pick_channel ==
    \/ /\ Overdue
       /\ primary_ok' = ~primary_ok
       /\ time_since_heartbeat' = 0
    \/ /\ ~Overdue
       /\ UNCHANGED selectorVars

\* One second passes.
Elapse ==
    /\ time_since_heartbeat < seconds_before_failover
    /\ time_since_heartbeat' = time_since_heartbeat + 1
    /\ UNCHANGED primary_ok
=============================================================================
