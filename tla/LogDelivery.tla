----------------------------- MODULE LogDelivery -----------------------------
(***************************************************************************)
(* What a barn-agent promises about one log directory, whatever happens to *)
(* the network, the collectors or the agent itself: every collector gets   *)
(* the files of the directory oldest first, each at most once, and none    *)
(* that is still on disk is passed over.  A file may be missing at a       *)
(* collector only because svlogd rotated it away before its turn came.     *)
(*                                                                         *)
(* What a collector gets is a sequence: to give it a file again would be   *)
(* one more entry, and no step of this module makes that.                  *)
(***************************************************************************)
EXTENDS Integers, Sequences

CONSTANT Target        \* the collectors

VARIABLES local,       \* files on the producer's disk, named by timestamp
          lastTs,      \* timestamp of the newest file ever produced
          deliveries   \* deliveries[t]: what collector t was given, in that order

vars == <<local, lastTs, deliveries>>

Init ==
    /\ local = {}
    /\ lastTs = 0
    /\ deliveries = [t \in Target |-> <<>>]

\* svlogd closes a log file; the files it keeps are the newest ones.
Produce ==
    /\ lastTs' = lastTs + 1
    /\ \E oldest \in 1 .. lastTs + 1 :
          local' = {f \in local \cup {lastTs + 1} : f >= oldest}
    /\ UNCHANGED deliveries

\* Collector t gets the oldest file it still misses, newer than all it got.
Deliver(t) ==
    /\ \E f \in local :
          /\ \A i \in 1 .. Len(deliveries[t]) : deliveries[t][i] < f
          /\ \A e \in local : e < f =>
                \E i \in 1 .. Len(deliveries[t]) : deliveries[t][i] = e
          /\ deliveries' = [deliveries EXCEPT ![t] = Append(@, f)]
    /\ UNCHANGED <<local, lastTs>>

Next == Produce \/ \E t \in Target : Deliver(t)

Spec == Init /\ [][Next]_vars
=============================================================================
