------------------------------ MODULE LogArchive ------------------------------
(***************************************************************************)
(* What barn-hdfs promises about its service directories, whatever happens *)
(* to HDFS or to barn-hdfs itself: the archive takes the delivered log     *)
(* files of each in their order, some at a time, and passes over none that *)
(* has not reached the age limit.  How it knows what the archive has is    *)
(* left open.                                                              *)
(***************************************************************************)
EXTENDS Integers

CONSTANT Dir

VARIABLES delivered,   \* delivered[d]: files d was given, named by timestamp
          archived,    \* archived[d]: those of them that are on HDFS
          limit        \* files before this are too old to be waited for

vars == <<delivered, archived, limit>>

Init ==
    /\ delivered = [d \in Dir |-> {}]
    /\ archived = [d \in Dir |-> {}]
    /\ limit \in Int

\* An agent delivers the next file of its log.
Deliver(d) ==
    /\ \E f \in delivered'[d] :
          /\ \A g \in delivered[d] : g < f
          /\ delivered' = [delivered EXCEPT ![d] = @ \cup {f}]
    /\ UNCHANGED <<archived, limit>>

\* Newer files only, and with a file every older one that is not too old.
Archive(d) ==
    /\ \E new \in SUBSET delivered[d] :
          /\ \A f \in new, g \in archived[d] : g < f
          /\ \A f \in new, e \in delivered[d] :
                e < f => e \in new \cup archived[d] \/ e < limit
          /\ archived' = [archived EXCEPT ![d] = @ \cup new]
    /\ UNCHANGED <<delivered, limit>>

Age == limit' > limit /\ UNCHANGED <<delivered, archived>>

Next == Age \/ \E d \in Dir : Deliver(d) \/ Archive(d)

Spec == Init /\ [][Next]_vars
=============================================================================
