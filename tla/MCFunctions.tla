----------------------------- MODULE MCFunctions -----------------------------
(* The small algorithms: each is called with every argument up to a bound,  *)
(* while the other two have nothing to do.                                  *)
EXTENDS TailIntersection, CountMissing, Tai64, SequencesExt

CONSTANT MaxName

ascending(S) == SetToSortSeq(S, <)

MCListings ==
    {<<ascending(p[1]), ascending(p[2])>> :
        p \in {q \in (SUBSET (1 .. MaxName)) \X (SUBSET (1 .. MaxName)) :
                  q[2] \subseteq q[1]}}

MCCalls ==
    {<<ascending(S), ascending(T)>> : S, T \in SUBSET (1 .. MaxName)}

MCTable ==
    <<[at |-> 4, extra |-> 4], [at |-> 20, extra |-> 6], [at |-> 32, extra |-> 8]>>

TailIdle == A = <<>> /\ B = <<>> /\ a = 0 /\ b = 0 /\ result = <<>> /\ pc = "done"
CountIdle == small = <<>> /\ big = <<>> /\ sm = 1 /\ bg = 1 /\ missing = 0
TaiIdle == clock = MaxClock

MCInit ==
    \/ TailInit /\ CountIdle /\ TaiIdle
    \/ TailIdle /\ CountInit /\ TaiIdle
    \/ TailIdle /\ CountIdle /\ TaiInit

MCNext ==
    \/ TailNext /\ UNCHANGED <<countVars, clock>>
    \/ CountNext /\ UNCHANGED <<tailVars, clock>>
    \/ TaiTick /\ UNCHANGED <<tailVars, countVars>>

MCSpec == MCInit /\ [][MCNext]_<<tailVars, countVars, clock>>
=============================================================================
