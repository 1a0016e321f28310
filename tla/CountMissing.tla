----------------------------- MODULE CountMissing -----------------------------
(***************************************************************************)
(* The merge loop of count_missing (barn-agent/src/helpers.cpp), by which  *)
(* ship_candidates counts the candidates that a second listing of the      *)
(* directory no longer has.  Files appear and vanish between the two       *)
(* listings, so neither need contain the other.                            *)
(***************************************************************************)
EXTENDS Helpers

CONSTANT Calls      \* the pairs <<small, big>> it is called with

VARIABLES small, big,  \* the arguments
          sm, bg,      \* the iterators; one past the length is end()
          missing

countVars == <<small, big, sm, bg, missing>>

\* Both arguments are sorted lists of file names.
CountCallable(x, y) == x \in Seq(Int) /\ y \in Seq(Int) /\ Sorted(x) /\ Sorted(y)

ASSUME CallsAssumption == \A c \in Calls : CountCallable(c[1], c[2])

CountInit ==
    /\ \E c \in Calls : small = c[1] /\ big = c[2]
    /\ sm = 1 /\ bg = 1
    /\ missing = 0

Running == sm <= Len(small)

\* big is exhausted or already past this name.
Missing ==
    /\ Running
    /\ \/ bg > Len(big)
       \/ bg <= Len(big) /\ small[sm] < big[bg]
    /\ missing' = missing + 1
    /\ sm' = sm + 1
    /\ UNCHANGED <<small, big, bg>>

Found ==
    /\ Running
    /\ bg <= Len(big) /\ small[sm] = big[bg]
    /\ sm' = sm + 1 /\ bg' = bg + 1
    /\ UNCHANGED <<small, big, missing>>

\* Moves both lists on.
AdvanceBoth ==
    /\ Running
    /\ bg <= Len(big) /\ small[sm] > big[bg]
    /\ sm' = sm + 1 /\ bg' = bg + 1
    /\ UNCHANGED <<small, big, missing>>

Advance ==
    /\ Running
    /\ bg <= Len(big) /\ small[sm] > big[bg]
    /\ bg' = bg + 1
    /\ UNCHANGED <<small, big, sm, missing>>

CountNext == Missing \/ Found \/ Advance

CountSpec == CountInit /\ [][CountNext]_countVars

----------------------------------------------------------------------------
\* What is passed is counted, and what big has passed is of no more use.
MergeInv ==
    /\ CountCallable(small, big)
    /\ sm \in 1 .. Len(small) + 1 /\ bg \in 1 .. Len(big) + 1
    /\ missing = count_missing({small[i] : i \in 1 .. sm - 1}, Names(big))
    /\ \A i \in sm .. Len(small), j \in 1 .. bg - 1 : big[j] < small[i]

\* RotatedDuringShip is the number of candidates the second listing lacks,
\* wherever in the lists they are (count_missing returns when small ends).
CountsMissing ==
    ~Running => missing = count_missing(Names(small), Names(big))
=============================================================================
