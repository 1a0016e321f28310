--------------------------- MODULE TailIntersection ---------------------------
(***************************************************************************)
(* The loop of tail_intersection (barn-agent/src/helpers.cpp) on two       *)
(* sorted lists of names: A is a directory listing, B the part of it that  *)
(* the collector lacks.  It walks both from the end, and its break is what *)
(* the agent's gap rule rests on.                                          *)
(***************************************************************************)
EXTENDS Helpers

CONSTANT Listings   \* the pairs <<A, B>> it is called with

VARIABLES A, B,     \* the arguments
          a, b,     \* the reverse iterators; 0 is rend()
          result,
          pc

tailVars == <<A, B, a, b, result, pc>>

\* query_candidates sorts both lists, and rsync names only files it was given.
TailCallable(x, y) ==
    /\ x \in Seq(Int) /\ y \in Seq(Int)
    /\ Sorted(x) /\ Sorted(y)
    /\ Names(y) \subseteq Names(x)

ASSUME ListingsAssumption == \A p \in Listings : TailCallable(p[1], p[2])

TailInit ==
    /\ \E p \in Listings : A = p[1] /\ B = p[2]
    /\ a = Len(A) /\ b = Len(B)
    /\ result = <<>>
    /\ pc = "loop"

\* Collects every common name: a difference only moves a on.
StepOver ==
    /\ pc = "loop"
    /\ a # 0 /\ b # 0
    /\ a' = a - 1
    /\ \/ A[a] = B[b] /\ result' = Append(result, A[a]) /\ b' = b - 1
       \/ A[a] # B[b] /\ UNCHANGED <<result, b>>
    /\ UNCHANGED <<A, B, pc>>

Match ==
    /\ pc = "loop"
    /\ a # 0 /\ b # 0 /\ A[a] = B[b]
    /\ result' = Append(result, A[a])
    /\ a' = a - 1 /\ b' = b - 1
    /\ UNCHANGED <<A, B, pc>>

\* The loop condition fails, or the names differ.
Leave ==
    /\ pc = "loop"
    /\ ~(a # 0 /\ b # 0 /\ A[a] = B[b])
    /\ pc' = "reverse"
    /\ UNCHANGED <<A, B, a, b, result>>

\* Hands the result over as it was collected.
KeepOrder ==
    /\ pc = "reverse"
    /\ pc' = "done"
    /\ UNCHANGED <<A, B, a, b, result>>

ReverseResult ==
    /\ pc = "reverse"
    /\ result' = [i \in 1 .. Len(result) |-> result[Len(result) + 1 - i]]
    /\ pc' = "done"
    /\ UNCHANGED <<A, B, a, b>>

TailNext == Match \/ Leave \/ ReverseResult

TailSpec == TailInit /\ [][TailNext]_tailVars

----------------------------------------------------------------------------
\* The iterators stay in step, and result holds what they have passed of A.
LoopInv ==
    /\ TailCallable(A, B)
    /\ a \in 0 .. Len(A) /\ b \in 0 .. Len(B)
    /\ pc \in {"loop", "reverse", "done"}
    /\ result \in Seq(Int)
    /\ Len(result) = Len(A) - a /\ Len(result) = Len(B) - b
    /\ \A k \in 1 .. Len(result) :
          /\ A[Len(A) + 1 - k] = B[Len(B) + 1 - k]
          /\ pc # "done" => result[k] = A[Len(A) + 1 - k]
          /\ pc = "done" => result[k] = A[a + k]
    /\ pc # "loop" => a = 0 \/ b = 0 \/ A[a] # B[b]

\* The agent's gap rule: the result names those listed files above which the
\* collector lacks everything, however large the gaps below.
ResultIsTail ==
    pc = "done" => Names(result) = tail_intersection(Names(A), Names(B))

\* It is sorted again, as ship_candidates and count_missing need it.
ResultSorted == pc = "done" => Sorted(result)
=============================================================================
