------------------------- MODULE ListHelpers_proofs -------------------------
(***************************************************************************)
(* The two list loops of barn-agent compute what the model of the agent    *)
(* takes them to: tail_intersection the gap rule, count_missing the size   *)
(* of a set difference, for sorted listings of every length.               *)
(***************************************************************************)
EXTENDS TailIntersection, CountMissing, SequenceTheorems, FiniteSetTheorems, TLAPS

----------------------------------------------------------------------------
(* tail_intersection *)

\* The parts of LoopInv that only give types and bounds.
LEMMA LoopTypes ==
    ASSUME LoopInv
    PROVE  /\ A \in Seq(Int) /\ B \in Seq(Int) /\ result \in Seq(Int)
           /\ Len(A) \in Nat /\ Len(B) \in Nat /\ Len(result) \in Nat
           /\ a \in Nat /\ b \in Nat /\ a <= Len(A) /\ b <= Len(B)
           /\ Len(result) = Len(A) - a /\ Len(result) = Len(B) - b
           /\ \A i \in 1 .. Len(A) : A[i] \in Int
           /\ \A i \in 1 .. Len(B) : B[i] \in Int
           /\ \A i \in 1 .. Len(result) : result[i] \in Int
<1>1. A \in Seq(Int) /\ B \in Seq(Int) /\ result \in Seq(Int)
  BY DEF LoopInv, TailCallable
<1>2. /\ a \in 0 .. Len(A) /\ b \in 0 .. Len(B)
      /\ Len(result) = Len(A) - a /\ Len(result) = Len(B) - b
  BY DEF LoopInv
<1>3. Len(A) \in Nat /\ Len(B) \in Nat /\ Len(result) \in Nat
  BY <1>1, LenProperties
<1>4. /\ \A i \in 1 .. Len(A) : A[i] \in Int
      /\ \A i \in 1 .. Len(B) : B[i] \in Int
      /\ \A i \in 1 .. Len(result) : result[i] \in Int
  BY <1>1
<1>5. a \in Nat /\ b \in Nat /\ a <= Len(A) /\ b <= Len(B)
  BY <1>2, <1>3
<1> QED
  BY <1>1, <1>2, <1>3, <1>4, <1>5

\* LoopInv is inductive.
LEMMA LoopInvInductive ==
    /\ TailInit => LoopInv
    /\ LoopInv /\ [TailNext]_tailVars => LoopInv'
<1>1. TailInit => LoopInv
  <2> SUFFICES ASSUME TailInit PROVE LoopInv
    OBVIOUS
  <2>1. TailCallable(A, B)
    BY ListingsAssumption DEF TailInit, ListingsAssumption
  <2>2. Len(A) \in Nat /\ Len(B) \in Nat
    BY <2>1 DEF TailCallable
  <2> QED
    BY <2>1, <2>2 DEF TailInit, LoopInv
<1>2. LoopInv /\ [TailNext]_tailVars => LoopInv'
  <2> SUFFICES ASSUME LoopInv, [TailNext]_tailVars PROVE LoopInv'
    OBVIOUS
  <2>0. /\ A \in Seq(Int) /\ B \in Seq(Int) /\ result \in Seq(Int)
        /\ \A i \in 1 .. Len(A) : A[i] \in Int
        /\ \A i \in 1 .. Len(result) : result[i] \in Int
    BY LoopTypes
  <2>n. /\ Len(A) \in Nat /\ Len(B) \in Nat /\ Len(result) \in Nat
        /\ a \in Nat /\ b \in Nat /\ a <= Len(A) /\ b <= Len(B)
        /\ Len(result) = Len(A) - a /\ Len(result) = Len(B) - b
    BY LoopTypes
  <2>c. TailCallable(A, B)
    BY DEF LoopInv
  <2>1. CASE Match
    <3>1. /\ A' = A /\ B' = B /\ a' = a - 1 /\ b' = b - 1
          /\ pc = "loop" /\ pc' = "loop"
          /\ A[a] = B[b] /\ a # 0 /\ b # 0
      BY <2>1 DEF Match
    <3>2. a \in 1 .. Len(A)
      BY <2>n, <3>1
    <3>3. A[a] \in Int
      BY <2>0, <3>2
    <3>4. result' = Append(result, A[a])
      BY <2>1 DEF Match
    <3>5. result' \in Seq(Int) /\ Len(result') = Len(result) + 1
      BY <2>0, <3>3, <3>4
    <3>6. ASSUME NEW k \in 1 .. Len(result) + 1
          PROVE  /\ A[Len(A) + 1 - k] = B[Len(B) + 1 - k]
                 /\ result'[k] = A[Len(A) + 1 - k]
      <4>1. CASE k = Len(result) + 1
        <5>1. Len(A) + 1 - k = a /\ Len(B) + 1 - k = b
          BY <2>n, <4>1
        <5>2. result'[k] = A[a]
          BY <2>0, <3>3, <3>4, <4>1
        <5> QED
          BY <3>1, <5>1, <5>2
      <4>2. CASE k # Len(result) + 1
        <5>1. k \in 1 .. Len(result)
          BY <2>n, <4>2
        <5>2. result'[k] = result[k]
          BY <2>0, <3>3, <3>4, <5>1
        <5>3. /\ A[Len(A) + 1 - k] = B[Len(B) + 1 - k]
              /\ result[k] = A[Len(A) + 1 - k]
          BY <3>1, <5>1 DEF LoopInv
        <5> QED
          BY <5>2, <5>3
      <4> QED
        BY <4>1, <4>2
    <3>7. TailCallable(A', B')
      BY <2>c, <3>1
    <3>8. /\ a' \in 0 .. Len(A') /\ b' \in 0 .. Len(B')
          /\ Len(result') = Len(A') - a' /\ Len(result') = Len(B') - b'
      BY <2>n, <3>1, <3>5
    <3>9. \A k \in 1 .. Len(result') :
             /\ A'[Len(A') + 1 - k] = B'[Len(B') + 1 - k]
             /\ result'[k] = A'[Len(A') + 1 - k]
      BY <3>1, <3>5, <3>6
    <3> QED
      BY <3>1, <3>5, <3>7, <3>8, <3>9 DEF LoopInv
  <2>2. CASE Leave
    BY <2>2 DEF Leave, LoopInv
  <2>3. CASE ReverseResult
    <3>1. /\ result' = [i \in 1 .. Len(result) |-> result[Len(result) + 1 - i]]
          /\ A' = A /\ B' = B /\ a' = a /\ b' = b
          /\ pc' = "done" /\ pc = "reverse"
      BY <2>3 DEF ReverseResult
    <3>2. \A i \in 1 .. Len(result) : Len(result) + 1 - i \in 1 .. Len(result)
      BY <2>n
    <3>3. result' \in Seq(Int) /\ Len(result') = Len(result)
      <4> DEFINE n == Len(result)
      <4>1. n \in Nat
        BY <2>n
      <4>2. \A i \in 1 .. n : result[n + 1 - i] \in Int
        BY <2>0, <3>2
      <4>3. result' \in [1 .. n -> Int]
        BY <3>1, <4>2
      <4> HIDE DEF n
      <4>4. result' \in Seq(Int)
        BY <4>1, <4>3
      <4>5. Len(result') = n
        BY <4>1, <4>3, <4>4, LenProperties
      <4> QED
        BY <4>4, <4>5 DEF n
    <3>4. ASSUME NEW k \in 1 .. Len(result)
          PROVE  result'[k] = A[a + k]
      <4>1. result[Len(result) + 1 - k] = A[Len(A) + 1 - (Len(result) + 1 - k)]
        BY <3>1, <3>2 DEF LoopInv
      <4>2. Len(A) + 1 - (Len(result) + 1 - k) = a + k
        BY <2>n
      <4> QED
        BY <3>1, <4>1, <4>2
    <3>5. /\ a \in 0 .. Len(A) /\ b \in 0 .. Len(B)
          /\ Len(result) = Len(A) - a /\ Len(result) = Len(B) - b
          /\ \A k \in 1 .. Len(result) : A[Len(A) + 1 - k] = B[Len(B) + 1 - k]
          /\ a = 0 \/ b = 0 \/ A[a] # B[b]
      BY <3>1 DEF LoopInv
    <3> QED
      BY <2>c, <3>1, <3>3, <3>4, <3>5 DEF LoopInv
  <2>4. CASE UNCHANGED tailVars
    BY <2>4 DEF tailVars, LoopInv
  <2> QED
    BY <2>1, <2>2, <2>3, <2>4 DEF TailNext
<1> QED
  BY <1>1, <1>2

\* Above the iterator, the names of A are exactly those of the result; at it,
\* the collector has the file; so nothing at or below it is in the tail.
LEMMA TailFromInv == LoopInv => ResultIsTail
<1> SUFFICES ASSUME LoopInv, pc = "done"
             PROVE  Names(result) = tail_intersection(Names(A), Names(B))
  BY DEF ResultIsTail
<1>s. /\ Sorted(A) /\ Sorted(B)
      /\ Names(B) \subseteq Names(A)
  BY DEF LoopInv, TailCallable
<1>0. /\ \A i \in 1 .. Len(A) : A[i] \in Int
      /\ \A i \in 1 .. Len(B) : B[i] \in Int
  BY LoopTypes
<1>n. /\ Len(A) \in Nat /\ Len(B) \in Nat /\ Len(result) \in Nat
      /\ a \in Nat /\ b \in Nat /\ a <= Len(A) /\ b <= Len(B)
      /\ Len(result) = Len(A) - a /\ Len(result) = Len(B) - b
  BY LoopTypes
<1>1. \A i \in a + 1 .. Len(A) : A[i] = B[i - a + b] /\ A[i] \in Names(B)
  <2> SUFFICES ASSUME NEW i \in a + 1 .. Len(A)
               PROVE  A[i] = B[i - a + b] /\ A[i] \in Names(B)
    OBVIOUS
  <2> DEFINE k == Len(A) + 1 - i
  <2>1. k \in 1 .. Len(result) /\ Len(A) + 1 - k = i /\ Len(B) + 1 - k = i - a + b
    BY <1>n, <1>s, <1>0
  <2>2. A[Len(A) + 1 - k] = B[Len(B) + 1 - k]
    BY <2>1 DEF LoopInv
  <2>3. i - a + b \in 1 .. Len(B)
    BY <1>n, <1>s, <1>0
  <2> QED
    BY <2>1, <2>2, <2>3 DEF Names
<1>2. Names(result) = {A[i] : i \in a + 1 .. Len(A)}
  <2>1. \A k \in 1 .. Len(result) : result[k] = A[a + k] /\ a + k \in a + 1 .. Len(A)
    BY <1>n, <1>s, <1>0 DEF LoopInv
  <2>2. \A i \in a + 1 .. Len(A) : i - a \in 1 .. Len(result) /\ result[i - a] = A[i]
    BY <1>n, <1>s, <1>0, <2>1
  <2> QED
    BY <2>1, <2>2 DEF Names
<1>3. a # 0 => A[a] \notin Names(B)
  <2> SUFFICES ASSUME a # 0, NEW j \in 1 .. Len(B), B[j] = A[a] PROVE FALSE
    BY DEF Names
  <2>1. CASE j > b
    <3> DEFINE i == j + a - b
    <3>1. i \in a + 1 .. Len(A) /\ i - a + b = j
      BY <1>n, <1>s, <1>0, <2>1
    <3>2. A[i] = A[a]
      BY <1>1, <3>1
    <3>3. A[a] < A[i] /\ A[a] \in Int
      BY <1>n, <1>s, <1>0, <3>1 DEF Sorted
    <3> QED
      BY <3>2, <3>3
  <2>2. CASE j <= b
    <3>1. b \in 1 .. Len(B) /\ b # 0 /\ A[a] # B[b]
      BY <1>n, <1>s, <1>0, <2>2 DEF LoopInv
    <3>2. j < b
      BY <1>n, <1>s, <1>0, <2>2, <3>1
    <3>3. B[j] < B[b]
      BY <1>n, <1>s, <1>0, <3>1, <3>2 DEF Sorted
    <3>4. PICK i \in 1 .. Len(A) : B[b] = A[i]
      BY <1>n, <1>s, <1>0, <3>1 DEF Names
    <3>5. /\ A[i] \in Int /\ A[a] \in Int /\ a \in 1 .. Len(A)
      BY <1>n, <1>s, <1>0
    <3>6. i > a
      <4>1. ASSUME i < a PROVE FALSE
        BY <1>n, <1>s, <1>0, <3>3, <3>4, <3>5, <4>1 DEF Sorted
      <4> QED
        BY <1>n, <1>s, <1>0, <3>1, <3>4, <4>1
    <3>7. i - a + b \in 1 .. Len(B) /\ i - a + b > b /\ A[i] = B[i - a + b]
      BY <1>n, <1>s, <1>0, <1>1, <3>6
    <3>8. B[b] < B[i - a + b] /\ B[b] \in Int
      BY <1>n, <1>s, <1>0, <3>1, <3>7 DEF Sorted
    <3> QED
      BY <3>4, <3>7, <3>8
  <2> QED
    BY <1>n, <1>s, <1>0, <2>1, <2>2
<1>4. ASSUME NEW i \in 1 .. Len(A)
      PROVE  A[i] \in tail_intersection(Names(A), Names(B)) <=> i > a
  <2>1. A[i] \in Names(A) /\ A[i] \in Int
    BY <1>n, <1>s, <1>0 DEF Names
  <2>2. CASE i > a
    <3>1. ASSUME NEW g \in Names(A), g >= A[i] PROVE g \in Names(B)
      <4>1. PICK j \in 1 .. Len(A) : g = A[j]
        BY DEF Names
      <4>2. A[j] \in Int
        BY <1>n, <1>s, <1>0
      <4>3. j >= i
        BY <1>n, <1>s, <1>0, <2>1, <3>1, <4>1, <4>2 DEF Sorted
      <4> QED
        BY <1>n, <1>s, <1>0, <1>1, <2>2, <4>1, <4>3
    <3> QED
      BY <2>1, <2>2, <3>1 DEF tail_intersection
  <2>3. CASE i <= a
    <3>1. a \in 1 .. Len(A) /\ a # 0 /\ A[a] \in Int
      BY <1>n, <1>s, <1>0, <2>3
    <3>2. A[a] >= A[i] /\ A[a] \in Names(A)
      BY <1>n, <1>s, <1>0, <2>1, <2>3, <3>1 DEF Sorted, Names
    <3> QED
      BY <1>n, <1>s, <1>0, <1>3, <2>3, <3>1, <3>2 DEF tail_intersection
  <2> QED
    BY <1>n, <1>s, <1>0, <2>2, <2>3
<1>5. tail_intersection(Names(A), Names(B)) \subseteq Names(A)
  BY DEF tail_intersection
<1>6. a + 1 .. Len(A) \subseteq 1 .. Len(A) /\ \A i \in 1 .. Len(A) : i > a <=> i \in a + 1 .. Len(A)
  BY <1>n
<1>7. Names(result) \subseteq tail_intersection(Names(A), Names(B))
  BY <1>2, <1>4, <1>6
<1>8. ASSUME NEW f \in tail_intersection(Names(A), Names(B))
      PROVE  f \in Names(result)
  <2>1. PICK i \in 1 .. Len(A) : f = A[i]
    BY <1>5 DEF Names
  <2>2. i \in a + 1 .. Len(A)
    BY <1>4, <1>6, <2>1
  <2> QED
    BY <1>2, <2>1, <2>2
<1> QED
  BY <1>7, <1>8

\* When tail_intersection returns, its result is the set-level gap rule the
\* agent model uses, for sorted listings of any length.
THEOREM LoopComputesTail == TailSpec => []ResultIsTail
BY LoopInvInductive, TailFromInv, PTL DEF TailSpec

\* The two iterators of tail_intersection stay in step, whatever the listings.
THEOREM LoopInvHolds == TailSpec => []LoopInv
BY LoopInvInductive, PTL DEF TailSpec

\* The reversed result is a part of A without a hole, hence ascending like A.
LEMMA SortedFromInv == LoopInv => ResultSorted
<1> SUFFICES ASSUME LoopInv, pc = "done",
                    NEW i \in 1 .. Len(result), NEW j \in 1 .. Len(result), i < j
             PROVE  result[i] < result[j]
  BY DEF ResultSorted, Sorted
<1>1. result[i] = A[a + i] /\ result[j] = A[a + j]
  BY DEF LoopInv
<1>2. a + i \in 1 .. Len(A) /\ a + j \in 1 .. Len(A) /\ a + i < a + j
  BY LoopTypes DEF LoopInv
<1> QED
  BY <1>1, <1>2 DEF LoopInv, TailCallable, Sorted

\* ship_candidates and count_missing get the files oldest first, whatever the
\* listings.
THEOREM ResultIsSorted == TailSpec => []ResultSorted
BY LoopInvInductive, SortedFromInv, PTL DEF TailSpec

----------------------------------------------------------------------------
(* count_missing *)

\* The names the loop has left behind.
Passed == {small[i] : i \in 1 .. sm - 1}

\* Cardinalities add up only for finite sets.
IInv == MergeInv /\ IsFiniteSet(Passed)

\* The types and bounds that MergeInv gives.
LEMMA MergeTypes ==
    ASSUME MergeInv
    PROVE  /\ Len(small) \in Nat /\ Len(big) \in Nat
           /\ sm \in Nat /\ bg \in Nat
           /\ 1 <= sm /\ sm <= Len(small) + 1
           /\ 1 <= bg /\ bg <= Len(big) + 1
           /\ \A i \in 1 .. Len(small) : small[i] \in Int
           /\ \A i \in 1 .. Len(big) : big[i] \in Int
           /\ Sorted(small) /\ Sorted(big)
<1>1. small \in Seq(Int) /\ big \in Seq(Int) /\ Sorted(small) /\ Sorted(big)
  BY DEF MergeInv, CountCallable
<1>2. Len(small) \in Nat /\ Len(big) \in Nat
  BY <1>1
<1>3. sm \in 1 .. Len(small) + 1 /\ bg \in 1 .. Len(big) + 1
  BY DEF MergeInv
<1>4. /\ sm \in Nat /\ bg \in Nat
      /\ 1 <= sm /\ sm <= Len(small) + 1
      /\ 1 <= bg /\ bg <= Len(big) + 1
  BY <1>2, <1>3
<1>5. /\ \A i \in 1 .. Len(small) : small[i] \in Int
      /\ \A i \in 1 .. Len(big) : big[i] \in Int
  BY <1>1
<1> QED
  BY <1>1, <1>2, <1>4, <1>5

\* Moving sm on adds one name to those left behind, a new one.
LEMMA PassedGrows ==
    ASSUME IInv, sm <= Len(small), small' = small, sm' = sm + 1
    PROVE  /\ Passed' = Passed \cup {small[sm]}
           /\ small[sm] \notin Passed
           /\ IsFiniteSet(Passed')
<1>t. /\ Len(small) \in Nat /\ sm \in Nat /\ 1 <= sm /\ sm <= Len(small)
      /\ \A i \in 1 .. Len(small) : small[i] \in Int
      /\ Sorted(small)
  BY MergeTypes DEF IInv
<1>1. 1 .. sm' - 1 = (1 .. sm - 1) \cup {sm}
  BY <1>t
<1>2. Passed' = {small[i] : i \in 1 .. sm' - 1}
  BY DEF Passed
<1>3. Passed' = Passed \cup {small[sm]}
  BY <1>1, <1>2 DEF Passed
<1>4. ASSUME NEW i \in 1 .. sm - 1, small[i] = small[sm]
      PROVE  FALSE
  <2>1. i \in 1 .. Len(small) /\ sm \in 1 .. Len(small) /\ i < sm
    BY <1>t
  <2>2. small[i] < small[sm] /\ small[i] \in Int
    BY <1>t, <2>1 DEF Sorted
  <2> QED
    BY <1>4, <2>2
<1>5. IsFiniteSet(Passed')
  BY <1>3, FS_AddElement DEF IInv
<1> QED
  BY <1>3, <1>4, <1>5 DEF Passed

\* IInv is inductive.
LEMMA MergeInvInductive ==
    /\ CountInit => IInv
    /\ IInv /\ [CountNext]_countVars => IInv'
<1>1. CountInit => IInv
  <2> SUFFICES ASSUME CountInit PROVE IInv
    OBVIOUS
  <2>1. CountCallable(small, big)
    BY CallsAssumption DEF CountInit, CallsAssumption
  <2>2. Len(small) \in Nat /\ Len(big) \in Nat
    BY <2>1 DEF CountCallable
  <2>3. sm = 1 /\ bg = 1 /\ missing = 0
    BY DEF CountInit
  <2>4. Passed = {}
    BY <2>3 DEF Passed
  <2>5. IsFiniteSet(Passed)
    BY <2>4, FS_EmptySet
  <2>6. missing = count_missing(Passed, Names(big))
    <3>1. Passed \ Names(big) = {}
      BY <2>4
    <3> QED
      BY <2>3, <3>1, FS_EmptySet DEF count_missing
  <2>7. /\ sm \in 1 .. Len(small) + 1 /\ bg \in 1 .. Len(big) + 1
        /\ 1 .. bg - 1 = {}
    BY <2>2, <2>3
  <2> QED
    BY <2>1, <2>5, <2>6, <2>7 DEF IInv, MergeInv, Passed
<1>2. IInv /\ [CountNext]_countVars => IInv'
  <2> SUFFICES ASSUME IInv, [CountNext]_countVars PROVE IInv'
    OBVIOUS
  <2>t. /\ Len(small) \in Nat /\ Len(big) \in Nat
        /\ sm \in Nat /\ bg \in Nat
        /\ 1 <= sm /\ sm <= Len(small) + 1
        /\ 1 <= bg /\ bg <= Len(big) + 1
    BY MergeTypes DEF IInv
  <2>i. /\ \A i \in 1 .. Len(small) : small[i] \in Int
        /\ \A i \in 1 .. Len(big) : big[i] \in Int
        /\ Sorted(small) /\ Sorted(big)
    BY MergeTypes DEF IInv
  <2>m. /\ CountCallable(small, big)
        /\ missing = Cardinality(Passed \ Names(big))
        /\ \A i \in sm .. Len(small), j \in 1 .. bg - 1 : big[j] < small[i]
        /\ IsFiniteSet(Passed)
    BY DEF IInv, MergeInv, Passed, count_missing
  <2>f. IsFiniteSet(Passed \ Names(big))
    BY <2>m, FS_Difference
  <2>1. CASE Missing
    <3>1. /\ sm <= Len(small)
          /\ bg > Len(big) \/ (bg <= Len(big) /\ small[sm] < big[bg])
          /\ missing' = missing + 1 /\ sm' = sm + 1 /\ bg' = bg
          /\ small' = small /\ big' = big
      BY <2>1 DEF Missing, Running
    <3>2. /\ Passed' = Passed \cup {small[sm]} /\ small[sm] \notin Passed
          /\ IsFiniteSet(Passed')
      BY <3>1, PassedGrows
    <3>s. sm \in 1 .. Len(small) /\ sm \in sm .. Len(small) /\ small[sm] \in Int
      BY <2>t, <2>i, <3>1
    <3>3. ASSUME NEW j \in 1 .. Len(big), big[j] = small[sm] PROVE FALSE
      <4>1. CASE j < bg
        <5>1. j \in 1 .. bg - 1
          BY <2>t, <4>1
        <5>2. big[j] < small[sm]
          BY <2>m, <3>s, <5>1
        <5> QED
          BY <3>3, <3>s, <5>2
      <4>2. CASE j >= bg
        <5>1. bg \in 1 .. Len(big) /\ bg <= Len(big)
          BY <2>t, <4>2
        <5>2. small[sm] < big[bg] /\ big[bg] \in Int
          BY <2>t, <2>i, <3>1, <5>1
        <5>3. j = bg \/ big[bg] < big[j]
          BY <2>t, <2>i, <4>2, <5>1 DEF Sorted
        <5> QED
          BY <3>3, <3>s, <5>2, <5>3
      <4> QED
        BY <2>t, <4>1, <4>2
    <3>4. small[sm] \notin Names(big)
      BY <3>3 DEF Names
    <3>5. Passed' \ Names(big) = (Passed \ Names(big)) \cup {small[sm]}
      BY <3>2, <3>4
    <3>6. Cardinality(Passed' \ Names(big)) = missing + 1
      BY <2>f, <2>m, <3>2, <3>5, FS_AddElement
    <3>7. missing' = count_missing(Passed', Names(big'))
      BY <3>1, <3>6 DEF count_missing
    <3>8. /\ sm' \in 1 .. Len(small') + 1 /\ bg' \in 1 .. Len(big') + 1
          /\ sm' .. Len(small') \subseteq sm .. Len(small)
      BY <2>t, <3>1
    <3>9. \A i \in sm' .. Len(small'), j \in 1 .. bg' - 1 : big'[j] < small'[i]
      BY <2>m, <3>1, <3>8
    <3> QED
      BY <2>m, <3>1, <3>2, <3>7, <3>8, <3>9 DEF IInv, MergeInv, Passed
  <2>2. CASE Found
    <3>1. /\ sm <= Len(small) /\ bg <= Len(big) /\ small[sm] = big[bg]
          /\ missing' = missing /\ sm' = sm + 1 /\ bg' = bg + 1
          /\ small' = small /\ big' = big
      BY <2>2 DEF Found, Running
    <3>2. /\ Passed' = Passed \cup {small[sm]}
          /\ IsFiniteSet(Passed')
      BY <3>1, PassedGrows
    <3>3. small[sm] \in Names(big)
      BY <2>t, <3>1 DEF Names
    <3>4. Passed' \ Names(big) = Passed \ Names(big)
      BY <3>2, <3>3
    <3>5. missing' = count_missing(Passed', Names(big'))
      BY <2>m, <3>1, <3>4 DEF count_missing
    <3>6. /\ sm' \in 1 .. Len(small') + 1 /\ bg' \in 1 .. Len(big') + 1
      BY <2>t, <3>1
    <3>7. ASSUME NEW i \in sm' .. Len(small'), NEW j \in 1 .. bg' - 1
          PROVE  big'[j] < small'[i]
      <4>1. /\ i \in sm .. Len(small) /\ i \in 1 .. Len(small) /\ sm \in 1 .. Len(small)
            /\ sm < i /\ (j \in 1 .. bg - 1 \/ j = bg)
        BY <2>t, <3>1
      <4>2. CASE j \in 1 .. bg - 1
        BY <2>m, <3>1, <4>1, <4>2
      <4>3. CASE j = bg
        <5>1. small[sm] < small[i]
          BY <2>i, <4>1 DEF Sorted
        <5> QED
          BY <3>1, <4>3, <5>1
      <4> QED
        BY <4>1, <4>2, <4>3
    <3> QED
      BY <2>m, <3>1, <3>2, <3>5, <3>6, <3>7 DEF IInv, MergeInv, Passed
  <2>3. CASE Advance
    <3>1. /\ sm <= Len(small) /\ bg <= Len(big) /\ small[sm] > big[bg]
          /\ missing' = missing /\ sm' = sm /\ bg' = bg + 1
          /\ small' = small /\ big' = big
      BY <2>3 DEF Advance, Running
    <3>2. Passed' = Passed
      BY <3>1 DEF Passed
    <3>3. /\ sm' \in 1 .. Len(small') + 1 /\ bg' \in 1 .. Len(big') + 1
      BY <2>t, <3>1
    <3>4. ASSUME NEW i \in sm' .. Len(small'), NEW j \in 1 .. bg' - 1
          PROVE  big'[j] < small'[i]
      <4>1. /\ i \in sm .. Len(small) /\ i \in 1 .. Len(small) /\ sm \in 1 .. Len(small)
            /\ bg \in 1 .. Len(big)
            /\ (sm < i \/ i = sm) /\ (j \in 1 .. bg - 1 \/ j = bg)
        BY <2>t, <3>1
      <4>2. CASE j \in 1 .. bg - 1
        BY <2>m, <3>1, <4>1, <4>2
      <4>3. CASE j = bg
        <5>1. i = sm \/ small[sm] < small[i]
          BY <2>i, <4>1 DEF Sorted
        <5>2. small[i] \in Int /\ small[sm] \in Int /\ big[bg] \in Int
          BY <2>i, <4>1
        <5> QED
          BY <3>1, <4>3, <5>1, <5>2
      <4> QED
        BY <4>1, <4>2, <4>3
    <3> QED
      BY <2>m, <3>1, <3>2, <3>3, <3>4 DEF IInv, MergeInv, Passed, count_missing
  <2>4. CASE UNCHANGED countVars
    BY <2>4 DEF countVars, IInv, MergeInv, Passed
  <2> QED
    BY <2>1, <2>2, <2>3, <2>4 DEF CountNext
<1> QED
  BY <1>1, <1>2

\* At the end of small every name of it has been left behind.
LEMMA CountFromInv == IInv => CountsMissing
<1> SUFFICES ASSUME IInv, ~Running
             PROVE  missing = count_missing(Names(small), Names(big))
  BY DEF CountsMissing
<1>1. sm - 1 = Len(small)
  BY MergeTypes DEF IInv, Running
<1>2. Passed = Names(small)
  BY <1>1 DEF Passed, Names
<1> QED
  BY <1>2 DEF IInv, MergeInv, Passed

\* RotatedDuringShip counts exactly the candidates missing from the second
\* listing, for sorted listings of any length (count_missing).
THEOREM LoopCountsMissing == CountSpec => []CountsMissing
BY MergeInvInductive, CountFromInv, PTL DEF CountSpec

\* What count_missing has passed is counted at every point of its loop, and what
\* big has passed is of no more use, whatever the listings.
THEOREM MergeInvHolds == CountSpec => []MergeInv
<1>1. IInv => MergeInv
  BY DEF IInv
<1> QED
  BY <1>1, MergeInvInductive, PTL DEF CountSpec
=============================================================================
