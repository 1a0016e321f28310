----------------------------- MODULE Tai64_proofs -----------------------------
(***************************************************************************)
(* The conversions of tai64.scala, for any table whose entries lie further *)
(* apart than the seconds they add.                                        *)
(***************************************************************************)
EXTENDS Tai64, Extrema_proofs, SequenceTheorems, TLAPS

Entries == 1 .. Len(conversionTable)

\* The table as integers.
LEMMA EntriesAreNumbers ==
    /\ Len(conversionTable) \in Nat
    /\ \A i \in Entries : conversionTable[i].at \in Nat /\ conversionTable[i].extra \in Nat
<1>1. conversionTable \in Seq([at : Nat, extra : Nat])
  BY TableAssumption
<1>2. Len(conversionTable) \in Nat
  BY <1>1
<1>3. ASSUME NEW i \in Entries PROVE conversionTable[i] \in [at : Nat, extra : Nat]
  BY <1>1, ElementOfSeq DEF Entries
<1>4. ASSUME NEW i \in Entries
      PROVE  conversionTable[i].at \in Nat /\ conversionTable[i].extra \in Nat
  BY <1>3
<1> QED
  BY <1>2, <1>4

\* leapSecond takes the last of the entries before t, if there is one.
LEMMA LastPassed ==
    ASSUME NEW t \in Int, passed(t) # {}
    PROVE  /\ lastPassed(t) \in passed(t)
           /\ \A j \in passed(t) : j <= lastPassed(t)
           /\ leapSecond(t) = conversionTable[lastPassed(t)].extra
<1>1. passed(t) \subseteq 0 .. Len(conversionTable) /\ Len(conversionTable) \in Nat
  BY EntriesAreNumbers DEF passed
<1>3. \E i \in passed(t) : \A j \in passed(t) : j <= i
  BY <1>1, GreatestExists
<1>4. leapSecond(t) = conversionTable[lastPassed(t)].extra
  BY DEF leapSecond
<1> QED
  BY <1>3, <1>4 DEF lastPassed

\* The entries before t are the first ones of the table.
LEMMA PassedIsPrefix ==
    ASSUME NEW t \in Int, NEW j \in passed(t), NEW i \in Entries, i <= j
    PROVE  i \in passed(t)
<1>1. j \in Entries /\ conversionTable[j].at < t
  BY DEF passed, Entries
<1>2. CASE i = j
  BY <1>2
<1>3. CASE i < j
  <2>1. conversionTable[i].at + conversionTable[j].extra <= conversionTable[j].at
    BY <1>1, <1>3, TableAssumption DEF Entries
  <2>2. conversionTable[i].at < t
    BY <1>1, <2>1, EntriesAreNumbers
  <2> QED
    BY <2>2 DEF passed, Entries
<1> QED
  BY <1>1, <1>2, <1>3, EntriesAreNumbers DEF Entries

\* Of two times, the later one has as many leap seconds or more; it has one
\* entry's seconds more at most, or fewer than have passed between them.
LEMMA LeapSecondsGrow ==
    ASSUME NEW x \in Int, NEW y \in Int, x <= y
    PROVE  /\ leapSecond(x) \in Nat /\ leapSecond(y) \in Nat
           /\ leapSecond(x) <= leapSecond(y)
           /\ \/ leapSecond(y) <= leapSecond(x) + MaxJump
              \/ leapSecond(y) < y - x
<1> DEFINE k == lastPassed(y)
           l == lastPassed(x)
<1>m. MaxJump \in Nat \ {0}
  BY TableAssumption
<1>0. \A t \in Int : passed(t) = {} => leapSecond(t) = 0
  BY DEF leapSecond
<1>1. passed(x) \subseteq passed(y)
  BY EntriesAreNumbers DEF passed, Entries
<1>2. CASE passed(y) = {}
  BY <1>0, <1>1, <1>2, <1>m
<1>3. CASE passed(y) # {}
  <2>1. /\ k \in passed(y) /\ k \in Entries /\ \A j \in passed(y) : j <= k
        /\ leapSecond(y) = conversionTable[k].extra
        /\ conversionTable[k].at < y
    BY <1>3, LastPassed DEF passed, Entries
  <2>2. leapSecond(y) \in Nat /\ conversionTable[k].at \in Nat
    BY <2>1, EntriesAreNumbers
  <2>3. CASE k \in passed(x)
    <3>1. passed(x) # {}
      BY <2>3
    <3>2. /\ l \in passed(x) /\ k <= l /\ leapSecond(x) = conversionTable[l].extra
      BY <2>3, <3>1, LastPassed
    <3>3. l = k
      BY <1>1, <2>1, <3>2, EntriesAreNumbers DEF Entries, passed
    <3> QED
      BY <1>m, <2>1, <2>2, <3>2, <3>3
  <2>4. CASE k \notin passed(x) /\ passed(x) = {}
    <3>1. leapSecond(x) = 0
      BY <1>0, <2>4
    <3>2. CASE k = 1
      <4>1. conversionTable[1].extra <= MaxJump
        BY <2>1, <3>2, TableAssumption, EntriesAreNumbers DEF Entries
      <4> QED
        BY <1>m, <2>1, <2>2, <3>1, <3>2, <4>1
    <3>3. CASE k # 1
      <4>1. 1 \in Entries /\ 1 < k
        BY <2>1, <3>3, EntriesAreNumbers DEF Entries
      <4>2. conversionTable[1].at + conversionTable[k].extra <= conversionTable[k].at
        BY <2>1, <4>1, TableAssumption DEF Entries
      <4>3. conversionTable[1].at >= x /\ conversionTable[1].at \in Nat
        BY <2>4, <4>1, EntriesAreNumbers DEF passed, Entries
      <4> QED
        BY <2>1, <2>2, <3>1, <4>2, <4>3
    <3> QED
      BY <3>2, <3>3
  <2>5. CASE k \notin passed(x) /\ passed(x) # {}
    <3>1. /\ l \in passed(x) /\ l \in Entries /\ \A j \in passed(x) : j <= l
          /\ leapSecond(x) = conversionTable[l].extra
      BY <2>5, LastPassed DEF passed, Entries
    <3>2. l < k /\ k - 1 \in Entries /\ k \in Int /\ l \in Int
      BY <1>1, <2>1, <2>5, <3>1, EntriesAreNumbers DEF Entries
    <3>3. conversionTable[l].extra <= conversionTable[k].extra
      BY <2>1, <3>1, <3>2, TableAssumption DEF Entries
    <3>4. leapSecond(x) \in Nat /\ leapSecond(x) <= leapSecond(y)
      BY <2>1, <3>1, <3>3, EntriesAreNumbers
    <3>5. CASE k - 1 \in passed(x)
      <4>1. l = k - 1
        BY <3>1, <3>2, <3>5
      <4>2. conversionTable[k].extra <= conversionTable[l].extra + MaxJump
        BY <2>1, <3>1, <3>2, <4>1, TableAssumption, EntriesAreNumbers DEF Entries
      <4> QED
        BY <2>1, <2>2, <3>1, <3>4, <4>2
    <3>6. CASE k - 1 \notin passed(x)
      <4>1. conversionTable[k - 1].at + conversionTable[k].extra <= conversionTable[k].at
        BY <2>1, <3>2, TableAssumption DEF Entries
      <4>2. conversionTable[k - 1].at >= x /\ conversionTable[k - 1].at \in Nat
        BY <3>2, <3>6, EntriesAreNumbers DEF passed, Entries
      <4> QED
        BY <2>1, <2>2, <3>4, <4>1, <4>2
    <3> QED
      BY <3>5, <3>6
  <2> QED
    BY <2>3, <2>4, <2>5
<1> QED
  BY <1>2, <1>3

TaiInv == clock \in Nat

LEMMA ClockIsNatural == TaiSpec => []TaiInv
<1>1. TaiInit => TaiInv
  BY DEF TaiInit, TaiInv
<1>2. TaiInv /\ [TaiTick]_clock => TaiInv'
  BY DEF TaiInv, TaiTick
<1> QED
  BY <1>1, <1>2, PTL DEF TaiSpec

\* A file is never taken for younger than it is, and for older by one entry of
\* the table at most, whatever the table (convertDateToTai64, convertTai64ToTime).
THEOREM RoundTripIsClose == TaiSpec => []RoundTrip
<1>1. ASSUME TaiInv PROVE RoundTrip
  <2> DEFINE x == clock
             y == x + leapSecond(x)
  <2>0. x \in Int /\ MaxJump \in Nat
    BY <1>1, TableAssumption DEF TaiInv
  <2>1. leapSecond(x) \in Nat
    BY <2>0, LeapSecondsGrow
  <2>2. y \in Int /\ x <= y
    BY <2>0, <2>1
  <2>3. /\ leapSecond(y) \in Nat /\ leapSecond(x) <= leapSecond(y)
        /\ leapSecond(y) <= leapSecond(x) + MaxJump \/ leapSecond(y) < y - x
    BY <2>0, <2>2, LeapSecondsGrow
  <2>4. convertTai64ToTime(convertDateToTai64(clock)) = y - leapSecond(y)
    BY DEF convertTai64ToTime, convertDateToTai64
  <2>5. y - leapSecond(y) \in x - MaxJump .. x
    BY <2>0, <2>1, <2>3
  <2> QED
    BY <2>4, <2>5 DEF RoundTrip
<1> QED
  BY <1>1, ClockIsNatural, PTL

\* Two labels in order give times that are out of order by less than an entry
\* adds, whatever the table.
THEOREM SetbackIsSmall == TaiSpec => []SmallSetback
<1>1. ASSUME TaiInv PROVE SmallSetback
  <2> SUFFICES ASSUME NEW x \in 0 .. clock, NEW r \in Rest, NEW s \in Rest,
                      Before(<<x, r>>, <<clock, s>>)
               PROVE  x - leapSecond(x) < clock - leapSecond(clock) + MaxJump
    BY DEF SmallSetback, convertTai64ToTime
  <2>1. x \in Int /\ clock \in Int /\ x <= clock /\ MaxJump \in Nat \ {0}
    BY <1>1, TableAssumption DEF TaiInv
  <2>2. /\ leapSecond(x) \in Nat /\ leapSecond(clock) \in Nat
        /\ \/ leapSecond(clock) <= leapSecond(x) + MaxJump
           \/ leapSecond(clock) < clock - x
    BY <2>1, LeapSecondsGrow
  <2>3. CASE x = clock
    BY <2>1, <2>2, <2>3
  <2>4. CASE x < clock
    BY <2>1, <2>2, <2>4
  <2> QED
    BY <2>1, <2>3, <2>4
<1> QED
  BY <1>1, ClockIsNatural, PTL
=============================================================================
