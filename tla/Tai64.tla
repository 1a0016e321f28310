-------------------------------- MODULE Tai64 --------------------------------
(***************************************************************************)
(* The conversions between a time and a tai64n label (barn-hdfs/src/main/  *)
(* scala/barn/tai64.scala).  barn-hdfs reads the names of log files with   *)
(* the one from a label to a time; only its tests call the other.  Both    *)
(* consult the table of leap seconds with what they are given: the one     *)
(* with a time, the other with a label's time before its leap seconds are  *)
(* taken off.  Near an entry they disagree.                                *)
(*                                                                         *)
(* Times and extra seconds are in units of the clock (milliseconds).  A    *)
(* label is <<units, rest>>, where rest is what its nanoseconds hold below *)
(* a millisecond; labels are compared as strings, units first.             *)
(***************************************************************************)
EXTENDS Integers, Sequences

CONSTANTS conversionTable,  \* entries in ascending order
          MaxJump,          \* an entry adds no more than this
          Rest,             \* the values of rest, 0 among them
          MaxClock          \* bound: the clock stops there

ASSUME TableAssumption ==
    /\ MaxJump \in Nat \ {0} /\ MaxClock \in Nat
    /\ 0 \in Rest /\ Rest \subseteq Nat
    /\ conversionTable \in Seq([at : Nat, extra : Nat])
    /\ Len(conversionTable) > 0 => conversionTable[1].extra <= MaxJump
    /\ \A i, j \in 1 .. Len(conversionTable) : i < j =>
          /\ conversionTable[i].extra <= conversionTable[j].extra
          /\ conversionTable[i].at + conversionTable[j].extra <= conversionTable[j].at
    /\ \A i \in 1 .. Len(conversionTable) - 1 :
          conversionTable[i + 1].extra <= conversionTable[i].extra + MaxJump

VARIABLE clock

\* The entries before t.
passed(t) == {i \in 1 .. Len(conversionTable) : conversionTable[i].at < t}

lastPassed(t) == CHOOSE i \in passed(t) : \A j \in passed(t) : j <= i

\* Counts those of the first entry twice.
leapSecondAndFirst(t) ==
    IF passed(t) = {} THEN 0
    ELSE conversionTable[lastPassed(t)].extra + conversionTable[1].extra

\* The extra seconds of the last of them.
leapSecond(t) ==
    IF passed(t) = {} THEN 0 ELSE conversionTable[lastPassed(t)].extra

convertDateToTai64(time) == <<time + leapSecond(time), 0>>

\* Adds the leap seconds once more.
convertTwice(label) == label[1] + leapSecond(label[1])

\* The table is asked about the unadjusted time; rest is cut off.
convertTai64ToTime(label) == label[1] - leapSecond(label[1])

Before(x, y) == x[1] < y[1] \/ (x[1] = y[1] /\ x[2] < y[2])

TaiInit == clock = 0

TaiTick == clock < MaxClock /\ clock' = clock + 1

TaiSpec == TaiInit /\ [][TaiTick]_clock

----------------------------------------------------------------------------
\* A time that goes through a label comes back the same or earlier, and by no
\* more than one entry of the table adds.  The tests of the conversions expect
\* it to come back the same.
RoundTrip ==
    LET back == convertTai64ToTime(convertDateToTai64(clock))
    IN  back \in clock - MaxJump .. clock

\* The time read from a label may run backwards, after an entry, but by less
\* than what the entry adds.
SmallSetback ==
    \A x \in 0 .. clock, r, s \in Rest :
        Before(<<x, r>>, <<clock, s>>) =>
            convertTai64ToTime(<<x, r>>) < convertTai64ToTime(<<clock, s>>) + MaxJump
=============================================================================
