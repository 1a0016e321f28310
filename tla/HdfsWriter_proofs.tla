-------------------------- MODULE HdfsWriter_proofs --------------------------
(***************************************************************************)
(* Proofs about barn-hdfs, for any number of service directories, any      *)
(* look-back, interval and minimum, and any schedule of the workers.       *)
(***************************************************************************)
EXTENDS HdfsWriter, Extrema_proofs

----------------------------------------------------------------------------
(* Days and extremes *)

LEMMA DayBounds ==
    ASSUME NEW t \in Int
    PROVE  /\ Day(t) \in Int
           /\ Day(t) * DayLen <= t /\ t < Day(t) * DayLen + DayLen
           /\ Midnight(t) \in Int
BY WriterAssumption, SMT DEF Day, Midnight

LEMMA DaysApart ==
    ASSUME NEW x \in Int, NEW y \in Int, x < y
    PROVE  x * DayLen + DayLen <= y * DayLen
<1>1. PICK k \in Nat : y = x + 1 + k
  <2>1. y - x - 1 \in Nat /\ y = x + 1 + (y - x - 1)
    OBVIOUS
  <2> QED
    BY <2>1
<1>2. y * DayLen = x * DayLen + DayLen + k * DayLen /\ k * DayLen >= 0
  BY <1>1, WriterAssumption
<1>3. /\ x * DayLen \in Int /\ y * DayLen \in Int /\ DayLen \in Int
      /\ k * DayLen \in Int
  BY <1>1, WriterAssumption
<1> QED
  BY <1>2, <1>3

LEMMA DaysAscend ==
    ASSUME NEW s \in Int, NEW t \in Int, s <= t
    PROVE  Day(s) <= Day(t)
<1> SUFFICES ASSUME Day(t) < Day(s) PROVE FALSE
  BY DayBounds
<1>1. /\ Day(s) \in Int /\ Day(s) * DayLen <= s
      /\ Day(t) \in Int /\ t < Day(t) * DayLen + DayLen
  BY DayBounds
<1>2. Day(t) * DayLen + DayLen <= Day(s) * DayLen
  BY <1>1, DaysApart
<1>3. Day(s) * DayLen \in Int /\ Day(t) * DayLen + DayLen \in Int
  BY <1>1, WriterAssumption
<1> QED
  BY <1>1, <1>2, <1>3

LEMMA DayIsNat ==
    ASSUME NEW t \in Nat
    PROVE  Day(t) \in Nat
BY WriterAssumption, SMT DEF Day

LEMMA NewestIs ==
    ASSUME NEW n \in Nat, NEW S, S \subseteq 0 .. n, S # {}
    PROVE  Newest(S) \in S /\ \A x \in S : x <= Newest(S)
BY GreatestExists DEF Newest

----------------------------------------------------------------------------
(* Type correctness *)

LEMMA PlacedTypes ==
    ASSUME TypeOK, NEW day
    PROVE  listHdfsFiles(day) \in [error : BOOLEAN, names : SUBSET (Service \X Time)]
<1>1. placed(day) \subseteq Service \X Time
  BY DEF placed, TypeOK, HdfsFile
<1>2. (~(hdfsUp /\ day \notin foreign)) \in BOOLEAN
  OBVIOUS
<1> QED
  BY <1>1, <1>2 DEF listHdfsFiles

\* What a worker learns from a listing is the time of a file, or nothing.
LEMMA LearnTypes ==
    ASSUME TypeOK, NEW d \in Dir, NEW found, LearnFrom(d, found),
           found \in [error : BOOLEAN, names : SUBSET (Service \X Time)]
    PROVE  /\ hdfsDirs' \in [Dir -> SUBSET Int]
           /\ lastTaistamp' \in [Dir -> {None} \cup Time]
           /\ pc' \in [Dir -> Pc]
           /\ pc'[d] \in {"look", "decide", "failed"}
           /\ \A e \in Dir : e # d => pc'[e] = pc[e]
<1> DEFINE taistamps == logsForService(d, found.names)
<1>1. taistamps \subseteq Time
  BY DEF logsForService
<1>2. MaxNow + Skew \in Nat /\ Time \subseteq 0 .. MaxNow + Skew
  BY WriterAssumption DEF Time
<1>3. taistamps # {} => Newest(taistamps) \in Time
  BY <1>1, <1>2, NewestIs
<1>4. hdfsDirs' \in [Dir -> SUBSET Int]
  BY DEF LearnFrom, TypeOK
<1>5. lastTaistamp' \in [Dir -> {None} \cup Time]
  BY <1>3 DEF LearnFrom, TypeOK
<1>6. \E label \in {"look", "decide", "failed"} : Goto(d, label)
  BY DEF LearnFrom
<1>7. /\ pc' \in [Dir -> Pc]
      /\ pc'[d] \in {"look", "decide", "failed"}
      /\ \A e \in Dir : e # d => pc'[e] = pc[e]
  BY <1>6 DEF Goto, TypeOK, Pc
<1> QED
  BY <1>4, <1>5, <1>7

LEMMA RoundTypes ==
    ASSUME TypeOK, NewRound, now' = now
    PROVE  /\ localFiles' \in [Dir -> SUBSET Named']
           /\ base' \in [Dir -> 0 .. Day(now)']
           /\ hdfsDirs' \in [Dir -> SUBSET Int]
           /\ lastTaistamp' \in [Dir -> {None} \cup Time]
           /\ candidates' \in [Dir -> SUBSET Named']
           /\ \A d \in Dir : candidates'[d] \subseteq localFiles'[d]
           /\ \A day \in DOMAIN hdfsListCache' : hdfsListCache'[day] \in
                 [error : BOOLEAN, names : SUBSET (Service \X Time)]
<1>1. Day(now)' = Day(now) /\ Day(now) \in Nat
  BY DayIsNat, WriterAssumption DEF TypeOK, Day
<1>2. DOMAIN hdfsListCache' = {}
  BY DEF NewRound
<1> QED
  BY <1>1, <1>2 DEF NewRound

LEMMA TargetTypes ==
    ASSUME TypeOK, NEW d \in Dir, candidates[d] # {}
    PROVE  /\ target(d) \in HdfsFile
           /\ target(d).taistamp \in candidates[d]
           /\ \A f \in candidates[d] : f <= target(d).taistamp
<1>1. now \in Nat /\ MaxNow \in Nat /\ now <= MaxNow
  BY WriterAssumption DEF TypeOK
<1>2. /\ candidates[d] \subseteq 0 .. now + Skew /\ now + Skew \in Nat
      /\ candidates[d] \subseteq Time
  BY <1>1, WriterAssumption DEF TypeOK, Named, Time
<1>3. /\ Newest(candidates[d]) \in candidates[d]
      /\ \A f \in candidates[d] : f <= Newest(candidates[d])
  BY <1>2, NewestIs
<1>4. base[d] \in 0 .. Day(MaxNow)
  <2>1. Day(now) <= Day(MaxNow) /\ Day(now) \in Nat /\ Day(MaxNow) \in Nat
    BY <1>1, DaysAscend, DayIsNat
  <2> QED
    BY <2>1 DEF TypeOK
<1>5. decodeServiceInfo(d) \in Service
  BY DEF Service
<1>6. concatCandidates(d) \subseteq Dir \X Time
  BY <1>2 DEF concatCandidates
<1> QED
  BY <1>2, <1>3, <1>4, <1>5, <1>6 DEF target, HdfsFile

LEMMA SameNow ==
    ASSUME now' = now
    PROVE  Named' = Named /\ Day(now)' = Day(now)
BY DEF Named, Day

LEMMA TypeStep == TypeOK /\ BatchIsOutstanding /\ [Next]_vars => TypeOK'
<1> SUFFICES ASSUME TypeOK, BatchIsOutstanding, [Next]_vars PROVE TypeOK'
  OBVIOUS
<1> USE DEF TypeOK, diskVars, hdfsVars, workerVars
<1>1. CASE Tick
  <2>1. /\ now' \in 1 .. MaxNow /\ Named \subseteq Named'
    BY <1>1, WriterAssumption DEF Tick, Named
  <2>2. /\ Day(now) \in Nat /\ Day(now)' \in Nat /\ Day(now) <= Day(now)'
    <3>1. now \in Int /\ now + 1 \in Int /\ now <= now + 1 /\ now \in Nat
      BY WriterAssumption
    <3>2. Day(now)' = Day(now + 1)
      BY <1>1 DEF Tick, Day
    <3> QED
      BY <3>1, <3>2, DaysAscend, DayIsNat
  <2>3. foreign' \subseteq 0 .. Day(now)' /\ base' \in [Dir -> 0 .. Day(now)']
    <3>1. 0 .. Day(now) \subseteq 0 .. Day(now)'
      BY <2>2
    <3> QED
      BY <1>1, <3>1 DEF Tick
  <2> QED
    BY <1>1, <2>1, <2>3 DEF Tick
<1>2. CASE HdfsChange
  BY <1>2, SameNow DEF HdfsChange
<1>3. CASE ForeignFile
  <2>1. foreign' \subseteq foreign \cup {Day(now)}
    BY <1>3 DEF ForeignFile
  <2>2. Day(now) \in 0 .. Day(now)
    <3>1. Day(now) \in Nat
      BY DayIsNat, WriterAssumption
    <3> QED
      BY <3>1
  <2>3. foreign' \subseteq 0 .. Day(now)
    BY <2>1, <2>2
  <2> QED
    BY <1>3, <2>3, SameNow DEF ForeignFile
<1>4. CASE Crash
  <2>1. pc' \in [Dir -> Pc] /\ crashes' \in 0 .. MaxCrashes /\ now' = now
    BY <1>4, WriterAssumption DEF Crash, Pc
  <2> QED
    BY <1>4, <2>1, RoundTypes, SameNow DEF Crash
<1>5. CASE StartRound
  <2>1. pc' \in [Dir -> Pc] /\ now' = now
    BY <1>5 DEF StartRound, Pc
  <2> QED
    BY <1>5, <2>1, RoundTypes, SameNow DEF StartRound
<1>6. ASSUME NEW d \in Dir, Arrive(d) PROVE TypeOK'
  BY <1>6, SameNow DEF Arrive
<1>7. ASSUME NEW d \in Dir, ListLocal(d) PROVE TypeOK'
  <2>1. candidates[d] = {}
    BY <1>7 DEF ListLocal, BatchIsOutstanding
  <2>2. Day(now) \in Nat
    BY DayIsNat, WriterAssumption
  <2>3. targetDirs(earliestLookbackDate(dir[d])) \subseteq Int
    BY <2>2 DEF targetDirs
  <2>4. pc' \in [Dir -> Pc]
    BY <1>7 DEF ListLocal, Goto, Pc
  <2>5. \A e \in Dir : candidates'[e] \subseteq localFiles'[e]
    BY <1>7, <2>1 DEF ListLocal
  <2>6. /\ localFiles' \in [Dir -> SUBSET Named]
        /\ hdfsDirs' \in [Dir -> SUBSET Int]
    BY <1>7, <2>3 DEF ListLocal
  <2>7. base' \in [Dir -> 0 .. Day(now)]
    BY <1>7, <2>2 DEF ListLocal
  <2> QED
    BY <1>7, <2>4, <2>5, <2>6, <2>7, SameNow DEF ListLocal
<1>8. ASSUME NEW d \in Dir, UseCache(d) PROVE TypeOK'
  BY <1>8, LearnTypes, SameNow DEF UseCache
<1>9. ASSUME NEW d \in Dir, MissCache(d) PROVE TypeOK'
  BY <1>9, SameNow DEF MissCache, Goto, Pc
<1>10. ASSUME NEW d \in Dir, ListDay(d) PROVE TypeOK'
  <2> DEFINE found == listHdfsFiles(Newest(hdfsDirs[d]))
  <2>1. found \in [error : BOOLEAN, names : SUBSET (Service \X Time)]
    BY PlacedTypes
  <2>2. LearnFrom(d, found)
    BY <1>10 DEF ListDay
  <2>3. \A day \in DOMAIN hdfsListCache' : hdfsListCache'[day] \in
           [error : BOOLEAN, names : SUBSET (Service \X Time)]
    BY <1>10, <2>1 DEF ListDay
  <2> HIDE DEF found
  <2> QED
    BY <1>10, <2>1, <2>2, <2>3, LearnTypes, SameNow DEF ListDay
<1>11. ASSUME NEW d \in Dir, DecideToShip(d) PROVE TypeOK'
  <2>1. outstandingFiles(d) \subseteq localFiles[d]
    BY DEF outstandingFiles
  <2>2. pc' \in [Dir -> Pc]
    BY <1>11 DEF DecideToShip, Goto, Pc
  <2>3. /\ candidates' \in [Dir -> SUBSET Named]
        /\ \A e \in Dir : candidates'[e] \subseteq localFiles[e]
    BY <1>11, <2>1 DEF DecideToShip
  <2> QED
    BY <1>11, <2>2, <2>3, SameNow DEF DecideToShip
<1>12. ASSUME NEW d \in Dir, Throw(d) PROVE TypeOK'
  BY <1>12, SameNow DEF Throw, Pc
<1>13. ASSUME NEW d \in Dir, CopyToTemp(d) PROVE TypeOK'
  BY <1>13, SameNow DEF CopyToTemp, Goto, Pc
<1>14. ASSUME NEW d \in Dir, Rename(d) PROVE TypeOK'
  <2>1. candidates[d] # {}
    BY <1>14 DEF Rename, BatchIsOutstanding
  <2>2. hdfs' \subseteq HdfsFile
    BY <1>14, <2>1, TargetTypes DEF Rename
  <2>3. pc' \in [Dir -> Pc]
    BY <1>14 DEF Rename, Goto, Pc
  <2> QED
    BY <1>14, <2>2, <2>3, SameNow DEF Rename
<1>15. ASSUME NEW d \in Dir, NEW limit, FinishWith(d, limit) PROVE TypeOK'
  BY <1>15, SameNow DEF FinishWith, Goto, Pc
<1>16. CASE UNCHANGED vars
  BY <1>16, SameNow DEF vars
<1> QED
  BY <1>1, <1>2, <1>3, <1>4, <1>5, <1>6, <1>7, <1>8, <1>9, <1>10, <1>11, <1>12,
     <1>13, <1>14, <1>15, <1>16 DEF Next, Worker, CleanupShipped, CleanupOld

----------------------------------------------------------------------------
(* What a step leaves alone *)

\* Time passes, and what has happened stays.
LEMMA HistoryGrows ==
    ASSUME TypeOK, [Next]_vars
    PROVE  /\ now <= now' /\ shippingLimit <= shippingLimit'
           /\ now \in Int /\ now' \in Int
           /\ shippingLimit \in Int /\ shippingLimit' \in Int
           /\ hdfs \subseteq hdfs'
           /\ \A d \in Dir : arrived[d] \subseteq arrived'[d]
<1>1. /\ now' = now \/ now' = now + 1
      /\ hdfs \subseteq hdfs'
      /\ \A d \in Dir : arrived[d] \subseteq arrived'[d]
  <2>1. CASE Tick \/ HdfsChange \/ ForeignFile \/ Crash \/ StartRound
    BY <2>1 DEF Tick, HdfsChange, ForeignFile, Crash, StartRound, diskVars, hdfsVars
  <2>2. ASSUME NEW d \in Dir, Arrive(d)
        PROVE  <1>1!1 /\ <1>1!2 /\ <1>1!3
    BY <2>2 DEF Arrive, TypeOK, hdfsVars
  <2>3. ASSUME NEW d \in Dir, Worker(d)
        PROVE  <1>1!1 /\ <1>1!2 /\ <1>1!3
    BY <2>3 DEF Worker, ListLocal, UseCache, MissCache, ListDay, DecideToShip,
                Throw, CopyToTemp, Rename, CleanupShipped, CleanupOld, FinishWith,
                diskVars, hdfsVars
  <2>4. CASE UNCHANGED vars
    BY <2>4 DEF vars, diskVars, hdfsVars
  <2> QED
    BY <2>1, <2>2, <2>3, <2>4 DEF Next
<1>2. now \in Int /\ now' \in Int /\ now <= now'
  BY <1>1 DEF TypeOK
<1> DEFINE back == (maxLookBackDays + 1) * DayLen
<1>3. back \in Int
  BY WriterAssumption
<1>4. Day(now - back) <= Day(now' - back) /\ Day(now - back) \in Int
      /\ Day(now' - back) \in Int
  BY <1>2, <1>3, DaysAscend, DayBounds
<1>5. Midnight(now - back) <= Midnight(now' - back)
  <2>1. CASE Day(now - back) = Day(now' - back)
    BY <2>1, <1>2, <1>3, DayBounds DEF Midnight
  <2>2. CASE Day(now - back) < Day(now' - back)
    <3> DEFINE x == Day(now - back)  y == Day(now' - back)
    <3>1. x * DayLen + DayLen <= y * DayLen
      BY <1>4, <2>2, DaysApart
    <3>2. x \in Int /\ y \in Int
      BY <1>4
    <3> HIDE DEF x, y
    <3>3. x * DayLen <= y * DayLen
      BY <3>1, <3>2, WriterAssumption
    <3> QED
      BY <3>3 DEF x, y, Midnight
  <2> QED
    BY <1>4, <2>1, <2>2
<1>6. shippingLimit \in Int /\ shippingLimit' \in Int
  BY <1>2, <1>3, DayBounds DEF shippingLimit, Midnight, Day
<1>7. shippingLimit <= shippingLimit'
  BY <1>5 DEF shippingLimit, Midnight, Day
<1> QED
  BY <1>1, <1>2, <1>6, <1>7

LEMMA ShippedStays ==
    ASSUME TypeOK, [Next]_vars, NEW d, NEW f, Shipped(d, f)
    PROVE  Shipped(d, f)'
BY HistoryGrows DEF Shipped

\* A worker has its own state, but for an exception that ends the round of all.
LEMMA OthersUntouched ==
    ASSUME TypeOK, NEW d \in Dir, Worker(d), NEW e \in Dir, e # d
    PROVE  /\ pc'[e] \in {pc[e], "idle"}
           /\ localFiles'[e] = localFiles[e] /\ lastTaistamp'[e] = lastTaistamp[e]
           /\ candidates'[e] = candidates[e] /\ dir'[e] = dir[e]
BY DEF Worker, ListLocal, UseCache, MissCache, ListDay, LearnFrom, DecideToShip,
       Throw, CopyToTemp, Rename, CleanupShipped, CleanupOld, FinishWith, Goto,
       TypeOK, diskVars

----------------------------------------------------------------------------
(* A batch is what is outstanding *)

BatchOf(d) ==
    /\ pc[d] \in {"list", "look", "ls", "decide"} => candidates[d] = {}
    /\ pc[d] \in {"copy", "rename", "cleanup"} =>
          /\ candidates[d] # {}
          /\ \A f \in localFiles[d] :
                f \in candidates[d] \/ f <= lastTaistamp[d] \/ f < shippingLimit
    /\ pc[d] = "cleanup" => \A f \in candidates[d] : Shipped(d, f)

\* It stays so as long as the worker keeps its plan.
LEMMA BatchKept ==
    ASSUME TypeOK, [Next]_vars, NEW e \in Dir, BatchOf(e),
           pc'[e] \in {pc[e], "idle"} \/ (pc[e] = "copy" /\ pc'[e] = "rename"),
           localFiles'[e] = localFiles[e], lastTaistamp'[e] = lastTaistamp[e],
           candidates'[e] = candidates[e]
    PROVE  BatchOf(e)'
<1>1. shippingLimit <= shippingLimit'
      /\ shippingLimit \in Int /\ shippingLimit' \in Int
  BY HistoryGrows
<1>2. \A f \in candidates[e] : Shipped(e, f) => Shipped(e, f)'
  BY ShippedStays
<1>3. localFiles[e] \subseteq Int
  BY DEF TypeOK, Named
<1> QED
  BY <1>1, <1>2, <1>3 DEF BatchOf

LEMMA BatchStep == TypeOK /\ BatchIsOutstanding /\ [Next]_vars => BatchIsOutstanding'
<1> SUFFICES ASSUME TypeOK, BatchIsOutstanding, [Next]_vars, NEW e \in Dir
             PROVE  BatchOf(e)'
  BY DEF BatchIsOutstanding, BatchOf
<1>0. BatchOf(e)
  BY DEF BatchIsOutstanding, BatchOf
<1>1. CASE Tick \/ HdfsChange \/ ForeignFile
  BY <1>0, <1>1, BatchKept DEF Tick, HdfsChange, ForeignFile, workerVars
<1>2. CASE Crash \/ StartRound
  BY <1>2 DEF Crash, StartRound, NewRound, BatchOf
<1>3. ASSUME NEW d \in Dir, Arrive(d) PROVE BatchOf(e)'
  BY <1>0, <1>3, BatchKept DEF Arrive, workerVars
<1>4. ASSUME NEW d \in Dir, Worker(d), d # e PROVE BatchOf(e)'
  BY <1>0, <1>4, BatchKept, OthersUntouched
<1>5. CASE ListLocal(e) \/ UseCache(e) \/ MissCache(e) \/ ListDay(e)
  BY <1>0, <1>5 DEF ListLocal, UseCache, MissCache, ListDay, LearnFrom, Goto,
                    BatchOf, TypeOK
<1>6. CASE DecideToShip(e)
  <2>1. \/ /\ pc'[e] = "copy" /\ candidates'[e] = outstandingFiles(e)
           /\ outstandingFiles(e) # {}
        \/ pc'[e] = "failed"
    BY <1>6 DEF DecideToShip, Goto, TypeOK
  <2>2. /\ localFiles'[e] = localFiles[e] /\ lastTaistamp'[e] = lastTaistamp[e]
        /\ shippingLimit' = shippingLimit
    BY <1>6 DEF DecideToShip, shippingLimit, Midnight, Day
  <2>3. ASSUME NEW f \in localFiles[e]
        PROVE  f \in outstandingFiles(e) \/ f <= lastTaistamp[e] \/ f < shippingLimit
    <3>1. f \in Int /\ lastTaistamp[e] \in Int /\ shippingLimit \in Int
      BY HistoryGrows DEF TypeOK, Named, None, Time
    <3> QED
      BY <3>1 DEF outstandingFiles
  <2> QED
    BY <2>1, <2>2, <2>3 DEF BatchOf
<1>7. CASE Throw(e)
  BY <1>0, <1>7, BatchKept DEF Throw
<1>8. CASE CopyToTemp(e)
  <2>1. CASE pc'[e] = "rename"
    BY <1>0, <1>8, <2>1, BatchKept DEF CopyToTemp
  <2>2. CASE pc'[e] = "failed"
    BY <2>2 DEF BatchOf
  <2> QED
    BY <1>8, <2>1, <2>2 DEF CopyToTemp, Goto, TypeOK
<1>9. CASE Rename(e)
  <2>1. CASE pc'[e] = "failed"
    BY <2>1 DEF BatchOf
  <2>2. CASE pc'[e] = "cleanup"
    <3>1. /\ hdfs' = hdfs \cup {target(e)} /\ pc[e] = "rename"
          /\ candidates'[e] = candidates[e] /\ localFiles'[e] = localFiles[e]
          /\ lastTaistamp'[e] = lastTaistamp[e] /\ shippingLimit' = shippingLimit
      BY <1>9, <2>2 DEF Rename, Goto, TypeOK, shippingLimit, Midnight, Day
    <3>2. target(e).content = {e} \X candidates[e]
      BY DEF target, concatCandidates
    <3>3. ASSUME NEW f \in candidates[e] PROVE Shipped(e, f)'
      <4>1. target(e) \in hdfs' /\ <<e, f>> \in target(e).content
        BY <3>1, <3>2
      <4> QED
        BY <4>1 DEF Shipped
    <3> QED
      BY <1>0, <2>2, <3>1, <3>3 DEF BatchOf
  <2> QED
    BY <1>9, <2>1, <2>2 DEF Rename, Goto, TypeOK
<1>10. CASE CleanupShipped(e) \/ CleanupOld(e)
  BY <1>0, <1>10 DEF CleanupShipped, CleanupOld, FinishWith, Goto, BatchOf, TypeOK
<1>11. CASE UNCHANGED vars
  BY <1>0, <1>11, BatchKept DEF vars, workerVars
<1> QED
  BY <1>1, <1>2, <1>3, <1>4, <1>5, <1>6, <1>7, <1>8, <1>9, <1>10, <1>11
     DEF Next, Worker

LEMMA TypeInductive ==
    /\ Init => TypeOK /\ BatchIsOutstanding
    /\ TypeOK /\ BatchIsOutstanding /\ [Next]_vars => (TypeOK /\ BatchIsOutstanding)'
<1>1. ASSUME Init PROVE TypeOK /\ BatchIsOutstanding
  <2>1. now \in 1 .. MaxNow /\ now \in Nat
    BY <1>1, WriterAssumption DEF Init
  <2>2. 0 \in 0 .. Day(now)
    BY <2>1, DayIsNat
  <2> QED
    BY <1>1, <2>1, <2>2, WriterAssumption DEF Init, TypeOK, BatchIsOutstanding, Pc, None
<1> QED
  BY <1>1, TypeStep, BatchStep

\* Every variable keeps its type (main.scala and hdfs.scala: the files a worker
\* ships are among those it listed, and its target names the newest of them).
THEOREM WriterTypeCorrect == Spec => []TypeOK
BY TypeInductive, PTL DEF Spec

----------------------------------------------------------------------------
(* Directories, listings and deliveries *)

\* Only agents and the two cleanups change a directory.
LEMMA DirChanges ==
    [Next]_vars =>
        \/ \E d \in Dir : Arrive(d) \/ CleanupShipped(d) \/ CleanupOld(d)
        \/ UNCHANGED <<dir, arrived>>
<1> SUFFICES ASSUME [Next]_vars,
                    ~ \E d \in Dir : Arrive(d) \/ CleanupShipped(d) \/ CleanupOld(d)
             PROVE  UNCHANGED <<dir, arrived>>
  OBVIOUS
<1>1. CASE Tick \/ HdfsChange \/ ForeignFile \/ Crash \/ StartRound
  BY <1>1 DEF Tick, HdfsChange, ForeignFile, Crash, StartRound, diskVars
<1>2. ASSUME NEW d \in Dir, Worker(d) PROVE UNCHANGED <<dir, arrived>>
  BY <1>2 DEF Worker, ListLocal, UseCache, MissCache, ListDay, DecideToShip,
              Throw, CopyToTemp, Rename, diskVars
<1>3. CASE UNCHANGED vars
  BY <1>3 DEF vars, diskVars
<1> QED
  BY <1>1, <1>2, <1>3 DEF Next

\* Only a rename changes what is on HDFS.
LEMMA HdfsChanges ==
    [Next]_vars =>
        \/ \E d \in Dir : Rename(d) /\ hdfs' = hdfs \cup {target(d)}
        \/ hdfs' = hdfs
<1> SUFFICES ASSUME [Next]_vars, hdfs' # hdfs
             PROVE  \E d \in Dir : Rename(d) /\ hdfs' = hdfs \cup {target(d)}
  OBVIOUS
<1>1. ~ (Tick \/ HdfsChange \/ ForeignFile \/ Crash \/ StartRound)
  BY DEF Tick, HdfsChange, ForeignFile, Crash, StartRound, hdfsVars
<1>2. ~ UNCHANGED vars
  BY DEF vars, hdfsVars
<1>3. PICK d \in Dir : Arrive(d) \/ Worker(d)
  BY <1>1, <1>2 DEF Next
<1>4. Rename(d)
  BY <1>3 DEF Arrive, Worker, ListLocal, UseCache, MissCache, ListDay,
              DecideToShip, Throw, CopyToTemp, CleanupShipped, CleanupOld,
              FinishWith, hdfsVars
<1>5. hdfs' = hdfs \cup {target(d)}
  BY <1>4 DEF Rename
<1> QED
  BY <1>4, <1>5

\* Only its own worker ships a file, and only out of its batch.
LEMMA ShippedChanges ==
    ASSUME [Next]_vars, NEW e, NEW f, Shipped(e, f)', ~Shipped(e, f)
    PROVE  /\ e \in Dir /\ Rename(e) /\ pc[e] = "rename" /\ f \in candidates[e]
           /\ hdfs' = hdfs \cup {target(e)}
           /\ now' = now /\ dir' = dir /\ arrived' = arrived
<1>1. PICK r \in hdfs' : <<e, f>> \in r.content /\ r \notin hdfs
  BY DEF Shipped
<1>2. PICK d \in Dir : Rename(d) /\ hdfs' = hdfs \cup {target(d)}
  BY <1>1, HdfsChanges
<1>3. <<e, f>> \in {d} \X candidates[d]
  BY <1>1, <1>2 DEF target, concatCandidates
<1>4. e = d /\ f \in candidates[d]
  BY <1>3
<1> QED
  BY <1>2, <1>4 DEF Rename, diskVars

\* A rename ships all of the batch.
LEMMA RenameShips ==
    ASSUME NEW d \in Dir, hdfs' = hdfs \cup {target(d)}
    PROVE  \A f \in candidates[d] : Shipped(d, f)'
<1>1. target(d).content = {d} \X candidates[d]
  BY DEF target, concatCandidates
<1>2. ASSUME NEW f \in candidates[d] PROVE Shipped(d, f)'
  <2>1. target(d) \in hdfs' /\ <<d, f>> \in target(d).content
    BY <1>1
  <2> QED
    BY <2>1 DEF Shipped
<1> QED
  BY <1>2

ListingOf(d) == pc[d] \notin {"idle", "list"} =>
    /\ localFiles[d] \subseteq dir[d]
    /\ \A f \in dir[d], g \in localFiles[d] : f <= g => f \in localFiles[d]

LEMMA ListingStep ==
    TypeOK /\ DeliveredFirst /\ ListingIsWhole /\ [Next]_vars => ListingIsWhole'
<1> SUFFICES ASSUME TypeOK, DeliveredFirst, ListingIsWhole, [Next]_vars,
                    NEW e \in Dir
             PROVE  ListingOf(e)'
  BY DEF ListingIsWhole, ListingOf
<1>0. ListingOf(e)
  BY DEF ListingIsWhole, ListingOf
<1>1. CASE Tick \/ HdfsChange \/ ForeignFile \/ UNCHANGED vars
  BY <1>0, <1>1 DEF Tick, HdfsChange, ForeignFile, vars, workerVars, diskVars,
                    ListingOf
<1>2. CASE Crash \/ StartRound
  BY <1>2 DEF Crash, StartRound, ListingOf
<1>3. ASSUME NEW d \in Dir, Arrive(d) PROVE ListingOf(e)'
  <2>1. PICK f \in Named :
           /\ \A g \in arrived[d] : g < f
           /\ dir' = [dir EXCEPT ![d] = @ \cup {f}]
    BY <1>3 DEF Arrive
  <2>2. pc' = pc /\ localFiles' = localFiles
    BY <1>3 DEF Arrive, workerVars
  <2>3. CASE e = d
    <3>1. dir'[e] = dir[e] \cup {f}
      BY <2>1, <2>3 DEF TypeOK
    <3>2. ASSUME pc[e] \notin {"idle", "list"}, NEW g \in localFiles[e]
          PROVE  ~ (f <= g)
      <4>1. g \in arrived[d] /\ g \in Int /\ f \in Int
        BY <1>0, <2>3, <3>2 DEF ListingOf, DeliveredFirst, TypeOK, Named
      <4> QED
        BY <2>1, <4>1
    <3> QED
      BY <1>0, <2>2, <3>1, <3>2 DEF ListingOf
  <2>4. CASE e # d
    BY <1>0, <2>1, <2>2, <2>4 DEF ListingOf, TypeOK
  <2> QED
    BY <2>3, <2>4
<1>4. ASSUME NEW d \in Dir, Worker(d), d # e PROVE ListingOf(e)'
  BY <1>0, <1>4, OthersUntouched DEF ListingOf
<1>5. CASE ListLocal(e)
  BY <1>5 DEF ListLocal, ListingOf, diskVars, TypeOK
<1>6. CASE UseCache(e) \/ MissCache(e) \/ ListDay(e) \/ DecideToShip(e)
           \/ CopyToTemp(e) \/ Rename(e)
  <2>1. localFiles' = localFiles /\ dir' = dir /\ pc[e] \notin {"idle", "list"}
    BY <1>6 DEF UseCache, MissCache, ListDay, DecideToShip, CopyToTemp, Rename,
                diskVars
  <2> QED
    BY <1>0, <2>1 DEF ListingOf
<1>7. CASE Throw(e)
  BY <1>7 DEF Throw, ListingOf, TypeOK
<1>8. CASE CleanupShipped(e) \/ CleanupOld(e)
  BY <1>8 DEF CleanupShipped, CleanupOld, FinishWith, Goto, ListingOf, TypeOK
<1> QED
  BY <1>1, <1>2, <1>3, <1>4, <1>5, <1>6, <1>7, <1>8 DEF Next, Worker

LEMMA DeliveredStep ==
    TypeOK /\ ListingIsWhole /\ DeliveredFirst /\ [Next]_vars => DeliveredFirst'
<1> SUFFICES ASSUME TypeOK, ListingIsWhole, DeliveredFirst, [Next]_vars,
                    NEW e \in Dir
             PROVE  /\ dir'[e] \subseteq arrived'[e]
                    /\ \A f \in Time : Shipped(e, f)' => f \in arrived'[e]
  BY DEF DeliveredFirst
<1>1. dir'[e] \subseteq arrived'[e]
  <2>1. ASSUME NEW d \in Dir, Arrive(d) PROVE dir'[e] \subseteq arrived'[e]
    BY <2>1 DEF Arrive, DeliveredFirst, TypeOK
  <2>2. ASSUME NEW d \in Dir, CleanupShipped(d) \/ CleanupOld(d)
        PROVE  dir'[e] \subseteq arrived'[e]
    BY <2>2 DEF CleanupShipped, CleanupOld, FinishWith, DeliveredFirst, TypeOK
  <2> QED
    BY <2>1, <2>2, DirChanges DEF DeliveredFirst
<1>2. ASSUME NEW f \in Time, Shipped(e, f)' PROVE f \in arrived'[e]
  <2>1. CASE Shipped(e, f)
    BY <2>1, HistoryGrows DEF DeliveredFirst
  <2>2. CASE ~Shipped(e, f)
    <3>1. pc[e] = "rename" /\ f \in candidates[e] /\ arrived' = arrived
      BY <1>2, <2>2, ShippedChanges
    <3>2. f \in localFiles[e]
      BY <3>1 DEF TypeOK
    <3> QED
      BY <3>1, <3>2 DEF ListingIsWhole, DeliveredFirst
  <2> QED
    BY <2>1, <2>2
<1> QED
  BY <1>1, <1>2

----------------------------------------------------------------------------
(* What the names on HDFS tell *)

\* A listing of HDFS names only what has been shipped.
LEMMA FoundIsShipped ==
    ASSUME NamesAreShipped, NEW d \in Dir, NEW day,
           NEW f \in logsForService(d, listHdfsFiles(day).names)
    PROVE  Shipped(d, f)
<1>1. PICK n \in listHdfsFiles(day).names : n[1] = decodeServiceInfo(d) /\ n[2] = f
  BY DEF logsForService
<1>2. n \in placed(day)
  BY <1>1 DEF listHdfsFiles
<1>3. PICK r \in hdfs : n = <<r.svc, r.taistamp>>
  BY <1>2 DEF placed
<1>4. r.svc = decodeServiceInfo(d) /\ r.taistamp = f
  BY <1>1, <1>3
<1> QED
  BY <1>4 DEF NamesAreShipped

\* So does what a worker learns from it.
LEMMA LearnsShipped ==
    ASSUME TypeOK, NamesAreShipped, NEW d \in Dir, NEW found, LearnFrom(d, found),
           found \in [error : BOOLEAN, names : SUBSET (Service \X Time)],
           \A f \in logsForService(d, found.names) : Shipped(d, f),
           NEW e \in Dir, lastTaistamp'[e] # None
    PROVE  Shipped(e, lastTaistamp'[e])
<1> DEFINE taistamps == logsForService(d, found.names)
<1>1. taistamps \subseteq 0 .. MaxNow + Skew /\ MaxNow + Skew \in Nat
  BY WriterAssumption DEF logsForService, Time
<1>2. CASE lastTaistamp' = lastTaistamp
  BY <1>2 DEF NamesAreShipped
<1>3. CASE /\ taistamps # {}
           /\ lastTaistamp' = [lastTaistamp EXCEPT ![d] = Newest(taistamps)]
  <2>1. Newest(taistamps) \in taistamps
    BY <1>1, <1>3, NewestIs
  <2>2. Shipped(d, Newest(taistamps))
    BY <2>1
  <2>3. CASE e = d
    <3>1. lastTaistamp'[e] = Newest(taistamps)
      BY <1>3, <2>3 DEF TypeOK
    <3> QED
      BY <2>2, <2>3, <3>1
  <2>4. CASE e # d
    <3>1. lastTaistamp'[e] = lastTaistamp[e]
      BY <1>3, <2>4 DEF TypeOK
    <3> QED
      BY <3>1 DEF NamesAreShipped
  <2> QED
    BY <2>3, <2>4
<1> QED
  BY <1>2, <1>3 DEF LearnFrom

LEMMA NamesStep ==
    ASSUME DistinctNames
    PROVE  TypeOK /\ BatchIsOutstanding /\ NamesAreShipped /\ [Next]_vars
              => NamesAreShipped'
<1> SUFFICES ASSUME TypeOK, BatchIsOutstanding, NamesAreShipped, [Next]_vars,
                    NEW e \in Dir
             PROVE  /\ \A r \in hdfs' :
                          r.svc = decodeServiceInfo(e) => Shipped(e, r.taistamp)'
                    /\ \A day \in DOMAIN hdfsListCache' :
                          \A f \in logsForService(e, hdfsListCache'[day].names) :
                             Shipped(e, f)'
                    /\ lastTaistamp'[e] # None => Shipped(e, lastTaistamp[e])'
  BY DEF NamesAreShipped, logsForService, decodeServiceInfo
<1>1. ASSUME NEW r \in hdfs', r.svc = decodeServiceInfo(e)
      PROVE  Shipped(e, r.taistamp)'
  <2>1. CASE r \in hdfs
    <3>1. Shipped(e, r.taistamp)
      BY <1>1, <2>1 DEF NamesAreShipped
    <3> QED
      BY <3>1, HistoryGrows DEF Shipped
  <2>2. CASE r \notin hdfs
    <3>1. PICK d \in Dir : Rename(d) /\ hdfs' = hdfs \cup {target(d)}
      BY <2>2, HdfsChanges
    <3>2. r = target(d)
      BY <2>2, <3>1
    <3>3. d = e
      BY <1>1, <3>2 DEF target, DistinctNames
    <3>4. candidates[e] # {}
      BY <3>1, <3>3 DEF Rename, BatchIsOutstanding
    <3>5. r.taistamp \in candidates[e]
      BY <3>2, <3>3, <3>4, TargetTypes
    <3>6. \A f \in candidates[e] : \E x \in hdfs' : <<e, f>> \in x.content
      BY <3>1, <3>3, RenameShips DEF Shipped
    <3> QED
      BY <3>5, <3>6 DEF Shipped, Rename
  <2> QED
    BY <2>1, <2>2
<1>2. ASSUME NEW day \in DOMAIN hdfsListCache',
             NEW f \in logsForService(e, hdfsListCache'[day].names)
      PROVE  Shipped(e, f)'
  <2>1. CASE hdfsListCache' = hdfsListCache
    <3>1. Shipped(e, f)
      BY <1>2, <2>1 DEF NamesAreShipped
    <3> QED
      BY <3>1, ShippedStays
  <2>2. CASE NewRound
    BY <1>2, <2>2 DEF NewRound
  <2>3. ASSUME NEW d \in Dir, ListDay(d) PROVE Shipped(e, f)'
    <3> DEFINE new == Newest(hdfsDirs[d])
    <3>1. hdfsListCache' = [x \in DOMAIN hdfsListCache \cup {new} |->
             IF x = new THEN listHdfsFiles(new) ELSE hdfsListCache[x]]
      BY <2>3 DEF ListDay
    <3> HIDE DEF new
    <3>2. Shipped(e, f)
      <4>1. CASE day = new
        <5>1. hdfsListCache'[day] = listHdfsFiles(day)
          BY <1>2, <3>1, <4>1
        <5> QED
          BY <1>2, <5>1, FoundIsShipped
      <4>2. CASE day # new
        <5>1. day \in DOMAIN hdfsListCache /\ hdfsListCache'[day] = hdfsListCache[day]
          BY <1>2, <3>1, <4>2
        <5> QED
          BY <1>2, <5>1 DEF NamesAreShipped
      <4> QED
        BY <4>1, <4>2
    <3> QED
      BY <3>2, ShippedStays
  <2>4. hdfsListCache' = hdfsListCache \/ NewRound \/ \E d \in Dir : ListDay(d)
    BY DEF Next, Tick, HdfsChange, ForeignFile, Crash, StartRound, Arrive, Worker,
           ListLocal, UseCache, MissCache, DecideToShip, Throw, CopyToTemp,
           Rename, CleanupShipped, CleanupOld, FinishWith, vars
  <2> QED
    BY <2>1, <2>2, <2>3, <2>4
<1>3. ASSUME lastTaistamp'[e] # None PROVE Shipped(e, lastTaistamp[e])'
  <2>0. Shipped(e, lastTaistamp'[e]) => Shipped(e, lastTaistamp[e])'
    BY HistoryGrows DEF Shipped
  <2>1. CASE lastTaistamp' = lastTaistamp
    BY <1>3, <2>0, <2>1 DEF NamesAreShipped
  <2>2. CASE NewRound
    BY <1>3, <2>2 DEF NewRound
  <2>3. ASSUME NEW d \in Dir, UseCache(d) PROVE Shipped(e, lastTaistamp[e])'
    <3> DEFINE found == hdfsListCache[Newest(hdfsDirs[d])]
    <3>1. /\ LearnFrom(d, found)
          /\ found \in [error : BOOLEAN, names : SUBSET (Service \X Time)]
          /\ \A f \in logsForService(d, found.names) : Shipped(d, f)
      BY <2>3 DEF UseCache, TypeOK, NamesAreShipped
    <3> HIDE DEF found
    <3> QED
      BY <1>3, <2>0, <3>1, LearnsShipped
  <2>4. ASSUME NEW d \in Dir, ListDay(d) PROVE Shipped(e, lastTaistamp[e])'
    <3> DEFINE found == listHdfsFiles(Newest(hdfsDirs[d]))
    <3>1. /\ LearnFrom(d, found)
          /\ found \in [error : BOOLEAN, names : SUBSET (Service \X Time)]
          /\ \A f \in logsForService(d, found.names) : Shipped(d, f)
      BY <2>4, PlacedTypes, FoundIsShipped DEF ListDay
    <3> HIDE DEF found
    <3> QED
      BY <1>3, <2>0, <3>1, LearnsShipped
  <2>5. \/ lastTaistamp' = lastTaistamp \/ NewRound
        \/ \E d \in Dir : UseCache(d) \/ ListDay(d)
    BY DEF Next, Tick, HdfsChange, ForeignFile, Crash, StartRound, Arrive, Worker,
           ListLocal, MissCache, DecideToShip, Throw, CopyToTemp, Rename,
           CleanupShipped, CleanupOld, FinishWith, vars, workerVars
  <2> QED
    BY <2>1, <2>2, <2>3, <2>4, <2>5
<1> QED
  BY <1>1, <1>2, <1>3

----------------------------------------------------------------------------
(* Nothing is passed over *)

\* Where the times of files and the limits live.
LEMMA FilesAreInt ==
    ASSUME TypeOK
    PROVE  /\ \A d \in Dir : dir[d] \subseteq Int /\ arrived[d] \subseteq Time
           /\ \A d \in Dir : candidates[d] \subseteq Int /\ localFiles[d] \subseteq Int
           /\ \A d \in Dir : lastTaistamp[d] \in Int
           /\ Time \subseteq Int /\ None \notin Time /\ shippingLimit \in Int
           /\ now - (maxLookBackDays + 1) * DayLen \in Int
           /\ shippingLimit <= now - (maxLookBackDays + 1) * DayLen
<1>1. now \in Int /\ Named \subseteq Time /\ Time \subseteq Int /\ None \notin Time
      /\ None \in Int
  BY WriterAssumption DEF TypeOK, Named, Time, None
<1>2. now - (maxLookBackDays + 1) * DayLen \in Int
  BY <1>1, WriterAssumption
<1>3. /\ shippingLimit \in Int
      /\ shippingLimit <= now - (maxLookBackDays + 1) * DayLen
  BY <1>2, DayBounds DEF shippingLimit, Midnight
<1> QED
  BY <1>1, <1>2, <1>3 DEF TypeOK

\* Up to its newest file, a batch leaves out only what HDFS has and what is too
\* old.
LEMMA BatchCompletes ==
    ASSUME TypeOK, NamesAreShipped, DeliveredFirst, ListingIsWhole,
           BatchIsOutstanding, NothingPassedOver,
           NEW d \in Dir, pc[d] \in {"rename", "cleanup"},
           NEW f \in dir[d], NEW g \in candidates[d], f <= g
    PROVE  f \in candidates[d] \/ Shipped(d, f) \/ f < shippingLimit
<1>1. g \in localFiles[d]
  BY DEF TypeOK
<1>2. f \in localFiles[d]
  BY <1>1 DEF ListingIsWhole
<1>3. f \in candidates[d] \/ f <= lastTaistamp[d] \/ f < shippingLimit
  BY <1>2 DEF BatchIsOutstanding
<1>4. ASSUME f <= lastTaistamp[d] PROVE Shipped(d, f) \/ f < shippingLimit
  <2>1. f \in Int /\ f >= 1 /\ lastTaistamp[d] \in {None} \cup Time
    BY FilesAreInt DEF TypeOK, Named
  <2>2. lastTaistamp[d] # None /\ lastTaistamp[d] \in Time
    BY <1>4, <2>1 DEF None
  <2>3. Shipped(d, lastTaistamp[d]) /\ lastTaistamp[d] \in arrived[d]
    BY <2>2 DEF NamesAreShipped, DeliveredFirst
  <2>4. f = lastTaistamp[d] \/ f < lastTaistamp[d]
    BY <1>4, <2>1, <2>2, FilesAreInt
  <2> QED
    BY <2>3, <2>4 DEF NothingPassedOver
<1> QED
  BY <1>3, <1>4

LEMMA PassedOverStep ==
    ASSUME TypeOK, TypeOK', DeliveredFirst, NamesAreShipped, ListingIsWhole,
           BatchIsOutstanding, NothingPassedOver, [Next]_vars
    PROVE  NothingPassedOver'
<1> SUFFICES ASSUME NEW e \in Dir, NEW f \in dir'[e], NEW g \in arrived'[e],
                    f < g, Shipped(e, g)'
             PROVE  Shipped(e, f)' \/ f < shippingLimit'
  BY DEF NothingPassedOver
<1>0. /\ shippingLimit <= shippingLimit' /\ shippingLimit \in Int
      /\ shippingLimit' \in Int
  BY HistoryGrows
<1>1. CASE Shipped(e, g)
  <2>1. g \in arrived[e] /\ g \in Int
    <3>1. g \in Time /\ Time \subseteq Int
      BY WriterAssumption DEF TypeOK, Named, Time
    <3> QED
      BY <1>1, <3>1 DEF DeliveredFirst
  <2>2. f \in dir[e]
    <3>1. ASSUME NEW d \in Dir, Arrive(d), f \notin dir[e] PROVE FALSE
      <4>1. PICK h \in Named :
               /\ \A x \in arrived[d] : x < h
               /\ dir' = [dir EXCEPT ![d] = @ \cup {h}]
        BY <3>1 DEF Arrive
      <4>2. e = d /\ f = h
        BY <3>1, <4>1 DEF TypeOK
      <4>3. g < f /\ f \in Int
        BY <2>1, <4>1, <4>2 DEF Named
      <4> QED
        BY <2>1, <4>3
    <3>2. ASSUME NEW d \in Dir, CleanupShipped(d) \/ CleanupOld(d)
          PROVE  f \in dir[e]
      BY <3>2 DEF CleanupShipped, CleanupOld, FinishWith, TypeOK
    <3> QED
      BY <3>1, <3>2, DirChanges
  <2>3. Shipped(e, f) \/ f < shippingLimit
    BY <1>1, <2>1, <2>2 DEF NothingPassedOver
  <2>4. f \in Int
    BY <2>2, FilesAreInt
  <2> QED
    BY <1>0, <2>3, <2>4, ShippedStays
<1>2. CASE ~Shipped(e, g)
  <2>1. /\ pc[e] = "rename" /\ g \in candidates[e] /\ dir' = dir
        /\ hdfs' = hdfs \cup {target(e)}
    BY <1>2, ShippedChanges
  <2>2. f \in Int /\ g \in Int /\ f <= g
    BY <2>1, FilesAreInt
  <2>3. f \in candidates[e] \/ Shipped(e, f) \/ f < shippingLimit
    BY <2>1, <2>2, BatchCompletes
  <2>4. f \in candidates[e] => Shipped(e, f)'
    BY <2>1, RenameShips DEF Shipped
  <2> QED
    BY <1>0, <2>2, <2>3, <2>4, ShippedStays
<1> QED
  BY <1>1, <1>2

\* The cleanups leave what is young and not on HDFS.
LEMMA YoungStay ==
    ASSUME TypeOK, DeliveredFirst, NamesAreShipped, ListingIsWhole,
           BatchIsOutstanding, NothingPassedOver, [Next]_vars,
           NEW e \in Dir, NEW f \in dir[e], f \notin dir'[e]
    PROVE  Shipped(e, f) \/ f < now - (maxLookBackDays + 1) * DayLen
<1>1. ASSUME NEW d \in Dir, NEW limit, FinishWith(d, limit)
      PROVE  d = e /\ f < limit
  BY <1>1 DEF FinishWith, cleanupLocal, TypeOK
<1>2. PICK d \in Dir : CleanupShipped(d) \/ CleanupOld(d)
  <2>1. ASSUME NEW d \in Dir, Arrive(d) PROVE FALSE
    BY <2>1 DEF Arrive, TypeOK
  <2> QED
    BY <2>1, DirChanges
<1>3. CASE CleanupOld(d)
  BY <1>1, <1>3 DEF CleanupOld
<1>4. CASE CleanupShipped(d)
  <2>1. d = e /\ f < Newest(candidates[e]) /\ pc[e] = "cleanup"
    BY <1>1, <1>4 DEF CleanupShipped
  <2>2. candidates[e] # {}
    BY <2>1 DEF BatchIsOutstanding
  <2>3. Newest(candidates[e]) \in candidates[e]
    BY <2>2, TargetTypes DEF target
  <2>4. f \in candidates[e] \/ Shipped(e, f) \/ f < shippingLimit
    BY <2>1, <2>3, BatchCompletes, FilesAreInt
  <2>5. f \in candidates[e] => Shipped(e, f)
    BY <2>1 DEF BatchIsOutstanding
  <2> QED
    BY <2>4, <2>5, FilesAreInt
<1> QED
  BY <1>2, <1>3, <1>4

LEMMA GoneStep ==
    ASSUME TypeOK, DeliveredFirst, NamesAreShipped, ListingIsWhole,
           BatchIsOutstanding, NothingPassedOver, GoneIsSettled, [Next]_vars
    PROVE  GoneIsSettled'
<1> DEFINE past == now - (maxLookBackDays + 1) * DayLen
<1> SUFFICES ASSUME NEW e \in Dir, NEW f \in arrived'[e] \ dir'[e]
             PROVE  Shipped(e, f)' \/ f < past'
  BY DEF GoneIsSettled
<1>1. past <= past' /\ past \in Int /\ past' \in Int
  BY HistoryGrows, WriterAssumption
<1>2. f \in arrived[e]
  <2>1. ASSUME NEW d \in Dir, Arrive(d) PROVE f \in arrived[e]
    BY <2>1 DEF Arrive, TypeOK
  <2>2. ASSUME NEW d \in Dir, CleanupShipped(d) \/ CleanupOld(d)
        PROVE  f \in arrived[e]
    BY <2>2 DEF CleanupShipped, CleanupOld, FinishWith
  <2> QED
    BY <2>1, <2>2, DirChanges
<1>3. Shipped(e, f) \/ f < past
  <2>1. CASE f \in dir[e]
    BY <2>1, YoungStay
  <2>2. CASE f \notin dir[e]
    BY <1>2, <2>2 DEF GoneIsSettled
  <2> QED
    BY <2>1, <2>2
<1>4. f \in Int
  BY <1>2, FilesAreInt
<1> HIDE DEF past
<1> QED
  BY <1>1, <1>3, <1>4, ShippedStays

\* A worker about to ship has its batch from DecideToShip.
LEMMA BatchComesFrom ==
    ASSUME TypeOK, [Next]_vars, NEW e \in Dir, pc'[e] \in {"copy", "rename"}
    PROVE  \/ pc[e] \in {"copy", "rename"} /\ candidates'[e] = candidates[e]
           \/ /\ DecideToShip(e) /\ candidates'[e] = outstandingFiles(e)
              /\ pc[e] = "decide"
<1>1. CASE Tick \/ HdfsChange \/ ForeignFile \/ UNCHANGED vars
  BY <1>1 DEF Tick, HdfsChange, ForeignFile, vars, workerVars
<1>2. CASE Crash \/ StartRound
  BY <1>2 DEF Crash, StartRound
<1>3. ASSUME NEW d \in Dir, Arrive(d)
      PROVE  pc[e] \in {"copy", "rename"} /\ candidates'[e] = candidates[e]
  BY <1>3 DEF Arrive, workerVars
<1>4. ASSUME NEW d \in Dir, Worker(d), d # e
      PROVE  pc[e] \in {"copy", "rename"} /\ candidates'[e] = candidates[e]
  BY <1>4, OthersUntouched
<1>5. CASE ListLocal(e) \/ UseCache(e) \/ MissCache(e) \/ ListDay(e) \/ Throw(e)
           \/ Rename(e) \/ CleanupShipped(e) \/ CleanupOld(e)
  BY <1>5 DEF ListLocal, UseCache, MissCache, ListDay, LearnFrom, Throw, Rename,
              CleanupShipped, CleanupOld, FinishWith, Goto, TypeOK
<1>6. CASE DecideToShip(e)
  BY <1>6 DEF DecideToShip, Goto, TypeOK
<1>7. CASE CopyToTemp(e)
  BY <1>7 DEF CopyToTemp, Goto, TypeOK
<1> QED
  BY <1>1, <1>2, <1>3, <1>4, <1>5, <1>6, <1>7 DEF Next, Worker

LEMMA BatchNewerStep ==
    ASSUME TypeOK, TypeOK', DeliveredFirst, ListingIsWhole, NothingPassedOver,
           BatchIsNewer, [Next]_vars
    PROVE  BatchIsNewer'
<1> SUFFICES ASSUME NEW e \in Dir, pc'[e] \in {"copy", "rename"},
                    NEW f \in candidates'[e], NEW g \in arrived'[e],
                    f < g, Shipped(e, g)'
             PROVE  Shipped(e, f)'
  BY DEF BatchIsNewer
<1>1. Shipped(e, g)
  <2>1. ASSUME Rename(e) PROVE FALSE
    BY <2>1 DEF Rename, Goto, TypeOK
  <2> QED
    BY <2>1, ShippedChanges
<1>2. g \in arrived[e] /\ g \in Int
  <2>1. g \in Time /\ Time \subseteq Int
    BY WriterAssumption DEF TypeOK, Named, Time
  <2> QED
    BY <1>1, <2>1 DEF DeliveredFirst
<1>3. CASE pc[e] \in {"copy", "rename"} /\ candidates'[e] = candidates[e]
  <2>1. Shipped(e, f)
    BY <1>1, <1>2, <1>3 DEF BatchIsNewer
  <2> QED
    BY <2>1, ShippedStays
<1>4. CASE /\ DecideToShip(e) /\ candidates'[e] = outstandingFiles(e)
           /\ pc[e] = "decide"
  <2>1. f \in localFiles[e] /\ f >= shippingLimit
    BY <1>4 DEF outstandingFiles
  <2>2. f \in dir[e]
    BY <1>4, <2>1 DEF ListingIsWhole
  <2>3. Shipped(e, f) \/ f < shippingLimit
    BY <1>1, <1>2, <2>2 DEF NothingPassedOver
  <2>4. Shipped(e, f)
    BY <2>1, <2>2, <2>3, FilesAreInt
  <2> QED
    BY <2>4, ShippedStays
<1> QED
  BY <1>3, <1>4, BatchComesFrom

----------------------------------------------------------------------------
(* Theorems *)

LEMMA WriterInvInductive ==
    ASSUME DistinctNames
    PROVE  /\ Init => WriterInv
           /\ WriterInv /\ [Next]_vars => WriterInv'
<1>1. ASSUME Init PROVE WriterInv
  <2>1. now \in 1 .. MaxNow /\ now \in Nat /\ 0 \in 0 .. Day(now)
    <3>1. now \in 1 .. MaxNow /\ now \in Nat
      BY <1>1, WriterAssumption DEF Init
    <3> QED
      BY <3>1, DayIsNat
  <2>2. TypeOK
    BY <1>1, <2>1, WriterAssumption DEF Init, TypeOK, Pc, None
  <2> QED
    BY <1>1, <2>2 DEF Init, WriterInv, DeliveredFirst, NamesAreShipped, Shipped,
                      ListingIsWhole, GoneIsSettled, BatchIsOutstanding,
                      BatchIsNewer, NothingPassedOver
<1>2. ASSUME WriterInv, [Next]_vars PROVE WriterInv'
  <2> USE <1>2 DEF WriterInv
  <2>1. TypeOK'
    BY TypeStep
  <2>2. DeliveredFirst' /\ ListingIsWhole'
    BY DeliveredStep, ListingStep
  <2>3. NamesAreShipped' /\ BatchIsOutstanding'
    BY NamesStep, BatchStep
  <2>4. NothingPassedOver' /\ GoneIsSettled' /\ BatchIsNewer'
    BY <2>1, PassedOverStep, GoneStep, BatchNewerStep
  <2> QED
    BY <2>1, <2>2, <2>3, <2>4
<1> QED
  BY <1>1, <1>2

\* What every property of a worker rests on, as long as no two directories share
\* a service and a host (decodeServiceInfo drops the category).
THEOREM WriterInvHolds == ASSUME DistinctNames PROVE Spec => []WriterInv
BY WriterInvInductive, PTL DEF Spec

\* The newest name on HDFS accounts for all files before it (planNextShip and
\* outstandingFiles): none that could still be shipped is passed over.
THEOREM NothingIsPassedOver == ASSUME DistinctNames PROVE Spec => []NothingPassedOver
<1>1. WriterInv => NothingPassedOver
  BY DEF WriterInv
<1> QED
  BY <1>1, WriterInvHolds, PTL

\* cleanupLocal deletes a file that is not on HDFS only for its age.
THEOREM NoYoungIsLost == ASSUME DistinctNames PROVE Spec => NoYoungLoss
<1> DEFINE Kept == \A d \in Dir : \A f \in dir[d] \ dir'[d] :
              Shipped(d, f) \/ f < now - (maxLookBackDays + 1) * DayLen
<1>1. WriterInv /\ [Next]_vars => [Kept]_vars
  BY YoungStay DEF WriterInv
<1>2. Spec => [][Kept]_vars
  BY <1>1, WriterInvHolds, PTL DEF Spec
<1> QED
  BY <1>2 DEF NoYoungLoss

----------------------------------------------------------------------------
(* barn-hdfs implements LogArchive *)

Archived(d) == {f \in arrived[d] : Shipped(d, f)}

Limit == now - (maxLookBackDays + 1) * DayLen

\* A step that ships nothing and delivers nothing is not seen by the archive,
\* but for the time that passes.
LEMMA QuietStep ==
    ASSUME WriterInv, [Next]_vars, hdfs' = hdfs, arrived' = arrived
    PROVE  [Archive!Next]_(Archive!vars)
<1>1. [d \in Dir |-> {f \in arrived[d] : Shipped(d, f)}]'
         = [d \in Dir |-> {f \in arrived[d] : Shipped(d, f)}]
  BY DEF Shipped
<1>2. Limit' > Limit \/ Limit' = Limit
  <2>1. now \in Int /\ now' \in Int /\ now <= now'
    BY HistoryGrows DEF WriterInv
  <2>2. PICK back \in Int : back = (maxLookBackDays + 1) * DayLen
    BY WriterAssumption
  <2>3. /\ Limit = now - back /\ Limit' = now' - back
        /\ Limit \in Int /\ Limit' \in Int
    BY <2>1, <2>2 DEF Limit
  <2> QED
    BY <2>1, <2>2, <2>3
<1> QED
  BY <1>1, <1>2 DEF Limit, Archive!Next, Archive!Age, Archive!vars

LEMMA ArriveDelivers ==
    ASSUME WriterInv, NEW d \in Dir, Arrive(d)
    PROVE  Archive!Deliver(d)
<1>1. PICK f \in Named :
         /\ \A g \in arrived[d] : g < f
         /\ arrived' = [arrived EXCEPT ![d] = @ \cup {f}]
  BY DEF Arrive
<1>2. hdfs' = hdfs /\ now' = now
  BY DEF Arrive, hdfsVars
<1>3. f \in arrived'[d]
  BY <1>1 DEF WriterInv, TypeOK
<1>4. ~Shipped(d, f)
  <2>1. f \in Time /\ f \in Int
    BY WriterAssumption DEF WriterInv, TypeOK, Named, Time
  <2>2. f \notin arrived[d]
    BY <1>1, <2>1
  <2> QED
    BY <2>1, <2>2 DEF WriterInv, DeliveredFirst
<1>5. [e \in Dir |-> {x \in arrived[e] : Shipped(e, x)}]'
         = [e \in Dir |-> {x \in arrived[e] : Shipped(e, x)}]
  <2>1. ASSUME NEW e \in Dir
        PROVE  {x \in arrived'[e] : Shipped(e, x)'} = {x \in arrived[e] : Shipped(e, x)}
    <3>1. \A x : Shipped(e, x)' <=> Shipped(e, x)
      BY <1>2 DEF Shipped
    <3>2. arrived'[e] = IF e = d THEN arrived[e] \cup {f} ELSE arrived[e]
      BY <1>1 DEF WriterInv, TypeOK
    <3> QED
      BY <1>4, <3>1, <3>2
  <2> QED
    BY <2>1
<1>6. Limit' = Limit
  BY <1>2 DEF Limit
<1> QED
  BY <1>1, <1>3, <1>5, <1>6 DEF Archive!Deliver, Limit

LEMMA RenameArchives ==
    ASSUME WriterInv, NEW d \in Dir, Rename(d), hdfs' = hdfs \cup {target(d)}
    PROVE  Archive!Archive(d)
<1> USE DEF WriterInv
<1> DEFINE new == candidates[d] \ Archived(d)
<1>1. /\ pc[d] = "rename" /\ now' = now /\ arrived' = arrived
  BY DEF Rename, diskVars
<1>2. candidates[d] \subseteq arrived[d]
  BY <1>1 DEF TypeOK, ListingIsWhole, DeliveredFirst
<1>3. new \in SUBSET arrived[d]
  BY <1>2
<1>4. /\ arrived[d] \subseteq Time /\ Time \subseteq Int /\ Limit \in Int
      /\ shippingLimit \in Int /\ shippingLimit <= Limit
  BY FilesAreInt DEF Limit
<1>5. ASSUME NEW f \in new, NEW g \in Archived(d) PROVE g < f
  <2>1. f \in arrived[d] /\ g \in arrived[d] /\ ~Shipped(d, f) /\ Shipped(d, g)
    BY <1>2 DEF Archived
  <2>2. f \in Int /\ g \in Int /\ f # g
    BY <1>4, <2>1
  <2>3. ~ (f < g)
    BY <1>1, <2>1 DEF BatchIsNewer
  <2> QED
    BY <2>2, <2>3
<1>6. ASSUME NEW f \in new, NEW e \in arrived[d], e < f
      PROVE  e \in new \cup Archived(d) \/ e < Limit
  <2>0. e \in arrived[d] /\ f \in arrived[d]
    BY <1>2, <1>6
  <2>1. e \in Int /\ f \in Int /\ e <= f
    <3>1. e \in Int /\ f \in Int
      BY <1>4, <2>0
    <3> QED
      BY <1>6, <3>1
  <2>2. CASE e \in dir[d]
    <3>1. e \in candidates[d] \/ Shipped(d, e) \/ e < shippingLimit
      BY <1>1, <2>1, <2>2, BatchCompletes
    <3> QED
      BY <1>4, <2>1, <3>1 DEF Archived
  <2>3. CASE e \notin dir[d]
    <3>1. Shipped(d, e) \/ e < Limit
      BY <2>3 DEF GoneIsSettled, Limit
    <3> QED
      BY <3>1 DEF Archived
  <2> QED
    BY <2>2, <2>3
<1>7. ASSUME NEW e \in Dir
      PROVE  {x \in arrived'[e] : Shipped(e, x)'}
                = IF e = d THEN Archived(d) \cup new ELSE Archived(e)
  <2>1. target(d).content = {d} \X candidates[d]
    BY DEF target, concatCandidates
  <2>2. \A x : Shipped(e, x)' <=> Shipped(e, x) \/ (e = d /\ x \in candidates[d])
    <3>1. \A x : Shipped(e, x)' <=> Shipped(e, x) \/ <<e, x>> \in target(d).content
      BY DEF Shipped
    <3>2. \A x : <<e, x>> \in {d} \X candidates[d] <=> e = d /\ x \in candidates[d]
      OBVIOUS
    <3> QED
      BY <2>1, <3>1, <3>2
  <2> QED
    BY <1>1, <1>2, <2>2 DEF Archived
<1>8. [e \in Dir |-> {x \in arrived[e] : Shipped(e, x)}]'
         = [[e \in Dir |-> {x \in arrived[e] : Shipped(e, x)}] EXCEPT ![d] = @ \cup new]
  BY <1>7 DEF Archived
<1>9. Limit' = Limit
  BY <1>1 DEF Limit
<1>10. [e \in Dir |-> {x \in arrived[e] : Shipped(e, x)}][d] = Archived(d)
  BY DEF Archived
<1> HIDE DEF new
<1> QED
  BY <1>1, <1>3, <1>5, <1>6, <1>8, <1>9, <1>10 DEF Archive!Archive, Limit

\* Whatever fails, HDFS has an unbroken run of what a directory was given, but
\* for what had grown too old: every step is one of LogArchive or none.
THEOREM ArchiveImplemented == ASSUME DistinctNames PROVE Spec => ArchivesInOrder
<1>1. Init => Archive!Init
  <2> SUFFICES ASSUME Init PROVE Archive!Init
    OBVIOUS
  <2>1. now - (maxLookBackDays + 1) * DayLen \in Int
    BY WriterAssumption DEF Init
  <2> QED
    BY <2>1 DEF Init, Archive!Init
<1>2. WriterInv /\ [Next]_vars => [Archive!Next]_(Archive!vars)
  <2> SUFFICES ASSUME WriterInv, [Next]_vars PROVE [Archive!Next]_(Archive!vars)
    OBVIOUS
  <2>1. ASSUME NEW d \in Dir, Arrive(d) PROVE Archive!Next
    BY <2>1, ArriveDelivers DEF Archive!Next
  <2>2. ASSUME NEW d \in Dir, Rename(d), hdfs' = hdfs \cup {target(d)}
        PROVE  Archive!Next
    BY <2>2, RenameArchives DEF Archive!Next
  <2>3. CASE hdfs' = hdfs /\ ~ \E d \in Dir : Arrive(d)
    <3>1. arrived' = arrived
      BY <2>3, DirChanges DEF CleanupShipped, CleanupOld, FinishWith
    <3> QED
      BY <2>3, <3>1, QuietStep
  <2> QED
    BY <2>1, <2>2, <2>3, HdfsChanges
<1> QED
  BY <1>1, <1>2, WriterInvHolds, PTL DEF Spec, ArchivesInOrder, Archive!Spec

----------------------------------------------------------------------------
(* The newest file stays *)

RetainInv ==
    /\ now \in Nat
    /\ dir \in [Dir -> SUBSET Nat]
    /\ arrived \in [Dir -> SUBSET Nat]
    /\ \A d \in Dir : dir[d] \subseteq arrived[d]
    /\ \A d \in Dir : arrived[d] # {} =>
          \E m \in dir[d] : \A g \in arrived[d] : g <= m

\* Only the clock changes now.
LEMMA ClockChanges == [Next]_vars => UNCHANGED now \/ now' = now + 1
BY DEF Next, Tick, HdfsChange, ForeignFile, Crash, StartRound, Arrive, Worker,
       ListLocal, UseCache, MissCache, ListDay, DecideToShip, Throw, CopyToTemp,
       Rename, CleanupShipped, CleanupOld, FinishWith, vars

\* Whatever its limit, cleanupLocal leaves the newest file.
LEMMA CleanupKeepsNewest ==
    ASSUME RetainInv, NEW d \in Dir, NEW limit, FinishWith(d, limit)
    PROVE  RetainInv'
<1>1. /\ dir' = [dir EXCEPT ![d] = @ \ cleanupLocal(@, limit)]
      /\ arrived' = arrived /\ now' = now
  BY DEF FinishWith
<1>2. /\ dir' \in [Dir -> SUBSET Nat]
      /\ \A e \in Dir : dir'[e] \subseteq dir[e]
  BY <1>1 DEF RetainInv
<1>3. ASSUME NEW e \in Dir, arrived[e] # {}
      PROVE  \E m \in dir'[e] : \A g \in arrived[e] : g <= m
  <2>1. PICK m \in dir[e] : \A g \in arrived[e] : g <= m
    BY <1>3 DEF RetainInv
  <2>2. m \in dir'[e]
    <3>1. CASE e # d
      BY <1>1, <2>1, <3>1 DEF RetainInv
    <3>2. CASE e = d
      <4>1. ~ \E g \in dir[d] : m < g
        BY <2>1, <3>2 DEF RetainInv
      <4>2. m \notin cleanupLocal(dir[d], limit)
        BY <4>1 DEF cleanupLocal
      <4> QED
        BY <1>1, <2>1, <3>2, <4>2 DEF RetainInv
    <3> QED
      BY <3>1, <3>2
  <2> QED
    BY <2>1, <2>2
<1> QED
  BY <1>1, <1>2, <1>3 DEF RetainInv

\* Agents deliver in order, so that what arrives is the newest file.
LEMMA ArrivalIsNewest ==
    ASSUME RetainInv, NEW d \in Dir, Arrive(d)
    PROVE  RetainInv'
<1>1. PICK f \in Named :
         /\ \A g \in arrived[d] : g < f
         /\ dir' = [dir EXCEPT ![d] = @ \cup {f}]
         /\ arrived' = [arrived EXCEPT ![d] = @ \cup {f}]
  BY DEF Arrive
<1>2. now' = now /\ f \in Nat
  BY <1>1, WriterAssumption DEF Arrive, RetainInv, Named
<1>3. /\ dir' \in [Dir -> SUBSET Nat] /\ arrived' \in [Dir -> SUBSET Nat]
      /\ \A e \in Dir : dir'[e] \subseteq arrived'[e]
  BY <1>1, <1>2 DEF RetainInv
<1>4. ASSUME NEW e \in Dir, arrived'[e] # {}
      PROVE  \E m \in dir'[e] : \A g \in arrived'[e] : g <= m
  <2>1. CASE e # d
    BY <1>1, <1>4, <2>1 DEF RetainInv
  <2>2. CASE e = d
    <3>1. /\ f \in dir'[e] /\ arrived'[e] = arrived[d] \cup {f}
          /\ arrived[d] \subseteq Nat
      BY <1>1, <2>2 DEF RetainInv
    <3>2. \A g \in arrived'[e] : g <= f
      BY <1>1, <1>2, <3>1
    <3> QED
      BY <3>1, <3>2
  <2> QED
    BY <2>1, <2>2
<1> QED
  BY <1>2, <1>3, <1>4 DEF RetainInv

LEMMA RetainInductive ==
    /\ Init => RetainInv
    /\ RetainInv /\ [Next]_vars => RetainInv'
<1>1. Init => RetainInv
  BY DEF Init, RetainInv
<1>2. RetainInv /\ [Next]_vars => RetainInv'
  <2> SUFFICES ASSUME RetainInv, [Next]_vars PROVE RetainInv'
    OBVIOUS
  <2>1. ASSUME NEW d \in Dir, Arrive(d) PROVE RetainInv'
    BY <2>1, ArrivalIsNewest
  <2>2. ASSUME NEW d \in Dir, CleanupShipped(d) \/ CleanupOld(d) PROVE RetainInv'
    BY <2>2, CleanupKeepsNewest DEF CleanupShipped, CleanupOld
  <2>3. CASE UNCHANGED <<dir, arrived>>
    BY <2>3, ClockChanges DEF RetainInv
  <2> QED
    BY <2>1, <2>2, <2>3, DirChanges
<1> QED
  BY <1>1, <1>2

\* The newest file that agents delivered stays in its directory, whatever fails
\* (cleanupLocal).  It is what the agent's gap rule rests on.
THEOREM NewestIsRetained == Spec => []NewestRetained
<1>1. RetainInv => NewestRetained
  BY DEF RetainInv, NewestRetained
<1> QED
  BY <1>1, RetainInductive, PTL DEF Spec
=============================================================================
