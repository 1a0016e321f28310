--------------------------- MODULE HdfsCopies_proofs ---------------------------
(***************************************************************************)
(* Why barn-hdfs ships no file again whose first copy lies within the      *)
(* look-back: the names it finds in the date directories tell it enough,   *)
(* although listings are cached, other workers ship meanwhile and a        *)
(* producer's clock may be ahead.                                          *)
(***************************************************************************)
EXTENDS HdfsWriter_proofs

----------------------------------------------------------------------------
(* Days *)

\* Any bounded set of whole numbers has a greatest member.
LEMMA GreatestOfBounded ==
    ASSUME NEW n \in Int, NEW S, S \subseteq Int, S # {}, \A x \in S : x <= n
    PROVE  Newest(S) \in S /\ \A x \in S : x <= Newest(S)
<1> DEFINE T == {k \in Nat : n - k \in S}
<1>1. ASSUME NEW x \in S PROVE n - x \in T /\ n - (n - x) = x
  BY SMT
<1>2. T \subseteq Nat /\ T # {}
  BY <1>1
<1>3. PICK k \in T : \A j \in T : k <= j
  BY <1>2, LeastExists
<1>4. ASSUME NEW x \in S PROVE x <= n - k
  <2>1. k <= n - x
    BY <1>1, <1>3
  <2> QED
    BY <1>3, <2>1
<1>5. \E m \in S : \A x \in S : x <= m
  BY <1>3, <1>4
<1> QED
  BY <1>5 DEF Newest

LEMMA OldestIs ==
    ASSUME NEW S, S \subseteq Nat, S # {}
    PROVE  Oldest(S) \in S /\ \A x \in S : Oldest(S) <= x
BY LeastExists DEF Oldest

\* So many days before an instant lies no later a day.
LEMMA DaysBack ==
    ASSUME NEW t \in Int, NEW k \in Nat
    PROVE  Day(t - k * DayLen) <= Day(t) - k
<1> DEFINE u == t - k * DayLen
           x == Day(t) - k
           y == Day(u)
<1>0. DayLen \in Int /\ k * DayLen \in Int
  BY WriterAssumption
<1>1. /\ u \in Int /\ Day(t) \in Int /\ x \in Int /\ y \in Int
      /\ t < Day(t) * DayLen + DayLen
      /\ y * DayLen <= u
  BY <1>0, DayBounds
<1>2. x * DayLen = Day(t) * DayLen - k * DayLen
  BY <1>0, <1>1
<1> SUFFICES ASSUME x < y PROVE FALSE
  BY <1>0, <1>1
<1>3. x * DayLen + DayLen <= y * DayLen
  BY <1>1, DaysApart
<1>4. x * DayLen \in Int /\ y * DayLen \in Int /\ Day(t) * DayLen \in Int
  BY <1>0, <1>1
<1> HIDE DEF x, y
<1> QED
  BY <1>0, <1>1, <1>2, <1>3, <1>4

----------------------------------------------------------------------------
(* What a worker plans with *)

\* The parts of CopiesInv that speak of one worker.
CacheOf(d) == pc[d] \in {"list", "look", "ls"} =>
    \A day \in DOMAIN hdfsListCache : ~hdfsListCache[day].error =>
        logsForService(d, hdfsListCache[day].names) = logsForService(d, placed(day))

Own(d) == {r \in hdfs : r.svc = decodeServiceInfo(d)}

PlanOf(d) ==
    /\ pc[d] \in {"look", "ls", "decide", "copy", "rename"} =>
          \A r \in Own(d) : r.day <= base[d] /\ \E g \in localFiles[d] : r.taistamp <= g
    /\ \A r \in Own(d) :
          /\ pc[d] \in {"look", "ls"} => \A f \in localFiles[d] :
                r.day \in hdfsDirs[d] \/ OutOfSight(d, r.day, f)
          /\ pc[d] \in {"decide", "copy", "rename"} => \A f \in localFiles[d] :
                r.taistamp <= lastTaistamp[d] \/ OutOfSight(d, r.day, f)
    /\ pc[d] \in {"look", "ls"} =>
          hdfsDirs[d] # {} /\ \A day \in hdfsDirs[d] : day <= base[d]
    /\ pc[d] \in {"copy", "rename"} => \A c \in candidates[d] :
          /\ lastTaistamp[d] < c
          /\ \A f \in localFiles[d] : c <= f => f \in candidates[d]

LEMMA PartsOfWorkers ==
    (CacheIsCurrent /\ PlanIsLatest /\ LooksFarEnough /\ LooksBack /\ BatchIsTail)
        <=> \A d \in Dir : CacheOf(d) /\ PlanOf(d)
BY DEF CacheIsCurrent, PlanIsLatest, LooksFarEnough, LooksBack, BatchIsTail,
       CacheOf, PlanOf, Own

\* What the names of a day tell a worker.
LEMMA NamesOfDay ==
    ASSUME NEW d, NEW day
    PROVE  logsForService(d, placed(day)) = {r.taistamp : r \in {x \in Own(d) : x.day = day}}
<1>1. ASSUME NEW f \in logsForService(d, placed(day))
      PROVE  \E r \in Own(d) : r.day = day /\ r.taistamp = f
  <2>1. PICK n \in placed(day) : n[1] = decodeServiceInfo(d) /\ n[2] = f
    BY DEF logsForService
  <2>2. PICK r \in hdfs : r.day = day /\ n = <<r.svc, r.taistamp>>
    BY <2>1 DEF placed
  <2> QED
    BY <2>1, <2>2 DEF Own
<1>2. ASSUME NEW r \in Own(d), r.day = day
      PROVE  r.taistamp \in logsForService(d, placed(day))
  <2>1. <<r.svc, r.taistamp>> \in placed(day)
    BY <1>2 DEF placed, Own
  <2> QED
    BY <2>1 DEF logsForService, Own
<1> QED
  BY <1>1, <1>2

\* Nobody else puts a file of this service on HDFS.
LEMMA OwnChanges ==
    ASSUME DistinctNames, [Next]_vars, NEW d \in Dir, ~Rename(d)
    PROVE  Own(d)' = Own(d)
<1>1. CASE hdfs' = hdfs
  BY <1>1 DEF Own
<1>2. ASSUME NEW e \in Dir, Rename(e), hdfs' = hdfs \cup {target(e)}
      PROVE  Own(d)' = Own(d)
  <2>1. target(e).svc = decodeServiceInfo(e)
    BY DEF target
  <2>2. target(e).svc # decodeServiceInfo(d)
    BY <1>2, <2>1 DEF DistinctNames
  <2> QED
    BY <1>2, <2>2 DEF Own
<1> QED
  BY <1>1, <1>2, HdfsChanges

\* A plan stands as long as its worker goes by it.
LEMMA PlanKept ==
    ASSUME NEW e \in Dir, PlanOf(e), Own(e)' = Own(e),
           \/ pc'[e] \in {pc[e], "idle"}
           \/ pc[e] = "look" /\ pc'[e] = "ls"
           \/ pc[e] = "copy" /\ pc'[e] = "rename",
           localFiles'[e] = localFiles[e], base'[e] = base[e],
           hdfsDirs'[e] = hdfsDirs[e], lastTaistamp'[e] = lastTaistamp[e],
           candidates'[e] = candidates[e]
    PROVE  PlanOf(e)'
<1>1. \A day, f : OutOfSight(e, day, f)' <=> OutOfSight(e, day, f)
  BY DEF OutOfSight, Day
<1> QED
  BY <1>1 DEF PlanOf

\* Where the names and days of files on HDFS live.
LEMMA OwnTypes ==
    ASSUME TypeOK, NEW d \in Dir, NEW r \in Own(d)
    PROVE  r.day \in Int /\ r.taistamp \in Time /\ r.taistamp \in Int
<1>1. r \in HdfsFile
  BY DEF Own, TypeOK
<1> QED
  BY <1>1, FilesAreInt DEF HdfsFile

\* The plan begins with all days back to the oldest file, or to the limit.
LEMMA ListStarts ==
    ASSUME TypeOK, NameTellsContent, NamesAreShipped, DeliveredFirst,
           NewestRetained, NEW e \in Dir, ListLocal(e)
    PROVE  PlanOf(e)'
<1> DEFINE files == dir[e]
           lb == earliestLookbackDate(files)
<1>1. /\ pc'[e] = "look" /\ localFiles'[e] = files /\ base'[e] = Day(now)
      /\ hdfsDirs'[e] = {Day(now)} \cup Day(lb) .. Day(now) /\ Own(e)' = Own(e)
  BY DEF ListLocal, Goto, TypeOK, targetDirs, hdfsVars, Own
<1>2. now \in Int /\ Day(now) \in Int /\ files \subseteq Nat /\ files \subseteq Int
  <2>1. now \in Int /\ Named \subseteq Nat
    BY WriterAssumption DEF TypeOK, Named
  <2>2. files \subseteq Named
    BY DEF TypeOK
  <2>3. files \subseteq Nat /\ files \subseteq Int
    <3> HIDE DEF files
    <3> QED
      BY <2>1, <2>2
  <2>4. Day(now) \in Int
    BY <2>1, DayBounds
  <2> QED
    BY <2>1, <2>3, <2>4
<1>3. now - maxLookBackDays * DayLen \in Int
  BY <1>2, WriterAssumption
<1>4. lb \in Int
  BY <1>2, <1>3, OldestIs DEF earliestLookbackDate
<1>5. ASSUME NEW r \in Own(e)
      PROVE  r.day <= Day(now) /\ \E g \in files : r.taistamp <= g
  <2>1. r.day <= Day(now)
    BY DEF NameTellsContent, Own
  <2>2. Shipped(e, r.taistamp) /\ r.taistamp \in Time
    BY OwnTypes DEF NamesAreShipped, Own
  <2>3. r.taistamp \in arrived[e]
    BY <2>2 DEF DeliveredFirst
  <2> QED
    BY <2>1, <2>3 DEF NewestRetained
<1>6. ASSUME NEW r \in Own(e), NEW f \in files, r.day \notin hdfsDirs'[e]
      PROVE  Day(now) - r.day > maxLookBackDays \/ Day(f) > r.day
  <2>1. /\ r.day \in Int /\ r.day <= Day(now) /\ r.day # Day(now)
        /\ r.day \notin Day(lb) .. Day(now) /\ Day(lb) \in Int
    BY <1>1, <1>4, <1>5, <1>6, OwnTypes, DayBounds
  <2>2. r.day < Day(lb)
    BY <1>2, <2>1
  <2>3. Oldest(files) \in Int /\ Oldest(files) <= f /\ f \in Int
    BY <1>2, OldestIs
  <2>4. CASE lb = Oldest(files)
    <3>1. Day(lb) <= Day(f) /\ Day(f) \in Int
      BY <2>3, <2>4, DaysAscend, DayBounds
    <3> QED
      BY <2>1, <2>2, <3>1
  <2>5. CASE lb = now - maxLookBackDays * DayLen
    <3>1. Day(lb) <= Day(now) - maxLookBackDays /\ maxLookBackDays \in Int
      BY <1>2, <2>5, DaysBack, WriterAssumption
    <3> QED
      BY <1>2, <2>1, <2>2, <3>1
  <2> QED
    BY <2>4, <2>5 DEF earliestLookbackDate
<1>7. \A day, f : OutOfSight(e, day, f)' <=> Day(now) - day > maxLookBackDays \/ Day(f) > day
  BY <1>1 DEF OutOfSight, Day
<1>8. hdfsDirs'[e] # {} /\ \A day \in hdfsDirs'[e] : day <= Day(now)
  <2>1. \A day \in Day(lb) .. Day(now) : day <= Day(now)
    BY <1>2, <1>4, DayBounds
  <2> QED
    BY <1>1, <1>2, <2>1
<1> HIDE DEF files, lb
<1> QED
  BY <1>1, <1>5, <1>6, <1>7, <1>8 DEF PlanOf

\* What a listing shows accounts for its day, and what it is the newest of for
\* all days before.
LEMMA LearnLooks ==
    ASSUME TypeOK, NamesAscend, NEW e \in Dir, PlanOf(e), pc[e] \in {"look", "ls"},
           NEW found, LearnFrom(e, found),
           ~found.error => logsForService(e, found.names)
                             = logsForService(e, placed(Newest(hdfsDirs[e]))),
           Own(e)' = Own(e), localFiles'[e] = localFiles[e], base'[e] = base[e]
    PROVE  PlanOf(e)'
<1> DEFINE x == Newest(hdfsDirs[e])
           taistamps == logsForService(e, found.names)
<1>1. x \in hdfsDirs[e] /\ \A day \in hdfsDirs[e] : day <= x
  <2>1. /\ hdfsDirs[e] \subseteq Int /\ hdfsDirs[e] # {}
        /\ base[e] \in Int /\ \A day \in hdfsDirs[e] : day <= base[e]
    BY DEF PlanOf, TypeOK
  <2> QED
    BY <2>1, GreatestOfBounded
<1>2. hdfsDirs'[e] = hdfsDirs[e] \ {x} /\ hdfsDirs[e] \subseteq Int
  BY DEF LearnFrom, TypeOK
<1>3. \A day, f : OutOfSight(e, day, f)' <=> OutOfSight(e, day, f)
  BY DEF OutOfSight, Day
<1>4. ASSUME NEW r \in Own(e), NEW f \in localFiles[e]
      PROVE  r.day \in hdfsDirs[e] \/ OutOfSight(e, r.day, f)
  BY DEF PlanOf
<1>5. \A r \in Own(e) : r.day <= base[e] /\ \E g \in localFiles[e] : r.taistamp <= g
  BY DEF PlanOf
<1>6. CASE found.error
  <2>1. pc'[e] = "failed"
    BY <1>6 DEF LearnFrom, Goto, TypeOK
  <2> QED
    BY <2>1 DEF PlanOf
<1>7. CASE ~found.error /\ taistamps # {}
  <2>1. pc'[e] = "decide" /\ lastTaistamp'[e] = Newest(taistamps)
    BY <1>7 DEF LearnFrom, Goto, TypeOK
  <2>2. taistamps = {r.taistamp : r \in {y \in Own(e) : y.day = x}}
    BY <1>7, NamesOfDay
  <2>3. taistamps \subseteq Int /\ taistamps \subseteq 0 .. MaxNow + Skew
        /\ MaxNow + Skew \in Nat
    BY <2>2, OwnTypes, WriterAssumption DEF Time
  <2>4. Newest(taistamps) \in taistamps /\ \A t \in taistamps : t <= Newest(taistamps)
    BY <1>7, <2>3, NewestIs
  <2>5. PICK s \in Own(e) : s.day = x /\ s.taistamp = Newest(taistamps)
    BY <2>2, <2>4
  <2>6. ASSUME NEW r \in Own(e), r.day \in hdfsDirs[e]
        PROVE  r.taistamp <= Newest(taistamps)
    <3>1. CASE r.day = x
      BY <2>2, <2>4, <3>1
    <3>2. CASE r.day # x
      <4>1. r.day < x
        BY <1>1, <1>2, <2>6, <3>2
      <4>2. r.svc = s.svc
        BY DEF Own
      <4> QED
        BY <2>5, <4>1, <4>2 DEF NamesAscend, Own
    <3> QED
      BY <3>1, <3>2
  <2> HIDE DEF taistamps, x
  <2> QED
    BY <1>3, <1>4, <1>5, <2>1, <2>6 DEF PlanOf
<1>8. CASE ~found.error /\ taistamps = {}
  <2>1. /\ pc'[e] = IF hdfsDirs'[e] = {} THEN "decide" ELSE "look"
        /\ lastTaistamp'[e] = lastTaistamp[e]
    BY <1>8 DEF LearnFrom, Goto, TypeOK
  <2>2. \A r \in Own(e) : r.day # x
    <3>1. {r.taistamp : r \in {y \in Own(e) : y.day = x}} = {}
      BY <1>8, NamesOfDay
    <3> HIDE DEF x
    <3> QED
      BY <3>1
  <2>3. \A day \in hdfsDirs'[e] : day <= base[e]
    BY <1>2 DEF PlanOf
  <2> HIDE DEF x
  <2> QED
    BY <1>2, <1>3, <1>4, <1>5, <2>1, <2>2, <2>3 DEF PlanOf
<1> QED
  BY <1>6, <1>7, <1>8

\* A batch is the end of the listing, and so newer than all that was shipped.
LEMMA DecisionKeepsPlan ==
    ASSUME TypeOK, NEW e \in Dir, PlanOf(e), DecideToShip(e)
    PROVE  PlanOf(e)'
<1>1. /\ pc[e] = "decide" /\ Own(e)' = Own(e)
      /\ localFiles'[e] = localFiles[e] /\ base'[e] = base[e]
      /\ lastTaistamp'[e] = lastTaistamp[e]
  BY DEF DecideToShip, hdfsVars, Own
<1>2. \A day, f : OutOfSight(e, day, f)' <=> OutOfSight(e, day, f)
  BY <1>1 DEF OutOfSight, Day
<1>3. CASE pc'[e] = "failed"
  BY <1>3 DEF PlanOf
<1>4. CASE pc'[e] = "copy" /\ candidates'[e] = outstandingFiles(e)
  <2>1. localFiles[e] \subseteq Int /\ lastTaistamp[e] \in Int /\ shippingLimit \in Int
    BY FilesAreInt
  <2>2. ASSUME NEW c \in outstandingFiles(e)
        PROVE  /\ lastTaistamp[e] < c
               /\ \A f \in localFiles[e] : c <= f => f \in outstandingFiles(e)
    BY <2>1 DEF outstandingFiles
  <2> QED
    BY <1>1, <1>2, <1>4, <2>2 DEF PlanOf
<1> QED
  BY <1>3, <1>4 DEF DecideToShip, Goto, TypeOK

LEMMA PlanStep ==
    ASSUME DistinctNames, TypeOK, NameTellsContent, NamesAscend, NamesAreShipped,
           DeliveredFirst, NewestRetained, [Next]_vars,
           NEW e \in Dir, CacheOf(e), PlanOf(e)
    PROVE  PlanOf(e)'
<1>0. ~Rename(e) => Own(e)' = Own(e)
  BY OwnChanges
<1>1. CASE Tick \/ HdfsChange \/ ForeignFile \/ UNCHANGED vars
  <2>1. UNCHANGED workerVars /\ ~Rename(e)
    BY <1>1 DEF Tick, HdfsChange, ForeignFile, vars, workerVars, Rename, Goto, TypeOK
  <2> QED
    BY <1>0, <2>1, PlanKept DEF workerVars
<1>2. CASE Crash \/ StartRound
  BY <1>2 DEF Crash, StartRound, PlanOf
<1>3. ASSUME NEW d \in Dir, Arrive(d) PROVE PlanOf(e)'
  <2>1. UNCHANGED workerVars /\ hdfs' = hdfs
    BY <1>3 DEF Arrive, hdfsVars
  <2> QED
    BY <2>1, PlanKept DEF workerVars, Own
<1>4. ASSUME NEW d \in Dir, Worker(d), d # e PROVE PlanOf(e)'
  <2>1. base'[e] = base[e] /\ hdfsDirs'[e] = hdfsDirs[e]
    BY <1>4 DEF Worker, ListLocal, UseCache, MissCache, ListDay, LearnFrom,
                DecideToShip, Throw, CopyToTemp, Rename, CleanupShipped, CleanupOld,
                FinishWith, TypeOK
  <2>2. Own(e)' = Own(e)
    <3>1. CASE hdfs' = hdfs
      BY <3>1 DEF Own
    <3>2. CASE Rename(d) /\ hdfs' = hdfs \cup {target(d)}
      <4>1. target(d).svc # decodeServiceInfo(e)
        BY <1>4 DEF target, DistinctNames
      <4> QED
        BY <3>2, <4>1 DEF Own
    <3>3. hdfs' = hdfs \/ (Rename(d) /\ hdfs' = hdfs \cup {target(d)})
      BY <1>4 DEF Worker, ListLocal, UseCache, MissCache, ListDay, DecideToShip,
                  Throw, CopyToTemp, Rename, CleanupShipped, CleanupOld, FinishWith,
                  hdfsVars
    <3> QED
      BY <3>1, <3>2, <3>3
  <2> QED
    BY <1>4, <2>1, <2>2, OthersUntouched, PlanKept
<1>5. CASE ListLocal(e)
  BY <1>5, ListStarts
<1>6. CASE UseCache(e)
  <2> DEFINE found == hdfsListCache[Newest(hdfsDirs[e])]
  <2>1. /\ pc[e] = "look" /\ LearnFrom(e, found)
        /\ localFiles'[e] = localFiles[e] /\ base'[e] = base[e] /\ Own(e)' = Own(e)
    BY <1>6 DEF UseCache, hdfsVars, Own
  <2>2. ~found.error => logsForService(e, found.names)
                          = logsForService(e, placed(Newest(hdfsDirs[e])))
    BY <1>6 DEF UseCache, CacheOf
  <2> HIDE DEF found
  <2> QED
    BY <2>1, <2>2, LearnLooks
<1>7. CASE MissCache(e)
  <2>1. /\ pc[e] = "look" /\ pc'[e] = "ls" /\ Own(e)' = Own(e)
    BY <1>7 DEF MissCache, Goto, TypeOK, hdfsVars, Own
  <2> QED
    BY <1>7, <2>1, PlanKept DEF MissCache
<1>8. CASE ListDay(e)
  <2> DEFINE found == listHdfsFiles(Newest(hdfsDirs[e]))
  <2>1. /\ pc[e] = "ls" /\ LearnFrom(e, found)
        /\ localFiles'[e] = localFiles[e] /\ base'[e] = base[e] /\ Own(e)' = Own(e)
    BY <1>8 DEF ListDay, hdfsVars, Own
  <2>2. ~found.error => logsForService(e, found.names)
                          = logsForService(e, placed(Newest(hdfsDirs[e])))
    BY DEF listHdfsFiles
  <2> HIDE DEF found
  <2> QED
    BY <2>1, <2>2, LearnLooks
<1>9. CASE DecideToShip(e)
  BY <1>9, DecisionKeepsPlan
<1>10. CASE Throw(e)
  <2>1. pc'[e] = "idle"
    BY <1>10 DEF Throw
  <2> QED
    BY <2>1 DEF PlanOf
<1>11. CASE CopyToTemp(e)
  <2>1. CASE pc'[e] = "failed"
    BY <2>1 DEF PlanOf
  <2>2. CASE pc'[e] = "rename"
    <3>1. pc[e] = "copy" /\ Own(e)' = Own(e)
      BY <1>11 DEF CopyToTemp, hdfsVars, Own
    <3> QED
      BY <1>11, <2>2, <3>1, PlanKept DEF CopyToTemp
  <2> QED
    BY <1>11, <2>1, <2>2 DEF CopyToTemp, Goto, TypeOK
<1>12. CASE Rename(e) \/ CleanupShipped(e) \/ CleanupOld(e)
  <2>1. pc'[e] \in {"cleanup", "failed", "idle"}
    BY <1>12 DEF Rename, CleanupShipped, CleanupOld, FinishWith, Goto, TypeOK
  <2> QED
    BY <2>1 DEF PlanOf
<1> QED
  BY <1>1, <1>2, <1>3, <1>4, <1>5, <1>6, <1>7, <1>8, <1>9, <1>10, <1>11, <1>12
     DEF Next, Worker

\* A listing that is kept shows whoever still looks what is there: its own files
\* do not change before it ships.
LEMMA CacheStep ==
    ASSUME DistinctNames, TypeOK, [Next]_vars, NEW e \in Dir, CacheOf(e)
    PROVE  CacheOf(e)'
<1> SUFFICES ASSUME pc'[e] \in {"list", "look", "ls"},
                    NEW day \in DOMAIN hdfsListCache', ~hdfsListCache'[day].error
             PROVE  logsForService(e, hdfsListCache'[day].names)
                       = logsForService(e, placed(day))'
  BY DEF CacheOf, logsForService, decodeServiceInfo
<1>1. CASE Crash \/ StartRound
  BY <1>1 DEF Crash, StartRound, NewRound
<1>2. CASE ~(Crash \/ StartRound)
  <2>1. pc[e] \in {"list", "look", "ls"} /\ ~Rename(e)
    <3>1. CASE Tick \/ HdfsChange \/ ForeignFile \/ UNCHANGED vars
      BY <3>1 DEF Tick, HdfsChange, ForeignFile, vars, workerVars, Rename, Goto, TypeOK
    <3>2. ASSUME NEW d \in Dir, Arrive(d)
          PROVE  pc[e] \in {"list", "look", "ls"} /\ ~Rename(e)
      BY <3>2 DEF Arrive, workerVars, Rename, Goto, TypeOK
    <3>3. ASSUME NEW d \in Dir, Worker(d), d # e
          PROVE  pc[e] \in {"list", "look", "ls"} /\ ~Rename(e)
      BY <3>3, OthersUntouched DEF Rename, Goto, TypeOK
    <3>4. CASE Worker(e)
      BY <3>4 DEF Worker, ListLocal, UseCache, MissCache, ListDay, DecideToShip,
                  Throw, CopyToTemp, Rename, CleanupShipped, CleanupOld,
                  FinishWith, Goto, TypeOK
    <3> QED
      BY <1>2, <3>1, <3>2, <3>3, <3>4 DEF Next
  <2>2. logsForService(e, placed(day))' = logsForService(e, placed(day))
    <3>1. Own(e)' = Own(e)
      BY <2>1, OwnChanges
    <3>2. logsForService(e, placed(day)) = {r.taistamp : r \in {x \in Own(e) : x.day = day}}
      BY NamesOfDay
    <3>3. logsForService(e, placed(day))' = {r.taistamp : r \in {x \in Own(e)' : x.day = day}}
      <4>1. ASSUME NEW f \in logsForService(e, placed(day))'
            PROVE  \E r \in Own(e)' : r.day = day /\ r.taistamp = f
        <5>1. PICK n \in placed(day)' : n[1] = decodeServiceInfo(e) /\ n[2] = f
          BY DEF logsForService, decodeServiceInfo
        <5>2. PICK r \in hdfs' : r.day = day /\ n = <<r.svc, r.taistamp>>
          BY <5>1 DEF placed
        <5> QED
          BY <5>1, <5>2 DEF Own
      <4>2. ASSUME NEW r \in Own(e)', r.day = day
            PROVE  r.taistamp \in logsForService(e, placed(day))'
        <5>1. <<r.svc, r.taistamp>> \in placed(day)'
          BY <4>2 DEF placed, Own
        <5> QED
          BY <5>1 DEF logsForService, Own
      <4> QED
        BY <4>1, <4>2
    <3> QED
      BY <3>1, <3>2, <3>3
  <2>3. CASE hdfsListCache' = hdfsListCache
    BY <2>1, <2>2, <2>3 DEF CacheOf
  <2>4. ASSUME NEW d \in Dir, ListDay(d)
        PROVE  logsForService(e, hdfsListCache'[day].names)
                  = logsForService(e, placed(day))
    <3> DEFINE new == Newest(hdfsDirs[d])
    <3>1. hdfsListCache' = [x \in DOMAIN hdfsListCache \cup {new} |->
             IF x = new THEN listHdfsFiles(new) ELSE hdfsListCache[x]]
      BY <2>4 DEF ListDay
    <3> HIDE DEF new
    <3>2. CASE day = new
      <4>1. hdfsListCache'[day] = listHdfsFiles(day)
        BY <3>1, <3>2
      <4>2. ~listHdfsFiles(day).error
        BY <4>1
      <4>3. listHdfsFiles(day).names = placed(day)
        BY <4>2 DEF listHdfsFiles
      <4> QED
        BY <4>1, <4>3
    <3>3. CASE day # new
      <4>1. day \in DOMAIN hdfsListCache /\ hdfsListCache'[day] = hdfsListCache[day]
        BY <3>1, <3>3
      <4> QED
        BY <2>1, <4>1 DEF CacheOf
    <3> QED
      BY <3>2, <3>3
  <2>5. hdfsListCache' = hdfsListCache \/ \E d \in Dir : ListDay(d)
    BY <1>2 DEF Next, Tick, HdfsChange, ForeignFile, Arrive, Worker, ListLocal,
                UseCache, MissCache, DecideToShip, Throw, CopyToTemp, Rename,
                CleanupShipped, CleanupOld, FinishWith, vars
  <2> QED
    BY <2>2, <2>3, <2>4, <2>5
<1> QED
  BY <1>1, <1>2

----------------------------------------------------------------------------
(* What a rename adds *)

\* The new file on HDFS: under the latest day of its service, and named after a
\* file that is newer than all before it.
LEMMA TargetIsLatest ==
    ASSUME TypeOK, BatchIsOutstanding, NEW d \in Dir, PlanOf(d), pc[d] = "rename"
    PROVE  /\ target(d) \in HdfsFile
           /\ target(d).day = base[d] /\ target(d).svc = decodeServiceInfo(d)
           /\ target(d).content = {d} \X candidates[d]
           /\ target(d).taistamp \in Int
           /\ \A f \in candidates[d] : f <= target(d).taistamp
           /\ \A r \in Own(d) : r.day <= base[d] /\ r.taistamp <= target(d).taistamp
<1>1. candidates[d] # {}
  BY DEF BatchIsOutstanding
<1>2. /\ target(d) \in HdfsFile
      /\ target(d).taistamp \in candidates[d]
      /\ \A f \in candidates[d] : f <= target(d).taistamp
  BY <1>1, TargetTypes
<1>3. /\ target(d).day = base[d] /\ target(d).svc = decodeServiceInfo(d)
      /\ target(d).content = {d} \X candidates[d]
  BY DEF target, concatCandidates
<1>4. candidates[d] \subseteq Int /\ localFiles[d] \subseteq Int
  BY FilesAreInt
<1>5. ASSUME NEW r \in Own(d)
      PROVE  r.day <= base[d] /\ r.taistamp <= target(d).taistamp
  <2>1. r.day <= base[d] /\ r.taistamp \in Int
    BY OwnTypes DEF PlanOf
  <2>2. PICK g \in localFiles[d] : r.taistamp <= g
    BY DEF PlanOf
  <2>3. CASE g \in candidates[d]
    BY <1>2, <1>4, <2>1, <2>2, <2>3
  <2>4. CASE g \notin candidates[d]
    <3>1. ~ (target(d).taistamp <= g)
      BY <1>2, <2>4 DEF PlanOf
    <3> QED
      BY <1>2, <1>4, <2>1, <2>2, <3>1
  <2> QED
    BY <2>1, <2>3, <2>4
<1> QED
  BY <1>2, <1>3, <1>4, <1>5

LEMMA NameTellsStep ==
    ASSUME TypeOK, BatchIsOutstanding, NameTellsContent, [Next]_vars
    PROVE  NameTellsContent'
<1>1. now \in Int /\ now' \in Int /\ Day(now) <= Day(now')
      /\ Day(now) \in Int /\ Day(now') \in Int
  BY HistoryGrows, DaysAscend, DayBounds
<1>2. Day(now)' = Day(now')
  BY DEF Day
<1>3. ASSUME NEW r \in hdfs
      PROVE  /\ r.day <= Day(now')
             /\ \A c \in r.content :
                   r.svc = decodeServiceInfo(c[1]) /\ c[2] <= r.taistamp
  <2>1. r.day \in Int /\ r.day <= Day(now)
    BY DEF TypeOK, HdfsFile, NameTellsContent
  <2> QED
    BY <1>1, <2>1 DEF NameTellsContent
<1>4. ASSUME NEW d \in Dir, Rename(d)
      PROVE  /\ target(d).day <= Day(now')
             /\ \A c \in target(d).content :
                   /\ target(d).svc = decodeServiceInfo(c[1])
                   /\ c[2] <= target(d).taistamp
  <2>1. candidates[d] # {} /\ now' = now
    BY <1>4 DEF Rename, BatchIsOutstanding
  <2>2. \A f \in candidates[d] : f <= target(d).taistamp
    BY <2>1, TargetTypes
  <2>3. /\ target(d).content = {d} \X candidates[d]
        /\ target(d).svc = decodeServiceInfo(d) /\ target(d).day = base[d]
    BY DEF target, concatCandidates
  <2>4. base[d] <= Day(now')
    BY <1>1, <2>1 DEF TypeOK
  <2> QED
    BY <2>2, <2>3, <2>4
<1> QED
  BY <1>2, <1>3, <1>4, HdfsChanges DEF NameTellsContent, decodeServiceInfo

LEMMA NamesAscendStep ==
    ASSUME DistinctNames, TypeOK, BatchIsOutstanding, NamesAscend,
           \A d \in Dir : PlanOf(d), [Next]_vars
    PROVE  NamesAscend'
<1>1. ASSUME NEW d \in Dir, Rename(d), hdfs' = hdfs \cup {target(d)},
             NEW r \in hdfs', NEW s \in hdfs', r.svc = s.svc, r.day < s.day
      PROVE  r.taistamp <= s.taistamp
  <2>1. /\ target(d) \in HdfsFile /\ target(d).taistamp \in Int
        /\ target(d).svc = decodeServiceInfo(d) /\ target(d).day = base[d]
        /\ \A x \in Own(d) : x.day <= base[d] /\ x.taistamp <= target(d).taistamp
    BY <1>1, TargetIsLatest DEF Rename
  <2>2. CASE r \in hdfs /\ s \in hdfs
    BY <1>1, <2>2 DEF NamesAscend
  <2>3. CASE r \in hdfs /\ s = target(d)
    BY <1>1, <2>1, <2>3 DEF Own
  <2>4. CASE r = target(d)
    <3>1. s # target(d)
      BY <1>1, <2>1, <2>4 DEF HdfsFile
    <3>2. s \in Own(d)
      BY <1>1, <2>1, <2>4, <3>1 DEF Own
    <3>3. s.day \in Int /\ base[d] \in Int
      BY <3>2, OwnTypes DEF TypeOK
    <3> QED
      BY <1>1, <2>1, <2>4, <3>2, <3>3
  <2> QED
    BY <1>1, <2>2, <2>3, <2>4
<1> QED
  BY <1>1, HdfsChanges DEF NamesAscend

LEMMA CopiesStep ==
    ASSUME DistinctNames, TypeOK, BatchIsOutstanding, NameTellsContent,
           \A d \in Dir : PlanOf(d), CopiesFarApart, [Next]_vars
    PROVE  CopiesFarApart'
<1>1. ASSUME NEW d \in Dir, Rename(d), hdfs' = hdfs \cup {target(d)},
             NEW r \in hdfs, NEW c \in r.content \cap target(d).content
      PROVE  r \in Own(d) /\ r.day <= base[d] /\ OutOfSight(d, r.day, c[2])
  <2>1. target(d).content = {d} \X candidates[d]
    BY DEF target, concatCandidates
  <2>2. c[1] = d /\ c[2] \in candidates[d]
    BY <2>1
  <2>3. r \in Own(d) /\ c[2] <= r.taistamp
    BY <2>2 DEF NameTellsContent, Own
  <2>4. c[2] \in localFiles[d] /\ lastTaistamp[d] < c[2] /\ pc[d] = "rename"
    BY <1>1, <2>2 DEF Rename, PlanOf, TypeOK
  <2>5. r.day <= base[d]
    BY <2>3, <2>4 DEF PlanOf
  <2>6. r.taistamp <= lastTaistamp[d] \/ OutOfSight(d, r.day, c[2])
    BY <2>3, <2>4 DEF PlanOf
  <2>7. r.taistamp \in Int /\ lastTaistamp[d] \in Int /\ c[2] \in Int
    BY <2>2, <2>3, OwnTypes, FilesAreInt
  <2> QED
    BY <2>3, <2>4, <2>5, <2>6, <2>7
<1>2. ASSUME NEW d \in Dir, Rename(d), hdfs' = hdfs \cup {target(d)},
             NEW r \in hdfs', NEW s \in hdfs', NEW c \in r.content \cap s.content,
             r # s, r.day <= s.day
      PROVE  s.day - r.day > maxLookBackDays \/ Day(c[2]) > r.day
  <2>1. target(d).day = base[d] /\ base[d] \in Int /\ maxLookBackDays \in Nat
    BY WriterAssumption DEF target, TypeOK
  <2>2. CASE r \in hdfs /\ s \in hdfs
    BY <1>2, <2>2 DEF CopiesFarApart
  <2>3. CASE r \in hdfs /\ s = target(d)
    BY <1>1, <1>2, <2>1, <2>3 DEF OutOfSight
  <2>4. CASE r = target(d) /\ s \in hdfs
    <3>1. s \in Own(d) /\ s.day <= base[d] /\ OutOfSight(d, s.day, c[2])
      BY <1>1, <1>2, <2>4
    <3>2. s.day = base[d]
      BY <1>2, <2>1, <2>4, <3>1, OwnTypes
    <3> QED
      BY <2>1, <2>4, <3>1, <3>2 DEF OutOfSight
  <2> QED
    BY <1>2, <2>2, <2>3, <2>4
<1>3. CASE hdfs' = hdfs
  BY <1>3 DEF CopiesFarApart, Day
<1> QED
  BY <1>2, <1>3, HdfsChanges DEF CopiesFarApart, Day

----------------------------------------------------------------------------
(* Theorems *)

LEMMA CopiesInvInductive ==
    ASSUME DistinctNames
    PROVE  /\ Init => CopiesInv
           /\ WriterInv /\ NewestRetained /\ CopiesInv /\ [Next]_vars => CopiesInv'
<1>1. ASSUME Init PROVE CopiesInv
  BY <1>1 DEF Init, CopiesInv, NameTellsContent, NamesAscend, CacheIsCurrent,
              PlanIsLatest, LooksFarEnough, LooksBack, BatchIsTail, CopiesFarApart
<1>2. ASSUME WriterInv, NewestRetained, CopiesInv, [Next]_vars PROVE CopiesInv'
  <2> USE <1>2 DEF WriterInv, CopiesInv
  <2>1. \A d \in Dir : CacheOf(d) /\ PlanOf(d)
    BY PartsOfWorkers
  <2>2. \A d \in Dir : CacheOf(d)' /\ PlanOf(d)'
    BY <2>1, CacheStep, PlanStep
  <2>3. (CacheIsCurrent /\ PlanIsLatest /\ LooksFarEnough /\ LooksBack /\ BatchIsTail)'
    BY <2>2 DEF CacheIsCurrent, PlanIsLatest, LooksFarEnough, LooksBack,
                BatchIsTail, CacheOf, PlanOf, Own
  <2>4. NameTellsContent' /\ NamesAscend' /\ CopiesFarApart'
    BY <2>1, NameTellsStep, NamesAscendStep, CopiesStep
  <2> QED
    BY <2>3, <2>4
<1> QED
  BY <1>1, <1>2

\* What keeps the copies apart: the names of a service ascend with the days, a
\* cached listing is what its reader would find, and a worker looks at every day
\* that could hold what it is about to ship (planNextShip, cachingLs,
\* earliestLookbackDate).
THEOREM CopiesInvHolds == ASSUME DistinctNames PROVE Spec => []CopiesInv
BY CopiesInvInductive, WriterInvHolds, NewestIsRetained, PTL DEF Spec

\* No failure, restart, foreign file or lost answer of a rename makes barn-hdfs
\* ship a file again within the look-back (actOnServiceDir, planNextShip).
THEOREM CopiesAreFarApart == ASSUME DistinctNames PROVE Spec => []CopiesFarApart
<1>1. CopiesInv => CopiesFarApart
  BY DEF CopiesInv
<1> QED
  BY <1>1, CopiesInvHolds, PTL

----------------------------------------------------------------------------
(* When the clocks agree *)

\* A worker lists no file from after the day of its plan, and ships none there.
ListedInTime ==
    /\ \A d \in Dir : \A f \in localFiles[d] : Day(f) <= base[d]
    /\ \A r \in hdfs : \A c \in r.content : Day(c[2]) <= r.day

LEMMA ListingChanges ==
    [Next]_vars =>
        \/ \E d \in Dir : ListLocal(d)
        \/ localFiles' = [d \in Dir |-> {}]
        \/ localFiles' = localFiles /\ base' = base
BY DEF Next, Tick, HdfsChange, ForeignFile, Crash, StartRound, NewRound, Arrive,
       Worker, UseCache, MissCache, ListDay, DecideToShip, Throw, CopyToTemp,
       Rename, CleanupShipped, CleanupOld, FinishWith, vars, workerVars

LEMMA ListedInTimeInductive ==
    ASSUME Skew = 0
    PROVE  /\ Init => ListedInTime
           /\ TypeOK /\ ListedInTime /\ [Next]_vars => ListedInTime'
<1>1. Init => ListedInTime
  BY DEF Init, ListedInTime
<1>2. ASSUME TypeOK, ListedInTime, [Next]_vars PROVE ListedInTime'
  <2>1. ASSUME NEW d \in Dir, NEW f \in localFiles'[d] PROVE Day(f) <= base'[d]
    <3>1. ASSUME NEW e \in Dir, ListLocal(e) PROVE Day(f) <= base'[d]
      <4>1. CASE d = e
        <5>1. f \in dir[d] /\ base'[d] = Day(now)
          BY <3>1, <4>1, <2>1, <1>2 DEF ListLocal, TypeOK
        <5>2. f \in Int /\ now \in Int /\ f <= now
          BY <5>1, <1>2 DEF TypeOK, Named
        <5> QED
          BY <5>1, <5>2, DaysAscend
      <4>2. CASE d # e
        BY <3>1, <4>2, <2>1, <1>2 DEF ListLocal, ListedInTime, TypeOK
      <4> QED
        BY <4>1, <4>2
    <3> QED
      BY <3>1, <2>1, <1>2, ListingChanges DEF ListedInTime
  <2>2. ASSUME NEW d \in Dir, NEW c \in target(d).content
        PROVE  Day(c[2]) <= target(d).day
    <3>1. c[2] \in localFiles[d] /\ target(d).day = base[d]
      BY <2>2, <1>2 DEF target, concatCandidates, TypeOK
    <3> QED
      BY <3>1, <1>2 DEF ListedInTime
  <2>3. \A r \in hdfs' : \A c \in r.content : Day(c[2]) <= r.day
    BY <2>2, <1>2, HdfsChanges DEF ListedInTime
  <2> QED
    BY <2>1, <2>3 DEF ListedInTime, Day
<1> QED
  BY <1>1, <1>2

\* If no host that names log files is ahead, any two copies of a file lie further
\* apart than the look-back, without exception: earliestLookbackDate goes wrong
\* only for the clocks.
THEOREM CopiesOutOfSight ==
    ASSUME DistinctNames, Skew = 0
    PROVE  Spec => [](\A r, s \in hdfs : r.content \cap s.content # {} =>
                         r = s \/ r.day - s.day > maxLookBackDays
                               \/ s.day - r.day > maxLookBackDays)
<1> DEFINE Apart == \A r, s \in hdfs : r.content \cap s.content # {} =>
                       r = s \/ r.day - s.day > maxLookBackDays
                             \/ s.day - r.day > maxLookBackDays
<1>1. Spec => []ListedInTime
  BY ListedInTimeInductive, WriterTypeCorrect, PTL DEF Spec
<1>2. TypeOK /\ ListedInTime /\ CopiesFarApart => Apart
  <2> SUFFICES ASSUME TypeOK, ListedInTime, CopiesFarApart, NEW r \in hdfs,
                      NEW s \in hdfs, NEW c \in r.content \cap s.content, r # s
               PROVE  \/ r.day - s.day > maxLookBackDays
                      \/ s.day - r.day > maxLookBackDays
    OBVIOUS
  <2>1. r.day \in Int /\ s.day \in Int /\ Day(c[2]) \in Int
    <3>1. c \in Dir \X Time
      BY DEF TypeOK, HdfsFile
    <3>2. c[2] \in Int
      BY <3>1, FilesAreInt
    <3> QED
      BY <3>2, DayBounds DEF TypeOK, HdfsFile
  <2>2. Day(c[2]) <= r.day /\ Day(c[2]) <= s.day
    BY DEF ListedInTime
  <2>3. r.day <= s.day \/ s.day <= r.day
    BY <2>1
  <2> QED
    BY <2>1, <2>2, <2>3 DEF CopiesFarApart
<1> QED
  BY <1>1, <1>2, WriterTypeCorrect, CopiesAreFarApart, PTL
=============================================================================
