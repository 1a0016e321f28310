------------------------------ MODULE HdfsWriter ------------------------------
(***************************************************************************)
(* barn-hdfs on one collector: rounds in which every service directory is  *)
(* synchronised to HDFS by a worker of its own (main.scala with placement/ *)
(* hdfs.scala, placement/local.scala and hadoop.scala).                    *)
(*                                                                         *)
(* Nothing records what has been shipped.  A worker deduces it from the    *)
(* names it finds in the date directories of HDFS, looking back from today *)
(* over a few days, and a HDFS listing is fetched once per round and       *)
(* shared by the workers.  Every call to HDFS and every look at the local  *)
(* directory is a step, so that arrivals, other workers, HDFS failures, a  *)
(* restart and midnight come in between.                                   *)
(*                                                                         *)
(* A file is its tai64n timestamp, on the same scale as the clock; the     *)
(* clock of the host that named it may be ahead of this one.               *)
(***************************************************************************)
EXTENDS Integers, FiniteSets

CONSTANTS Dir,          \* service directories, named service@category@host
          DayLen,       \* clock units in a day
          maxLookBackDays,
          shipInterval, \* in clock units
          minKeep,      \* minMB, in files: cleanup leaves at least as much
          maxReady,     \* maxReadySize, in files
          Skew,         \* how far the clock of a producer may be ahead
          MaxNow,       \* bound: the clock stops there
          MaxFiles,     \* bound: MaxFiles[d] files are delivered to d
          MaxForeign,   \* bound: date directories with a foreign file in them
          MaxCrashes    \* bound: restarts

ASSUME WriterAssumption ==
    /\ \A d \in Dir : DOMAIN d = {"service", "category", "host"}
    /\ DayLen \in Nat \ {0} /\ maxLookBackDays \in Nat
    /\ shipInterval \in Nat /\ minKeep \in Nat /\ maxReady \in Nat
    /\ Skew \in Nat
    /\ MaxNow \in Nat \ {0} /\ MaxFiles \in [Dir -> Nat]
    /\ MaxForeign \in Nat /\ MaxCrashes \in Nat

VARIABLES
    now,         \* DateTime.now
    dir,         \* dir[d]: files in d, delivered by an agent
    arrived,     \* history: every file d has been given
    hdfs,        \* files in the date directories of HDFS
    foreign,     \* date directories with a file that barn-hdfs did not name
    hdfsUp,      \* calls to HDFS succeed
    hdfsListCache, \* days listed in this round, with what was found
    pc,          \* per worker, where in actOnServiceDir it is
    localFiles,  \* per worker, its listing of d
    base,        \* per worker, the day of its shipping plan
    hdfsDirs,    \* per worker, the days it has still to look at
    lastTaistamp,\* per worker, the newest file it believes shipped, or None
    candidates,  \* per worker, what it ships
    crashes

workerVars == <<pc, localFiles, base, hdfsDirs, lastTaistamp, candidates>>
diskVars == <<dir, arrived>>
hdfsVars == <<hdfs, foreign, hdfsUp>>
vars == <<now, diskVars, hdfsVars, hdfsListCache, workerVars, crashes>>

Day(t) == t \div DayLen
Midnight(t) == Day(t) * DayLen

\* Where a file's name can be, as the clock now shows.
Named == 1 .. now + Skew

Time == 1 .. MaxNow + Skew
None == 0

\* The category is dropped.
decodeServiceInfo(d) == [service |-> d.service, host |-> d.host]

Service == {decodeServiceInfo(d) : d \in Dir}

\* A file in the directory of a day.  Its name tells the service, the host and
\* its newest log file; its content is not looked at.
HdfsFile == [day : 0 .. Day(MaxNow), svc : Service,
             taistamp : Time, content : SUBSET (Dir \X Time)]

Pc == {"idle", "list", "look", "ls", "decide", "copy", "rename", "cleanup",
       "failed"}

TypeOK ==
    /\ now \in 1 .. MaxNow
    /\ dir \in [Dir -> SUBSET Named]
    /\ arrived \in [Dir -> SUBSET Named]
    /\ hdfs \subseteq HdfsFile
    /\ foreign \subseteq 0 .. Day(now)
    /\ hdfsUp \in BOOLEAN
    /\ \A day \in DOMAIN hdfsListCache : hdfsListCache[day] \in
          [error : BOOLEAN, names : SUBSET (Service \X Time)]
    /\ pc \in [Dir -> Pc]
    /\ localFiles \in [Dir -> SUBSET Named]
    /\ base \in [Dir -> 0 .. Day(now)]
    /\ hdfsDirs \in [Dir -> SUBSET Int]
    /\ lastTaistamp \in [Dir -> {None} \cup Time]
    /\ candidates \in [Dir -> SUBSET Named]
    /\ \A d \in Dir : candidates[d] \subseteq localFiles[d]
    /\ crashes \in 0 .. MaxCrashes

Init ==
    /\ now = 1
    /\ dir = [d \in Dir |-> {}]
    /\ arrived = [d \in Dir |-> {}]
    /\ hdfs = {} /\ foreign = {} /\ hdfsUp = TRUE
    /\ hdfsListCache = <<>>
    /\ pc = [d \in Dir |-> "idle"]
    /\ localFiles = [d \in Dir |-> {}]
    /\ base = [d \in Dir |-> 0]
    /\ hdfsDirs = [d \in Dir |-> {}]
    /\ lastTaistamp = [d \in Dir |-> None]
    /\ candidates = [d \in Dir |-> {}]
    /\ crashes = 0

Newest(S) == CHOOSE m \in S : \A x \in S : x <= m
Oldest(S) == CHOOSE m \in S : \A x \in S : m <= x

\* Keeps the listings of earlier rounds.
NewRoundSameCache ==
    /\ localFiles' = [d \in Dir |-> {}]
    /\ base' = [d \in Dir |-> 0]
    /\ hdfsDirs' = [d \in Dir |-> {}]
    /\ lastTaistamp' = [d \in Dir |-> None]
    /\ candidates' = [d \in Dir |-> {}]
    /\ UNCHANGED hdfsListCache

\* Workers start afresh, with an empty listing cache.
NewRound ==
    /\ localFiles' = [d \in Dir |-> {}]
    /\ base' = [d \in Dir |-> 0]
    /\ hdfsDirs' = [d \in Dir |-> {}]
    /\ lastTaistamp' = [d \in Dir |-> None]
    /\ candidates' = [d \in Dir |-> {}]
    /\ hdfsListCache' = <<>>

----------------------------------------------------------------------------
(* Environment *)

Tick ==
    /\ now < MaxNow
    /\ now' = now + 1
    /\ UNCHANGED <<diskVars, hdfsVars, hdfsListCache, workerVars, crashes>>

\* An agent delivers the next file of its log, in order and maybe late.
Arrive(d) ==
    /\ Cardinality(arrived[d]) < MaxFiles[d]
    /\ \E f \in Named :
          /\ \A g \in arrived[d] : g < f
          /\ dir' = [dir EXCEPT ![d] = @ \cup {f}]
          /\ arrived' = [arrived EXCEPT ![d] = @ \cup {f}]
    /\ UNCHANGED <<now, hdfsVars, hdfsListCache, workerVars, crashes>>

HdfsChange ==
    /\ hdfsUp' = ~hdfsUp
    /\ UNCHANGED <<now, diskVars, hdfs, foreign, hdfsListCache, workerVars, crashes>>

\* Somebody puts a file of another name into today's directory, or removes it.
ForeignFile ==
    /\ \/ Cardinality(foreign) < MaxForeign /\ foreign' = foreign \cup {Day(now)}
       \/ \E day \in foreign : foreign' = foreign \ {day}
    /\ UNCHANGED <<now, diskVars, hdfs, hdfsUp, hdfsListCache, workerVars, crashes>>

\* barn-hdfs dies and is started again.
Crash ==
    /\ crashes < MaxCrashes
    /\ crashes' = crashes + 1
    /\ pc' = [d \in Dir |-> "idle"]
    /\ NewRound
    /\ UNCHANGED <<now, diskVars, hdfsVars>>

----------------------------------------------------------------------------
(* A round *)

\* The next round begins when every worker of the last one is done.
StartRound ==
    /\ \A d \in Dir : pc[d] = "idle"
    /\ pc' = [d \in Dir |-> "list"]
    /\ NewRound
    /\ UNCHANGED <<now, diskVars, hdfsVars, crashes>>

Goto(d, label) == pc' = [pc EXCEPT ![d] = label]

\* The oldest local file, but not before the limit.
earliestLookbackDate(files) ==
    LET limit == now - maxLookBackDays * DayLen IN
    IF files = {} \/ Oldest(files) < limit THEN limit ELSE Oldest(files)

\* Today's directory, and those before it down to the bound.
targetDirs(lowerBound) == {Day(now)} \cup Day(lowerBound) .. Day(now)

\* listSortedLocalFiles, and the directories of the shipping plan.
ListLocal(d) ==
    /\ pc[d] = "list"
    /\ localFiles' = [localFiles EXCEPT ![d] = dir[d]]
    /\ base' = [base EXCEPT ![d] = Day(now)]
    /\ hdfsDirs' = [hdfsDirs EXCEPT ![d] = targetDirs(earliestLookbackDate(dir[d]))]
    /\ Goto(d, "look")
    /\ UNCHANGED <<now, diskVars, hdfsVars, hdfsListCache,
                   lastTaistamp, candidates, crashes>>

\* The names of barn-hdfs in a day's directory.
placed(day) == {<<r.svc, r.taistamp>> : r \in {x \in hdfs : x.day = day}}

\* A day whose names do not all parse passes for an empty one.
listParsedDay(day) ==
    [error |-> ~hdfsUp,
     names |-> IF hdfsUp /\ day \notin foreign THEN placed(day) ELSE {}]

\* What listing a day yields now: the names in it, or an error.  One name that
\* does not parse makes an error of the whole (collapseValidate).
listHdfsFiles(day) ==
    LET ok == hdfsUp /\ day \notin foreign IN
    [error |-> ~ok, names |-> IF ok THEN placed(day) ELSE {}]

\* Of any service.
allLogs(d, names) == {n[2] : n \in names}

logsForService(d, names) ==
    {n[2] : n \in {m \in names : m[1] = decodeServiceInfo(d)}}

\* planNextShip: the latest day that holds anything of this service decides.
LearnFrom(d, found) ==
    LET taistamps == logsForService(d, found.names) IN
    /\ hdfsDirs' = [hdfsDirs EXCEPT ![d] = @ \ {Newest(@)}]
    /\ \/ /\ found.error
          /\ Goto(d, "failed")
          /\ UNCHANGED lastTaistamp
       \/ /\ ~found.error /\ taistamps # {}
          /\ lastTaistamp' = [lastTaistamp EXCEPT ![d] = Newest(taistamps)]
          /\ Goto(d, "decide")
       \/ /\ ~found.error /\ taistamps = {}
          /\ Goto(d, IF hdfsDirs'[d] = {} THEN "decide" ELSE "look")
          /\ UNCHANGED lastTaistamp

\* cachingLs, a hit: errors are cached too.
UseCache(d) ==
    /\ pc[d] = "look"
    /\ Newest(hdfsDirs[d]) \in DOMAIN hdfsListCache
    /\ LearnFrom(d, hdfsListCache[Newest(hdfsDirs[d])])
    /\ UNCHANGED <<now, diskVars, hdfsVars, hdfsListCache, localFiles,
                   base, candidates, crashes>>

\* cachingLs, a miss.  Another worker may miss the same day meanwhile.
MissCache(d) ==
    /\ pc[d] = "look"
    /\ Newest(hdfsDirs[d]) \notin DOMAIN hdfsListCache
    /\ Goto(d, "ls")
    /\ UNCHANGED <<now, diskVars, hdfsVars, hdfsListCache, localFiles,
                   base, hdfsDirs, lastTaistamp, candidates, crashes>>

ListDay(d) ==
    /\ pc[d] = "ls"
    /\ LET day   == Newest(hdfsDirs[d])
           found == listHdfsFiles(day)
       IN  /\ hdfsListCache' = [x \in DOMAIN hdfsListCache \cup {day} |->
                                   IF x = day THEN found ELSE hdfsListCache[x]]
           /\ LearnFrom(d, found)
    /\ UNCHANGED <<now, diskVars, hdfsVars, localFiles, base,
                   candidates, crashes>>

\* enoughTimePast makes an interval from that file to now, before anything else
\* is looked at, and an interval cannot end before it begins.
aheadOfClock(d) == lastTaistamp[d] > now

isShippingTime(d) ==
    \/ lastTaistamp[d] = None
    \/ now - lastTaistamp[d] >= shipInterval
    \/ Cardinality(localFiles[d]) > maxReady

\* Files before this are never shipped.
shippingLimit == Midnight(now - (maxLookBackDays + 1) * DayLen)

\* Today's files only.
todaysFiles(d) == {f \in localFiles[d] : f > lastTaistamp[d] /\ Day(f) = base[d]}

\* Lists the directory again.
filesByNow(d) == {f \in dir[d] : f > lastTaistamp[d] /\ f >= shippingLimit}

\* The tail of the listing that is newer than what HDFS has and not too old.
outstandingFiles(d) ==
    {f \in localFiles[d] : f > lastTaistamp[d] /\ f >= shippingLimit}

DecideToShip(d) ==
    /\ pc[d] = "decide" /\ ~aheadOfClock(d)
    /\ \/ /\ isShippingTime(d) /\ outstandingFiles(d) # {}
          /\ candidates' = [candidates EXCEPT ![d] = outstandingFiles(d)]
          /\ Goto(d, "copy")
       \/ /\ ~(isShippingTime(d) /\ outstandingFiles(d) # {})
          /\ Goto(d, "failed")
          /\ UNCHANGED candidates
    /\ UNCHANGED <<now, diskVars, hdfsVars, hdfsListCache, localFiles,
                   base, hdfsDirs, lastTaistamp, crashes>>

\* The exception is caught nowhere.  It ends the round, without this worker's
\* cleanup and without the workers that have not begun, and then the process,
\* which is started again.
Throw(d) ==
    /\ pc[d] = "decide" /\ aheadOfClock(d)
    /\ \E begun \in SUBSET Dir :
          /\ {e \in Dir : pc[e] # "list"} \subseteq begun
          /\ pc' = [e \in Dir |-> IF e \in begun \ {d} THEN pc[e] ELSE "idle"]
    /\ UNCHANGED <<now, diskVars, hdfsVars, hdfsListCache, localFiles, base,
                   hdfsDirs, lastTaistamp, candidates, crashes>>

\* One sequence file out of the candidates.
concatCandidates(d) == {d} \X candidates[d]

\* The combined file is written to a temporary directory of HDFS, where nothing
\* looks for it.
CopyToTemp(d) ==
    /\ pc[d] = "copy"
    /\ Goto(d, IF hdfsUp THEN "rename" ELSE "failed")
    /\ UNCHANGED <<now, diskVars, hdfsVars, hdfsListCache, localFiles,
                   base, hdfsDirs, lastTaistamp, candidates, crashes>>

\* The file as it will be found in the directory of the plan.
target(d) == [day |-> base[d], svc |-> decodeServiceInfo(d),
              taistamp |-> Newest(candidates[d]),
              content |-> concatCandidates(d)]

TargetExists(d) == \E r \in hdfs :
    /\ r.day = target(d).day /\ r.svc = target(d).svc
    /\ r.taistamp = target(d).taistamp

\* atomicRenameOnHdfs.  HDFS does not rename onto an existing file; a call that
\* fails may have been carried out all the same.
Rename(d) ==
    /\ pc[d] = "rename"
    /\ \/ /\ hdfsUp /\ ~TargetExists(d)
          /\ hdfs' = hdfs \cup {target(d)}
          /\ Goto(d, "cleanup")
       \/ /\ ~hdfsUp \/ TargetExists(d)
          /\ \/ UNCHANGED hdfs
             \/ ~TargetExists(d) /\ hdfs' = hdfs \cup {target(d)}
          /\ Goto(d, "failed")
    /\ UNCHANGED <<now, diskVars, foreign, hdfsUp, hdfsListCache, localFiles,
                   base, hdfsDirs, lastTaistamp, candidates, crashes>>

----------------------------------------------------------------------------
(* Retention *)

\* Goes by age alone.
deleteAllBefore(files, cleanupLimit) == {f \in files : f < cleanupLimit}

\* cleanupLocal deletes from the oldest on, stops at the limit or when no more
\* than minKeep would remain, and never touches the newest file.
cleanupLocal(files, cleanupLimit) ==
    {f \in files :
        /\ f < cleanupLimit
        /\ \E g \in files : f < g
        /\ Cardinality({g \in files : f <= g}) > minKeep}

FinishWith(d, cleanupLimit) ==
    /\ dir' = [dir EXCEPT ![d] = @ \ cleanupLocal(@, cleanupLimit)]
    /\ Goto(d, "idle")
    /\ UNCHANGED <<now, arrived, hdfsVars, hdfsListCache, localFiles, base,
                   hdfsDirs, lastTaistamp, candidates, crashes>>

\* After a shipment everything before its newest file may go.
CleanupShipped(d) ==
    pc[d] = "cleanup" /\ FinishWith(d, Newest(candidates[d]))

\* A day less.
CleanupEarlier(d) ==
    pc[d] = "failed" /\ FinishWith(d, now - maxLookBackDays * DayLen)

\* After anything else, what is older than the look-back limit by a day.
CleanupOld(d) ==
    pc[d] = "failed" /\ FinishWith(d, now - (maxLookBackDays + 1) * DayLen)

----------------------------------------------------------------------------
Worker(d) ==
    \/ ListLocal(d) \/ UseCache(d) \/ MissCache(d) \/ ListDay(d)
    \/ DecideToShip(d) \/ Throw(d)
    \/ CopyToTemp(d) \/ Rename(d)
    \/ CleanupShipped(d) \/ CleanupOld(d)

Next ==
    \/ Tick \/ HdfsChange \/ ForeignFile \/ Crash \/ StartRound
    \/ \E d \in Dir : Arrive(d) \/ Worker(d)

Spec == Init /\ [][Next]_vars

\* Rounds follow each other, a worker's calls return, and time passes.
Fairness ==
    /\ WF_vars(StartRound) /\ WF_vars(Tick)
    /\ \A d \in Dir : WF_vars(Worker(d))

FairSpec == Spec /\ Fairness

----------------------------------------------------------------------------
(* Properties *)

Shipped(d, f) == \E r \in hdfs : <<d, f>> \in r.content

\* A file shipped twice lies in two date directories further apart than the
\* look-back: no failure, restart, foreign file or lost answer of the rename
\* makes barn-hdfs ship a file again whose first copy it can still see.  Only a
\* file whose name was ahead of the clock across midnight is not looked for in
\* the directory it was first put into (earliestLookbackDate).
CopiesFarApart ==
    \A r, s \in hdfs : \A c \in r.content \cap s.content :
        r # s /\ r.day <= s.day =>
            s.day - r.day > maxLookBackDays \/ Day(c[2]) > r.day

\* A file that is not on HDFS is deleted only when it has become older than
\* the look-back limit and a day.
NoYoungLoss ==
    [][\A d \in Dir : \A f \in dir[d] \ dir'[d] :
          Shipped(d, f) \/ f < now - (maxLookBackDays + 1) * DayLen]_vars

\* No file of a directory is passed over: when a newer one is on HDFS, it is
\* there too, or is too old to be shipped.  The name of the newest file is all
\* that later rounds go by.
NothingPassedOver ==
    \A d \in Dir : \A f \in dir[d], g \in arrived[d] :
        f < g /\ Shipped(d, g) => Shipped(d, f) \/ f < shippingLimit

\* Why nothing is passed over: the parts of an inductive invariant of workers
\* whose directories HDFS can tell apart.
DistinctNames ==
    \A d, e \in Dir : decodeServiceInfo(d) = decodeServiceInfo(e) => d = e

DeliveredFirst ==
    \A d \in Dir :
        /\ dir[d] \subseteq arrived[d]
        /\ \A f \in Time : Shipped(d, f) => f \in arrived[d]

\* What a worker learns from names has been shipped, however old the listing.
NamesAreShipped ==
    \A d \in Dir :
        /\ \A r \in hdfs : r.svc = decodeServiceInfo(d) => Shipped(d, r.taistamp)
        /\ \A day \in DOMAIN hdfsListCache :
              \A f \in logsForService(d, hdfsListCache[day].names) : Shipped(d, f)
        /\ lastTaistamp[d] # None => Shipped(d, lastTaistamp[d])

\* A worker's listing misses only files that came later, and only its own
\* cleanup takes files away.
ListingIsWhole ==
    \A d \in Dir : pc[d] \notin {"idle", "list"} =>
        /\ localFiles[d] \subseteq dir[d]
        /\ \A f \in dir[d], g \in localFiles[d] : f <= g => f \in localFiles[d]

\* What is not in its directory any more is on HDFS or too old.
GoneIsSettled ==
    \A d \in Dir : \A f \in arrived[d] \ dir[d] :
        Shipped(d, f) \/ f < now - (maxLookBackDays + 1) * DayLen

\* A batch is the whole rest of the listing.
BatchIsOutstanding ==
    \A d \in Dir :
        /\ pc[d] \in {"list", "look", "ls", "decide"} => candidates[d] = {}
        /\ pc[d] \in {"copy", "rename", "cleanup"} =>
              /\ candidates[d] # {}
              /\ \A f \in localFiles[d] :
                    f \in candidates[d] \/ f <= lastTaistamp[d] \/ f < shippingLimit
        /\ pc[d] = "cleanup" => \A f \in candidates[d] : Shipped(d, f)

\* No file of a batch is older than one on HDFS, unless it is there too.
BatchIsNewer ==
    \A d \in Dir : pc[d] \in {"copy", "rename"} =>
        \A f \in candidates[d], g \in arrived[d] :
            f < g /\ Shipped(d, g) => Shipped(d, f)

WriterInv ==
    /\ TypeOK /\ DeliveredFirst /\ NamesAreShipped /\ ListingIsWhole
    /\ GoneIsSettled /\ BatchIsOutstanding /\ BatchIsNewer /\ NothingPassedOver

\* Why no copy lies within the look-back: the further parts of its inductive
\* invariant.  The name of a file on HDFS tells of its content,
NameTellsContent ==
    \A r \in hdfs :
        /\ r.day <= Day(now)
        /\ \A c \in r.content :
              r.svc = decodeServiceInfo(c[1]) /\ c[2] <= r.taistamp

\* and the names of a service ascend with the days they are found under, so that
\* the latest day that holds any accounts for those before it.
NamesAscend ==
    \A r, s \in hdfs :
        r.svc = s.svc /\ r.day < s.day => r.taistamp <= s.taistamp

\* A cached listing has everything its readers could find on HDFS now: whoever
\* has shipped in this round does not look again.
CacheIsCurrent ==
    \A d \in Dir : pc[d] \in {"list", "look", "ls"} =>
        \A day \in DOMAIN hdfsListCache : ~hdfsListCache[day].error =>
            logsForService(d, hdfsListCache[day].names)
                = logsForService(d, placed(day))

\* A worker plans for the last day on which its service has anything, and has
\* listed a file that is no older than anything it has shipped.
PlanIsLatest ==
    \A d \in Dir : pc[d] \in {"look", "ls", "decide", "copy", "rename"} =>
        \A r \in hdfs : r.svc = decodeServiceInfo(d) =>
            /\ r.day <= base[d]
            /\ \E g \in localFiles[d] : r.taistamp <= g

\* A day that a worker has not to look at, for the file f that it has listed.
OutOfSight(d, day, f) == base[d] - day > maxLookBackDays \/ Day(f) > day

\* Every file of its service that it could see is still to be looked at, or was,
\* and what it ships is newer than that.
LooksFarEnough ==
    \A d \in Dir : \A r \in {x \in hdfs : x.svc = decodeServiceInfo(d)} :
        /\ pc[d] \in {"look", "ls"} => \A f \in localFiles[d] :
              r.day \in hdfsDirs[d] \/ OutOfSight(d, r.day, f)
        /\ pc[d] \in {"decide", "copy", "rename"} => \A f \in localFiles[d] :
              r.taistamp <= lastTaistamp[d] \/ OutOfSight(d, r.day, f)

\* It looks at one day after the other, from that of its plan on.
LooksBack ==
    \A d \in Dir : pc[d] \in {"look", "ls"} =>
        hdfsDirs[d] # {} /\ \A day \in hdfsDirs[d] : day <= base[d]

\* What it ships is the end of its listing.
BatchIsTail ==
    \A d \in Dir : pc[d] \in {"copy", "rename"} => \A c \in candidates[d] :
        /\ lastTaistamp[d] < c
        /\ \A f \in localFiles[d] : c <= f => f \in candidates[d]

CopiesInv ==
    /\ NameTellsContent /\ NamesAscend /\ CacheIsCurrent /\ PlanIsLatest
    /\ LooksFarEnough /\ LooksBack /\ BatchIsTail /\ CopiesFarApart

\* barn-hdfs keeps the promise of LogArchive: what is on HDFS is an unbroken run
\* of what a directory was given, but for files that had grown too old.
Archive == INSTANCE LogArchive WITH
    delivered <- arrived,
    archived  <- [d \in Dir |-> {f \in arrived[d] : Shipped(d, f)}],
    limit     <- now - (maxLookBackDays + 1) * DayLen

ArchivesInOrder == Archive!Spec

\* The newest file an agent delivered stays in the directory, which the agent
\* relies on when it deduces what the collector has.
NewestRetained ==
    \A d \in Dir : \A f \in arrived[d] : \E g \in dir[d] : f <= g

\* When HDFS stays reachable and free of foreign files, every file is shipped
\* in the end, or grows too old before it could be; neither a shipment that is
\* ahead of the clock nor a cached error keeps it back for ever, and neither do
\* the other workers of the round.  Two things come only from MaxNow: the last
\* files before it are left out, as time stops before their shipping interval
\* ends, and a file of another directory that time never reaches may throw in
\* every round before this worker begins.
Unshipped(d) == {f \in dir[d] : ~Shipped(d, f) /\ f >= shippingLimit}

NeverReached(d) == \E e \in Dir \ {d} : \E g \in arrived[e] : g > MaxNow

EverythingShipped ==
    <>[](hdfsUp /\ foreign = {}) =>
        \A d \in Dir : \A f \in 1 .. MaxNow - shipInterval + 1 :
            f \in Unshipped(d) ~> f \notin Unshipped(d) \/ NeverReached(d)

\* "In order to ensure data is sent to HDFS exactly once" (actOnServiceDir):
\* no log file is part of two files on HDFS.
ExactlyOnce ==
    \A r, s \in hdfs : r # s => r.content \cap s.content = {}
=============================================================================
