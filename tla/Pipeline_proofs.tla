---------------------------- MODULE Pipeline_proofs ----------------------------
(***************************************************************************)
(* Proofs about agents and barn-hdfs together: agents that go by the gap   *)
(* rule give barn-hdfs what it takes for granted, because barn-hdfs leaves *)
(* them the newest file; so the composition keeps the promises of          *)
(* barn-hdfs, and passes the log on in order from end to end.              *)
(***************************************************************************)
EXTENDS Pipeline, HdfsCopies_proofs, FiniteSetTheorems

----------------------------------------------------------------------------
(* What svlogd keeps *)

LEMMA NamedIsFinite ==
    ASSUME TypeOK, NEW S, S \subseteq Named
    PROVE  IsFiniteSet(S) /\ S \subseteq Nat /\ S \subseteq Int
<1>1. 1 \in Int /\ now + Skew \in Int /\ Named \subseteq Nat
  BY WriterAssumption DEF TypeOK, Named
<1>2. IsFiniteSet(Named)
  BY <1>1, FS_Interval DEF Named
<1>3. IsFiniteSet(S)
  BY <1>2, FS_Subset
<1>4. S \subseteq Nat
  BY <1>1
<1> QED
  BY <1>3, <1>4

\* The newest files of a log: with one of them all that are newer, and the newest.
LEMMA KeepsNewest ==
    ASSUME NEW all, IsFiniteSet(all), all \subseteq Int, NEW kept,
           kept = {g \in all : Cardinality({h \in all : g <= h}) <= Retain}
    PROVE  /\ \A g \in kept, h \in all : g <= h => h \in kept
           /\ \A f \in all : (\A g \in all : g <= f) => f \in kept
<1> DEFINE From(g) == {h \in all : g <= h}
<1>1. ASSUME NEW g \in all PROVE IsFiniteSet(From(g)) /\ Cardinality(From(g)) \in Nat
  BY FS_Subset, FS_CardinalityType
<1>2. ASSUME NEW g \in kept, NEW h \in all, g <= h PROVE h \in kept
  <2>1. g \in all /\ g \in Int /\ h \in Int /\ Cardinality(From(g)) <= Retain
    OBVIOUS
  <2>2. ASSUME NEW x \in From(h) PROVE x \in From(g)
    BY <1>2, <2>1, <2>2
  <2>3. From(h) \subseteq From(g)
    BY <2>2
  <2>4. Cardinality(From(h)) <= Cardinality(From(g))
    <3> HIDE DEF From
    <3> QED
      BY <1>1, <2>1, <2>3, FS_Subset
  <2>5. Cardinality(From(g)) \in Nat /\ Cardinality(From(h)) \in Nat
    BY <1>1, <2>1
  <2>6. Cardinality(From(h)) <= Retain
    <3> HIDE DEF From
    <3> QED
      BY <2>1, <2>4, <2>5, PipelineAssumption
  <2> QED
    BY <2>6
<1>3. ASSUME NEW f \in all, \A g \in all : g <= f PROVE f \in kept
  <2>1. ASSUME NEW x \in From(f) PROVE x = f
    <3>1. x \in Int /\ f \in Int /\ f <= x /\ x <= f
      BY <1>3, <2>1
    <3> QED
      BY <3>1
  <2>2. f \in From(f)
    OBVIOUS
  <2>3. From(f) = {f}
    BY <2>1, <2>2
  <2>4. Cardinality({f}) <= Retain
    <3>1. Cardinality({f}) = 1
      BY FS_Singleton, Zenon
    <3> QED
      BY <3>1, PipelineAssumption
  <2> QED
    BY <2>3, <2>4
<1>4. \A g \in kept, h \in all : g <= h => h \in kept
  BY <1>2
<1>5. \A f \in all : (\A g \in all : g <= f) => f \in kept
  BY <1>3
<1> HIDE DEF From
<1> QED
  BY <1>4, <1>5, Zenon

----------------------------------------------------------------------------
(* The invariant of the agents *)

\* The part of PipelineInv for one directory.
AgentOf(d) ==
    /\ \A h \in arrived[d] \cup listing[d] \cup todo[d] :
          log[d] # {} /\ \A e \in log[d] : e <= h => h \in log[d]
    /\ \A e \in log[d], g \in arrived[d] : e < g => e \in arrived[d]
    /\ \A f \in listing[d] :
          /\ todo[d] = {}
          /\ \A e \in log[d] : e < f => e \in listing[d]
          /\ \A g \in arrived[d] : f <= g => g \in listing[d]
    /\ \A f \in todo[d] :
          /\ \A g \in arrived[d] : g < f
          /\ \A e \in log[d] : e < f => e \in todo[d] \cup arrived[d]

LEMMA InvOfAgents == PipelineInv <=> AgentTypeOK /\ \A d \in Dir : AgentOf(d)
BY DEF PipelineInv, LogIsTail, DeliveredInOrder, ListingCovers, BatchIsNext, AgentOf

\* svlogd closes a file that is newer than all that was delivered.
LEMMA RotateStep ==
    ASSUME TypeOK, AgentTypeOK, NEW d \in Dir, AgentOf(d), Rotate(d)
    PROVE  AgentTypeOK' /\ AgentOf(d)'
<1>1. /\ todo' = todo /\ listing' = listing /\ arrived' = arrived
      /\ Named' = Named
  BY DEF Rotate, vars, diskVars, Named
<1>2. PICK f \in now .. now + Skew :
        /\ \A g \in log[d] : g < f
        /\ log' = [log EXCEPT ![d] =
              {g \in log[d] \cup {f} :
                  Cardinality({h \in log[d] \cup {f} : g <= h}) <= Retain}]
  BY DEF Rotate
<1> DEFINE all == log[d] \cup {f}
           kept == {g \in all : Cardinality({h \in all : g <= h}) <= Retain}
<1>3. f \in Named /\ all \subseteq Named /\ log'[d] = kept
  <2>1. f \in Named
    BY WriterAssumption DEF TypeOK, Named
  <2> QED
    BY <1>2, <2>1 DEF AgentTypeOK
<1>4. AgentTypeOK'
  BY <1>1, <1>2, <1>3 DEF AgentTypeOK
<1>5. /\ IsFiniteSet(all) /\ all \subseteq Int
      /\ arrived[d] \subseteq Int /\ listing[d] \subseteq Int
      /\ todo[d] \subseteq Int
  BY <1>3, NamedIsFinite DEF TypeOK, AgentTypeOK
<1>6. /\ \A g \in kept, h \in all : g <= h => h \in kept
      /\ \A x \in all : (\A g \in all : g <= x) => x \in kept
  BY <1>5, KeepsNewest
<1>7. f \in kept
  BY <1>2, <1>5, <1>6
<1>8. kept \subseteq all
  OBVIOUS
<1> HIDE DEF kept
<1>9. ASSUME NEW h \in arrived[d] \cup listing[d] \cup todo[d] PROVE h < f
  <2>1. PICK e \in log[d] : TRUE
    BY DEF AgentOf
  <2>2. e < f /\ e \in Int /\ h \in Int /\ f \in Int
    BY <1>2, <1>5
  <2>3. e <= h => h \in log[d]
    BY DEF AgentOf
  <2> QED
    BY <1>2, <2>2, <2>3
<1>10. ASSUME NEW h \in arrived[d] \cup listing[d] \cup todo[d]
       PROVE  kept # {} /\ \A e \in kept : e <= h => h \in kept
  <2>1. ASSUME NEW e \in kept, e <= h PROVE h \in kept
    <3>1. e \in Int /\ h \in Int /\ h < f /\ f \in Int
      BY <1>5, <1>8, <1>9
    <3>2. e \in log[d]
      BY <1>8, <2>1, <3>1
    <3>3. h \in all
      BY <2>1, <3>2 DEF AgentOf
    <3> QED
      BY <1>6, <2>1, <3>3
  <2> QED
    BY <1>7, <2>1
<1>11. \A e \in kept, h \in arrived[d] \cup listing[d] \cup todo[d] :
          e < h => e \in log[d]
  BY <1>5, <1>8, <1>9
<1> HIDE DEF all
<1> QED
  BY <1>1, <1>3, <1>4, <1>10, <1>11 DEF AgentOf

\* A listing is taken while nothing is on its way.
LEMMA ListStep ==
    ASSUME TypeOK, AgentTypeOK, NEW d \in Dir, AgentOf(d), List(d)
    PROVE  AgentTypeOK' /\ AgentOf(d)'
<1>1. /\ listing' = [listing EXCEPT ![d] = log[d]] /\ todo[d] = {}
      /\ log' = log /\ todo' = todo /\ arrived' = arrived /\ Named' = Named
  BY DEF List, vars, diskVars, Named
<1>2. AgentTypeOK' /\ listing'[d] = log[d]
  BY <1>1 DEF AgentTypeOK
<1> QED
  BY <1>1, <1>2 DEF AgentOf

\* The gap rule: what is listed above the collector's newest file is new to it,
\* whatever has been rotated away or cleaned up since the listing.
LEMMA QueryStep ==
    ASSUME TypeOK, RetainInv, AgentTypeOK, NEW d \in Dir, AgentOf(d), Query(d)
    PROVE  AgentTypeOK' /\ AgentOf(d)'
<1> DEFINE batch == tail_intersection(listing[d], log_files_not_on_target(d))
<1>1. /\ todo' = [todo EXCEPT ![d] = batch] /\ listing' = [listing EXCEPT ![d] = {}]
      /\ log' = log /\ arrived' = arrived /\ Named' = Named
  BY DEF Query, Answered, vars, diskVars, Named
<1>2. /\ batch \subseteq listing[d]
      /\ \A f \in batch, g \in listing[d] : g >= f => g \in log[d] /\ g \notin dir[d]
      /\ \A e \in listing[d] \ batch :
            \E g \in listing[d] : g >= e /\ (g \notin log[d] \/ g \in dir[d])
  BY DEF tail_intersection, log_files_not_on_target
<1>3. AgentTypeOK' /\ todo'[d] = batch /\ listing'[d] = {}
  BY <1>1, <1>2 DEF AgentTypeOK
<1>4. log[d] \subseteq Int /\ listing[d] \subseteq Int /\ arrived[d] \subseteq Int
  BY NamedIsFinite DEF TypeOK, AgentTypeOK
<1>5. dir[d] \subseteq arrived[d]
  BY DEF RetainInv
<1> HIDE DEF batch
<1>6. ASSUME NEW f \in batch, NEW g \in arrived[d] PROVE g < f
  <2> SUFFICES ASSUME f <= g PROVE FALSE
    BY <1>2, <1>4
  <2>1. PICK h \in dir[d] : \A x \in arrived[d] : x <= h
    BY DEF RetainInv
  <2>2. h \in arrived[d] /\ f \in listing[d] /\ f <= h
    <3>1. h \in arrived[d] /\ f \in listing[d] /\ g <= h
      BY <1>2, <1>5, <2>1
    <3> QED
      BY <1>4, <3>1
  <2>3. h \in listing[d]
    BY <2>2 DEF AgentOf
  <2> QED
    BY <1>2, <1>4, <2>1, <2>2, <2>3
<1>7. ASSUME NEW f \in batch, NEW e \in log[d], e < f
      PROVE  e \in batch \cup arrived[d]
  <2> SUFFICES ASSUME e \notin batch PROVE e \in arrived[d]
    OBVIOUS
  <2>1. e \in listing[d]
    BY <1>2, <1>7 DEF AgentOf
  <2>2. PICK g \in listing[d] : g >= e /\ (g \notin log[d] \/ g \in dir[d])
    BY <1>2, <2>1
  <2>3. g \in dir[d]
    BY <1>4, <2>2 DEF AgentOf
  <2>4. g = e \/ e < g
    BY <1>4, <2>2
  <2> QED
    BY <1>5, <2>3, <2>4 DEF AgentOf
<1>8. \A h \in batch : h \in listing[d]
  BY <1>2
<1> QED
  BY <1>1, <1>3, <1>6, <1>7, <1>8 DEF AgentOf

\* What an agent ships is the next file of its log, and new to the collector.
LEMMA ShipStep ==
    ASSUME TypeOK, AgentTypeOK, NEW d \in Dir, AgentOf(d), Ship(d)
    PROVE  /\ AgentTypeOK' /\ AgentOf(d)'
           /\ Arrive(d) \/ UNCHANGED vars
<1> DEFINE f == nextOf(todo[d])
<1>1. /\ todo[d] # {} /\ todo' = [todo EXCEPT ![d] = @ \ {f}] /\ log' = log
      /\ listing' = listing /\ now' = now
      /\ UNCHANGED <<hdfsVars, hdfsListCache, workerVars, crashes>>
  BY DEF Ship
<1>2. /\ todo[d] \subseteq Nat /\ todo[d] \subseteq Named /\ todo[d] \subseteq Int
      /\ arrived[d] \subseteq Int /\ log[d] \subseteq Int
  BY NamedIsFinite DEF TypeOK, AgentTypeOK
<1>3. f \in todo[d] /\ \A x \in todo[d] : f <= x
  BY <1>1, <1>2, OldestIs DEF nextOf
<1>4. \/ /\ f \in log[d] /\ Cardinality(arrived[d]) < MaxFiles[d]
         /\ dir' = [dir EXCEPT ![d] = @ \cup {f}]
         /\ arrived' = [arrived EXCEPT ![d] = @ \cup {f}]
      \/ f \notin log[d] /\ UNCHANGED diskVars
  BY DEF Ship
<1> HIDE DEF f
<1>5. AgentTypeOK' /\ todo'[d] = todo[d] \ {f}
  <2>1. Named' = Named
    BY <1>1 DEF Named
  <2> QED
    BY <1>1, <2>1 DEF AgentTypeOK
<1>6. \A g \in arrived[d] : g < f
  BY <1>3 DEF AgentOf
<1>7. \A x \in todo[d] \ {f} : f < x
  BY <1>2, <1>3
<1>8. \A e \in log[d] : e < f => e \in arrived[d]
  <2>1. ASSUME NEW e \in log[d], e < f PROVE e \in arrived[d]
    <3>1. e \notin todo[d]
      BY <1>2, <1>3, <2>1
    <3> QED
      BY <1>3, <2>1, <3>1 DEF AgentOf
  <2> QED
    BY <2>1
<1>9. CASE f \in log[d] /\ Cardinality(arrived[d]) < MaxFiles[d]
           /\ dir' = [dir EXCEPT ![d] = @ \cup {f}]
           /\ arrived' = [arrived EXCEPT ![d] = @ \cup {f}]
  <2>1. arrived'[d] = arrived[d] \cup {f} /\ listing[d] = {}
    BY <1>1, <1>9 DEF TypeOK, AgentOf
  <2>2. AgentOf(d)'
    BY <1>1, <1>3, <1>5, <1>6, <1>7, <1>8, <1>9, <2>1 DEF AgentOf
  <2>3. Arrive(d)
    BY <1>1, <1>2, <1>3, <1>6, <1>9 DEF Arrive
  <2> QED
    BY <1>5, <2>2, <2>3
<1>10. CASE f \notin log[d] /\ UNCHANGED diskVars
  <2>1. AgentOf(d)'
    BY <1>1, <1>5, <1>10 DEF AgentOf, diskVars
  <2> QED
    BY <1>1, <1>5, <1>10, <2>1 DEF vars
<1> QED
  BY <1>4, <1>9, <1>10

\* Without a batch nothing is shipped in this round.
LEMMA RoundEndsEarly ==
    ASSUME AgentTypeOK, NEW d \in Dir, AgentOf(d), QueryFailed(d) \/ GiveUp(d)
    PROVE  AgentTypeOK' /\ AgentOf(d)'
<1>1. /\ todo' = [todo EXCEPT ![d] = {}] /\ listing'[d] \subseteq listing[d]
      /\ listing' = [listing EXCEPT ![d] = {}] \/ listing' = listing
      /\ log' = log /\ arrived' = arrived /\ Named' = Named
  BY DEF QueryFailed, Answered, GiveUp, vars, diskVars, Named, AgentTypeOK
<1>2. AgentTypeOK' /\ todo'[d] = {} /\ (listing'[d] = {} \/ listing'[d] = listing[d])
  BY <1>1 DEF AgentTypeOK
<1> QED
  BY <1>1, <1>2 DEF AgentOf

\* Agents have directories of their own.
LEMMA OtherAgents ==
    ASSUME TypeOK, AgentTypeOK, NEW d \in Dir, NEW e \in Dir, e # d, AgentOf(e),
           \/ Rotate(d) \/ List(d) \/ Query(d) \/ QueryFailed(d)
           \/ Ship(d) \/ GiveUp(d)
    PROVE  AgentOf(e)'
<1>1. /\ log'[e] = log[e] /\ todo'[e] = todo[e] /\ arrived'[e] = arrived[e]
      /\ listing'[e] = listing[e]
  BY DEF Rotate, List, Query, QueryFailed, Answered, Ship, GiveUp, vars, diskVars,
         TypeOK, AgentTypeOK
<1> QED
  BY <1>1 DEF AgentOf

\* What barn-hdfs does is no business of the agents.
LEMMA CollectorStep ==
    ASSUME TypeOK, AgentTypeOK, Collector \/ UNCHANGED pipelineVars
    PROVE  /\ [Next]_vars
           /\ AgentTypeOK' /\ \A d \in Dir : AgentOf(d) => AgentOf(d)'
<1>1. [Next]_vars /\ log' = log /\ listing' = listing /\ todo' = todo
  BY DEF Collector, Next, pipelineVars
<1>2. arrived' = arrived
  BY DEF Collector, pipelineVars, vars, Tick, HdfsChange, ForeignFile, Crash,
         StartRound, Worker, ListLocal, UseCache, MissCache, ListDay, DecideToShip,
         Throw, CopyToTemp, Rename, CleanupShipped, CleanupOld, FinishWith, diskVars
<1>3. Named \subseteq Named'
  <2>1. now \in Int /\ Skew \in Int /\ (now' = now \/ now' = now + 1)
    BY <1>1, ClockChanges, WriterAssumption DEF TypeOK
  <2> QED
    BY <2>1 DEF Named
<1>4. AgentTypeOK'
  BY <1>1, <1>3 DEF AgentTypeOK
<1> QED
  BY <1>1, <1>2, <1>4 DEF AgentOf

----------------------------------------------------------------------------
(* Theorems *)

\* What agents and barn-hdfs rely on, together.
JointInv == TypeOK /\ BatchIsOutstanding /\ RetainInv /\ PipelineInv

LEMMA PipelineStep ==
    ASSUME TypeOK, RetainInv, AgentTypeOK, \A d \in Dir : AgentOf(d),
           [PipelineNext]_pipelineVars
    PROVE  /\ [Next]_vars
           /\ AgentTypeOK' /\ \A d \in Dir : AgentOf(d)'
<1>1. CASE Collector \/ UNCHANGED pipelineVars
  BY <1>1, CollectorStep
<1>2. ASSUME NEW d \in Dir, \/ Rotate(d) \/ List(d) \/ Query(d) \/ QueryFailed(d)
                             \/ Ship(d) \/ GiveUp(d)
      PROVE  /\ [Next]_vars
             /\ AgentTypeOK' /\ \A e \in Dir : AgentOf(e)'
  <2>1. AgentTypeOK' /\ AgentOf(d)'
    BY <1>2, RotateStep, ListStep, QueryStep, ShipStep, RoundEndsEarly
  <2>2. \A e \in Dir : AgentOf(e)'
    BY <1>2, <2>1, OtherAgents
  <2>3. [Next]_vars
    <3>1. CASE ~Ship(d)
      BY <1>2, <3>1 DEF Rotate, List, Query, QueryFailed, Answered, GiveUp
    <3>2. CASE Ship(d)
      <4>1. Arrive(d) \/ UNCHANGED vars
        BY <3>2, ShipStep
      <4> QED
        BY <4>1 DEF Next
    <3> QED
      BY <3>1, <3>2
  <2> QED
    BY <2>1, <2>2, <2>3
<1> QED
  BY <1>1, <1>2 DEF PipelineNext

LEMMA JointInvInductive ==
    /\ PipelineInit => Init /\ JointInv
    /\ JointInv /\ [PipelineNext]_pipelineVars => [Next]_vars /\ JointInv'
<1>1. ASSUME PipelineInit PROVE Init /\ JointInv
  <2>1. Init
    BY <1>1 DEF PipelineInit
  <2>2. TypeOK /\ BatchIsOutstanding /\ RetainInv
    BY <2>1, TypeInductive, RetainInductive
  <2>3. AgentTypeOK /\ \A d \in Dir : AgentOf(d)
    BY <1>1 DEF PipelineInit, Init, AgentTypeOK, AgentOf
  <2> QED
    BY <2>1, <2>2, <2>3, InvOfAgents DEF JointInv
<1>2. ASSUME JointInv, [PipelineNext]_pipelineVars PROVE [Next]_vars /\ JointInv'
  <2>1. TypeOK /\ BatchIsOutstanding /\ RetainInv
    BY <1>2 DEF JointInv
  <2>2. AgentTypeOK /\ \A d \in Dir : AgentOf(d)
    BY <1>2, InvOfAgents DEF JointInv
  <2>3. [Next]_vars /\ AgentTypeOK' /\ \A d \in Dir : AgentOf(d)'
    BY <1>2, <2>1, <2>2, PipelineStep
  <2>4. (TypeOK /\ BatchIsOutstanding)' /\ RetainInv'
    BY <2>1, <2>3, TypeInductive, RetainInductive
  <2>5. PipelineInv'
    BY <2>3 DEF PipelineInv, LogIsTail, DeliveredInOrder, ListingCovers,
                BatchIsNext, AgentOf
  <2> QED
    BY <2>3, <2>4, <2>5 DEF JointInv
<1> QED
  BY <1>1, <1>2

\* The directories of a collector hold the newest that each agent has delivered,
\* and what svlogd keeps reaches back from there without a gap (tail_intersection,
\* ship_candidates).
THEOREM PipelineInvHolds == PipelineSpec => []PipelineInv
<1>1. JointInv => PipelineInv
  BY DEF JointInv
<1> QED
  BY <1>1, JointInvInductive, PTL DEF PipelineSpec

\* Agents that go by the gap rule serve barn-hdfs as it takes for granted, each
\* file once and in order, whatever fails on either side (ship_candidates,
\* cleanupLocal).
THEOREM WriterIsServed == PipelineSpec => WriterServed
<1>1. PipelineSpec => Init /\ [][Next]_vars
  BY JointInvInductive, PTL DEF PipelineSpec
<1> QED
  BY <1>1 DEF WriterServed, Spec

\* So what barn-hdfs promises of the files it is given holds for the files that
\* agents give it.
THEOREM PromisesKept ==
    ASSUME DistinctNames
    PROVE  PipelineSpec => ArchivesInOrder /\ NoYoungLoss
                           /\ [](WriterInv /\ CopiesInv /\ NewestRetained)
BY WriterIsServed, ArchiveImplemented, NoYoungIsLost, WriterInvHolds,
   CopiesInvHolds, NewestIsRetained, PTL DEF WriterServed

\* What lies in the log before a file on HDFS was delivered before it, and so was
\* shipped before it.
LEMMA DeliveredAndArchived ==
    ASSUME PipelineInv, WriterInv
    PROVE  InOrderToHdfs
<1> SUFFICES ASSUME NEW d \in Dir, NEW e \in log[d], NEW f \in arrived[d],
                    e < f, Shipped(d, f)
             PROVE  Shipped(d, e) \/ e < now - (maxLookBackDays + 1) * DayLen
  BY DEF InOrderToHdfs
<1>1. e \in arrived[d]
  BY DEF PipelineInv, DeliveredInOrder
<1>2. CASE e \notin dir[d]
  BY <1>1, <1>2 DEF WriterInv, GoneIsSettled
<1>3. CASE e \in dir[d]
  <2> DEFINE limit == now - (maxLookBackDays + 1) * DayLen
  <2>1. Shipped(d, e) \/ e < shippingLimit
    BY <1>3 DEF WriterInv, NothingPassedOver
  <2>2. limit \in Int /\ shippingLimit \in Int /\ e \in Int
    BY <1>1, FilesAreInt DEF WriterInv
  <2>3. shippingLimit <= limit
    BY <2>2, DayBounds DEF shippingLimit, Midnight
  <2>4. e < shippingLimit => e < limit
    <3> HIDE DEF limit
    <3> QED
      BY <2>2, <2>3
  <2> QED
    BY <2>1, <2>4
<1> QED
  BY <1>2, <1>3

\* The log gets to HDFS in order: the gap rule of the agent (tail_intersection)
\* and the newest name on HDFS that barn-hdfs goes by (outstandingFiles) each skip
\* only what is done.
THEOREM InOrderThroughout == ASSUME DistinctNames PROVE PipelineSpec => []InOrderToHdfs
<1>1. PipelineSpec => []WriterInv
  BY WriterIsServed, WriterInvHolds, PTL DEF WriterServed
<1> QED
  BY <1>1, PipelineInvHolds, DeliveredAndArchived, PTL
=============================================================================
