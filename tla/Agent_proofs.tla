----------------------------- MODULE Agent_proofs -----------------------------
(***************************************************************************)
(* Proofs about the agent, for every retention, every failover delay and   *)
(* any number of files and restarts.                                       *)
(***************************************************************************)
EXTENDS Agent, FiniteSetTheorems, TLAPS

USE FailoverAssumption, AgentAssumption DEF FailoverAssumption, AgentAssumption

\* A sequence of old files is a sequence of files when there are more of them.
LEMMA SeqGrows ==
    ASSUME NEW S, NEW T, S \subseteq T
    PROVE  Seq(S) \subseteq Seq(T)
OBVIOUS

\* What is stored is a file of the disk.
LEMMA StoredTypes ==
    ASSUME TypeOK, NEW f \in local, Stored(current, f)
    PROVE  /\ remote' \in [Target -> SUBSET (1 .. lastTs)]
           /\ received' \in [Target -> SUBSET (1 .. lastTs)]
           /\ deliveries' \in [Target -> Seq(1 .. lastTs)]
<1>1. /\ current \in Target /\ f \in 1 .. lastTs
      /\ remote \in [Target -> SUBSET (1 .. lastTs)]
      /\ received \in [Target -> SUBSET (1 .. lastTs)]
      /\ deliveries \in [Target -> Seq(1 .. lastTs)]
  BY DEF TypeOK, current, Target
<1>2. Append(deliveries[current], f) \in Seq(1 .. lastTs)
  BY <1>1
<1> QED
  BY <1>1, <1>2 DEF Stored

\* Every step keeps the types.
LEMMA TypeStep == TypeOK /\ [Next]_vars => TypeOK'
<1> SUFFICES ASSUME TypeOK, [Next]_vars PROVE TypeOK'
  OBVIOUS
<1> USE DEF TypeOK, SelectorTypeOK, selectorVars, diskVars, remoteVars,
            batchVars, envVars, Pc
<1>1. CASE PickChannel
  <2>1. primary_ok' \in BOOLEAN
    BY <1>1, Zenon DEF PickChannel, pick_channel
  <2> QED
    BY <1>1, <2>1 DEF PickChannel, pick_channel, Overdue, HasBackup
<1>2. CASE ListLogs
  BY <1>2 DEF ListLogs, NewBatch, list_log_directory
<1>3. CASE QueryAnswered
  BY <1>3 DEF QueryAnswered, tail_intersection
<1>4. CASE QueryFailed
  BY <1>4 DEF QueryFailed
<1>s. ASSUME NEW f \in local, Stored(current, f)
      PROVE  /\ remote' \in [Target -> SUBSET (1 .. lastTs)]
             /\ received' \in [Target -> SUBSET (1 .. lastTs)]
             /\ deliveries' \in [Target -> Seq(1 .. lastTs)]
  BY <1>s, StoredTypes
<1>5. CASE ShipFile
  <2>1. PICK f \in local : IsNext(f) /\ Stored(current, f) /\ Passed(f)
    BY <1>5 DEF ShipFile
  <2> QED
    BY <1>s, <1>5, <2>1 DEF ShipFile, IsNext, Passed
<1>6. CASE ShipFileFails
  <2>1. PICK f \in todo :
           UNCHANGED remoteVars \/ (f \in local /\ Stored(current, f))
    BY <1>6 DEF ShipFileFails
  <2>2. /\ remote' \in [Target -> SUBSET (1 .. lastTs)]
        /\ received' \in [Target -> SUBSET (1 .. lastTs)]
        /\ deliveries' \in [Target -> Seq(1 .. lastTs)]
    BY <1>s, <2>1
  <2> QED
    BY <1>6, <2>2 DEF ShipFileFails
<1>7. CASE LoseFile
  BY <1>7 DEF LoseFile, IsNext, Passed
<1>8. CASE StopShipping \/ Recount \/ SleepAfterError
  BY <1>8 DEF StopShipping, Recount, SleepAfterError
<1>9. CASE SleepAfterShipping \/ WakeOnNewFile \/ WakeOnTimeout
  <2>1. EndWithHeartbeat
    BY <1>9 DEF SleepAfterShipping, WakeOnNewFile, WakeOnTimeout
  <2>2. faulty' \in BOOLEAN
    BY <2>1, Zenon DEF EndWithHeartbeat
  <2>3. /\ time_since_heartbeat' = IF primary_ok THEN 0 ELSE time_since_heartbeat
        /\ pc' = "pick"
        /\ notified' \in BOOLEAN
        /\ UNCHANGED <<primary_ok, diskVars, remoteVars, batchVars, envVars>>
    BY <2>1, Zenon DEF EndWithHeartbeat, heartbeat
  <2> QED
    BY <2>2, <2>3
<1>10. CASE Rotate
  <2>1. notified' \in BOOLEAN
    BY <1>10, Zenon DEF Rotate
  <2>2. /\ lastTs' \in 0 .. MaxTs
        /\ local' \subseteq 1 .. lastTs'
        /\ 1 .. lastTs \subseteq 1 .. lastTs'
        /\ UNCHANGED <<selectorVars, stop, remoteVars, batchVars, envVars, pc, faulty>>
    <3>1. /\ lastTs < MaxTs
          /\ lastTs' = lastTs + 1
          /\ local' \subseteq local \cup {lastTs + 1}
          /\ UNCHANGED <<selectorVars, stop, remoteVars, batchVars, envVars, pc, faulty>>
      BY <1>10, Zenon DEF Rotate
    <3> QED
      BY <3>1
  <2>3. /\ remote' \in [Target -> SUBSET (1 .. lastTs')]
        /\ received' \in [Target -> SUBSET (1 .. lastTs')]
    BY <2>2
  <2>4. deliveries' \in [Target -> Seq(1 .. lastTs')]
    BY <2>2, SeqGrows
  <2> QED
    BY <2>1, <2>2, <2>3, <2>4
<1>11. CASE ToggleStop
  <2>1. stop' \in BOOLEAN
    BY <1>11, Zenon DEF ToggleStop
  <2> QED
    BY <1>11, <2>1 DEF ToggleStop
<1>12. CASE Tick
  BY <1>12 DEF Tick, Elapse
<1>13. CASE Crash
  <2>1. faulty' \in BOOLEAN /\ primary_ok' \in BOOLEAN
    BY <1>13, Zenon DEF Crash
  <2>2. /\ remote' \in [Target -> SUBSET (1 .. lastTs)]
        /\ received' \in [Target -> SUBSET (1 .. lastTs)]
        /\ deliveries' \in [Target -> Seq(1 .. lastTs)]
    BY <1>s, <1>13 DEF Crash
  <2>3. /\ time_since_heartbeat' = 0
        /\ crashes < MaxCrashes /\ crashes' = crashes + 1
        /\ pc' = "pick"
        /\ notified' \in BOOLEAN
        /\ existing' = {} /\ candidates' = {} /\ todo' = {}
        /\ num_shipped' = 0 /\ num_lost' = 0
        /\ UNCHANGED <<diskVars, up>>
    BY <1>13, Zenon DEF Crash, NewBatch
  <2> QED
    BY <2>1, <2>2, <2>3
<1>14. ASSUME NEW t \in Target, LinkChange(t) PROVE TypeOK'
  <2>1. up' \in [Target -> BOOLEAN] /\ faulty' \in BOOLEAN
    BY <1>14, Zenon DEF LinkChange
  <2> QED
    BY <1>14, <2>1 DEF LinkChange
<1>15. ASSUME NEW t \in Target, CollectorCleanup(t) PROVE TypeOK'
  BY <1>15 DEF CollectorCleanup
<1>16. CASE UNCHANGED vars
  BY <1>16 DEF vars
<1> QED
  BY <1>1, <1>2, <1>3, <1>4, <1>5, <1>6, <1>7, <1>8, <1>9, <1>10, <1>11,
     <1>12, <1>13, <1>14, <1>15, <1>16 DEF Next, AgentStep, Environment

\* The initial state has the types.
LEMMA InitTypeOK == Init => TypeOK
<1> SUFFICES ASSUME Init PROVE TypeOK
  OBVIOUS
<1> USE DEF Init, SelectorInit
<1>1. /\ primary_ok \in BOOLEAN /\ stop \in BOOLEAN
      /\ notified \in BOOLEAN /\ faulty \in BOOLEAN
      /\ up \in [Target -> BOOLEAN]
  BY Zenon
<1>2. /\ remote \in [Target -> SUBSET (1 .. lastTs)]
      /\ received \in [Target -> SUBSET (1 .. lastTs)]
      /\ deliveries \in [Target -> Seq(1 .. lastTs)]
  OBVIOUS
<1> QED
  BY <1>1, <1>2 DEF TypeOK, SelectorTypeOK, Pc

\* The agent's variables have their types in every reachable state.
THEOREM TypeCorrect == Spec => []TypeOK
BY InitTypeOK, TypeStep, PTL DEF Spec

----------------------------------------------------------------------------
(* What a step can do to the disk and to the collectors *)

\* Only svlogd changes the log files.
LEMMA DiskChanges == [Next]_vars => Rotate \/ UNCHANGED <<local, lastTs>>
<1> USE DEF selectorVars, diskVars, remoteVars, batchVars, envVars
<1> SUFFICES ASSUME [Next]_vars, ~Rotate PROVE UNCHANGED <<local, lastTs>>
  OBVIOUS
<1>1. CASE AgentStep
  BY <1>1 DEF AgentStep, PickChannel, ListLogs, QueryAnswered, QueryFailed,
     ShipFile, ShipFileFails, LoseFile, StopShipping, Recount,
     SleepAfterError, SleepAfterShipping, WakeOnNewFile, WakeOnTimeout,
     EndWithHeartbeat
<1>2. CASE Environment
  BY <1>2 DEF Environment, ToggleStop, Tick, Crash, LinkChange,
     CollectorCleanup
<1> QED
  BY <1>1, <1>2 DEF Next, vars

\* A step that stores a file at a collector: the oldest of the batch, and it
\* is still on disk.
Stores ==
    /\ pc = "ship"
    /\ \E f \in local : IsNext(f) /\ Stored(current, f)
    /\ UNCHANGED <<local, lastTs>>

\* Only the shipping loop and barn-hdfs change what collectors hold.
LEMMA RemoteChanges ==
    [Next]_vars => \/ Stores
                   \/ \E t \in Target : CollectorCleanup(t)
                   \/ UNCHANGED remoteVars
<1> USE DEF selectorVars, diskVars, remoteVars, batchVars, envVars
<1> SUFFICES ASSUME [Next]_vars,
                    ~Stores, ~\E t \in Target : CollectorCleanup(t)
             PROVE  UNCHANGED remoteVars
  OBVIOUS
<1>1. CASE AgentStep
  <2>1. CASE ShipFile
    BY <2>1 DEF ShipFile, Stores
  <2>2. CASE ShipFileFails
    BY <2>2 DEF ShipFileFails, Stores
  <2> QED
    BY <1>1, <2>1, <2>2 DEF AgentStep, PickChannel, ListLogs, QueryAnswered,
       QueryFailed, LoseFile, StopShipping, Recount, SleepAfterError,
       SleepAfterShipping, WakeOnNewFile, WakeOnTimeout, EndWithHeartbeat
<1>2. CASE Environment
  <2>1. CASE Crash
    BY <2>1 DEF Crash, Stores
  <2> QED
    BY <1>2, <2>1 DEF Environment, Rotate, ToggleStop, Tick, LinkChange
<1> QED
  BY <1>1, <1>2 DEF Next, vars

----------------------------------------------------------------------------
(* The parts of ShippingInv, one by one *)

\* svlogd's rotation keeps an unbroken run of the newest files.
LEMMA LocalStep == TypeOK /\ LocalIsTail /\ [Next]_vars => LocalIsTail'
<1> SUFFICES ASSUME TypeOK, LocalIsTail, [Next]_vars PROVE LocalIsTail'
  OBVIOUS
<1>1. CASE Rotate
  <2>1. /\ lastTs \in Nat /\ local \subseteq 1 .. lastTs
        /\ Retain \in Nat \ {0}
        /\ \A f \in local, h \in 1 .. lastTs : f <= h => h \in local
    BY DEF TypeOK, LocalIsTail
  <2>2. /\ lastTs' = lastTs + 1
        /\ local' = {f \in local \cup {lastTs + 1} : f > lastTs + 1 - Retain}
    BY <1>1, Zenon DEF Rotate
  <2> QED
    BY <2>1, <2>2 DEF LocalIsTail
<1>2. CASE UNCHANGED <<local, lastTs>>
  BY <1>2 DEF LocalIsTail
<1> QED
  BY <1>1, <1>2, DiskChanges

\* What is appended to a sequence comes to the set of its members.
LEMMA NamesOfAppend ==
    ASSUME NEW S, NEW s \in Seq(S), NEW f
    PROVE  Names(Append(s, f)) = Names(s) \cup {f}
<1>1. /\ Len(s) \in Nat /\ Len(Append(s, f)) = Len(s) + 1
      /\ \A i \in 1 .. Len(s) : Append(s, f)[i] = s[i]
      /\ Append(s, f)[Len(s) + 1] = f
  OBVIOUS
<1>2. Names(Append(s, f)) = {Append(s, f)[i] : i \in 1 .. Len(s) + 1}
  BY <1>1 DEF Names
<1>3. 1 .. Len(s) + 1 = (1 .. Len(s)) \cup {Len(s) + 1}
  BY <1>1
<1> QED
  BY <1>1, <1>2, <1>3 DEF Names

\* Whatever stores a file puts it into both histories.
LEMMA DeliveriesStep ==
    TypeOK /\ DeliveriesAreReceived /\ [Next]_vars => DeliveriesAreReceived'
<1> SUFFICES ASSUME TypeOK, DeliveriesAreReceived, [Next]_vars
             PROVE  DeliveriesAreReceived'
  OBVIOUS
<1> USE DEF DeliveriesAreReceived
<1>1. CASE Stores
  <2>1. PICK f \in local : Stored(current, f)
    BY <1>1 DEF Stores
  <2>2. /\ current \in Target
        /\ received \in [Target -> SUBSET (1 .. lastTs)]
        /\ deliveries \in [Target -> Seq(1 .. lastTs)]
    BY DEF TypeOK, current, Target
  <2>3. Names(Append(deliveries[current], f)) = Names(deliveries[current]) \cup {f}
    BY <2>2, NamesOfAppend
  <2>4. ASSUME NEW t \in Target PROVE received'[t] = Names(deliveries'[t])
    <3>1. CASE t = current
      <4>1. /\ received'[t] = received[t] \cup {f}
            /\ deliveries'[t] = Append(deliveries[t], f)
        BY <2>1, <2>2, <3>1 DEF Stored
      <4> QED
        BY <2>3, <3>1, <4>1
    <3>2. CASE t # current
      <4>1. received'[t] = received[t] /\ deliveries'[t] = deliveries[t]
        BY <2>1, <2>2, <3>2 DEF Stored
      <4> QED
        BY <4>1
    <3> QED
      BY <3>1, <3>2
  <2> QED
    BY <2>4
<1>2. CASE UNCHANGED <<received, deliveries>>
  BY <1>2 DEF Names
<1>3. ~Stores => UNCHANGED <<received, deliveries>>
  BY RemoteChanges DEF CollectorCleanup, remoteVars
<1> QED
  BY <1>1, <1>2, <1>3

\* No step takes a collector's newest file away: barn-hdfs leaves it.
LEMMA NewestStep == TypeOK /\ NewestStays /\ [Next]_vars => NewestStays'
<1> SUFFICES ASSUME TypeOK, NewestStays, [Next]_vars PROVE NewestStays'
  OBVIOUS
<1> USE DEF NewestStays
<1>0. /\ remote \in [Target -> SUBSET (1 .. lastTs)]
      /\ received \in [Target -> SUBSET (1 .. lastTs)]
      /\ lastTs \in Nat /\ local \subseteq 1 .. lastTs
      /\ current \in Target
  BY DEF TypeOK, current, Target
<1>1. CASE Stores
  BY <1>0, <1>1 DEF Stores, Stored
<1>2. ASSUME NEW t \in Target, CollectorCleanup(t) PROVE NewestStays'
  <2>1. PICK f \in remote[t] :
           /\ \A g \in remote[t] : f <= g
           /\ \E g \in remote[t] : f < g
           /\ remote' = [remote EXCEPT ![t] = @ \ {f}]
           /\ received' = received
    BY <1>2 DEF CollectorCleanup
  <2>2. PICK h \in remote[t] : f < h
    BY <2>1
  <2>3. ASSUME NEW u \in Target PROVE remote'[u] \subseteq received'[u]
    BY <1>0, <2>1
  <2>4. ASSUME NEW u \in Target, NEW g \in received'[u]
        PROVE  \E k \in remote'[u] : g <= k
    <3>1. PICK k \in remote[u] : g <= k
      BY <2>1, <2>4
    <3>2. CASE u = t /\ k = f
      <4>1. g <= h /\ h \in remote'[u]
        <5>1. g \in Int /\ f \in Int /\ h \in Int
          BY <1>0, <2>1, <2>2, <2>4
        <5> QED
          BY <1>0, <2>1, <2>2, <3>1, <3>2, <5>1
      <4> QED
        BY <4>1
    <3>3. CASE ~(u = t /\ k = f)
      BY <1>0, <2>1, <3>1, <3>3
    <3> QED
      BY <3>2, <3>3
  <2> QED
    BY <2>3, <2>4
<1>3. CASE UNCHANGED remoteVars
  BY <1>3 DEF remoteVars
<1> QED
  BY <1>1, <1>2, <1>3, RemoteChanges

\* The loop ships oldest first what is on disk, so nothing is passed over.
LEMMA PassedOverStep ==
    TypeOK /\ LocalIsTail /\ NothingPassedOver /\ BatchIsTail /\ [Next]_vars
        => NothingPassedOver'
<1> SUFFICES ASSUME TypeOK, NothingPassedOver, BatchIsTail, [Next]_vars
             PROVE  NothingPassedOver'
  OBVIOUS
<1> USE DEF NothingPassedOver
<1>0. /\ received \in [Target -> SUBSET (1 .. lastTs)]
      /\ lastTs \in Nat /\ local \subseteq 1 .. lastTs
      /\ todo \subseteq 1 .. lastTs
      /\ current \in Target
  BY DEF TypeOK, current, Target
<1>1. CASE Stores
  <2>1. PICK f \in local : IsNext(f) /\ Stored(current, f)
    BY <1>1 DEF Stores
  <2>2. /\ local' = local
        /\ received' = [received EXCEPT ![current] = @ \cup {f}]
    BY <1>1, <2>1 DEF Stores, Stored
  <2>3. \A e \in local : e < f => e \in received[current]
    BY <1>0, <1>1, <2>1 DEF Stores, IsNext, BatchIsTail
  <2> QED
    BY <1>0, <2>2, <2>3
<1>2. CASE Rotate
  <2>1. /\ local' \subseteq local \cup {lastTs + 1}
        /\ received' = received
    BY <1>2, Zenon DEF Rotate, remoteVars
  <2> QED
    BY <1>0, <2>1
<1>3. ASSUME UNCHANGED <<local, lastTs>>, UNCHANGED received
      PROVE  NothingPassedOver'
  BY <1>3
<1>4. ~Stores /\ ~Rotate => UNCHANGED <<local, lastTs>> /\ UNCHANGED received
  BY RemoteChanges, DiskChanges DEF CollectorCleanup, remoteVars
<1> QED
  BY <1>1, <1>2, <1>3, <1>4

\* Rotations while the dry run is under way leave the listing without a hole.
LEMMA ListingStep == ShippingInv /\ [Next]_vars => ListingCovers'
<1> DEFINE Goal ==
             /\ \A x \in existing', e \in local' : e <= x => e \in existing'
             /\ \A g \in received'[current'] : \E x \in existing' : g <= x
<1> SUFFICES ASSUME ShippingInv, [Next]_vars, pc' = "query" PROVE Goal
  BY DEF ListingCovers
<1>0. /\ received \in [Target -> SUBSET (1 .. lastTs)]
      /\ lastTs \in Nat /\ local \subseteq 1 .. lastTs
      /\ existing \subseteq 1 .. lastTs
      /\ current \in Target
      /\ lastTs > 0 => lastTs \in local
  BY DEF ShippingInv, TypeOK, LocalIsTail, current, Target
<1>1. CASE ListLogs
  <2>1. /\ existing' = local
        /\ local' = local /\ received' = received /\ current' = current
    BY <1>1 DEF ListLogs, list_log_directory, diskVars, remoteVars,
                selectorVars, current
  <2>2. \A g \in received[current] : g <= lastTs /\ lastTs \in local
    BY <1>0
  <2> QED
    BY <2>1, <2>2
<1>2. ASSUME pc = "query", UNCHANGED <<existing, received, primary_ok>>,
             local' \subseteq local \cup {lastTs + 1}
      PROVE  Goal
  <2>1. /\ \A x \in existing, e \in local : e <= x => e \in existing
        /\ \A g \in received[current] : \E x \in existing : g <= x
    BY <1>2 DEF ShippingInv, ListingCovers
  <2>2. current' = current
    BY <1>2 DEF current
  <2> QED
    BY <1>0, <1>2, <2>1, <2>2
<1>3. CASE Rotate
  BY <1>2, <1>3, Zenon DEF Rotate, batchVars, remoteVars, selectorVars
<1>4. CASE ToggleStop \/ Tick
  BY <1>2, <1>4 DEF ToggleStop, Tick, Elapse, batchVars, remoteVars, diskVars,
                    selectorVars
<1>5. ASSUME NEW t \in Target, LinkChange(t) \/ CollectorCleanup(t) PROVE Goal
  BY <1>2, <1>5 DEF LinkChange, CollectorCleanup, batchVars, remoteVars,
                    diskVars, selectorVars
<1>6. CASE UNCHANGED vars
  BY <1>2, <1>6 DEF vars, batchVars, remoteVars, diskVars, selectorVars
<1>7. CASE Crash
  BY <1>7 DEF Crash
<1>8. CASE AgentStep /\ ~ListLogs
  BY <1>8 DEF AgentStep, PickChannel, QueryAnswered, QueryFailed, ShipFile,
     ShipFileFails, LoseFile, Passed, StopShipping, Recount, SleepAfterError,
     SleepAfterShipping, WakeOnNewFile, WakeOnTimeout, EndWithHeartbeat
<1> QED
  BY <1>1, <1>3, <1>4, <1>5, <1>6, <1>7, <1>8 DEF Next, Environment

\* The gap rule is right: what tail_intersection leaves is newer than all the
\* collector was ever given, and nothing on disk below it is missing there.
LEMMA GapRule ==
    ASSUME ShippingInv, pc = "query",
           NEW tail,
           tail = tail_intersection(existing, log_files_not_on_target(current))
    PROVE  /\ \A f \in tail, g \in received[current] : g < f
           /\ \A f \in tail, e \in local :
                 e < f => e \in tail \cup received[current]
<1>0. /\ received \in [Target -> SUBSET (1 .. lastTs)]
      /\ remote \in [Target -> SUBSET (1 .. lastTs)]
      /\ lastTs \in Nat /\ local \subseteq 1 .. lastTs
      /\ existing \subseteq 1 .. lastTs
      /\ current \in Target
  BY DEF ShippingInv, TypeOK, current, Target
<1>1. \A f \in local, h \in 1 .. lastTs : f <= h => h \in local
  BY DEF ShippingInv, LocalIsTail
<1>2. /\ remote[current] \subseteq received[current]
      /\ \A f \in received[current] : \E g \in remote[current] : f <= g
  BY <1>0 DEF ShippingInv, NewestStays
<1>3. /\ \A x \in existing, e \in local : e <= x => e \in existing
      /\ \A g \in received[current] : \E x \in existing : g <= x
  BY DEF ShippingInv, ListingCovers
<1>4. \A f \in received[current], e \in local : e < f => e \in received[current]
  BY <1>0 DEF ShippingInv, NothingPassedOver
<1>5. tail = {f \in existing : \A g \in existing :
                  g >= f => g \in local /\ g \notin remote[current]}
  BY DEF tail_intersection, log_files_not_on_target
<1>6. tail \subseteq existing \cap local
  <2> SUFFICES ASSUME NEW f \in tail PROVE f \in existing /\ f \in local
    OBVIOUS
  <2>1. f \in existing /\ f >= f
    BY <1>0, <1>5
  <2> QED
    BY <1>5, <2>1
<1>7. ASSUME NEW f \in tail, NEW g \in received[current] PROVE g < f
  <2>1. PICK h \in remote[current] : g <= h
    BY <1>2
  <2>2. /\ f \in 1 .. lastTs /\ g \in 1 .. lastTs /\ h \in 1 .. lastTs
        /\ h \in received[current]
    BY <1>0, <1>2, <1>6
  <2>3. ASSUME f <= g PROVE FALSE
    <3>1. f <= h
      BY <2>1, <2>2, <2>3
    <3>2. h \in local
      BY <1>1, <1>6, <2>2, <3>1
    <3>3. PICK x \in existing : h <= x
      BY <1>3, <2>2
    <3>4. h \in existing
      BY <1>3, <3>2, <3>3
    <3> QED
      BY <1>5, <3>1, <3>4
  <2> QED
    BY <2>2, <2>3
<1>8. ASSUME NEW f \in tail, NEW e \in local, e < f, e \notin tail
      PROVE  e \in received[current]
  <2>1. e \in existing
    BY <1>0, <1>3, <1>6, <1>8
  <2>2. PICK g \in existing : g >= e /\ (g \notin local \/ g \in remote[current])
    BY <1>5, <1>8, <2>1
  <2>3. g \in local
    BY <1>0, <1>1, <2>2
  <2>4. g \in received[current]
    BY <1>2, <2>2, <2>3
  <2> QED
    BY <1>0, <1>4, <2>1, <2>2, <2>4
<1> QED
  BY <1>7, <1>8

\* The batch keeps covering the disk above the collector's newest file while
\* files are shipped, rotated away and deleted at the collector.
LEMMA BatchStep == ShippingInv /\ [Next]_vars => BatchIsTail'
<1> DEFINE Goal ==
       /\ todo' # {}
       /\ \A f \in todo', e \in local' :
             e < f => e \in todo' \cup received'[current']
       /\ \A f \in todo', g \in received'[current'] : g <= f
       /\ pc' = "ship" => todo' \cap received'[current'] = {}
<1> SUFFICES ASSUME ShippingInv, [Next]_vars, pc' \in {"ship", "check"} PROVE Goal
  BY DEF BatchIsTail
<1>0. /\ received \in [Target -> SUBSET (1 .. lastTs)]
      /\ lastTs \in Nat /\ local \subseteq 1 .. lastTs
      /\ existing \subseteq 1 .. lastTs
      /\ todo \subseteq 1 .. lastTs
      /\ current \in Target
  BY DEF ShippingInv, TypeOK, current, Target
<1>1. CASE QueryAnswered
  <2>1. /\ pc = "query"
        /\ todo' = tail_intersection(existing, log_files_not_on_target(current))
        /\ todo' # {}
        /\ local' = local /\ received' = received /\ current' = current
    BY <1>1 DEF QueryAnswered, diskVars, remoteVars, selectorVars, current
  <2>2. /\ \A f \in todo', g \in received[current] : g < f
        /\ \A f \in todo', e \in local :
              e < f => e \in todo' \cup received[current]
    BY <2>1, GapRule
  <2>3. todo' \subseteq 1 .. lastTs
    BY <1>0, <2>1 DEF tail_intersection
  <2> QED
    BY <1>0, <2>1, <2>2, <2>3
<1>2. CASE ShipFile
  <2>1. PICK f \in local : IsNext(f) /\ Stored(current, f) /\ Passed(f)
    BY <1>2 DEF ShipFile
  <2>2. /\ pc = "ship"
        /\ local' = local /\ current' = current
    BY <1>2 DEF ShipFile, diskVars, selectorVars, current
  <2>3. /\ todo' = todo \ {f} /\ todo' # {}
        /\ f \in todo /\ \A g \in todo : f <= g
        /\ received'[current] = received[current] \cup {f}
    BY <1>0, <2>1 DEF IsNext, Stored, Passed
  <2>4. /\ \A g \in todo, e \in local :
              e < g => e \in todo \cup received[current]
        /\ \A h \in todo, g \in received[current] : g <= h
        /\ todo \cap received[current] = {}
    BY <2>2 DEF ShippingInv, BatchIsTail
  <2> QED
    BY <1>0, <2>2, <2>3, <2>4
<1>3. CASE ShipFileFails
  <2>1. /\ pc = "ship" /\ pc' = "check"
        /\ todo' = todo /\ local' = local /\ current' = current
    BY <1>3 DEF ShipFileFails, diskVars, batchVars, selectorVars, current
  <2>2. PICK f \in todo : IsNext(f) /\ (UNCHANGED remoteVars \/ Stored(current, f))
    BY <1>3 DEF ShipFileFails
  <2>3. received'[current] \subseteq received[current] \cup {f}
    BY <1>0, <2>2 DEF Stored, remoteVars
  <2>4. received[current] \subseteq received'[current]
    BY <1>0, <2>2 DEF Stored, remoteVars
  <2>5. /\ todo # {}
        /\ \A g \in todo, e \in local :
              e < g => e \in todo \cup received[current]
        /\ \A h \in todo, g \in received[current] : g <= h
    BY <2>1 DEF ShippingInv, BatchIsTail
  <2> QED
    BY <2>1, <2>2, <2>3, <2>4, <2>5 DEF IsNext
<1>4. CASE LoseFile
  <2>1. PICK f \in todo \ local : IsNext(f) /\ Passed(f)
    BY <1>4 DEF LoseFile
  <2>2. /\ pc = "check"
        /\ local' = local /\ received' = received /\ current' = current
    BY <1>4 DEF LoseFile, diskVars, remoteVars, selectorVars, current
  <2>3. /\ todo' = todo \ {f} /\ todo' # {}
        /\ \A g \in todo : f <= g
    BY <2>1 DEF IsNext, Passed
  <2>4. /\ \A g \in todo, e \in local :
              e < g => e \in todo \cup received[current]
        /\ \A h \in todo, g \in received[current] : g <= h
    BY <2>2 DEF ShippingInv, BatchIsTail
  <2> QED
    BY <1>0, <2>1, <2>2, <2>3, <2>4
<1>5. ASSUME UNCHANGED <<pc, todo, received, primary_ok>>,
             local' \subseteq local \cup {lastTs + 1}
      PROVE  Goal
  <2>1. /\ todo # {}
        /\ \A f \in todo, e \in local :
              e < f => e \in todo \cup received[current]
        /\ \A f \in todo, g \in received[current] : g <= f
        /\ pc = "ship" => todo \cap received[current] = {}
    BY <1>5 DEF ShippingInv, BatchIsTail
  <2>2. current' = current
    BY <1>5 DEF current
  <2> QED
    BY <1>0, <1>5, <2>1, <2>2
<1>6. CASE Rotate
  BY <1>5, <1>6, Zenon DEF Rotate, batchVars, remoteVars, selectorVars
<1>7. CASE ToggleStop \/ Tick
  BY <1>5, <1>7 DEF ToggleStop, Tick, Elapse, batchVars, remoteVars, diskVars,
                    selectorVars
<1>8. ASSUME NEW t \in Target, LinkChange(t) \/ CollectorCleanup(t) PROVE Goal
  BY <1>5, <1>8 DEF LinkChange, CollectorCleanup, batchVars, remoteVars,
                    diskVars, selectorVars
<1>9. CASE UNCHANGED vars
  BY <1>5, <1>9 DEF vars, batchVars, remoteVars, diskVars, selectorVars
<1>10. CASE Crash
  BY <1>10 DEF Crash
<1>11. CASE AgentStep /\ ~(QueryAnswered \/ ShipFile \/ ShipFileFails \/ LoseFile)
  BY <1>11 DEF AgentStep, PickChannel, ListLogs, QueryFailed, StopShipping,
     Recount, SleepAfterError, SleepAfterShipping, WakeOnNewFile,
     WakeOnTimeout, EndWithHeartbeat
<1> QED
  BY <1>1, <1>2, <1>3, <1>4, <1>6, <1>7, <1>8, <1>9, <1>10, <1>11
     DEF Next, Environment

----------------------------------------------------------------------------
(* The theorems *)

\* ShippingInv is inductive.
LEMMA ShippingInvInductive ==
    /\ Init => ShippingInv
    /\ ShippingInv /\ [Next]_vars => ShippingInv'
<1>1. Init => ShippingInv
  <2> SUFFICES ASSUME Init PROVE ShippingInv
    OBVIOUS
  <2>1. TypeOK
    BY InitTypeOK
  <2>2. /\ local = {} /\ lastTs = 0 /\ pc = "pick"
        /\ \A t \in Target : remote[t] = {} /\ received[t] = {}
    BY DEF Init
  <2>3. DeliveriesAreReceived
    <3>1. \A t \in Target : received[t] = {} /\ deliveries[t] = << >>
      BY DEF Init
    <3>2. Names(<< >>) = {}
      BY DEF Names
    <3> QED
      BY <3>1, <3>2 DEF DeliveriesAreReceived
  <2> QED
    BY <2>1, <2>2, <2>3 DEF ShippingInv, LocalIsTail, NewestStays, NothingPassedOver,
                      ListingCovers, BatchIsTail
<1>2. ShippingInv /\ [Next]_vars => ShippingInv'
  <2> SUFFICES ASSUME ShippingInv, [Next]_vars PROVE ShippingInv'
    OBVIOUS
  <2>1. /\ TypeOK' /\ DeliveriesAreReceived' /\ LocalIsTail'
        /\ NewestStays' /\ NothingPassedOver'
    BY TypeStep, DeliveriesStep, LocalStep, NewestStep, PassedOverStep
       DEF ShippingInv
  <2>2. ListingCovers' /\ BatchIsTail'
    BY ListingStep, BatchStep
  <2> QED
    BY <2>1, <2>2 DEF ShippingInv
<1> QED
  BY <1>1, <1>2

\* In every reachable state, at every point of a round (dispatch_new_logs), the
\* collectors, the disk, the listing and the batch agree with each other.
THEOREM ShippingInvHolds == Spec => []ShippingInv
BY ShippingInvInductive, PTL DEF Spec

\* Whatever the network, the collectors, svlogd and restarts do, no collector
\* holds a file while an older one it never got is still on the agent's disk.
THEOREM NothingIsPassedOver == Spec => []NothingPassedOver
<1>1. ShippingInv => NothingPassedOver
  BY DEF ShippingInv
<1> QED
  BY <1>1, ShippingInvHolds, PTL

\* The shipping loop never has before it a file this collector was given
\* earlier, even though barn-hdfs deletes files there.
THEOREM NothingIsOfferedTwice == Spec => []NeverOffersDelivered
<1>1. ShippingInv => NeverOffersDelivered
  BY DEF ShippingInv, BatchIsTail, NeverOffersDelivered
<1> QED
  BY <1>1, ShippingInvHolds, PTL

\* A step that stores a file is a delivery of the abstract specification.
LEMMA StoresDelivers == ShippingInv /\ Stores => Delivery!Deliver(current)
<1> SUFFICES ASSUME ShippingInv, Stores PROVE Delivery!Deliver(current)
  OBVIOUS
<1>1. PICK f \in local : IsNext(f) /\ Stored(current, f)
  BY DEF Stores
<1>2. /\ \A e \in local : e < f => e \in todo \cup received[current]
      /\ \A g \in received[current] : g <= f
      /\ f \notin received[current]
  BY <1>1 DEF ShippingInv, BatchIsTail, Stores, IsNext
<1>3. /\ received \in [Target -> SUBSET (1 .. lastTs)]
      /\ lastTs \in Nat /\ local \subseteq 1 .. lastTs
      /\ todo \subseteq 1 .. lastTs
      /\ current \in Target
  BY DEF ShippingInv, TypeOK, current, Target
<1>4. \A e \in local : e < f => e \in received[current]
  BY <1>1, <1>2, <1>3 DEF IsNext
<1>5. \A g \in received[current] : g < f
  BY <1>2, <1>3
<1>6. /\ \A i \in 1 .. Len(deliveries[current]) : deliveries[current][i] < f
      /\ \A e \in local : e < f =>
            \E i \in 1 .. Len(deliveries[current]) : deliveries[current][i] = e
  <2>1. received[current]
            = {deliveries[current][i] : i \in 1 .. Len(deliveries[current])}
    BY <1>3 DEF ShippingInv, DeliveriesAreReceived, Names
  <2> QED
    BY <1>4, <1>5, <2>1
<1>7. /\ deliveries' = [deliveries EXCEPT ![current] = Append(@, f)]
      /\ UNCHANGED <<local, lastTs>>
  BY <1>1 DEF Stores, Stored
<1> QED
  BY <1>6, <1>7, Zenon DEF Delivery!Deliver

\* The agent implements LogDelivery: in the sequence of what a collector is given
\* the files come oldest first, none comes twice, and none on disk is left out,
\* whatever was retried, cleaned up or restarted meanwhile.
THEOREM AgentImplementsLogDelivery == Spec => DeliversInOrder
<1>1. Init => Delivery!Init
  BY DEF Init, Delivery!Init
<1>2. ShippingInv /\ [Next]_vars => [Delivery!Next]_Delivery!vars
  <2> SUFFICES ASSUME ShippingInv, [Next]_vars PROVE [Delivery!Next]_Delivery!vars
    OBVIOUS
  <2>1. CASE Rotate
    <3>1. /\ lastTs \in Nat /\ Retain \in Nat \ {0}
          /\ local \subseteq 1 .. lastTs
      BY DEF ShippingInv, TypeOK
    <3>2. /\ lastTs' = lastTs + 1
          /\ local' = {f \in local \cup {lastTs + 1} : f > lastTs + 1 - Retain}
          /\ deliveries' = deliveries
      BY <2>1, Zenon DEF Rotate, remoteVars
    <3> DEFINE kept(k) == {f \in local \cup {lastTs + 1} : f >= k}
    <3>3. local \cup {lastTs + 1} \subseteq 1 .. lastTs + 1
      BY <3>1
    <3>4. \E k \in 1 .. lastTs + 1 : local' = kept(k)
      <4>1. CASE Retain <= lastTs
        <5>1. lastTs + 2 - Retain \in 1 .. lastTs + 1
          BY <3>1, <4>1
        <5>2. \A f \in 1 .. lastTs + 1 :
                 f > lastTs + 1 - Retain <=> f >= lastTs + 2 - Retain
          BY <3>1
        <5>3. local' = kept(lastTs + 2 - Retain)
          BY <3>2, <3>3, <5>2
        <5> QED
          BY <5>1, <5>3
      <4>2. CASE ~(Retain <= lastTs)
        <5>1. \A f \in 1 .. lastTs + 1 : f > lastTs + 1 - Retain /\ f >= 1
          BY <3>1, <4>2
        <5>2. local' = kept(1)
          BY <3>2, <3>3, <5>1
        <5> QED
          BY <3>1, <5>2
      <4> QED
        BY <4>1, <4>2
    <3> QED
      BY <3>2, <3>4 DEF Delivery!Next, Delivery!Produce
  <2>2. CASE Stores
    BY <2>2, StoresDelivers DEF Delivery!Next, current, Target
  <2>3. CASE ~Rotate /\ ~Stores
    BY <2>3, DiskChanges, RemoteChanges
       DEF CollectorCleanup, remoteVars, Delivery!vars
  <2> QED
    BY <2>1, <2>2, <2>3
<1> QED
  BY <1>1, <1>2, ShippingInvHolds, PTL DEF Spec, DeliversInOrder, Delivery!Spec

\* So what a collector was given ascends strictly: whatever is retried in a later
\* round, deleted at the collector or forgotten in a restart (ship_candidates), no
\* file is in it twice.
THEOREM NothingIsDeliveredTwice ==
    Spec => [](\A t \in Target : Sorted(deliveries[t]))
<1> DEFINE Ascend == \A t \in Target : Sorted(deliveries[t])
<1>1. Init => Ascend
  <2> SUFFICES ASSUME Init, NEW t \in Target PROVE Sorted(deliveries[t])
    OBVIOUS
  <2>1. deliveries[t] = << >>
    BY DEF Init
  <2> QED
    BY <2>1 DEF Sorted
<1>2. ShippingInv /\ Ascend /\ [Next]_vars => Ascend'
  <2> SUFFICES ASSUME ShippingInv, Ascend, [Next]_vars PROVE Ascend'
    OBVIOUS
  <2>1. CASE Stores
    <3>1. PICK f \in local :
             /\ \A i \in 1 .. Len(deliveries[current]) : deliveries[current][i] < f
             /\ deliveries' = [deliveries EXCEPT ![current] = Append(@, f)]
      BY <2>1, StoresDelivers, Zenon DEF Delivery!Deliver
    <3>2. current \in Target /\ deliveries \in [Target -> Seq(1 .. lastTs)]
      BY DEF ShippingInv, TypeOK, current, Target
    <3>3. Sorted(Append(deliveries[current], f))
      <4>1. Sorted(deliveries[current]) /\ deliveries[current] \in Seq(1 .. lastTs)
        BY <3>2
      <4> QED
        BY <3>1, <4>1 DEF Sorted
    <3>4. ASSUME NEW t \in Target PROVE Sorted(deliveries'[t])
      <4>1. \/ deliveries'[t] = Append(deliveries[current], f)
            \/ deliveries'[t] = deliveries[t]
        BY <3>1, <3>2
      <4> QED
        BY <3>3, <4>1
    <3> QED
      BY <3>4
  <2>2. CASE UNCHANGED deliveries
    BY <2>2 DEF Sorted
  <2>3. ~Stores => UNCHANGED deliveries
    BY RemoteChanges DEF CollectorCleanup, remoteVars
  <2> QED
    BY <2>1, <2>2, <2>3
<1> QED
  BY <1>1, <1>2, ShippingInvHolds, PTL DEF Spec

----------------------------------------------------------------------------
(* Failover *)

\* num_shipped tells what the round in progress has shipped, or in "pick" the
\* last one; after a round that shipped something the primary's heartbeat is new.
ProgressInv ==
    /\ pc \in {"query", "nap", "wait"} => num_shipped = 0
    /\ pc = "pick" /\ num_shipped # 0 /\ primary_ok => time_since_heartbeat = 0

\* ProgressInv is inductive.
LEMMA ProgressInvInductive ==
    /\ Init => ProgressInv
    /\ ProgressInv /\ [Next]_vars => ProgressInv'
<1>1. Init => ProgressInv
  BY DEF Init, ProgressInv
<1>2. ProgressInv /\ [Next]_vars => ProgressInv'
  <2> SUFFICES ASSUME ProgressInv, [Next]_vars PROVE ProgressInv'
    OBVIOUS
  <2> USE DEF ProgressInv, selectorVars, batchVars
  <2>1. CASE PickChannel
    BY <2>1 DEF PickChannel
  <2>2. CASE ListLogs
    BY <2>2 DEF ListLogs, NewBatch
  <2>3. CASE QueryAnswered \/ QueryFailed
    BY <2>3 DEF QueryAnswered, QueryFailed
  <2>4. CASE ShipFile \/ ShipFileFails
    BY <2>4 DEF ShipFile, ShipFileFails, Passed
  <2>5. CASE LoseFile \/ StopShipping
    BY <2>5 DEF LoseFile, StopShipping, Passed
  <2>6. CASE Recount
    BY <2>6 DEF Recount
  <2>7. CASE SleepAfterError
    BY <2>7 DEF SleepAfterError
  <2>8. CASE SleepAfterShipping \/ WakeOnNewFile \/ WakeOnTimeout
    BY <2>8 DEF SleepAfterShipping, WakeOnNewFile, WakeOnTimeout,
                EndWithHeartbeat, heartbeat
  <2>9. CASE Rotate \/ ToggleStop \/ \E t \in Target : LinkChange(t) \/ CollectorCleanup(t)
    BY <2>9 DEF Rotate, ToggleStop, LinkChange, CollectorCleanup
  <2>10. CASE Tick
    BY <2>10 DEF Tick, Elapse
  <2>11. CASE Crash
    BY <2>11 DEF Crash, NewBatch
  <2>12. CASE UNCHANGED vars
    BY <2>12 DEF vars
  <2> QED
    BY <2>1, <2>2, <2>3, <2>4, <2>5, <2>6, <2>7, <2>8, <2>9, <2>10, <2>11,
       <2>12 DEF Next, AgentStep, Environment
<1> QED
  BY <1>1, <1>2

\* Whatever the failover delay and however long the round took, an agent that
\* shipped something in it does not leave the primary (the heartbeat comes
\* after the sleep, in dispatch_new_logs).
THEOREM NoFailoverAfterShipping == Spec => NoFailoverAfterProgress
<1>1. ProgressInv /\ [Next]_vars =>
          [primary_ok /\ ~primary_ok' => num_shipped = 0]_vars
  <2> SUFFICES ASSUME ProgressInv, [Next]_vars, primary_ok, ~primary_ok',
                      num_shipped # 0
               PROVE  FALSE
    OBVIOUS
  <2> USE DEF selectorVars
  <2>1. PickChannel
    <3>1. CASE AgentStep
      BY <3>1 DEF AgentStep, ListLogs, QueryAnswered, QueryFailed, ShipFile,
                  ShipFileFails, LoseFile, StopShipping, Recount,
                  SleepAfterError, SleepAfterShipping, WakeOnNewFile,
                  WakeOnTimeout, EndWithHeartbeat, heartbeat
    <3>2. CASE Environment
      BY <3>2 DEF Environment, Rotate, ToggleStop, Tick, Elapse, Crash,
                  LinkChange, CollectorCleanup
    <3>3. CASE UNCHANGED vars
      BY <3>3 DEF vars
    <3> QED
      BY <3>1, <3>2, <3>3 DEF Next
  <2>2. Overdue /\ pc = "pick"
    BY <2>1 DEF PickChannel, pick_channel
  <2>3. time_since_heartbeat = 0
    BY <2>2 DEF ProgressInv
  <2> QED
    BY <2>2, <2>3 DEF Overdue, HasBackup
<1> QED
  BY <1>1, ProgressInvInductive, PTL DEF Spec, NoFailoverAfterProgress

----------------------------------------------------------------------------
(* What ship_candidates counts *)

InBatch == {"ship", "check", "recount"}

\* The candidates the loop has left behind.
Behind == candidates \ todo

\* A lost file is off the disk for good, and still counted as a candidate.
LossInv ==
    /\ pc = "query" => num_shipped = 0 /\ num_lost = 0
    /\ pc \in InBatch =>
          /\ num_shipped + num_lost + Cardinality(todo) = Cardinality(candidates)
          /\ Cardinality(Behind \ received[current]) <= num_lost
          /\ num_lost <= Cardinality(Behind \ local)

\* Batches are finite, with their parts.
LEMMA BatchFinite ==
    ASSUME TypeOK, NEW S \in SUBSET candidates
    PROVE  IsFiniteSet(S) /\ Cardinality(S) \in Nat
<1>1. lastTs \in Int /\ candidates \subseteq 1 .. lastTs
  BY DEF TypeOK
<1>2. IsFiniteSet(1 .. lastTs)
  BY <1>1, FS_Interval
<1>3. S \in SUBSET (1 .. lastTs)
  BY <1>1
<1>4. IsFiniteSet(S)
  BY <1>2, <1>3, FS_Subset
<1> QED
  BY <1>4, FS_CardinalityType

\* A part of a part is no larger.
LEMMA SubsetCounts ==
    ASSUME TypeOK, NEW T \in SUBSET candidates, NEW S \in SUBSET T
    PROVE  Cardinality(S) <= Cardinality(T)
<1>1. IsFiniteSet(T)
  BY BatchFinite
<1> QED
  BY <1>1, FS_Subset

\* Passing a file moves it from todo to those left behind.
LEMMA PassCounts ==
    ASSUME TypeOK, NEW f, IsNext(f), Passed(f), candidates' = candidates
    PROVE  /\ f \in candidates /\ f \in todo /\ f \notin Behind
           /\ Cardinality(todo') = Cardinality(todo) - 1
           /\ Behind' = Behind \cup {f}
<1>1. f \in todo /\ todo' = todo \ {f} /\ todo \subseteq candidates
  BY DEF IsNext, Passed, TypeOK
<1>2. IsFiniteSet(todo)
  BY <1>1, BatchFinite
<1>3. Cardinality(todo') = Cardinality(todo) - 1
  BY <1>1, <1>2, FS_RemoveElement
<1>4. f \in candidates /\ f \notin Behind /\ Behind' = Behind \cup {f}
  BY <1>1 DEF Behind
<1> QED
  BY <1>1, <1>3, <1>4

\* A step that leaves the batch alone keeps LossInv, as long as collectors are
\* only given files and the disk only loses candidates.
LEMMA BatchUntouched ==
    ASSUME TypeOK, LossInv, pc \in InBatch, pc' \in InBatch,
           UNCHANGED <<candidates, todo, num_shipped, num_lost, primary_ok>>,
           received[current] \subseteq received'[current],
           local' \cap candidates \subseteq local
    PROVE  LossInv'
<1>1. /\ Behind' = Behind /\ Behind \subseteq candidates
      /\ current' = current
  BY DEF Behind, current
<1>2. Cardinality(Behind \ received'[current]) <= Cardinality(Behind \ received[current])
  BY <1>1, SubsetCounts
<1>3. Cardinality(Behind \ local) <= Cardinality(Behind \ local')
  BY <1>1, SubsetCounts
<1>4. /\ Cardinality(Behind \ received'[current]) \in Nat
      /\ Cardinality(Behind \ received[current]) \in Nat
      /\ Cardinality(Behind \ local) \in Nat /\ Cardinality(Behind \ local') \in Nat
      /\ num_lost \in Nat
  BY <1>1, BatchFinite DEF TypeOK
<1>5. /\ num_shipped + num_lost + Cardinality(todo) = Cardinality(candidates)
      /\ Cardinality(Behind \ received[current]) <= num_lost
      /\ num_lost <= Cardinality(Behind \ local)
  BY DEF LossInv
<1>6. /\ Cardinality(Behind \ received'[current]) <= num_lost
      /\ num_lost <= Cardinality(Behind \ local')
  BY <1>2, <1>3, <1>4, <1>5
<1>7. pc' # "query"
  BY DEF InBatch
<1> QED
  BY <1>1, <1>5, <1>6, <1>7 DEF LossInv

\* LossInv is inductive, given the types.
LEMMA LossInvInductive ==
    /\ Init => LossInv
    /\ TypeOK /\ LossInv /\ [Next]_vars => LossInv'
<1>1. Init => LossInv
  BY DEF Init, LossInv, InBatch
<1>2. TypeOK /\ LossInv /\ [Next]_vars => LossInv'
  <2> SUFFICES ASSUME TypeOK, LossInv, [Next]_vars PROVE LossInv'
    OBVIOUS
  <2> USE DEF selectorVars, diskVars, remoteVars, batchVars, envVars
  <2>n. num_shipped \in Nat /\ num_lost \in Nat
    BY DEF TypeOK
  <2>1. CASE PickChannel \/ QueryFailed \/ Recount \/ SleepAfterError
             \/ SleepAfterShipping \/ WakeOnNewFile \/ WakeOnTimeout \/ Crash
    <3>1. pc' \notin InBatch /\ pc' # "query"
      BY <2>1 DEF PickChannel, QueryFailed, Recount, SleepAfterError, Crash,
                  SleepAfterShipping, WakeOnNewFile, WakeOnTimeout,
                  EndWithHeartbeat, InBatch
    <3> QED
      BY <3>1 DEF LossInv
  <2>2. CASE ListLogs
    BY <2>2 DEF ListLogs, NewBatch, LossInv, InBatch
  <2>3. CASE QueryAnswered
    <3>1. /\ todo' = candidates' /\ num_shipped' = 0 /\ num_lost' = 0
          /\ pc' # "query"
      BY <2>3 DEF QueryAnswered, LossInv
    <3>2. /\ Behind' = {} /\ Behind' \ received'[current'] = {}
          /\ Behind' \ local' = {}
      BY <3>1 DEF Behind
    <3>3. Cardinality({}) = 0
      BY FS_EmptySet
    <3>4. Cardinality(candidates') \in Nat
      <4>1. TypeOK'
        BY TypeStep
      <4>2. lastTs' \in Int /\ candidates' \subseteq 1 .. lastTs'
        BY <4>1 DEF TypeOK
      <4>3. IsFiniteSet(1 .. lastTs')
        BY <4>2, FS_Interval
      <4>4. IsFiniteSet(candidates')
        BY <4>2, <4>3, FS_Subset
      <4> QED
        BY <4>4, FS_CardinalityType
    <3>5. /\ num_shipped' + num_lost' + Cardinality(todo') = Cardinality(candidates')
          /\ Cardinality(Behind' \ received'[current']) <= num_lost'
          /\ num_lost' <= Cardinality(Behind' \ local')
      BY <3>1, <3>2, <3>3, <3>4
    <3> QED
      BY <3>1, <3>5 DEF LossInv
  <2>4. CASE ShipFile
    <3>1. PICK f \in local : IsNext(f) /\ Stored(current, f) /\ Passed(f)
      BY <2>4 DEF ShipFile
    <3>2. /\ pc = "ship" /\ pc' \in InBatch /\ pc' # "query"
          /\ UNCHANGED <<candidates, num_lost, primary_ok, local>>
          /\ num_shipped' = num_shipped + 1
      BY <2>4, <3>1 DEF ShipFile, Passed, InBatch
    <3>3. /\ f \in candidates /\ f \notin Behind /\ Behind' = Behind \cup {f}
          /\ Cardinality(todo') = Cardinality(todo) - 1
      BY <3>1, <3>2, PassCounts
    <3>4. received'[current] = received[current] \cup {f} /\ current' = current
      BY <3>1, <3>2 DEF Stored, TypeOK, current, Target
    <3>5. /\ num_shipped + num_lost + Cardinality(todo) = Cardinality(candidates)
          /\ Cardinality(Behind \ received[current]) <= num_lost
          /\ num_lost <= Cardinality(Behind \ local)
      BY <3>2 DEF LossInv, InBatch
    <3>b. Behind \subseteq candidates /\ Behind' \subseteq candidates
      BY <3>3 DEF Behind
    <3>6. Cardinality(Behind' \ received'[current']) <= Cardinality(Behind \ received[current])
      <4>1. Behind' \ received'[current'] \subseteq Behind \ received[current]
        BY <3>3, <3>4
      <4> QED
        BY <4>1, <3>b, SubsetCounts
    <3>7. Cardinality(Behind \ local) <= Cardinality(Behind' \ local')
      <4>1. Behind \ local \subseteq Behind' \ local'
        BY <3>2, <3>3
      <4> QED
        BY <4>1, <3>b, SubsetCounts
    <3>8. /\ Cardinality(Behind' \ received'[current']) \in Nat
          /\ Cardinality(Behind \ received[current]) \in Nat
          /\ Cardinality(Behind \ local) \in Nat /\ Cardinality(Behind' \ local') \in Nat
          /\ Cardinality(todo) \in Nat /\ Cardinality(candidates) \in Nat
      BY <3>b, BatchFinite DEF TypeOK
    <3>9. /\ num_shipped' + num_lost' + Cardinality(todo') = Cardinality(candidates')
          /\ Cardinality(Behind' \ received'[current']) <= num_lost'
          /\ num_lost' <= Cardinality(Behind' \ local')
      BY <2>n, <3>2, <3>3, <3>5, <3>6, <3>7, <3>8
    <3> QED
      BY <3>2, <3>9 DEF LossInv
  <2>5. CASE LoseFile
    <3>1. PICK f \in todo \ local : IsNext(f) /\ Passed(f)
      BY <2>5 DEF LoseFile
    <3>2. /\ pc = "check" /\ pc' \in InBatch /\ pc' # "query"
          /\ UNCHANGED <<candidates, num_shipped, primary_ok, local, received>>
          /\ num_lost' = num_lost + 1
      BY <2>5, <3>1 DEF LoseFile, Passed, InBatch
    <3>3. /\ f \in candidates /\ f \notin Behind /\ Behind' = Behind \cup {f}
          /\ Cardinality(todo') = Cardinality(todo) - 1
      BY <3>1, <3>2, PassCounts
    <3>4. received' = received /\ current' = current
      BY <3>2 DEF current
    <3>5. /\ num_shipped + num_lost + Cardinality(todo) = Cardinality(candidates)
          /\ Cardinality(Behind \ received[current]) <= num_lost
          /\ num_lost <= Cardinality(Behind \ local)
      BY <3>2 DEF LossInv, InBatch
    <3>b. Behind \subseteq candidates /\ Behind' \subseteq candidates
      BY <3>3 DEF Behind
    <3>6. Cardinality(Behind' \ received'[current']) <= Cardinality(Behind \ received[current]) + 1
      <4> DEFINE R == Behind \ received[current]
      <4>1. Behind' \ received'[current'] \subseteq R \cup {f}
        BY <3>3, <3>4
      <4>2. R \cup {f} \subseteq candidates
        BY <3>3, <3>b
      <4>3. Cardinality(Behind' \ received'[current']) <= Cardinality(R \cup {f})
        BY <4>1, <4>2, SubsetCounts
      <4>4. IsFiniteSet(R) /\ f \notin R
        BY <3>3, <3>b, BatchFinite
      <4>5. Cardinality(R \cup {f}) = Cardinality(R) + 1
        BY <4>4, FS_AddElement
      <4> QED
        BY <4>3, <4>5
    <3>7. Cardinality(Behind' \ local') = Cardinality(Behind \ local) + 1
      <4> DEFINE L == Behind \ local
      <4>1. Behind' \ local' = L \cup {f}
        BY <3>1, <3>2, <3>3
      <4>2. IsFiniteSet(L) /\ f \notin L
        BY <3>3, <3>b, BatchFinite
      <4> QED
        BY <4>1, <4>2, FS_AddElement
    <3>8. /\ Cardinality(Behind' \ received'[current']) \in Nat
          /\ Cardinality(Behind \ received[current]) \in Nat
          /\ Cardinality(Behind \ local) \in Nat
          /\ Cardinality(todo) \in Nat /\ Cardinality(candidates) \in Nat
      BY <3>b, BatchFinite DEF TypeOK
    <3>9. /\ num_shipped' + num_lost' + Cardinality(todo') = Cardinality(candidates')
          /\ Cardinality(Behind' \ received'[current']) <= num_lost'
          /\ num_lost' <= Cardinality(Behind' \ local')
      BY <2>n, <3>2, <3>3, <3>5, <3>6, <3>7, <3>8
    <3> QED
      BY <3>2, <3>9 DEF LossInv
  <2>6. CASE ShipFileFails
    <3>1. /\ pc \in InBatch /\ pc' \in InBatch
          /\ UNCHANGED <<candidates, todo, num_shipped, num_lost, primary_ok, local>>
      BY <2>6 DEF ShipFileFails, InBatch
    <3>2. received[current] \subseteq received'[current]
      BY <2>6 DEF ShipFileFails, Stored, TypeOK, current, Target
    <3> QED
      BY <3>1, <3>2, BatchUntouched
  <2>7. CASE StopShipping
    <3>1. /\ pc \in InBatch /\ pc' \in InBatch
          /\ UNCHANGED <<candidates, todo, num_shipped, num_lost, primary_ok, local, received>>
      BY <2>7 DEF StopShipping, InBatch
    <3> QED
      BY <3>1, BatchUntouched
  <2>8. CASE \/ Rotate \/ ToggleStop \/ Tick
             \/ \E t \in Target : LinkChange(t) \/ CollectorCleanup(t)
             \/ UNCHANGED vars
    <3>1. UNCHANGED <<pc, candidates, todo, num_shipped, num_lost, primary_ok, received>>
      BY <2>8 DEF Rotate, ToggleStop, Tick, Elapse, LinkChange, CollectorCleanup, vars
    <3>2. local' \cap candidates \subseteq local
      <4>1. CASE Rotate
        <5>1. candidates \subseteq 1 .. lastTs /\ lastTs \in Nat
          BY DEF TypeOK
        <5>2. lastTs + 1 \notin candidates
          BY <5>1
        <5>3. local' \subseteq local \cup {lastTs + 1}
          BY <4>1 DEF Rotate
        <5> QED
          BY <5>2, <5>3
      <4>2. CASE ~Rotate
        <5>1. UNCHANGED local
          BY <2>8, <4>2, DiskChanges
        <5> QED
          BY <5>1
      <4> QED
        BY <4>1, <4>2
    <3>3. CASE pc \in InBatch
      BY <3>1, <3>2, <3>3, BatchUntouched
    <3>4. CASE pc \notin InBatch
      BY <3>1, <3>4 DEF LossInv
    <3> QED
      BY <3>3, <3>4
  <2> QED
    BY <2>1, <2>2, <2>3, <2>4, <2>5, <2>6, <2>7, <2>8
       DEF Next, AgentStep, Environment
<1> QED
  BY <1>1, <1>2

\* LossInv in every reachable state.
LEMMA LossInvHolds == Spec => [](TypeOK /\ LossInv)
<1>1. TypeOK /\ LossInv /\ [Next]_vars => (TypeOK /\ LossInv)'
  BY LossInvInductive, TypeStep
<1>2. Init => TypeOK /\ LossInv
  BY LossInvInductive, InitTypeOK
<1> QED
  BY <1>1, <1>2, PTL DEF Spec

\* Whatever is rotated away or fails during a batch (ship_candidates), the files
\* left behind are at the collector or counted in LostDuringShip.
THEOREM NothingIsLostSilently == Spec => []NoSilentLoss
<1>1. LossInv => NoSilentLoss
  BY DEF LossInv, NoSilentLoss, InBatch, Behind
<1> QED
  BY <1>1, LossInvHolds, PTL

\* LostDuringShip never exceeds RotatedDuringShip (ship_candidates), with or
\* without the stop file in place at the second listing.
THEOREM LossesAreRotations == Spec => []LostIsRotated
<1>1. TypeOK /\ LossInv => LostIsRotated
  <2> SUFFICES ASSUME TypeOK, LossInv, pc = "recount"
               PROVE  num_lost <= num_rotated_during_ship
    BY DEF LostIsRotated
  <2>1. num_lost <= Cardinality(Behind \ local)
    BY DEF LossInv, InBatch
  <2>2. Behind \ local \subseteq candidates \ list_log_directory
    BY DEF Behind, list_log_directory
  <2>3. Cardinality(Behind \ local) <= Cardinality(candidates \ list_log_directory)
    BY <2>2, SubsetCounts
  <2>4. /\ Cardinality(Behind \ local) \in Nat
        /\ Cardinality(candidates \ list_log_directory) \in Nat
        /\ num_lost \in Nat
    BY BatchFinite DEF Behind, TypeOK
  <2> QED
    BY <2>1, <2>3, <2>4 DEF num_rotated_during_ship, count_missing
<1> QED
  BY <1>1, LossInvHolds, PTL
=============================================================================
