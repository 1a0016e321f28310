-------------------------------- MODULE Agent --------------------------------
(***************************************************************************)
(* One barn-agent: the loop that ships the closed svlogd files of one log  *)
(* directory to the primary collector, or to the secondary when the        *)
(* primary has been failing for too long (barn-agent/src/barn-agent.cpp    *)
(* with files.cpp, rsync.cpp and helpers.cpp).                             *)
(*                                                                         *)
(* A round is dispatch_new_logs: pick a channel, list the directory, ask   *)
(* the collector by rsync dry run what it lacks, ship the tail of the      *)
(* listing one file at a time, then sleep or wait for a new file.  Every   *)
(* call that reads or changes something outside the process is a step of   *)
(* its own, so svlogd, the links, the operator and barn-hdfs (which        *)
(* deletes on the collector) act in between.                               *)
(*                                                                         *)
(* Files are named by the order of their tai64n timestamps.                *)
(***************************************************************************)
EXTENDS ChannelSelector, Helpers

CONSTANTS Retain,      \* files svlogd keeps (its "n" setting)
          MaxTs,       \* bound: files produced in a behaviour
          MaxCrashes   \* bound: restarts of the agent

ASSUME AgentAssumption ==
    /\ Retain \in Nat \ {0}
    /\ MaxTs \in Nat
    /\ MaxCrashes \in Nat

VARIABLES
    local,       \* files in source_dir
    lastTs,      \* newest file svlogd has produced
    stop,        \* STOP_SHIPPING is present in source_dir
    remote,      \* remote[t]: files in this service's directory at collector t
    received,    \* history: every file collector t was ever given
    deliveries,  \* history: what it was given, one entry for each time
    up,          \* up[t]: rsync to t works
    pc,          \* where in dispatch_new_logs the agent is
    existing,    \* existing_files of query_candidates
    candidates,  \* candidates of ship_candidates
    todo,        \* candidates the shipping loop has not passed
    num_shipped, num_lost,
    notified,    \* inotifywait has seen a file moved into source_dir
    faulty,      \* history: the primary was unreachable since the last heartbeat
    crashes      \* restarts so far

diskVars   == <<local, lastTs, stop>>
remoteVars == <<remote, received, deliveries>>
batchVars  == <<existing, candidates, todo, num_shipped, num_lost>>
envVars    == <<up, crashes>>
vars == <<selectorVars, diskVars, remoteVars, batchVars, envVars,
          pc, notified, faulty>>

File == 1 .. MaxTs

Pc == {"pick", "list", "query", "ship", "check", "recount",
       "nap", "rest", "wait"}

TypeOK ==
    /\ SelectorTypeOK
    /\ lastTs \in 0 .. MaxTs
    /\ local \subseteq 1 .. lastTs
    /\ stop \in BOOLEAN
    /\ remote \in [Target -> SUBSET (1 .. lastTs)]
    /\ received \in [Target -> SUBSET (1 .. lastTs)]
    /\ deliveries \in [Target -> Seq(1 .. lastTs)]
    /\ up \in [Target -> BOOLEAN]
    /\ pc \in Pc
    /\ existing \subseteq 1 .. lastTs
    /\ candidates \subseteq existing
    /\ todo \subseteq candidates
    /\ num_shipped \in Nat
    /\ num_lost \in Nat
    /\ notified \in BOOLEAN
    /\ faulty \in BOOLEAN
    /\ crashes \in 0 .. MaxCrashes

Init ==
    /\ SelectorInit
    /\ local = {} /\ lastTs = 0 /\ stop = FALSE
    /\ remote = [t \in Target |-> {}]
    /\ received = [t \in Target |-> {}]
    /\ deliveries = [t \in Target |-> <<>>]
    /\ up = [t \in Target |-> TRUE]
    /\ pc = "pick"
    /\ existing = {} /\ candidates = {} /\ todo = {}
    /\ num_shipped = 0 /\ num_lost = 0
    /\ notified = FALSE /\ faulty = FALSE /\ crashes = 0

----------------------------------------------------------------------------
(* Listing and querying *)

\* Lists the directory whatever the stop file says.
ListIgnoringStop == local

\* list_log_directory: the stop file makes the directory look empty.
list_log_directory == IF stop THEN {} ELSE local

\* What the dry run prints: the listed files, not vanished since, that
\* collector t lacks.
log_files_not_on_target(t) == (existing \cap local) \ remote[t]

PickChannel ==
    /\ pc = "pick"
    /\ pick_channel
    /\ pc' = "list"
    /\ UNCHANGED <<diskVars, remoteVars, batchVars, envVars, notified, faulty>>

\* The lists survive the round.
KeepBatch ==
    /\ UNCHANGED <<candidates, todo>>
    /\ num_shipped' = 0 /\ num_lost' = 0

\* The lists and counters are locals of the round.
NewBatch ==
    /\ candidates' = {} /\ todo' = {}
    /\ num_shipped' = 0 /\ num_lost' = 0

\* With nothing listed the collector is not asked and the round goes on to wait.
ListLogs ==
    /\ pc = "list"
    /\ existing' = list_log_directory
    /\ pc' = IF list_log_directory = {} THEN "wait" ELSE "query"
    /\ NewBatch
    /\ UNCHANGED <<selectorVars, diskVars, remoteVars, envVars, notified, faulty>>

QueryAnswered ==
    /\ pc = "query" /\ up[current]
    /\ candidates' = tail_intersection(existing, log_files_not_on_target(current))
    /\ todo' = candidates'
    /\ pc' = IF candidates' = {} THEN "wait" ELSE "ship"
    /\ UNCHANGED <<selectorVars, diskVars, remoteVars, envVars, existing,
                   num_shipped, num_lost, notified, faulty>>

QueryFailed ==
    /\ pc = "query" /\ ~up[current]
    /\ pc' = "nap"
    /\ UNCHANGED <<selectorVars, diskVars, remoteVars, batchVars, envVars,
                   notified, faulty>>

----------------------------------------------------------------------------
(* Shipping *)

\* The candidates are sorted before the loop: oldest first.
IsNext(f) == f \in todo /\ \A g \in todo : f <= g

\* The collector is given f, whether it was given f before or not.
Stored(t, f) ==
    /\ remote' = [remote EXCEPT ![t] = @ \cup {f}]
    /\ received' = [received EXCEPT ![t] = @ \cup {f}]
    /\ deliveries' = [deliveries EXCEPT ![t] = Append(@, f)]

\* Leaves every vanished file behind along with f.
PassedWithVanished(f) ==
    /\ todo' = (todo \cap local) \ {f}
    /\ pc' = IF todo' = {} THEN "recount" ELSE "ship"

\* The loop leaves f behind.
Passed(f) ==
    /\ todo' = todo \ {f}
    /\ pc' = IF todo' = {} THEN "recount" ELSE "ship"

ShipFile ==
    /\ pc = "ship" /\ up[current]
    /\ \E f \in local : IsNext(f) /\ Stored(current, f) /\ Passed(f)
    /\ num_shipped' = num_shipped + 1
    /\ UNCHANGED <<selectorVars, diskVars, envVars, existing, candidates,
                   num_lost, notified, faulty>>

\* rsync exits with an error: the file has vanished, or the connection broke
\* before or after the collector stored the file.  do_rsync's retries are part
\* of the step: they are for a handshake that failed, before any file is sent.
ShipFileFails ==
    /\ pc = "ship"
    /\ \E f \in todo :
          /\ IsNext(f)
          /\ f \notin local \/ ~up[current]
          /\ \/ UNCHANGED remoteVars
             \/ f \in local /\ Stored(current, f)
    /\ pc' = "check"
    /\ UNCHANGED <<selectorVars, diskVars, batchVars, envVars, notified, faulty>>

\* Goes on to the next file after any failure.
SkipFailed ==
    /\ pc = "check"
    /\ \E f \in todo : IsNext(f) /\ Passed(f)
    /\ num_lost' = num_lost + 1
    /\ UNCHANGED <<selectorVars, diskVars, remoteVars, envVars, existing,
                   candidates, num_shipped, notified, faulty>>

\* file_exists says no: the file was rotated away, count it lost and go on.
LoseFile ==
    /\ pc = "check"
    /\ \E f \in todo \ local : IsNext(f) /\ Passed(f)
    /\ num_lost' = num_lost + 1
    /\ UNCHANGED <<selectorVars, diskVars, remoteVars, envVars, existing,
                   candidates, num_shipped, notified, faulty>>

\* file_exists says yes: break, and retry in a later round.
StopShipping ==
    /\ pc = "check"
    /\ \E f \in todo \cap local : IsNext(f)
    /\ pc' = "recount"
    /\ UNCHANGED <<selectorVars, diskVars, remoteVars, batchVars, envVars,
                   notified, faulty>>

\* Reported as RotatedDuringShip.
num_rotated_during_ship == count_missing(candidates, list_log_directory)

Recount ==
    /\ pc = "recount"
    /\ pc' = IF num_shipped = 0 THEN "nap" ELSE "rest"
    /\ UNCHANGED <<selectorVars, diskVars, remoteVars, batchVars, envVars,
                   notified, faulty>>

----------------------------------------------------------------------------
(* The end of a round *)

\* sleep_it on an error path: no heartbeat.
SleepAfterError ==
    /\ pc = "nap"
    /\ pc' = "pick"
    /\ UNCHANGED <<selectorVars, diskVars, remoteVars, batchVars, envVars,
                   notified, faulty>>

EndWithHeartbeat ==
    /\ heartbeat
    /\ faulty' = ~up["primary"]
    /\ pc' = "pick"
    /\ notified' = FALSE
    /\ UNCHANGED <<diskVars, remoteVars, batchVars, envVars>>

\* sleep_it after at least one file was shipped.
SleepAfterShipping == pc = "rest" /\ EndWithHeartbeat

WakeOnNewFile == pc = "wait" /\ notified /\ EndWithHeartbeat

\* A wait without a timeout.
NeverTimesOut == FALSE /\ EndWithHeartbeat

\* inotifywait --timeout 3600, or the plain sleep when it is not installed.
WakeOnTimeout == pc = "wait" /\ EndWithHeartbeat

----------------------------------------------------------------------------
(* The environment *)

\* svlogd closes "current" under its timestamp and keeps the newest files.
\* Only an inotifywait that is already running hears of it.
Rotate ==
    /\ lastTs < MaxTs
    /\ lastTs' = lastTs + 1
    /\ local' = {f \in local \cup {lastTs + 1} : f > lastTs + 1 - Retain}
    /\ notified' = (notified \/ pc = "wait")
    /\ UNCHANGED <<selectorVars, stop, remoteVars, batchVars, envVars, pc, faulty>>

\* An operator creates or removes STOP_SHIPPING.
ToggleStop ==
    /\ stop' = ~stop
    /\ UNCHANGED <<selectorVars, local, lastTs, remoteVars, batchVars, envVars,
                   pc, notified, faulty>>

LinkChange(t) ==
    /\ up' = [up EXCEPT ![t] = ~@]
    /\ faulty' = (faulty \/ ~up'["primary"])
    /\ UNCHANGED <<selectorVars, diskVars, remoteVars, batchVars, crashes, pc,
                   notified>>

\* Also deletes the newest file.
CleanupEverything(t) ==
    /\ \E f \in remote[t] : remote' = [remote EXCEPT ![t] = @ \ {f}]
    /\ UNCHANGED <<selectorVars, diskVars, received, deliveries, batchVars,
                   envVars, pc, notified, faulty>>

\* barn-hdfs deletes what it has shipped, oldest first, and always leaves the
\* newest file (cleanupLocal).
CollectorCleanup(t) ==
    /\ \E f \in remote[t] :
          /\ \A g \in remote[t] : f <= g
          /\ \E g \in remote[t] : f < g
          /\ remote' = [remote EXCEPT ![t] = @ \ {f}]
    /\ UNCHANGED <<selectorVars, diskVars, received, deliveries, batchVars,
                   envVars, pc, notified, faulty>>

\* Seconds pass while the agent is blocked: in rsync, in a sleep or in a wait.
Tick ==
    /\ pc \in {"query", "ship", "nap", "rest", "wait"}
    /\ Elapse
    /\ UNCHANGED <<diskVars, remoteVars, batchVars, envVars, pc, notified, faulty>>

\* The agent dies with its rsync child, which may have stored its file, and is
\* started again with a new selector.
Crash ==
    /\ crashes < MaxCrashes
    /\ crashes' = crashes + 1
    /\ \/ UNCHANGED remoteVars
       \/ /\ pc = "ship" /\ up[current]
          /\ \E f \in local : IsNext(f) /\ Stored(current, f)
    /\ primary_ok' = TRUE /\ time_since_heartbeat' = 0
    /\ pc' = "pick"
    /\ existing' = {} /\ NewBatch
    /\ notified' = FALSE /\ faulty' = ~up["primary"]
    /\ UNCHANGED <<diskVars, up>>

----------------------------------------------------------------------------
AgentStep ==
    \/ PickChannel \/ ListLogs
    \/ QueryAnswered \/ QueryFailed
    \/ ShipFile \/ ShipFileFails \/ LoseFile \/ StopShipping \/ Recount
    \/ SleepAfterError \/ SleepAfterShipping
    \/ WakeOnNewFile \/ WakeOnTimeout

Environment ==
    \/ Rotate \/ ToggleStop \/ Tick \/ Crash
    \/ \E t \in Target : LinkChange(t) \/ CollectorCleanup(t)

Next == AgentStep \/ Environment

Spec == Init /\ [][Next]_vars

\* The process is scheduled, every blocking call returns (rsync has its own
\* --timeout, the wait its 3600 s), and time passes.  Nothing obliges svlogd,
\* the links, the operator or barn-hdfs to act.
Fairness == WF_vars(AgentStep) /\ SF_vars(Tick)

FairSpec == Spec /\ Fairness

----------------------------------------------------------------------------
(* Properties *)

\* No collector holds a file while an older one that it never got is still on
\* disk: the next dry run would deduce that the older one is there and it
\* would silently be lost (the gap rule of query_candidates).
NothingPassedOver ==
    \A t \in Target : \A f \in received[t], e \in local :
        e < f => e \in received[t]

\* What the shipping loop is about to send was never sent before to this
\* collector, although barn-hdfs deletes files there between the query and
\* now: a second copy would reach HDFS again.
NeverOffersDelivered ==
    pc = "ship" => todo \cap received[current] = {}

\* A batch loses no file silently: of the candidates the loop has passed, as
\* many as are not at the collector are counted in LostDuringShip.
NoSilentLoss ==
    pc \in {"ship", "check", "recount"} =>
        /\ num_shipped + num_lost + Cardinality(todo) = Cardinality(candidates)
        /\ Cardinality((candidates \ todo) \ received[current]) <= num_lost

\* RotatedDuringShip covers LostDuringShip: what the loop counts as lost is
\* among what the second listing finds missing (ship_candidates).
LostIsRotated ==
    pc = "recount" => num_lost <= num_rotated_during_ship

\* An agent that shipped something in its last round does not fail over
\* (the comment above the heartbeat in dispatch_new_logs).
NoFailoverAfterProgress ==
    [][primary_ok /\ ~primary_ok' => num_shipped = 0]_vars

\* Why the two properties above hold, as an inductive invariant.
\* svlogd keeps an unbroken run of the newest files;
LocalIsTail ==
    /\ \A f \in local, h \in 1 .. lastTs : f <= h => h \in local
    /\ lastTs > 0 => lastTs \in local

\* barn-hdfs leaves at least the newest file a collector was given, so that
\* the gap rule has something to deduce from;
NewestStays ==
    \A t \in Target :
        /\ remote[t] \subseteq received[t]
        /\ \A f \in received[t] : \E g \in remote[t] : f <= g

\* the listing reaches up to whatever the collector was given, without a hole;
ListingCovers ==
    pc = "query" =>
        /\ \A x \in existing, e \in local : e <= x => e \in existing
        /\ \A g \in received[current] : \E x \in existing : g <= x

\* and the loop has before it what is on disk above the collector's newest
\* file.  After a failed rsync its file may have arrived all the same.
BatchIsTail ==
    /\ pc \in {"ship", "check"} =>
          /\ todo # {}
          /\ \A f \in todo, e \in local :
                e < f => e \in todo \cup received[current]
          /\ \A f \in todo, g \in received[current] : g <= f
    /\ pc = "ship" => todo \cap received[current] = {}

\* What a collector was given, it was given some time.
DeliveriesAreReceived ==
    \A t \in Target : received[t] = Names(deliveries[t])

ShippingInv ==
    /\ TypeOK
    /\ DeliveriesAreReceived
    /\ LocalIsTail
    /\ NewestStays
    /\ NothingPassedOver
    /\ ListingCovers
    /\ BatchIsTail

\* The agent keeps the promise of LogDelivery: in what a collector is given, the
\* files come oldest first, no file comes twice and none on disk is left out.
Delivery == INSTANCE LogDelivery
DeliversInOrder == Delivery!Spec

\* The backup is never for ever: the primary is tried again.
PrimaryRetried == HasBackup => (~primary_ok ~> primary_ok)

DrainsTo(t) == \A f \in File :
    f \in local ~> (f \in received[t] \/ f \notin local)

\* Once the primary stays reachable and the stop file is gone, every file
\* reaches it or is rotated away.
PrimaryDrains ==
    <>[](up["primary"] /\ ~stop) => DrainsTo("primary")

\* Once only the secondary stays reachable, every file reaches it likewise.
SecondaryDrains ==
    <>[](up["secondary"] /\ ~up["primary"] /\ ~stop) =>
        (HasBackup => DrainsTo("secondary"))

\* The stop file takes effect, although not at once: a batch under way goes on
\* (ship_candidates does not look at it), but once the file stays, the agent
\* comes to a round from which on it has nothing to ship.
StopEndsShipping == <>[]stop => <>[](todo = {})

\* "Don't want to failover unless necessary": the primary was unreachable at
\* some time since the last heartbeat.
FailoverOnlyWhenNecessary ==
    [][primary_ok /\ ~primary_ok' => faulty]_vars
=============================================================================
