# Verification of barn

barn moves log files from production hosts to HDFS.  This directory holds TLA+
models of the parts of it that decide what is sent, what is sent again, what is
taken for sent and what is deleted, the TLC configurations that check them, and
TLAPS proofs about them.

## The system

    service -> svlogd -> [log directory] -> barn-agent -> rsync -> [collector
    directory service@category@host] -> barn-hdfs -> [date directories of HDFS]

No part keeps a record of what it has passed on.  The agent deduces what a
collector has from an rsync dry run; barn-hdfs deduces what HDFS has from the
names in the date directories.  Both deductions go by order: the newest file
found stands for every older one.  Almost all that can go wrong follows from
that.

| Component | Source | State | Operations | Model |
|---|---|---|---|---|
| agent main loop | `barn-agent.cpp` | none across rounds; per round the listing, the batch and its counters | `dispatch_new_logs`, `query_candidates`, `ship_candidates`, `sleep_it` | `Agent` |
| channel selector | `channel_selector.h` | `primary_ok`, `last_heartbeat_time` | `pick_channel`, `heartbeat`, `current` | `ChannelSelector` |
| agent file operations | `files.cpp`, `rsync.cpp` | none | listing, stop file, `inotifywait`, dry run, transfer | `Agent` |
| list helpers | `helpers.cpp` | none | `tail_intersection`, `count_missing` | `Helpers`, `TailIntersection`, `CountMissing` |
| processes and signals | `main.cpp`, `process.cpp`, `sighandle.cpp` | `child_pid_global`, the SIGTERM disposition | `run_command`, `kill_child_handler`, the choice of a mode | `SigHandle`, `Main` |
| monitor | `monitor/`, `metrics.h` | a ring of reports, a timer | `receive_reports`, `timer_action`, `report_ganglia` | `Monitor` |
| agent parameters | `params.cpp`, `params.h` | the configuration | `parse_command_line`, `create_channel_selector` | `Main` |
| barn-hdfs rounds | `main.scala`, `placement/hdfs.scala`, `hadoop.scala` | the listing cache of a round | `syncRootLogDir`, `actOnServiceDir`, `planNextShip`, `cachingLs`, `outstandingFiles`, `atomicShipToHdfs` | `HdfsWriter` |
| local placement | `placement/local.scala`, `localfs.scala` | the collector's directories | `decodeServiceInfo`, `listSortedLocalFiles`, `cleanupLocal` | `HdfsWriter` |
| combiner | `combiner.scala` | none | `concatCandidates` | `HdfsWriter`, its set of log files only |
| timestamps | `tai64.scala`, `svlogdfile.scala`, `time.scala` | none | tai64 conversions, `enoughTimePast` | `Tai64`, `HdfsWriter` |
| parameters, metrics, logging of barn-hdfs | `params.scala`, `metrics.scala`, `instruments.scala`, `logging.scala` | none that decides anything | | not modelled |
| barn-master | `barn-master` | none | runs the rsync daemon | external to `Agent` |
| rtail, loggen, vagrant, packaging, vendored code | `contrib/`, `testing/`, `debian/`, `external/`, `test/` | | | not modelled |

How they interact: the agent and svlogd share a log directory (svlogd closes,
names and deletes files while the agent ships them); an operator can put
`STOP_SHIPPING` into it.  The agent and barn-hdfs share the service directory on
the collector (barn-hdfs deletes there while the agent queries and writes).
The workers of a barn-hdfs round share the listing cache and the date
directories.  Everything else is a call: rsync and inotifywait are child
processes, HDFS is remote, and each of them can fail, or succeed and not say so.
A barn-agent in monitor mode is another process; agents send it datagrams, and it
has two threads, which share the ring of reports (under a mutex) and the pid of
the current child (under none).

The hard behaviours, listed at their lines under `hazards` in `PROJECT.json`:
three views of two directories taken at different times (agent); a failed call
that was carried out (rsync, the HDFS rename); restarts between any two steps;
midnight and a bounded look-back (barn-hdfs); cached listings shared by
workers; names in the date directories that are not barn-hdfs's own, and clocks
that are ahead of the collector's; deletion of what was not shipped; a signal
handler that shares a variable with the code it interrupts; two programs that each
take the other's order for granted; and liveness: whether the agent always gets
back to the primary, whether a missed notification can stall it, and whether every
file reaches HDFS.

## Modules

**`ChannelSelector`** is the state and the two operations of
`FailoverChannelSelector`; `seconds_before_failover = 0` is
`SingleChannelSelector`, which `create_channel_selector` builds in that case.
The clock appears as the age of the last heartbeat, capped at the limit, since
the code only compares the age with the limit.

**`Agent`** extends it with a whole round.  `pc` is the place in
`dispatch_new_logs`: `pick`, `list`, `query`, `ship`, `check`, `recount`, then
`nap` (an error path, no heartbeat), `rest` (files were shipped) or `wait`
(inotifywait).  A step is one look at, or one change of, something outside the
process, with what the code does up to the next one:

| Action | Code |
|---|---|
| `PickChannel` | `pick_channel` at the head of the round |
| `ListLogs` | `list_log_directory`; with an empty list the collector is not asked |
| `QueryAnswered`, `QueryFailed` | the dry run, then `tail_intersection` or the error path |
| `ShipFile`, `ShipFileFails` | `ship_file` on the next candidate; a failure may have stored the file |
| `LoseFile`, `StopShipping` | `file_exists` after a failure: count the loss, or break |
| `Recount` | the second listing, and success or `BarnError` |
| `SleepAfterError`, `SleepAfterShipping`, `WakeOnNewFile`, `WakeOnTimeout` | the ends of a round |
| `Rotate`, `ToggleStop`, `LinkChange`, `CollectorCleanup`, `Tick`, `Crash` | svlogd, operator, network, barn-hdfs, clock, restart |

Files are numbers in the order of their tai64n names.  A link is up or down for
all of rsync, with the attempts of `do_rsync` in one step (it repeats a failed
handshake, before any file is sent).  Time passes
where the agent is blocked (rsync, sleep, inotifywait); its own computation
takes none, which `NoFailoverAfterProgress` relies on: between the heartbeat and
the next `pick_channel` there is no blocking call.

**`LogDelivery`** is what an agent promises about a directory: each collector
gets the files oldest first, each at most once, and none that is still on disk
is passed over.  What a collector gets is a sequence (`deliveries`), so that giving
it a file again is a step that the promise does not allow.  `Agent` implements it
with the identity as refinement mapping (`local`, `lastTs` and `deliveries` are
variables of both; `Target` is the set of the two collectors).  In `Agent`,
`deliveries` is a history: every transfer is appended to it (`Stored`), whether the
file had been there before or not, and barn-hdfs's deletions leave it alone.

**`Helpers`** has the results of `tail_intersection` and `count_missing` on sets
of names, which `Agent` uses; **`TailIntersection`** and **`CountMissing`** have
the loops, iterator by iterator, and show that they compute these results.

**`HdfsWriter`** is barn-hdfs on one collector: `StartRound` and, per service
directory, a worker that lists it (`ListLocal`), reads date directories from
today backwards through the cache (`UseCache`, `MissCache`, `ListDay`), decides
(`DecideToShip`), copies (`CopyToTemp`), renames (`Rename`) and cleans up
(`CleanupShipped`, or `CleanupOld` after any failure, throttling included).
`Tick`, `Arrive`, `HdfsChange` and `Crash` are the clock, the agents, HDFS and a
restart.  A timestamp is on the same scale as the clock and `DayLen` units make
a day; sizes are counted in files; an HDFS file is its day, the service and host
and the newest timestamp in its name, and, as a history, the log files in it.
Two things that make it hard are part of the model.  A date directory may hold a
name that barn-hdfs did not give (`ForeignFile`), which turns its listing into an
error for every service (`collapseValidate`).  A producer's clock may be ahead
(`Skew`): such a file is shipped like any other, but the next decision about the
service makes an interval that ends before it begins, an exception nobody catches
(`Throw`): that worker does not clean up, workers that have not begun never do,
and the process is started again.  A producer whose clock is ahead can so keep the
other services waiting, until the collector's clock has reached the name.

**`LogArchive`** is what barn-hdfs promises: of the files a directory was given,
HDFS gets newer ones only, and with a file every older one that is not beyond the
age limit.  `HdfsWriter` implements it under the mapping `delivered <- arrived`,
`archived <-` the shipped ones, `limit <-` the clock less the look-back and a day.

**`Pipeline`** composes agents with the writer over one set of service
directories.  An agent is reduced to one collector and to the steps that touch the
two directories it looks at: `List`, `Query` (dry run and gap rule) or `QueryFailed`,
`Ship`, `GiveUp`; svlogd rotates and barn-hdfs cleans up between any two of them.
Nothing is assumed of either side any more: `WriterServed` says that the agents give
the writer what `Arrive` takes for granted, `InOrderToHdfs` and `EndToEnd` follow
files from svlogd to HDFS.

**`SigHandle`** is `run_command` against `kill_child_handler`.  A pid is free, a
child's (alive or a zombie until `wait`), or another process's; the handler is four
steps, since the test of the pid and its use are two reads.  In an agent the
handler interrupts the one thread; in a monitor it may run on either thread while
the other goes on.  **`Monitor`** extends it with the ring, the receiving thread
(`ReceiveReport`) and the timer's (`TakeReports`, `ReportGanglia` per sum,
`RearmTimer`); a report is a number, so that a sum can be the set of what is in it.
**`Main`** composes the two: `ParseCommandLine`, `StartMode`, then the commands of
an agent or the steps of a monitor; the timer's thread is there as soon as the mode
is chosen.

**`Tai64`** has the two conversions between times and tai64n labels over any table
of leap seconds whose entries are further apart than the seconds they add.  barn-hdfs
reads the names of log files with the one; only its tests call the other.  Limits are
compared as times, never as labels.

**`MCFunctions`** puts the three pure algorithms (`TailIntersection`,
`CountMissing`, `Tai64`) side by side in one run.

The definitions `KeepBatch`, `PassedWithVanished`, `SkipFailed`,
`NeverTimesOut`, `CleanupEverything`, `ListIgnoringStop` (`Agent`), `no_change`,
`heartbeat_on_any_channel` (`ChannelSelector`), `all_missing` (`Helpers`),
`StepOver`, `KeepOrder` (`TailIntersection`), `AdvanceBoth` (`CountMissing`),
`NewRoundSameCache`, `listParsedDay`, `allLogs`, `todaysFiles`, `filesByNow`,
`deleteAllBefore`, `CleanupEarlier` (`HdfsWriter`), `QueryEverything`,
`newestOf` (`Pipeline`), `HandlerSkips`, `HandlerStays`, `KeepChildPid` (`SigHandle`),
`CopyThenClear`, `TakeWithoutDefaults`, `ForgetTimer` (`Monitor`),
`leapSecondAndFirst`, `convertTwice` (`Tai64`) are wrong
variants of the definition after them.  `PROJECT.json` pairs them with the
properties that fail when they are put in place; no specification uses them.

## Runs

Passing runs:

| Run | Bounds | Shows |
|---|---|---|
| `agent` | failover after 2 s, svlogd keeps 2 files of 4, 1 restart | all safety and step properties of the agent, and the refinement of `LogDelivery` |
| `agent_live` | failover after 1 s, 2 files kept of 3, 1 restart | liveness of the agent |
| `functions` | all listings of up to 6 names with all their parts; all pairs of listings of up to 6 names; a table of 3 entries that add 4, 2 and 2 units, 60 units of time | the two loops with their invariants, the tai64 conversions |
| `process` | 4 command lines, 2 pids, 2 SIGTERMs, a ring of 3, 3 reports, 2 metrics | signals and children, the ring, and that both end |
| `hdfs` | 1 service, days of 2 units, 6 units, look-back 1 day, 2 files, clocks ahead by 1, 1 foreign file, 1 restart | safety, refinement of `LogArchive` and liveness of the writer |
| `hdfs_two` | 2 services, days of 1 unit, 2 units, 2 files for the one and 1 for the other, clocks ahead by 1 | workers in parallel over one cache, and one that ends the round of the other; the two inductive invariants, and liveness |
| `pipeline` | 1 directory, days of 1 unit, 4 units, look-back 1 day, 3 files delivered, svlogd keeps 2, 1 restart | agent and writer together, from svlogd to HDFS; the inductive invariant |

The bounds let the interesting things happen.  In `agent` a batch of two can be
rotated away in mid-transfer, in part or as a whole, while the link goes down, and
the stay on either channel can expire inside a round.  In `hdfs` the clock crosses
three midnights, so that a file can outlive the look-back and the day after it; a
file can be ahead of the clock, and ahead across midnight; shipping is throttled by
`shipInterval` and forced by `maxReady`; cleanup is held by `minKeep`.  In `hdfs_two`
both workers read, and cache for each other, listings of either day, errors included,
in every order and with a midnight in between; and a file of either service can be ahead of
the clock, so that `Throw` ends the round before the other worker has begun, or while
it is anywhere in its own (`hdfs` has no other worker for that).  In `process` one pid can be a child's, free and another process's before the pid is
unset, a second SIGTERM can come into the handler, and the ring overflows, its zero
first.  In `pipeline` svlogd rotates faster than the agent ships, and in the middle of
a query, and barn-hdfs cleans up meanwhile.  `MaxFiles` could keep back only the last of
the four files that the clock allows, which the liveness property leaves out.  The clock
stops at `MaxNow` in these models: a file counts for the liveness properties
when its shipping interval ends before that.

Properties of the agent, in the order of importance:

- `NothingPassedOver`: no collector holds a file while an older one it never got
  is still on disk.  That file would be lost silently, since the gap rule takes
  it for delivered.
- `NeverOffersDelivered`: the batch holds no file the collector was given
  before, although barn-hdfs deletes files between the query and the transfer.
- `DeliversInOrder`: the sequence of what a collector is given is in order, has no
  file twice and leaves out none that is on disk, whatever answers are lost, files are
  deleted there and agents are restarted; as the abstract specification.
- `NoSilentLoss`, `LostIsRotated`: what the loop leaves behind is at the
  collector or counted, and the two metrics agree about it.
- `NoFailoverAfterProgress`: no failover after a round that shipped something.
- `PrimaryRetried`, `PrimaryDrains`, `SecondaryDrains`: the agent returns to the
  primary; with the primary reachable from some time on, every file gets there or
  is rotated away; the same for the secondary while the primary is down.  An empty
  directory counts as a healthy primary, so the last is also about what happens
  after a heartbeat that nobody answered.
- `StopEndsShipping`: a stop file that stays takes effect, also when it is created or
  removed in the middle of a batch.

Properties of barn-hdfs:

- `NothingPassedOver`: when a newer file of a directory is on HDFS, so is this
  one, or it is beyond the shipping limit.
- `ArchivesInOrder`: the same with deletions, restarts and lost answers, as the
  abstract specification `LogArchive`.
- `CopiesFarApart`: two copies of a file are more than the look-back apart, so no
  failure, lost answer, foreign name, restart or midnight makes a copy of what is in
  view.  The exception is a file that was ahead of the clock across midnight.
- `NoYoungLoss`: what is deleted was shipped, or older than the limit by a day.
- `NewestRetained`: a directory's newest file stays.  `CollectorCleanup` in
  `Agent` assumes just this, and `NothingPassedOver` there needs it.
- `EverythingShipped`: with HDFS reachable and free of foreign names for good, every
  file is shipped or grows too old, also after an exception of `Throw`, its own worker's
  (`hdfs`) or another's (`hdfs_two`).  A file of another directory that is ahead of
  where the clock stops is left out: in the model it would throw for ever.
- `WriterInv`, `CopiesInv`: the inductive invariants of the proofs, on two
  directories.

Of agent and writer together:

- `WriterServed`: whatever agents that use the gap rule do, with transfers that fail
  anywhere, the writer sees a behaviour of `HdfsWriter`: files arrive in order, and
  none twice although cleanup deletes them under the agent's eyes.
- `InOrderToHdfs`: once HDFS has a file, it has every older one that svlogd still
  keeps, but for those that grew too old on the collector.  Two rules that each skip
  what they take for done have to be right at once.
- `PipelineInv`: the inductive invariant of the proofs.
- `EndToEnd`: a closed log file reaches HDFS, unless svlogd rotates it away before it
  is delivered or it grows too old.

Of the agent's process and the monitor:

- `NoOrphan`: no SIGTERM leaves a registered child running unsignalled; an agent
  leaves one behind only between the launch and `set_child_pid`.
- `AgentSignalsItsChild`: an agent's handler signals a foreign process only between
  the child's end and `unset_child_pid`, and never everyone.
- `SigtermEnds`: the handler ends the process.
- `ReportsConserved`: every report is in the ring, in a sum, with gmetric or
  overwritten, and in one of these only.  "With gmetric" means handed to
  `report_ganglia`: the sum of a gmetric that cannot be run is lost there, with an
  error in the log.
- `ZerosAreReported`: from the second firing on the zero metrics are in a ring that is
  not full.
- `EveryReportReported`: no report stays in the ring for ever.

Of the helpers and conversions:

- `ResultIsTail`, `ResultSorted`, `CountsMissing`, with the invariants `LoopInv` and
  `MergeInv` of the loops.
- `RoundTrip`: a time read back from its label is not later, and earlier by no more
  than one entry of the table adds.  `SmallSetback`: the times read from two labels are out of order by
  less than an entry adds.

Deadlock is checked except where the system stops: the loops end (`functions`), and
so does a process (`process`, `sigterm_monitor`, `params_backup`).

### Disagreements found

Each of these runs ends in a counterexample to one property that states what a
comment or document says.

- `agent_failover`, `FailoverOnlyWhenNecessary`.  `barn-agent.cpp:95` says "Don't want to
  failover unless necessary".  A round whose candidates are all rotated away
  before they are sent returns an error (`barn-agent.cpp:204`) and gives no
  heartbeat; a host that logs faster than it ships leaves a healthy primary.
- `hdfs_twice`, `ExactlyOnce`.  `main.scala:95` says "exactly once".  A newest file
  is never deleted, and is accepted for shipping a day longer than date
  directories are looked at: once its copy has left the look-back it is shipped
  again.  `CopiesFarApart` is what holds instead.
- `hdfs_category`, `NoYoungLoss`.  The category is dropped when a directory name is
  decoded (`placement/local.scala:21`), so two categories of a service and host
  share names on HDFS.  A file of the one is taken for shipped when the other has
  shipped a newer one, and is deleted when the next file of its own category is
  shipped.  For directories of different services or hosts `NoYoungLoss` is a theorem.
- `sigterm_monitor`, `OneRecipient`.  `sighandle.h:12` says that the handler propagates
  the signal to a child.  It tests `child_pid_global` and reads it again; in the
  monitor the timer's thread can unset it in between, and the call is
  `kill(-1, SIGTERM)`.  `AgentSignalsItsChild` is what holds for an agent.
- `params_backup`, `FailoverHasBackup`.  `params.cpp:38` ties `seconds_before_failover`
  to `--backup-addr`.  Without `monitor_port` the chain of tests ends at a warning, and
  an agent starts that fails over to an empty address.

Disagreements that were met and have no run of their own:

- `barn-agent.cpp:94` says that a round that gets to the heartbeat has shipped
  something.  An empty listing, which the stop file also produces, gets there without
  the collector being asked (`rsync.cpp:95`), so an unreachable primary keeps its
  heartbeat.
- `files.h:18` says the stop file stops shipping.  It is read only when the directory is
  listed; a batch under way goes on (`StopEndsShipping` is what holds).
- `tai64.scala:17` (barn-hdfs's tests) calls the conversion one-to-one.  Within the
  seconds after an entry of the table it is not; `RoundTrip` is what holds.
- `metrics.h:16` says that metrics are published as zero if not reported.  At the first
  firing of the timer, which is immediate, and after an overflow they are not;
  `ZerosAreReported` is what holds.
- `README.md:213` of the repository still says that there is no automatic failover;
  there is one, modelled here.

## Fairness

`Agent`: weak fairness of the agent's own step, because the process is scheduled
and every blocking call returns (rsync runs with `--timeout=30`, inotifywait with
`--timeout 3600`, sleeps are finite), and strong fairness of `Tick`, because
seconds pass in every round that blocks; it is strong since a round also has
places where the model lets no time pass.  Nothing is assumed of svlogd, the
links, the operator, barn-hdfs or restarts: the liveness properties state as a
premise which collector stays reachable.

`HdfsWriter`: weak fairness of every worker (its calls return, with an error if
need be), of `StartRound` (the main loop is endless, and a process that has ended
with an exception is started again) and of `Tick`.  That HDFS comes back, and that
somebody removes foreign files, is again a premise of the property.

`Pipeline`: the same for the writer; weak fairness of an agent's `List`, since its
loop is endless, and strong fairness of `Query` and `Ship`, since either call may fail,
each failure ends the round (`QueryFailed`, `GiveUp`), and a link that fails every time
is not what the property is about.

`Main`: weak fairness of `run_command`'s steps, of the handler and of the timer's
actions (threads are scheduled), and of the end of every child (rsync and inotifywait
are run with a timeout; gmetric and hostname are short).  Nothing is assumed of reports,
signals or other processes.

## Proofs

`Agent_proofs`, `HdfsWriter_proofs`, `HdfsCopies_proofs`, `Pipeline_proofs`,
`ListHelpers_proofs` (the two loops), `Tai64_proofs` and `Main_proofs`
(with `Extrema_proofs`: a finite set of numbers has a greatest and a least member)
are checked by TLAPS for every
value of the constants that satisfies the assumptions (`FailoverAssumption`,
`AgentAssumption`: the limit, the bounds and svlogd's retention are natural
numbers, the retention is not zero; `ListingsAssumption`, `CallsAssumption`: the
helpers get sorted lists, and the dry run prints only files that were listed;
`WriterAssumption`: barn-hdfs's parameters and the bounds are natural numbers, a day
is not empty; `TableAssumption`: the entries of the leap second table ascend, none adds
more than `MaxJump`, and they are further apart than the seconds they add, as in
`tai64.scala`; `PidAssumption`: pids are positive; `MonitorAssumption`: the zero metrics
fit into the ring; `PipelineAssumption`: svlogd's retention is not zero).

- `TypeCorrect`, `ShippingInvHolds`.  `NothingPassedOver` is not inductive: the
  proof needs to know why the batch is right at every point of a round.
  `ShippingInv` adds `LocalIsTail` (svlogd keeps an unbroken run of the newest
  files), `NewestStays` (barn-hdfs leaves a collector's newest file, or the gap
  rule would start again from nothing), `ListingCovers` (until the dry run is
  answered, the listing reaches up to whatever the collector was given, without
  a hole) and `BatchIsTail` (the batch covers the disk above the collector's newest
  file).  One lemma per part; `GapRule` is the heart of it, that
  `tail_intersection` turns a listing that covers into a batch that is a tail.
- `NothingIsPassedOver` and `NothingIsOfferedTwice` follow.
- `AgentImplementsLogDelivery`: every step of the agent maps to a step of
  `LogDelivery` or a stutter.  Only `ShipFile`, `ShipFileFails` and `Crash` deliver
  (`StoresDelivers`), and only `Rotate` produces.  A delivery is never a stutter, since
  it makes the sequence longer; that it is a legal one follows from `BatchIsTail` and
  `DeliveriesAreReceived` (the sequence and the set of what was given agree).
- `NothingIsDeliveredTwice`: so that sequence ascends strictly, for every collector.
- `NoFailoverAfterShipping`, from `ProgressInv`: after a round that shipped
  something the primary's heartbeat is new when a channel is picked.
- `NothingIsLostSilently`, `LossesAreRotations`, from `LossInv`: a file counted as
  lost is among the candidates left behind and off the disk for good.
- `NewestIsRetained`: the newest file a service directory was given stays in it,
  for any limit and minimum.  The invariant is stronger than the property: the
  maximum of what arrived is itself in the directory (`RetainInv`), which gives
  `cleanupLocal` a file it may not touch.
- `WriterTypeCorrect`, `WriterInvHolds`, `NothingIsPassedOver`, `NoYoungIsLost`,
  for any number of directories, look-back, clocks ahead, foreign files and restarts.
  The last three have the premise `DistinctNames`: no two directories have the same
  service and host.  It is what the run `hdfs_category` violates.  `NothingPassedOver`
  is not inductive: a worker ships by a listing of HDFS that may be a round old, of
  files it listed before others arrived.  `WriterInv` says what survives:
  `NamesAreShipped` (a name in any listing, however old, is a shipped file),
  `ListingIsWhole` (a worker's listing of its directory misses only later files),
  `GoneIsSettled` (what is not in the directory any more was shipped or too old),
  `BatchIsOutstanding` (a batch is the whole rest of the listing above the newest
  name found) and `BatchIsNewer` (no file of a batch is older than one on HDFS).  One
  lemma per part that an action can disturb; `DecideToShip` and `Rename` are the ones
  that matter.
- `ArchiveImplemented`: from the same invariant, every step of `HdfsWriter` is a step
  of `LogArchive` or a stutter.  Only `Rename` archives, whether its answer gets back
  or not, and only `Arrive` delivers.
- `CopiesAreFarApart`, under `DistinctNames`, from `CopiesInv` (`CopiesInvHolds`), which
  rests on `WriterInv` and `NewestRetained`.  The property speaks of two files on HDFS
  and a bounded window; what makes it inductive is why a worker that sees only names
  sees enough: a name tells of its content (`NameTellsContent`); the names of a service
  ascend with the days they lie under, so that the latest day with anything accounts
  for the days before (`NamesAscend`); a cached listing has all that its reader could
  find now, since nobody else adds files of its service (`CacheIsCurrent`); a plan is for
  the last day on which the service has anything, and the listing reaches up to the
  newest file shipped, because that one is never deleted (`PlanIsLatest`); and every day
  that could hold a file of the listing is still to be looked at, or was
  (`LooksFarEnough`).  `LearnLooks` (what one more listing teaches), `ListStarts` (where
  the look-back begins) and `CopiesStep` (what a rename adds) are the lemmas that
  matter.
- `CopiesOutOfSight`: with no producer's clock ahead (`Skew = 0`) the exception in
  `CopiesFarApart` is gone, so that it is due to the clocks alone.
- `WriterIsServed`, `PipelineInvHolds`: every behaviour of the composition is one of
  `HdfsWriter`.  The argument goes round: the gap rule is right because the newest file
  stays (`RetainInv`, kept by every step of the writer), and what the agent ships is a
  legal arrival because the gap rule is right (`QueryStep`, `ShipStep`), which is what
  `RetainInv` needs.  One joint invariant (`JointInv`) breaks the circle.  `PipelineInv`
  says that what svlogd keeps is a tail that everything delivered, listed or on its way
  belongs to unless it is older (`LogIsTail`), that a listing under way has no hole and
  reaches up to what was delivered (`ListingCovers`), and that a batch is newer than all
  that and leaves nothing out (`BatchIsNext`).
- `PromisesKept`: so the composition has `ArchivesInOrder`, `NoYoungLoss` and all the
  writer's invariants, with nothing assumed about arrivals.
- `InOrderThroughout`: `InOrderToHdfs`, from `DeliveredInOrder` on the one side and
  `NothingPassedOver` and `GoneIsSettled` on the other.
- `LoopComputesTail`: the loop returns the gap rule, for sorted lists of any
  length.  `LoopInv` (`LoopInvHolds`) relates the two iterators; the argument in
  `TailFromInv` is that the two lists agree above the iterators, and that when the
  lists differ at them, the collector has the file there.  `ResultIsSorted`: what is
  returned is a part of the listing without a hole.
- `LoopCountsMissing`: the merge loop counts the set difference, by `MergeInv`
  (`MergeInvHolds`) and the finiteness of what has been passed.
- `RoundTripIsClose`, `SetbackIsSmall`, for any table.  Both follow
  from `LeapSecondsGrow`: of two times the later has at least as many leap seconds, and
  at most one entry's more, or fewer than have passed between them.
- `ProcessTypeCorrect`, `NoRegisteredOrphan`, `AgentSignalsOnlyItsChild`, for any number
  of pids and signals.  `NoOrphan` speaks of the end only; `SignalInv` says how it comes
  about: a child that is owed a signal is still registered while no handler is past the
  kill (`OwedIsSignalled`), the default disposition is back only when a handler is about
  to end the process (`Disposed`), a registered pid is the child's until `wait`
  (`Registered`), and in an agent nothing moves while the handler runs (`AgentStops`).
- `NoReportIsLost`, `ZerosAreThere`, for any ring and metrics.  `ReportsConserved` needs
  that the sums have no report in common (`SumsAreApart`), since a report is of one
  metric, and that an armed timer has nothing left to report.

Only model-checked: the liveness properties (`PrimaryRetried`, `PrimaryDrains`,
`SecondaryDrains`, `StopEndsShipping`, `EverythingShipped`, `SigtermEnds`,
`EveryReportReported`, `EndToEnd`): temporal reasoning under fairness is out of the
prover's reach, `ENABLED` likewise.  Every safety property of a passing run is a theorem.

## Not modelled

File contents, partial transfers and formats (the combiner's sequence file);
rsync's comparison of size and time (a file at the collector is taken to be
complete, since svlogd never changes a closed file and rsync renames into place);
an rsync that outlives its agent; files on the collector that no agent put there
(agents send names of svlogd only, and rsync's temporary files are excluded from the
listings); metrics other than the counters named above, and
what gauges mean when they are summed.  A listing of the log directory and the
shipping plan of a worker are taken at one instant each.

Of the monitor: datagrams that do not parse or get lost (they are never received),
the 30 s between two firings, and the test for a full ring before the mutex is taken,
which only logs.  Of the agent: `split`, `join_path`, `prepend_each` and other string
handling.  barn-hdfs's parameters, gauges and logging decide nothing.

rtail shares no state with the pipeline.  barn-master is a script that runs the
rsync daemon; loggen, vagrant, packaging and the vendored code are not part of the
running system.

## Plan

Written in this order: `ChannelSelector`, `Helpers`, `LogDelivery`, `Agent` and
its proofs, `HdfsWriter`, the two loops and their proofs, then foreign names and
clocks in `HdfsWriter` with `LogArchive` and `HdfsWriter_proofs`, `Tai64`,
`SigHandle`, `Monitor`, `Main`, `Pipeline`, the proofs of `Tai64` and `Main`, and those
of the copies and of `Pipeline`.  Next:

1. That `Agent`, seen from one of its collectors, is the reduced agent of `Pipeline`:
   a refinement of the agent's part of `Pipeline`, with failover and the other collector
   as stutters.
2. An abstract specification from svlogd to HDFS, made of `LogDelivery` and
   `LogArchive`, that `Pipeline` implements; with two collectors behind it.
3. A rtail module for lines split over chunks.
