------------------------------- MODULE Pipeline -------------------------------
(***************************************************************************)
(* A log from svlogd to HDFS: barn-agents that ship log directories to a   *)
(* collector, composed with the barn-hdfs that serves it.                  *)
(*                                                                         *)
(* The two programs share the service directories of the collector and     *)
(* nothing else.  Each deduces from it, and from the order of the names,   *)
(* what the other has done: HdfsWriter takes it for granted that files     *)
(* arrive in order and once, Agent that barn-hdfs leaves the newest file.  *)
(* Here neither is assumed.  An agent is reduced to one collector and to   *)
(* the steps that touch the two directories.                               *)
(***************************************************************************)
EXTENDS HdfsWriter, Helpers

CONSTANT Retain        \* files svlogd keeps

ASSUME PipelineAssumption == Retain \in Nat \ {0}

VARIABLES log,         \* log[d]: files in the producer's directory of d
          listing,     \* listing[d]: what the agent of d asks the collector about
          todo         \* todo[d]: what it has still to ship

pipelineVars == <<vars, log, listing, todo>>

PipelineInit ==
    /\ Init
    /\ log = [d \in Dir |-> {}]
    /\ listing = [d \in Dir |-> {}]
    /\ todo = [d \in Dir |-> {}]

\* svlogd closes a file under the time its host has, and keeps the newest ones.
Rotate(d) ==
    /\ \E f \in now .. now + Skew :
          /\ \A g \in log[d] : g < f
          /\ LET all == log[d] \cup {f} IN
             log' = [log EXCEPT ![d] =
                        {g \in all : Cardinality({h \in all : g <= h}) <= Retain}]
    /\ UNCHANGED <<vars, listing, todo>>

\* The agent lists its directory.
List(d) ==
    /\ todo[d] = {} /\ listing[d] = {} /\ log[d] # {}
    /\ listing' = [listing EXCEPT ![d] = log[d]]
    /\ UNCHANGED <<vars, log, todo>>

\* What the dry run prints: the listed files, not vanished since, that the
\* collector lacks.
log_files_not_on_target(d) == (listing[d] \cap log[d]) \ dir[d]

\* The dry run has ended, and the batch is known.
Answered(d, batch) ==
    /\ listing[d] # {}
    /\ todo' = [todo EXCEPT ![d] = batch]
    /\ listing' = [listing EXCEPT ![d] = {}]
    /\ UNCHANGED <<vars, log>>

\* Ships whatever the collector lacks.
QueryEverything(d) ==
    Answered(d, all_missing(listing[d], log_files_not_on_target(d)))

\* The collector answers what it lacks of the listing.
Query(d) ==
    Answered(d, tail_intersection(listing[d], log_files_not_on_target(d)))

\* The dry run fails, or the agent dies before it ends.
QueryFailed(d) == Answered(d, {})

\* Newest first.
newestOf(batch) == Newest(batch)

\* ship_candidates sorts its candidates.
nextOf(batch) == Oldest(batch)

\* It ships the oldest file of its batch, or passes over one that is gone.
Ship(d) ==
    /\ todo[d] # {}
    /\ LET f == nextOf(todo[d]) IN
          /\ todo' = [todo EXCEPT ![d] = @ \ {f}]
          /\ \/ /\ f \in log[d] /\ Cardinality(arrived[d]) < MaxFiles[d]
                /\ dir' = [dir EXCEPT ![d] = @ \cup {f}]
                /\ arrived' = [arrived EXCEPT ![d] = @ \cup {f}]
             \/ f \notin log[d] /\ UNCHANGED diskVars
    /\ UNCHANGED <<now, hdfsVars, hdfsListCache, workerVars, crashes, log, listing>>

\* A transfer fails, whether its file was stored or not, or the agent dies.
GiveUp(d) ==
    /\ todo' = [todo EXCEPT ![d] = {}] /\ todo' # todo
    /\ UNCHANGED <<vars, log, listing>>

Collector ==
    /\ \/ Tick \/ HdfsChange \/ ForeignFile \/ Crash \/ StartRound
       \/ \E d \in Dir : Worker(d)
    /\ UNCHANGED <<log, listing, todo>>

PipelineNext ==
    \/ Collector
    \/ \E d \in Dir : \/ Rotate(d) \/ List(d) \/ Query(d) \/ QueryFailed(d)
                      \/ Ship(d) \/ GiveUp(d)

PipelineSpec == PipelineInit /\ [][PipelineNext]_pipelineVars

\* As in HdfsWriter and Agent: what fails now is tried again for ever, and the
\* link to the collector does not fail every time.
PipelineFairness ==
    /\ WF_pipelineVars(Tick /\ Collector)
    /\ WF_pipelineVars(StartRound /\ Collector)
    /\ \A d \in Dir : /\ WF_pipelineVars(Worker(d) /\ Collector)
                      /\ WF_pipelineVars(List(d))
                      /\ SF_pipelineVars(Query(d))
                      /\ SF_pipelineVars(Ship(d))

FairPipeline == PipelineSpec /\ PipelineFairness

----------------------------------------------------------------------------
(* Properties *)

\* With agents that go by the gap rule, the collector gets what HdfsWriter
\* takes for granted: each file once, and in order.  This needs the newest file
\* that barn-hdfs leaves in a directory, and a restart may come at any time.
WriterServed == Spec

\* From end to end, nothing is passed over: once HDFS has a file, it has every
\* older one that svlogd still keeps, but for those that grew too old on the
\* collector.  The agent's gap rule and the writer's newest name each skip what
\* they take to be done, and here both have to be right about it.
InOrderToHdfs ==
    \A d \in Dir : \A e \in log[d], f \in arrived[d] :
        e < f /\ Shipped(d, f) =>
            Shipped(d, e) \/ e < now - (maxLookBackDays + 1) * DayLen

\* Why WriterServed and InOrderToHdfs hold: the parts of an inductive invariant.
AgentTypeOK ==
    /\ log \in [Dir -> SUBSET Named]
    /\ listing \in [Dir -> SUBSET Named]
    /\ todo \in [Dir -> SUBSET Named]

\* What an agent has delivered, listed or will deliver svlogd still keeps, unless
\* it is older than everything that svlogd keeps.
LogIsTail ==
    \A d \in Dir : \A h \in arrived[d] \cup listing[d] \cup todo[d] :
        log[d] # {} /\ \A e \in log[d] : e <= h => h \in log[d]

\* A collector gets the log in order.
DeliveredInOrder ==
    \A d \in Dir : \A e \in log[d], g \in arrived[d] :
        e < g => e \in arrived[d]

\* While the collector is asked, it gets nothing, and the listing reaches up to
\* whatever it was given, without a hole.
ListingCovers ==
    \A d \in Dir : \A f \in listing[d] :
        /\ todo[d] = {}
        /\ \A e \in log[d] : e < f => e \in listing[d]
        /\ \A g \in arrived[d] : f <= g => g \in listing[d]

\* A batch is newer than all that was delivered, and leaves nothing out.
BatchIsNext ==
    \A d \in Dir : \A f \in todo[d] :
        /\ \A g \in arrived[d] : g < f
        /\ \A e \in log[d] : e < f => e \in todo[d] \cup arrived[d]

PipelineInv ==
    AgentTypeOK /\ LogIsTail /\ DeliveredInOrder /\ ListingCovers /\ BatchIsNext

\* From end to end: once HDFS stays reachable, a closed log file is on HDFS in
\* the end, or svlogd rotated it away before it was delivered, or it has grown
\* too old.  The last files before MaxNow are left out, and MaxFiles must not
\* bound what is delivered.
Settled(d, f) ==
    \/ Shipped(d, f)
    \/ f \notin log[d] /\ f \notin arrived[d]
    \/ f < shippingLimit

EndToEnd ==
    <>[](hdfsUp /\ foreign = {}) =>
        \A d \in Dir : \A f \in 1 .. MaxNow - shipInterval + 1 :
            f \in log[d] ~> Settled(d, f)
=============================================================================
