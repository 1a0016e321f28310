------------------------------- MODULE Monitor -------------------------------
(***************************************************************************)
(* barn-agent --monitor_mode: a thread receives the reports of the agents  *)
(* into a ring, and a timer takes them every 30 s, sums them up per metric *)
(* and hands each sum to gmetric (barn-agent/src/monitor/).  The ring is   *)
(* written and taken under a mutex; gmetric is run outside it, while       *)
(* further reports come in.                                                *)
(*                                                                         *)
(* A report is numbered, which lets a sum be the set of what went into it. *)
(***************************************************************************)
EXTENDS SigHandle, Sequences

CONSTANTS Metric,              \* metric names
          DefaultZeroMetrics,  \* those that are reported as zero if by nobody
          max_metrics_per_interval,
          MaxReports           \* bound: reports received

ASSUME MonitorAssumption ==
    /\ DefaultZeroMetrics \in Seq(Metric)
    /\ max_metrics_per_interval \in Nat \ {0}
    /\ Len(DefaultZeroMetrics) <= max_metrics_per_interval
    /\ MaxReports \in Nat

VARIABLES
    metrics,     \* the ring
    received,    \* reports received so far
    timer,       \* "armed", or "action" while timer_action runs
    aggregated,  \* the sums that timer_action has still to report
    taken,       \* history: timer_action has taken the ring before
    reported,    \* history: reports that went to gmetric
    overwritten  \* history: reports that the full ring lost

repoVars == <<metrics, received, taken, overwritten>>
reportVars == <<timer, aggregated, reported>>

Zero == 0   \* the number of no report

\* push_back of a circular_buffer: a full one loses its oldest element.
push_back(ring, x) ==
    IF Len(ring) < max_metrics_per_interval
    THEN Append(ring, x)
    ELSE Append(Tail(ring), x)

addDefaultMetrics ==
    [i \in 1 .. Len(DefaultZeroMetrics) |->
        [metric |-> DefaultZeroMetrics[i], report |-> Zero]]

names(ring) == {ring[i].metric : i \in 1 .. Len(ring)}
reports(ring) == {ring[i].report : i \in 1 .. Len(ring)} \ {Zero}

\* Per metric, the reports in its sum.
aggregate(ring) ==
    [m \in names(ring) |->
        {ring[i].report : i \in {j \in 1 .. Len(ring) : ring[j].metric = m}} \ {Zero}]

MonitorTypeOK ==
    /\ metrics \in Seq([metric : Metric, report : 0 .. received])
    /\ Len(metrics) <= max_metrics_per_interval
    /\ received \in 0 .. MaxReports
    /\ timer \in {"armed", "action"}
    /\ DOMAIN aggregated \subseteq Metric
    /\ taken \in BOOLEAN

\* The timer is due at once.
MonitorInit ==
    /\ metrics = <<>> /\ received = 0
    /\ timer = "armed" /\ aggregated = <<>>
    /\ taken = FALSE
    /\ reported = {} /\ overwritten = {}

\* The receiving thread.  What is lost on the way is never received.
ReceiveReport(m) ==
    /\ mode = "monitor" /\ Free("main")
    /\ received < MaxReports
    /\ received' = received + 1
    /\ metrics' = push_back(metrics, [metric |-> m, report |-> received'])
    /\ overwritten' = overwritten \cup (reports(metrics) \ reports(metrics'))
    /\ UNCHANGED <<taken, reportVars, procVars>>

\* Copies, and clears later: a report that comes in between is cleared unseen.
CopyThenClear ==
    /\ mode = "monitor" /\ Free("timer") /\ timer = "armed"
    /\ timer' = "action"
    /\ aggregated' = aggregate(metrics)
    /\ metrics' = addDefaultMetrics
    /\ received' \in {received, received + 1} \cap 0 .. MaxReports
    /\ taken' = TRUE
    /\ UNCHANGED <<overwritten, reported, procVars>>

\* Leaves the ring empty.
TakeWithoutDefaults ==
    /\ mode = "monitor" /\ Free("timer") /\ timer = "armed"
    /\ timer' = "action"
    /\ aggregated' = aggregate(metrics)
    /\ metrics' = <<>>
    /\ taken' = TRUE
    /\ UNCHANGED <<received, overwritten, reported, procVars>>

\* timer_action, under the mutex.
TakeReports ==
    /\ mode = "monitor" /\ Free("timer") /\ timer = "armed"
    /\ timer' = "action"
    /\ aggregated' = aggregate(metrics)
    /\ metrics' = addDefaultMetrics
    /\ taken' = TRUE
    /\ UNCHANGED <<received, overwritten, reported, procVars>>

\* report_ganglia, for one sum.  That gmetric cannot be run is caught, and what
\* it answers is not looked at.
ReportGanglia(m) ==
    /\ mode = "monitor" /\ timer = "action" /\ command = "none"
    /\ m \in DOMAIN aggregated
    /\ reported' = reported \cup aggregated[m]
    /\ aggregated' = [x \in DOMAIN aggregated \ {m} |-> aggregated[x]]
    /\ Launch \/ (Free("timer") /\ UNCHANGED procVars)
    /\ UNCHANGED <<timer, repoVars>>

\* Does not wait again.
ForgetTimer ==
    /\ Free("timer") /\ timer = "action" /\ command = "none"
    /\ DOMAIN aggregated = {}
    /\ UNCHANGED <<reportVars, repoVars, procVars>>

\* The next expiry; it may already be past.
RearmTimer ==
    /\ Free("timer") /\ timer = "action" /\ command = "none"
    /\ DOMAIN aggregated = {}
    /\ timer' = "armed"
    /\ UNCHANGED <<aggregated, reported, repoVars, procVars>>

MonitorStep ==
    TakeReports \/ RearmTimer \/ \E m \in Metric : ReceiveReport(m) \/ ReportGanglia(m)

----------------------------------------------------------------------------
(* Properties *)

Pending == UNION {aggregated[m] : m \in DOMAIN aggregated}

\* Every report received is in the ring, in a sum that is still to be reported,
\* with gmetric, or was overwritten in a full ring; it is in one of these only,
\* so that nothing is counted twice.
ReportsConserved ==
    /\ 1 .. received = reports(metrics) \cup Pending \cup reported \cup overwritten
    /\ reports(metrics) \cap (Pending \cup reported \cup overwritten) = {}
    /\ Pending \cap (reported \cup overwritten) = {}
    /\ reported \cap overwritten = {}

\* "These metrics will be published as zero if not reported" (metrics.h): from the
\* second time on, the timer finds each of them in the ring, unless the ring is
\* full, which timer_action logs as an error.
ZerosAreReported ==
    taken /\ Len(metrics) < max_metrics_per_interval =>
        \A i \in 1 .. Len(DefaultZeroMetrics) : DefaultZeroMetrics[i] \in names(metrics)

\* What was received is reported or overwritten in the end, while the process runs.
EveryReportReported ==
    \A i \in 1 .. MaxReports :
        i \in reports(metrics) ~> i \in reported \cup overwritten \/ ~running
=============================================================================
