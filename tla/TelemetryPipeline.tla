------------------------- MODULE TelemetryPipeline -------------------------
(***************************************************************************)
(* One sensor's telemetry on its way to the cloud: the sensor posts every  *)
(* sequence number to each of its gateways, a gateway queues the payload   *)
(* and its forward loop posts it to the worker of that route, the worker   *)
(* posts a summary of every SUMMARY_EVERY-th one to cloud-db.  Every hop   *)
(* is one HTTP call without a retry, served by a thread of its own, so a   *)
(* call its caller gave up on may be served while the next one is.         *)
(*                                                                         *)
(* Payload values, latencies, byte counts and the metrics reports are left *)
(* out.  A route has one worker, as in EDGE_GATEWAY_WORKER_MAP; a gateway  *)
(* thread is named by its sequence number, which is never posted twice.    *)
(***************************************************************************)
EXTENDS Integers, Sequences, FiniteSets, FiniteSetsExt

CONSTANTS
  Gateways,      \* the gateways on the sensor's routes
  Destinations,  \* DESTINATION_URLS, a sequence of gateways
  QueueSize,     \* MAX_QUEUE_SIZE
  SummaryEvery,  \* SUMMARY_EVERY
  MaxSequence,   \* bound: payloads the sensor generates
  MaxTroubles    \* bound: calls that fail or time out, and cloud-db restarts

ASSUME GatewaysAssumption == IsFiniteSet(Gateways)
ASSUME DestinationsAssumption ==
  /\ Destinations \in Seq(Gateways) /\ Destinations # <<>>
  /\ \A i, j \in DOMAIN Destinations : Destinations[i] = Destinations[j] => i = j
ASSUME SizesAssumption ==
  /\ QueueSize \in Nat \ {0} /\ SummaryEvery \in Nat
  /\ MaxSequence \in Nat /\ MaxTroubles \in Nat

VARIABLES
  sensor,    \* [sequence, at, waiting, sent_total, failed_total]
  gateway,   \* per gateway: its threads, the route's queue, its forward loop, stats
  worker,    \* per gateway, the worker of its route: its threads and stats
  storage,   \* cloud-db: its threads, the rows of the summaries table, stats
  troubles,  \* bound: how much has gone wrong
  late       \* history: the gateways on whose route a caller gave up

vars == <<sensor, gateway, worker, storage, troubles, late>>

Sequences == 1 .. MaxSequence
Thread(seq, pc) == [seq |-> seq, pc |-> pc]

\* A thread of a service goes on to its next step.
Step(threads, seq, from, to) == (threads \ {Thread(seq, from)}) \union {Thread(seq, to)}

PipelineInit ==
  /\ sensor = [sequence |-> 0, at |-> 0, waiting |-> FALSE,
               sent_total |-> 0, failed_total |-> 0]
  /\ gateway = [g \in Gateways |->
                  [threads |-> {}, queue |-> <<>>, busy |-> 0, received |-> 0,
                   dropped |-> 0, forwarded |-> 0, forward_errors |-> 0]]
  /\ worker = [g \in Gateways |->
                 [threads |-> {}, requests_total |-> 0, last_sequence |-> 0,
                  summaries_total |-> 0, summary_errors_total |-> 0]]
  /\ storage = [threads |-> {}, rows |-> {}, summary_records_total |-> 0]
  /\ troubles = 0 /\ late = {}

\* Something goes wrong with a call.
Trouble == troubles < MaxTroubles /\ troubles' = troubles + 1

(***************************************************************************)
(* The sensor: telemetry_loop and record_result.                           *)
(***************************************************************************)

\* A new sequence number, to be posted to the first destination.
Generate ==
  /\ sensor.at = 0 /\ sensor.sequence < MaxSequence
  /\ sensor' = [sensor EXCEPT !.sequence = @ + 1, !.at = 1]
  /\ UNCHANGED <<gateway, worker, storage, troubles, late>>

\* The call reaches the gateway, which gives it a thread.
Post ==
  /\ sensor.at \in DOMAIN Destinations /\ ~sensor.waiting
  /\ sensor' = [sensor EXCEPT !.waiting = TRUE]
  /\ gateway' = [gateway EXCEPT ![Destinations[sensor.at]].threads =
                   @ \union {Thread(sensor.sequence, "admit")}]
  /\ UNCHANGED <<worker, storage, troubles, late>>

\* record_result, and on to the next destination or to the pause.
Recorded(ok) ==
  [sensor EXCEPT !.waiting = FALSE,
                 !.at = IF @ = Len(Destinations) THEN 0 ELSE @ + 1,
                 !.sent_total = IF ok THEN @ + 1 ELSE @,
                 !.failed_total = IF ok THEN @ ELSE @ + 1]

Awaits(g, seq) ==
  sensor.waiting /\ sensor.sequence = seq /\ Destinations[sensor.at] = g

\* The call fails before it is served, or times out and may still be served.
SensorGivesUp ==
  /\ sensor.waiting /\ Trouble
  /\ sensor' = Recorded(FALSE)
  /\ LET g == Destinations[sensor.at]
     IN \E lost \in {{}, {Thread(sensor.sequence, "admit")}} :
          /\ gateway' = [gateway EXCEPT ![g].threads = @ \ lost]
          /\ late' = late \union {g}
  /\ UNCHANGED <<worker, storage>>

(***************************************************************************)
(* A gateway: do_POST of a thread, and the forward loop of the route.      *)
(***************************************************************************)

At(g, seq, pc) == Thread(seq, pc) \in gateway[g].threads

\* Wrong variant: a full queue makes room by dropping its oldest payload.
AdmitOverOldest(g, seq) ==
  /\ At(g, seq, "admit")
  /\ gateway' = [gateway EXCEPT ![g].threads = Step(@, seq, "admit", "count"),
                   ![g].queue = Append(IF Len(@) = QueueSize THEN Tail(@) ELSE @, seq)]

\* put_nowait, before anything is counted.
Admit(g, seq) ==
  /\ At(g, seq, "admit")
  /\ IF Len(gateway[g].queue) < QueueSize
     THEN gateway' = [gateway EXCEPT ![g].queue = Append(@, seq),
                        ![g].threads = Step(@, seq, "admit", "count")]
     ELSE gateway' = [gateway EXCEPT
                        ![g].threads = Step(@, seq, "admit", "refuse")]

\* received, and dropped when the queue was full, under the lock.
Count(g, seq) ==
  \/ /\ At(g, seq, "count")
     /\ gateway' = [gateway EXCEPT ![g].received = @ + 1,
                      ![g].threads = Step(@, seq, "count", "accepted")]
  \/ /\ At(g, seq, "refuse")
     /\ gateway' = [gateway EXCEPT ![g].received = @ + 1, ![g].dropped = @ + 1,
                      ![g].threads = Step(@, seq, "refuse", "refused")]

\* Wrong variant: the gateway accepts the payload before it has counted it.
AnswerSensorEarly(g, seq) ==
  /\ Awaits(g, seq) /\ (At(g, seq, "count") \/ At(g, seq, "refused"))
  /\ sensor' = Recorded(At(g, seq, "count"))
  /\ UNCHANGED gateway

\* 202 or 503, and the sensor records it if it still waits.
AnswerSensor(g, seq) ==
  \E pc \in {"accepted", "refused"} :
    /\ At(g, seq, pc)
    /\ gateway' = [gateway EXCEPT ![g].threads = @ \ {Thread(seq, pc)}]
    /\ sensor' = IF Awaits(g, seq) THEN Recorded(pc = "accepted") ELSE sensor

Serve(g, seq) ==
  /\ \/ Admit(g, seq) /\ UNCHANGED sensor
     \/ Count(g, seq) /\ UNCHANGED sensor
     \/ AnswerSensor(g, seq)
  /\ UNCHANGED <<worker, storage, troubles, late>>

\* Wrong variant: the loop takes the newest payload of the queue.
ForwardNewest(g) ==
  /\ gateway[g].busy = 0 /\ gateway[g].queue # <<>>
  /\ LET q == gateway[g].queue
     IN /\ gateway' = [gateway EXCEPT ![g].busy = q[Len(q)],
                         ![g].queue = SubSeq(q, 1, Len(q) - 1)]
        /\ worker' = [worker EXCEPT ![g].threads =
                        @ \union {Thread(q[Len(q)], "process")}]
  /\ UNCHANGED <<sensor, storage, troubles, late>>

\* forward_loop takes the oldest payload and posts it to the worker.
Forward(g) ==
  /\ gateway[g].busy = 0 /\ gateway[g].queue # <<>>
  /\ LET seq == Head(gateway[g].queue)
     IN /\ gateway' = [gateway EXCEPT ![g].busy = seq, ![g].queue = Tail(@)]
        /\ worker' = [worker EXCEPT ![g].threads = @ \union {Thread(seq, "process")}]
  /\ UNCHANGED <<sensor, storage, troubles, late>>

\* Wrong variant: the call has no timeout, and the loop waits for a lost one.
ForwardWaits(g) ==
  /\ gateway[g].busy # 0 /\ Trouble
  /\ worker' = [worker EXCEPT ![g].threads = @ \ {Thread(gateway[g].busy, "process")}]
  /\ UNCHANGED <<sensor, gateway, storage, late>>

\* The call to the worker fails unserved, or times out and may still be served.
ForwardGivesUp(g) ==
  /\ gateway[g].busy # 0 /\ Trouble
  /\ gateway' = [gateway EXCEPT ![g].busy = 0, ![g].forward_errors = @ + 1]
  /\ late' = late \union {g}
  /\ \E lost \in {{}, {Thread(gateway[g].busy, "process")}} :
       worker' = [worker EXCEPT ![g].threads = @ \ lost]
  /\ UNCHANGED <<sensor, storage>>

(***************************************************************************)
(* A worker: do_POST of one of its threads.                                *)
(***************************************************************************)

Working(g, seq, pc) == Thread(seq, pc) \in worker[g].threads
Goes(g, seq, from, to) ==
  worker' = [worker EXCEPT ![g].threads = Step(@, seq, from, to)]

\* should_forward
Due(seq) == SummaryEvery > 0 /\ seq % SummaryEvery = 0

\* process_payload, and the summary posted when one is due.
Process(g, seq) ==
  /\ Working(g, seq, "process")
  /\ IF Due(seq)
     THEN /\ Goes(g, seq, "process", "posting")
          /\ storage' = [storage EXCEPT !.threads =
                           @ \union {[route |-> g, seq |-> seq, pc |-> "insert"]}]
     ELSE Goes(g, seq, "process", "plain") /\ UNCHANGED storage
  /\ UNCHANGED <<sensor, gateway, troubles, late>>

\* Wrong variant: a summary is counted as posted whatever the answer was.
CountAsPosted(g, seq) ==
  \E pc \in {"stored", "failed", "plain"} :
    /\ Working(g, seq, pc)
    /\ worker' = [worker EXCEPT ![g].threads = Step(@, seq, pc, "processed"),
                    ![g].requests_total = @ + 1, ![g].last_sequence = seq,
                    ![g].summaries_total = IF pc = "plain" THEN @ ELSE @ + 1]
    /\ UNCHANGED <<sensor, gateway, storage, troubles, late>>

\* The stats, under the lock, when the answer to the summary is known.
CountProcessed(g, seq) ==
  \E pc \in {"stored", "failed", "plain"} :
    /\ Working(g, seq, pc)
    /\ worker' = [worker EXCEPT ![g].threads = Step(@, seq, pc, "processed"),
                    ![g].requests_total = @ + 1,
                    ![g].last_sequence = seq,
                    ![g].summaries_total = IF pc = "stored" THEN @ + 1 ELSE @,
                    ![g].summary_errors_total = IF pc = "failed" THEN @ + 1 ELSE @]
    /\ UNCHANGED <<sensor, gateway, storage, troubles, late>>

\* 200, and the forward loop counts it and ends the task if it still waits.
AnswerForward(g, seq) ==
  /\ Working(g, seq, "processed")
  /\ worker' = [worker EXCEPT ![g].threads = @ \ {Thread(seq, "processed")}]
  /\ gateway' = IF gateway[g].busy = seq
                THEN [gateway EXCEPT ![g].busy = 0, ![g].forwarded = @ + 1]
                ELSE gateway
  /\ UNCHANGED <<sensor, storage, troubles, late>>

\* The summary's call fails unserved, or times out and may still be served.
SummaryGivesUp(g, seq) ==
  /\ Working(g, seq, "posting") /\ Trouble
  /\ Goes(g, seq, "posting", "failed")
  /\ \E lost \in {{}, {[route |-> g, seq |-> seq, pc |-> "insert"]}} :
       storage' = [storage EXCEPT !.threads = @ \ lost]
  /\ UNCHANGED <<sensor, gateway, late>>

(***************************************************************************)
(* cloud-db: do_POST of one of its threads, and a restart.                 *)
(***************************************************************************)

Storing(g, seq, pc) == [route |-> g, seq |-> seq, pc |-> pc] \in storage.threads
Moved(g, seq, from, to) ==
  (storage.threads \ {[route |-> g, seq |-> seq, pc |-> from]})
    \union {[route |-> g, seq |-> seq, pc |-> to]}

\* insert_summary commits the row under db_lock.
InsertSummary(g, seq) ==
  /\ Storing(g, seq, "insert")
  /\ storage' = [storage EXCEPT !.rows = @ \union {[route |-> g, seq |-> seq]},
                   !.threads = Moved(g, seq, "insert", "count")]
  /\ UNCHANGED <<sensor, gateway, worker, troubles, late>>

\* The stats, under stats_lock.
CountRecord(g, seq) ==
  /\ Storing(g, seq, "count")
  /\ storage' = [storage EXCEPT !.summary_records_total = @ + 1,
                   !.threads = Moved(g, seq, "count", "stored")]
  /\ UNCHANGED <<sensor, gateway, worker, troubles, late>>

\* 201, and the worker goes on if it still waits.
Confirm(g, seq) ==
  /\ Storing(g, seq, "stored")
  /\ storage' = [storage EXCEPT !.threads =
                   @ \ {[route |-> g, seq |-> seq, pc |-> "stored"]}]
  /\ IF Working(g, seq, "posting")
     THEN Goes(g, seq, "posting", "stored")
     ELSE UNCHANGED worker
  /\ UNCHANGED <<sensor, gateway, troubles, late>>

\* The process dies and starts again: rows stay, stats and threads do not,
\* and every call it was serving fails.
RestartStorage ==
  /\ Trouble
  /\ storage' = [storage EXCEPT !.threads = {}, !.summary_records_total = 0]
  /\ worker' = [g \in Gateways |->
       [worker[g] EXCEPT !.threads =
          {IF t.pc = "posting" THEN [t EXCEPT !.pc = "failed"] ELSE t : t \in @}]]
  /\ UNCHANGED <<sensor, gateway, late>>

(***************************************************************************)
(* The pipeline.                                                           *)
(***************************************************************************)

ServeSummary(g, seq) ==
  InsertSummary(g, seq) \/ CountRecord(g, seq) \/ Confirm(g, seq)

Handle(g, seq) ==
  Process(g, seq) \/ CountProcessed(g, seq) \/ AnswerForward(g, seq)

PipelineNext ==
  \/ Generate \/ Post \/ SensorGivesUp \/ RestartStorage
  \/ \E g \in Gateways : Forward(g) \/ ForwardGivesUp(g)
  \/ \E g \in Gateways, seq \in Sequences :
       \/ Serve(g, seq) \/ Handle(g, seq) \/ ServeSummary(g, seq)
       \/ SummaryGivesUp(g, seq)

PipelineSpec == PipelineInit /\ [][PipelineNext]_vars

\* Threads of the services and the forward loops are scheduled; the sensor
\* need not send anything and nothing need go wrong.
PipelineFairSpec ==
  /\ PipelineSpec
  /\ \A g \in Gateways : WF_vars(Forward(g))
  /\ \A g \in Gateways, seq \in Sequences :
       WF_vars(Serve(g, seq)) /\ WF_vars(Handle(g, seq)) /\ WF_vars(ServeSummary(g, seq))

(***************************************************************************)
(* Properties.                                                             *)
(***************************************************************************)

Accepted(g) == gateway[g].received - gateway[g].dropped
Rows(g) == {r \in storage.rows : r.route = g}

\* What a service reports as delivered, the next one has counted: the sensor's
\* sent_total never exceeds what the gateways accepted, nor a gateway's forwarded
\* its worker's requests_total, however calls overlap or time out (record_result,
\* forward_loop and the order of lock and answer in each do_POST).
DeliveredIsCounted ==
  /\ sensor.sent_total <= MapThenSumSet(Accepted, Gateways)
  /\ \A g \in Gateways : gateway[g].forwarded <= worker[g].requests_total

\* A summary the worker counts as posted is a row of cloud-db, even after cloud-db
\* restarted and its own counter began again (insert_summary commits before the
\* answer; maybe_forward_summary).
SummariesAreStored ==
  /\ \A g \in Gateways : worker[g].summaries_total <= Cardinality(Rows(g))
  /\ storage.summary_records_total <= Cardinality(storage.rows)

\* What the relay of BoundedRelay is in the pipeline: threads that have put a payload
\* into the queue, or found it full, have yet to count it.
Uncounted(g, pc) == {t \in gateway[g].threads : t.pc = pc}

RelayOf(g) ==
  [accepted |-> Accepted(g) + Cardinality(Uncounted(g, "count")),
   refused |-> gateway[g].dropped + Cardinality(Uncounted(g, "refuse")),
   queue |-> gateway[g].queue, busy |-> gateway[g].busy,
   forwarded |-> gateway[g].forwarded, errors |-> gateway[g].forward_errors,
   processed |-> worker[g].requests_total]
RelayState == [g \in Gateways |-> RelayOf(g)]

Relay == INSTANCE BoundedRelay WITH
  Capacity <- QueueSize, Payloads <- Sequences, relay <- RelayState

\* The pipeline implements a bounded relay (BoundedRelay): a gateway refuses only when
\* its queue is full, loses nothing it admitted, hands on in order and one at a time, and
\* counts as forwarded what its worker has processed, although its threads put a payload
\* into the queue before they count it and calls that timed out are served late.
RelayImplemented == Relay!RelaySpec

\* A worker's last_sequence never goes back, unless the sensor or the gateway gave
\* up on a call that was still being served and posted the next one beside it
\* (telemetry_loop, forward_loop; the worker keeps the last one it counted).
LastSequenceGrows ==
  [][\A g \in Gateways :
       worker'[g].last_sequence >= worker[g].last_sequence \/ g \in late]_vars

\* Every forward loop gets through its queue: whatever the gateway accepted is at
\* last forwarded or an error, also when calls fail.
Drained ==
  \A g \in Gateways :
    gateway[g].queue # <<>> ~> gateway[g].queue = <<>> /\ gateway[g].busy = 0
=============================================================================
