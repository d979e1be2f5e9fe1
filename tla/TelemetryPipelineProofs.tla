---------------------- MODULE TelemetryPipelineProofs ----------------------
(* Proofs about TelemetryPipeline for any number of gateways, destinations,   *)
(* payloads and troubles, and queues of any size: the pipeline implements the *)
(* relay of BoundedRelay and loses nothing, it stays in order while no call   *)
(* is given up, and no service counts what the next one has not.              *)
EXTENDS TelemetryPipeline, FiniteSetTheorems, FunctionTheorems, SequenceTheorems,
        WellFoundedInduction, TLAPS

-----------------------------------------------------------------------------
(* The inductive invariant. cloud-db has no part in it.                       *)

GatewayThreads == [seq : Sequences, pc : {"admit", "count", "refuse", "accepted", "refused"}]
WorkerThreads ==
  [seq : Sequences, pc : {"process", "posting", "plain", "stored", "failed", "processed"}]

Sensors ==
  [sequence : 0..MaxSequence, at : Nat, waiting : BOOLEAN, sent_total : Nat, failed_total : Nat]
GatewayStates ==
  [threads : SUBSET GatewayThreads, queue : Seq(Sequences), busy : 0..MaxSequence,
   received : Nat, dropped : Nat, forwarded : Nat, forward_errors : Nat]
WorkerStates ==
  [threads : SUBSET WorkerThreads, requests_total : Nat, last_sequence : 0..MaxSequence,
   summaries_total : Nat, summary_errors_total : Nat]

Typed ==
  /\ sensor \in Sensors
  /\ gateway \in [Gateways -> GatewayStates]
  /\ worker \in [Gateways -> WorkerStates]

\* While the sensor posts there is something to post, and somewhere to.
SensorPosts ==
  /\ sensor.at # 0 => sensor.sequence \in Sequences /\ sensor.at \in DOMAIN Destinations
  /\ sensor.waiting => sensor.at # 0

\* The sensor has posted its present payload to g.
PostedTo(g) ==
  \E i \in DOMAIN Destinations :
    Destinations[i] = g /\ (i < sensor.at \/ (i = sensor.at /\ sensor.waiting))

\* A gateway has one thread per payload, and none for one not yet posted to it.
ThreadsUnique ==
  \A g \in Gateways : \A t \in gateway[g].threads :
    /\ t.seq <= sensor.sequence
    /\ t.seq = sensor.sequence /\ sensor.at # 0 => PostedTo(g)
    /\ \A u \in gateway[g].threads : u.seq = t.seq => u = t

ThreadsFinite ==
  \A g \in Gateways : IsFiniteSet(gateway[g].threads) /\ IsFiniteSet(worker[g].threads)

QueueBounded == \A g \in Gateways : Len(gateway[g].queue) <= QueueSize

\* Threads of a worker that have yet to count their payload, and that have counted it.
PendingOf(T) == {t \in T : t.pc # "processed"}
FinishedOf(T) == {t \in T : t.pc = "processed"}
Pending(g) == PendingOf(worker[g].threads)
Finished(g) == FinishedOf(worker[g].threads)

\* The payloads that have left the queue.
Left(g) ==
  gateway[g].forwarded + gateway[g].forward_errors + (IF gateway[g].busy = 0 THEN 0 ELSE 1)

\* A worker counts what left the queue, and before it is counted as forwarded.
WorkerAccounts ==
  \A g \in Gateways :
    /\ worker[g].requests_total + Cardinality(Pending(g)) <= Left(g)
    /\ gateway[g].forwarded + Cardinality(Finished(g)) <= worker[g].requests_total

RelayInv ==
  Typed /\ SensorPosts /\ ThreadsFinite /\ ThreadsUnique /\ QueueBounded /\ WorkerAccounts

-----------------------------------------------------------------------------
(* Threads and their numbers.                                                 *)

LEMMA StepFinite ==
  ASSUME NEW T, IsFiniteSet(T), NEW seq, NEW from, NEW to
  PROVE  IsFiniteSet(Step(T, seq, from, to))
BY FS_AddElement, FS_RemoveElement DEF Step

\* A thread that goes on from one step to the next: one less there, one more here.
AtPc(T, pc) == {t \in T : t.pc = pc}

LEMMA StepCounts ==
  ASSUME NEW T, IsFiniteSet(T), NEW seq, NEW from, NEW to, from # to,
         Thread(seq, from) \in T, Thread(seq, to) \notin T, NEW pc
  PROVE  /\ IsFiniteSet(AtPc(T, pc)) /\ Cardinality(AtPc(T, pc)) \in Nat
         /\ pc = from => Cardinality(AtPc(Step(T, seq, from, to), pc)) = Cardinality(AtPc(T, pc)) - 1
         /\ pc = to => Cardinality(AtPc(Step(T, seq, from, to), pc)) = Cardinality(AtPc(T, pc)) + 1
         /\ pc \notin {from, to} => AtPc(Step(T, seq, from, to), pc) = AtPc(T, pc)
<1> DEFINE before == AtPc(T, pc)
           after == AtPc(Step(T, seq, from, to), pc)
<1>1. IsFiniteSet(before) /\ Cardinality(before) \in Nat
  BY FS_Subset, FS_CardinalityType DEF AtPc
<1>2. ASSUME pc = from PROVE Cardinality(after) = Cardinality(before) - 1
  <2>1. after = before \ {Thread(seq, from)} /\ Thread(seq, from) \in before
    BY <1>2 DEF Step, Thread, AtPc
  <2> QED BY <1>1, <2>1, FS_RemoveElement
<1>3. ASSUME pc = to PROVE Cardinality(after) = Cardinality(before) + 1
  <2>1. after = before \union {Thread(seq, to)} /\ Thread(seq, to) \notin before
    BY <1>3 DEF Step, Thread, AtPc
  <2> QED BY <1>1, <2>1, FS_AddElement
<1>4. ASSUME pc \notin {from, to} PROVE after = before
  BY <1>4 DEF Step, Thread, AtPc
<1> QED BY <1>1, <1>2, <1>3, <1>4

\* What a worker's thread does to the numbers of those pending and finished.
LEMMA WorkerStep ==
  ASSUME NEW T, IsFiniteSet(T), NEW seq, NEW from, NEW to, Thread(seq, from) \in T,
         from # "processed"
  PROVE  LET U == Step(T, seq, from, to)
         IN  /\ to # "processed" => /\ Cardinality(PendingOf(U)) <= Cardinality(PendingOf(T))
                                    /\ FinishedOf(U) = FinishedOf(T)
             /\ to = "processed" =>
                  /\ Cardinality(PendingOf(U)) = Cardinality(PendingOf(T)) - 1
                  /\ Cardinality(FinishedOf(U)) <= Cardinality(FinishedOf(T)) + 1
             /\ Cardinality(PendingOf(U)) \in Nat /\ Cardinality(FinishedOf(U)) \in Nat
<1> DEFINE U == Step(T, seq, from, to)
           rest == PendingOf(T) \ {Thread(seq, from)}
<1>1. /\ IsFiniteSet(PendingOf(U)) /\ Cardinality(PendingOf(U)) \in Nat
      /\ IsFiniteSet(FinishedOf(U)) /\ Cardinality(FinishedOf(U)) \in Nat
      /\ IsFiniteSet(PendingOf(T)) /\ Cardinality(PendingOf(T)) \in Nat
      /\ IsFiniteSet(FinishedOf(T)) /\ Cardinality(FinishedOf(T)) \in Nat
  <2>1. IsFiniteSet(U)
    BY StepFinite
  <2>2. /\ PendingOf(U) \subseteq U /\ FinishedOf(U) \subseteq U
        /\ PendingOf(T) \subseteq T /\ FinishedOf(T) \subseteq T
    BY DEF PendingOf, FinishedOf
  <2> QED BY <2>1, <2>2, FS_Subset, FS_CardinalityType
<1>2. Thread(seq, from) \in PendingOf(T)
  BY DEF Thread, PendingOf
<1>3. IsFiniteSet(rest) /\ Cardinality(rest) = Cardinality(PendingOf(T)) - 1
  BY <1>1, <1>2, FS_RemoveElement
<1> HIDE DEF U
<1>4. ASSUME to # "processed"
      PROVE  Cardinality(PendingOf(U)) <= Cardinality(PendingOf(T)) /\ FinishedOf(U) = FinishedOf(T)
  <2>1. PendingOf(U) = rest \union {Thread(seq, to)} /\ FinishedOf(U) = FinishedOf(T)
    BY <1>4 DEF Step, Thread, PendingOf, FinishedOf, U
  <2> HIDE DEF rest
  <2>2. Cardinality(PendingOf(U)) <= Cardinality(rest) + 1
    BY <1>1, <1>3, <2>1, FS_AddElement
  <2> QED BY <1>1, <1>3, <2>1, <2>2
<1>5. ASSUME to = "processed"
      PROVE  /\ Cardinality(PendingOf(U)) = Cardinality(PendingOf(T)) - 1
             /\ Cardinality(FinishedOf(U)) <= Cardinality(FinishedOf(T)) + 1
  <2>1. PendingOf(U) = rest /\ FinishedOf(U) = FinishedOf(T) \union {Thread(seq, to)}
    BY <1>5 DEF Step, Thread, PendingOf, FinishedOf, U
  <2>2. Cardinality(FinishedOf(U)) <= Cardinality(FinishedOf(T)) + 1
    BY <1>1, <2>1, FS_AddElement
  <2> QED BY <1>3, <2>1, <2>2
<1> QED BY <1>1, <1>4, <1>5 DEF U

-----------------------------------------------------------------------------
(* Types.                                                                     *)

LEMMA TypedInit == PipelineInit => Typed /\ SensorPosts
<1> SUFFICES ASSUME PipelineInit PROVE Typed /\ SensorPosts
  OBVIOUS
<1> USE SizesAssumption DEF PipelineInit
<1>1. sensor \in Sensors
  BY DEF Sensors
<1>2. gateway \in [Gateways -> GatewayStates]
  BY DEF GatewayStates
<1>3. worker \in [Gateways -> WorkerStates]
  BY DEF WorkerStates
<1> QED BY <1>1, <1>2, <1>3 DEF Typed, SensorPosts

LEMMA RecordedTyped ==
  ASSUME sensor \in Sensors, SensorPosts, sensor.waiting, NEW ok \in BOOLEAN,
         sensor' = Recorded(ok)
  PROVE  /\ sensor' \in Sensors
         /\ sensor'.sequence = sensor.sequence
         /\ sensor'.waiting = FALSE
         /\ sensor'.sent_total = IF ok THEN sensor.sent_total + 1 ELSE sensor.sent_total
         /\ sensor'.at = IF sensor.at = Len(Destinations) THEN 0 ELSE sensor.at + 1
         /\ SensorPosts'
<1>1. /\ sensor.at + 1 \in Nat /\ sensor.sent_total + 1 \in Nat /\ sensor.failed_total + 1 \in Nat
      /\ sensor.at \in Nat /\ sensor.sent_total \in Nat /\ sensor.failed_total \in Nat
  BY DEF Sensors
<1> DEFINE at == IF sensor.at = Len(Destinations) THEN 0 ELSE sensor.at + 1
           sent == IF ok THEN sensor.sent_total + 1 ELSE sensor.sent_total
           failed == IF ok THEN sensor.failed_total ELSE sensor.failed_total + 1
<1>2. sensor' = [sensor EXCEPT !.waiting = FALSE, !.at = at, !.sent_total = sent,
                               !.failed_total = failed]
  BY DEF Recorded
<1>3. at \in Nat /\ sent \in Nat /\ failed \in Nat
  BY <1>1
<1> HIDE DEF at, sent, failed
<1>4. /\ sensor' \in Sensors /\ sensor'.sequence = sensor.sequence
      /\ sensor'.waiting = FALSE /\ sensor'.at = at /\ sensor'.sent_total = sent
  BY <1>2, <1>3 DEF Sensors
<1>5. SensorPosts'
  BY <1>1, <1>4, DestinationsAssumption DEF SensorPosts, at
<1> QED BY <1>4, <1>5 DEF at, sent

-----------------------------------------------------------------------------
(* What the steps of the services do, field by field.                         *)

GatewayBecomes(g, threads, queue, busy, received, dropped, forwarded, errors) ==
  /\ gateway' \in [Gateways -> GatewayStates]
  /\ \A h \in Gateways \ {g} : gateway'[h] = gateway[h]
  /\ gateway'[g].threads = threads
  /\ gateway'[g].queue = queue
  /\ gateway'[g].busy = busy
  /\ gateway'[g].received = received
  /\ gateway'[g].dropped = dropped
  /\ gateway'[g].forwarded = forwarded
  /\ gateway'[g].forward_errors = errors

\* Only its threads change.
GatewayThreadsBecome(g, threads) ==
  GatewayBecomes(g, threads, gateway[g].queue, gateway[g].busy, gateway[g].received,
                 gateway[g].dropped, gateway[g].forwarded, gateway[g].forward_errors)

LEMMA OnlyThreads ==
  ASSUME Typed, NEW g \in Gateways, NEW th \in SUBSET GatewayThreads,
         gateway' = [gateway EXCEPT ![g].threads = th]
  PROVE  GatewayThreadsBecome(g, th)
BY DEF Typed, GatewayStates, GatewayThreadsBecome, GatewayBecomes

LEMMA PostEffect ==
  ASSUME Typed, SensorPosts, Post
  PROVE  /\ Destinations[sensor.at] \in Gateways
         /\ GatewayThreadsBecome(Destinations[sensor.at],
              gateway[Destinations[sensor.at]].threads \union {Thread(sensor.sequence, "admit")})
         /\ sensor' \in Sensors /\ sensor'.at = sensor.at
         /\ sensor'.sequence = sensor.sequence /\ sensor'.waiting = TRUE
<1> DEFINE g == Destinations[sensor.at]
           th == gateway[g].threads \union {Thread(sensor.sequence, "admit")}
<1>1. g \in Gateways /\ gateway[g].threads \in SUBSET GatewayThreads
  <2>1. g \in Gateways
    BY DestinationsAssumption DEF Post
  <2> QED BY <2>1 DEF Typed, GatewayStates
<1>2. Thread(sensor.sequence, "admit") \in GatewayThreads
  BY DestinationsAssumption DEF Post, SensorPosts, GatewayThreads, Thread, Typed, Sensors
<1>3. th \in SUBSET GatewayThreads
  BY <1>1, <1>2
<1>4. gateway' = [gateway EXCEPT ![g].threads = th]
  BY DEF Post
<1>5. sensor' = [sensor EXCEPT !.waiting = TRUE] /\ sensor \in Sensors
  BY DEF Post, Typed
<1>6. /\ sensor' \in Sensors /\ sensor'.at = sensor.at
      /\ sensor'.sequence = sensor.sequence /\ sensor'.waiting = TRUE
  BY <1>5 DEF Sensors
<1>7. GatewayThreadsBecome(g, th)
  <2> HIDE DEF g, th
  <2> QED BY <1>1, <1>3, <1>4, OnlyThreads
<1> QED BY <1>1, <1>6, <1>7

LEMMA SensorGivesUpEffect ==
  ASSUME Typed, SensorPosts, SensorGivesUp
  PROVE  /\ Destinations[sensor.at] \in Gateways
         /\ \E lost \in {{}, {Thread(sensor.sequence, "admit")}} :
              GatewayThreadsBecome(Destinations[sensor.at],
                gateway[Destinations[sensor.at]].threads \ lost)
         /\ late' = late \union {Destinations[sensor.at]}
<1> DEFINE g == Destinations[sensor.at]
<1>1. g \in Gateways /\ gateway[g].threads \in SUBSET GatewayThreads
  <2>1. g \in Gateways
    BY DestinationsAssumption DEF SensorGivesUp, SensorPosts
  <2> QED BY <2>1 DEF Typed, GatewayStates
<1>2. PICK lost \in {{}, {Thread(sensor.sequence, "admit")}} :
        /\ gateway' = [gateway EXCEPT ![g].threads = @ \ lost]
        /\ late' = late \union {g}
  BY DEF SensorGivesUp
<1> DEFINE th == gateway[g].threads \ lost
<1>3. th \in SUBSET GatewayThreads /\ gateway' = [gateway EXCEPT ![g].threads = th]
  BY <1>1, <1>2
<1>4. GatewayThreadsBecome(g, th)
  <2> HIDE DEF g, th
  <2> QED BY <1>1, <1>3, OnlyThreads
<1> QED BY <1>1, <1>2, <1>4

LEMMA AdmitEffect ==
  ASSUME Typed, NEW g \in Gateways, NEW seq \in Sequences, Admit(g, seq)
  PROVE  /\ Thread(seq, "admit") \in gateway[g].threads
         /\ \/ /\ Len(gateway[g].queue) < QueueSize
               /\ GatewayBecomes(g, Step(gateway[g].threads, seq, "admit", "count"),
                    Append(gateway[g].queue, seq), gateway[g].busy, gateway[g].received,
                    gateway[g].dropped, gateway[g].forwarded, gateway[g].forward_errors)
            \/ /\ ~(Len(gateway[g].queue) < QueueSize)
               /\ GatewayThreadsBecome(g, Step(gateway[g].threads, seq, "admit", "refuse"))
<1>1. gateway[g].threads \in SUBSET GatewayThreads /\ gateway[g].queue \in Seq(Sequences)
  BY DEF Typed, GatewayStates
<1>2. CASE Len(gateway[g].queue) < QueueSize
  <2> DEFINE th == Step(gateway[g].threads, seq, "admit", "count")
             q == Append(gateway[g].queue, seq)
  <2>1. th \in SUBSET GatewayThreads
    BY <1>1 DEF Step, Thread, GatewayThreads
  <2>2. q \in Seq(Sequences)
    BY <1>1
  <2>3. gateway' = [gateway EXCEPT ![g].queue = q, ![g].threads = th]
    BY <1>2 DEF Admit
  <2> HIDE DEF th, q
  <2>4. GatewayBecomes(g, th, q, gateway[g].busy, gateway[g].received,
          gateway[g].dropped, gateway[g].forwarded, gateway[g].forward_errors)
    BY <2>1, <2>2, <2>3 DEF Typed, GatewayStates, GatewayBecomes
  <2> QED BY <1>2, <2>4 DEF Admit, At, th, q
<1>3. CASE ~(Len(gateway[g].queue) < QueueSize)
  <2> DEFINE th == Step(gateway[g].threads, seq, "admit", "refuse")
  <2>1. th \in SUBSET GatewayThreads
    BY <1>1 DEF Step, Thread, GatewayThreads
  <2>2. gateway' = [gateway EXCEPT ![g].threads = th]
    BY <1>3 DEF Admit
  <2> HIDE DEF th
  <2>3. GatewayThreadsBecome(g, th)
    BY <2>1, <2>2, OnlyThreads
  <2> QED BY <1>3, <2>3 DEF Admit, At, th
<1> QED BY <1>2, <1>3

LEMMA CountEffect ==
  ASSUME Typed, NEW g \in Gateways, NEW seq \in Sequences, Count(g, seq)
  PROVE  \/ /\ Thread(seq, "count") \in gateway[g].threads
            /\ GatewayBecomes(g, Step(gateway[g].threads, seq, "count", "accepted"),
                 gateway[g].queue, gateway[g].busy, gateway[g].received + 1,
                 gateway[g].dropped, gateway[g].forwarded, gateway[g].forward_errors)
         \/ /\ Thread(seq, "refuse") \in gateway[g].threads
            /\ GatewayBecomes(g, Step(gateway[g].threads, seq, "refuse", "refused"),
                 gateway[g].queue, gateway[g].busy, gateway[g].received + 1,
                 gateway[g].dropped + 1, gateway[g].forwarded, gateway[g].forward_errors)
<1>1. /\ gateway[g].threads \in SUBSET GatewayThreads
      /\ gateway[g].received \in Nat /\ gateway[g].dropped \in Nat
  BY DEF Typed, GatewayStates
<1> DEFINE n == gateway[g].received + 1
           d == gateway[g].dropped + 1
<1>2. n \in Nat /\ d \in Nat
  BY <1>1
<1>3. CASE At(g, seq, "count") /\ gateway' = [gateway EXCEPT ![g].received = @ + 1,
                      ![g].threads = Step(@, seq, "count", "accepted")]
  <2> DEFINE th == Step(gateway[g].threads, seq, "count", "accepted")
  <2>1. th \in SUBSET GatewayThreads
    BY <1>1 DEF Step, Thread, GatewayThreads
  <2>2. gateway' = [gateway EXCEPT ![g].received = n, ![g].threads = th]
    BY <1>3
  <2> HIDE DEF th, n, d
  <2>3. GatewayBecomes(g, th, gateway[g].queue, gateway[g].busy, n,
          gateway[g].dropped, gateway[g].forwarded, gateway[g].forward_errors)
    BY <1>2, <2>1, <2>2 DEF Typed, GatewayStates, GatewayBecomes
  <2> QED BY <1>3, <2>3 DEF At, th, n
<1>4. CASE At(g, seq, "refuse") /\ gateway' = [gateway EXCEPT ![g].received = @ + 1,
                      ![g].dropped = @ + 1, ![g].threads = Step(@, seq, "refuse", "refused")]
  <2> DEFINE th == Step(gateway[g].threads, seq, "refuse", "refused")
  <2>1. th \in SUBSET GatewayThreads
    BY <1>1 DEF Step, Thread, GatewayThreads
  <2>2. gateway' = [gateway EXCEPT ![g].received = n, ![g].dropped = d, ![g].threads = th]
    BY <1>4
  <2> HIDE DEF th, n, d
  <2>3. GatewayBecomes(g, th, gateway[g].queue, gateway[g].busy, n,
          d, gateway[g].forwarded, gateway[g].forward_errors)
    BY <1>2, <2>1, <2>2 DEF Typed, GatewayStates, GatewayBecomes
  <2> QED BY <1>4, <2>3 DEF At, th, n, d
<1> QED BY <1>3, <1>4 DEF Count

LEMMA AnswerSensorEffect ==
  ASSUME Typed, NEW g \in Gateways, NEW seq \in Sequences, AnswerSensor(g, seq)
  PROVE  \E pc \in {"accepted", "refused"} :
           /\ Thread(seq, pc) \in gateway[g].threads
           /\ GatewayThreadsBecome(g, gateway[g].threads \ {Thread(seq, pc)})
           /\ sensor' = IF Awaits(g, seq) THEN Recorded(pc = "accepted") ELSE sensor
<1>1. PICK pc \in {"accepted", "refused"} :
        /\ At(g, seq, pc)
        /\ gateway' = [gateway EXCEPT ![g].threads = @ \ {Thread(seq, pc)}]
        /\ sensor' = IF Awaits(g, seq) THEN Recorded(pc = "accepted") ELSE sensor
  BY DEF AnswerSensor
<1> DEFINE th == gateway[g].threads \ {Thread(seq, pc)}
<1>2. th \in SUBSET GatewayThreads
  BY DEF Typed, GatewayStates
<1>3. gateway' = [gateway EXCEPT ![g].threads = th]
  BY <1>1
<1> HIDE DEF th
<1>4. GatewayThreadsBecome(g, th)
  BY <1>2, <1>3, OnlyThreads
<1> QED BY <1>1, <1>4 DEF At, th

\* A worker's fields.
WorkerBecomes(g, threads, requests, last, summaries, errors) ==
  /\ worker' \in [Gateways -> WorkerStates]
  /\ \A h \in Gateways \ {g} : worker'[h] = worker[h]
  /\ worker'[g].threads = threads
  /\ worker'[g].requests_total = requests
  /\ worker'[g].last_sequence = last
  /\ worker'[g].summaries_total = summaries
  /\ worker'[g].summary_errors_total = errors

WorkerThreadsBecome(g, threads) ==
  WorkerBecomes(g, threads, worker[g].requests_total, worker[g].last_sequence,
                worker[g].summaries_total, worker[g].summary_errors_total)

LEMMA OnlyWorkerThreads ==
  ASSUME Typed, NEW g \in Gateways, NEW th \in SUBSET WorkerThreads,
         worker' = [worker EXCEPT ![g].threads = th]
  PROVE  WorkerThreadsBecome(g, th)
BY DEF Typed, WorkerStates, WorkerThreadsBecome, WorkerBecomes

LEMMA ForwardEffect ==
  ASSUME Typed, NEW g \in Gateways, Forward(g)
  PROVE  /\ gateway[g].busy = 0 /\ gateway[g].queue # <<>>
         /\ Head(gateway[g].queue) \in Sequences
         /\ GatewayBecomes(g, gateway[g].threads, Tail(gateway[g].queue),
              Head(gateway[g].queue), gateway[g].received, gateway[g].dropped,
              gateway[g].forwarded, gateway[g].forward_errors)
         /\ WorkerThreadsBecome(g,
              worker[g].threads \union {Thread(Head(gateway[g].queue), "process")})
<1> DEFINE seq == Head(gateway[g].queue)
           q == Tail(gateway[g].queue)
           th == worker[g].threads \union {Thread(seq, "process")}
<1>1. gateway[g].queue \in Seq(Sequences) /\ gateway[g].queue # <<>> /\ gateway[g].busy = 0
  BY DEF Forward, Typed, GatewayStates
<1>2. seq \in Sequences /\ q \in Seq(Sequences)
  BY <1>1
<1>3. seq \in 0..MaxSequence
  BY <1>2, SizesAssumption DEF Sequences
<1>4. th \in SUBSET WorkerThreads
  BY <1>2 DEF Typed, WorkerStates, WorkerThreads, Thread
<1>5. /\ gateway' = [gateway EXCEPT ![g].busy = seq, ![g].queue = q]
      /\ worker' = [worker EXCEPT ![g].threads = th]
  BY DEF Forward
<1> HIDE DEF seq, q, th
<1>6. GatewayBecomes(g, gateway[g].threads, q, seq, gateway[g].received,
        gateway[g].dropped, gateway[g].forwarded, gateway[g].forward_errors)
  BY <1>2, <1>3, <1>5 DEF Typed, GatewayStates, GatewayBecomes
<1>7. WorkerThreadsBecome(g, th)
  BY <1>4, <1>5, OnlyWorkerThreads
<1> QED BY <1>1, <1>2, <1>6, <1>7 DEF seq, q, th

LEMMA ForwardGivesUpEffect ==
  ASSUME Typed, NEW g \in Gateways, ForwardGivesUp(g)
  PROVE  /\ gateway[g].busy # 0
         /\ GatewayBecomes(g, gateway[g].threads, gateway[g].queue, 0, gateway[g].received,
              gateway[g].dropped, gateway[g].forwarded, gateway[g].forward_errors + 1)
         /\ \E lost \in {{}, {Thread(gateway[g].busy, "process")}} :
              WorkerThreadsBecome(g, worker[g].threads \ lost)
         /\ late' = late \union {g}
<1> DEFINE n == gateway[g].forward_errors + 1
<1>1. n \in Nat /\ 0 \in 0..MaxSequence
  BY SizesAssumption DEF Typed, GatewayStates
<1>2. gateway' = [gateway EXCEPT ![g].busy = 0, ![g].forward_errors = n]
  BY DEF ForwardGivesUp
<1> HIDE DEF n
<1>3. GatewayBecomes(g, gateway[g].threads, gateway[g].queue, 0, gateway[g].received,
        gateway[g].dropped, gateway[g].forwarded, n)
  BY <1>1, <1>2 DEF Typed, GatewayStates, GatewayBecomes
<1>4. PICK lost \in {{}, {Thread(gateway[g].busy, "process")}} :
        worker' = [worker EXCEPT ![g].threads = @ \ lost]
  BY DEF ForwardGivesUp
<1> DEFINE th == worker[g].threads \ lost
<1>5. th \in SUBSET WorkerThreads /\ worker' = [worker EXCEPT ![g].threads = th]
  BY <1>4 DEF Typed, WorkerStates
<1>6. WorkerThreadsBecome(g, th)
  <2> HIDE DEF th
  <2> QED BY <1>5, OnlyWorkerThreads
<1> QED BY <1>3, <1>6 DEF ForwardGivesUp, n

LEMMA GoesEffect ==
  ASSUME Typed, NEW g \in Gateways, NEW seq \in Sequences, NEW from,
         NEW to \in {"process", "posting", "plain", "stored", "failed", "processed"},
         Goes(g, seq, from, to)
  PROVE  WorkerThreadsBecome(g, Step(worker[g].threads, seq, from, to))
<1> DEFINE th == Step(worker[g].threads, seq, from, to)
<1>1. th \in SUBSET WorkerThreads
  BY DEF Typed, WorkerStates, WorkerThreads, Step, Thread
<1>2. worker' = [worker EXCEPT ![g].threads = th]
  BY DEF Goes
<1> HIDE DEF th
<1> QED BY <1>1, <1>2, OnlyWorkerThreads DEF th

LEMMA CountProcessedEffect ==
  ASSUME Typed, NEW g \in Gateways, NEW seq \in Sequences, CountProcessed(g, seq)
  PROVE  \E pc \in {"stored", "failed", "plain"}, sm, er \in Nat :
           /\ Thread(seq, pc) \in worker[g].threads
           /\ WorkerBecomes(g, Step(worker[g].threads, seq, pc, "processed"),
                worker[g].requests_total + 1, seq, sm, er)
           /\ sm = IF pc = "stored" THEN worker[g].summaries_total + 1
                   ELSE worker[g].summaries_total
<1>1. PICK pc \in {"stored", "failed", "plain"} :
        /\ Working(g, seq, pc)
        /\ worker' = [worker EXCEPT ![g].threads = Step(@, seq, pc, "processed"),
                        ![g].requests_total = @ + 1,
                        ![g].last_sequence = seq,
                        ![g].summaries_total = IF pc = "stored" THEN @ + 1 ELSE @,
                        ![g].summary_errors_total = IF pc = "failed" THEN @ + 1 ELSE @]
  BY DEF CountProcessed
<1> DEFINE th == Step(worker[g].threads, seq, pc, "processed")
           n == worker[g].requests_total + 1
           sm == IF pc = "stored" THEN worker[g].summaries_total + 1 ELSE worker[g].summaries_total
           er == IF pc = "failed" THEN worker[g].summary_errors_total + 1
                 ELSE worker[g].summary_errors_total
<1>2. n \in Nat /\ sm \in Nat /\ er \in Nat
  BY DEF Typed, WorkerStates
<1>3. th \in SUBSET WorkerThreads
  BY DEF Typed, WorkerStates, WorkerThreads, Step, Thread
<1>4. seq \in 0..MaxSequence
  BY SizesAssumption DEF Sequences
<1>5. worker' = [worker EXCEPT ![g].threads = th, ![g].requests_total = n,
                   ![g].last_sequence = seq, ![g].summaries_total = sm,
                   ![g].summary_errors_total = er]
  BY <1>1
<1> HIDE DEF th, n, sm, er
<1>6. WorkerBecomes(g, th, n, seq, sm, er)
  BY <1>2, <1>3, <1>4, <1>5, ZenonT(60) DEF Typed, WorkerStates, WorkerBecomes
<1>7. sm = IF pc = "stored" THEN worker[g].summaries_total + 1 ELSE worker[g].summaries_total
  BY DEF sm
<1> QED BY <1>1, <1>2, <1>6, <1>7 DEF Working, th, n

LEMMA AnswerForwardEffect ==
  ASSUME Typed, NEW g \in Gateways, NEW seq \in Sequences, AnswerForward(g, seq)
  PROVE  /\ Thread(seq, "processed") \in worker[g].threads
         /\ WorkerThreadsBecome(g, worker[g].threads \ {Thread(seq, "processed")})
         /\ \/ /\ gateway[g].busy = seq
               /\ GatewayBecomes(g, gateway[g].threads, gateway[g].queue, 0,
                    gateway[g].received, gateway[g].dropped, gateway[g].forwarded + 1,
                    gateway[g].forward_errors)
            \/ gateway[g].busy # seq /\ gateway' = gateway
<1> DEFINE th == worker[g].threads \ {Thread(seq, "processed")}
           n == gateway[g].forwarded + 1
<1>1. th \in SUBSET WorkerThreads /\ worker' = [worker EXCEPT ![g].threads = th]
  BY DEF Typed, WorkerStates, AnswerForward
<1>2. WorkerThreadsBecome(g, th)
  <2> HIDE DEF th
  <2> QED BY <1>1, OnlyWorkerThreads
<1>3. CASE gateway[g].busy = seq
  <2>1. n \in Nat /\ 0 \in 0..MaxSequence
    BY SizesAssumption DEF Typed, GatewayStates
  <2>2. gateway' = [gateway EXCEPT ![g].busy = 0, ![g].forwarded = n]
    BY <1>3 DEF AnswerForward
  <2> HIDE DEF n
  <2>3. GatewayBecomes(g, gateway[g].threads, gateway[g].queue, 0, gateway[g].received,
          gateway[g].dropped, n, gateway[g].forward_errors)
    BY <2>1, <2>2 DEF Typed, GatewayStates, GatewayBecomes
  <2> QED BY <1>2, <1>3, <2>3 DEF AnswerForward, Working, n
<1>4. CASE gateway[g].busy # seq
  BY <1>2, <1>4 DEF AnswerForward, Working
<1> QED BY <1>3, <1>4

\* What becomes of a worker's thread when cloud-db restarts.
Broken(t) == IF t.pc = "posting" THEN [t EXCEPT !.pc = "failed"] ELSE t

LEMMA RestartEffect ==
  ASSUME Typed, RestartStorage
  PROVE  /\ worker' \in [Gateways -> WorkerStates]
         /\ \A g \in Gateways :
              /\ worker'[g].threads = {Broken(t) : t \in worker[g].threads}
              /\ worker'[g].requests_total = worker[g].requests_total
              /\ worker'[g].last_sequence = worker[g].last_sequence
              /\ worker'[g].summaries_total = worker[g].summaries_total
<1>1. ASSUME NEW g \in Gateways
      PROVE  /\ worker'[g] \in WorkerStates
             /\ worker'[g].threads = {Broken(t) : t \in worker[g].threads}
             /\ worker'[g].requests_total = worker[g].requests_total
             /\ worker'[g].last_sequence = worker[g].last_sequence
             /\ worker'[g].summaries_total = worker[g].summaries_total
  <2> DEFINE th == {Broken(t) : t \in worker[g].threads}
  <2>1. worker[g] \in WorkerStates
    BY DEF Typed
  <2>2. ASSUME NEW t \in WorkerThreads PROVE Broken(t) \in WorkerThreads
    BY DEF WorkerThreads, Broken
  <2>3. th \in SUBSET WorkerThreads
    BY <2>1, <2>2 DEF WorkerStates
  <2>4. worker'[g] = [worker[g] EXCEPT !.threads = th]
    BY DEF RestartStorage, Broken
  <2> HIDE DEF th
  <2>5. /\ worker'[g] \in WorkerStates
        /\ worker'[g].threads = th
        /\ worker'[g].requests_total = worker[g].requests_total
        /\ worker'[g].last_sequence = worker[g].last_sequence
        /\ worker'[g].summaries_total = worker[g].summaries_total
    BY <2>1, <2>3, <2>4 DEF WorkerStates
  <2> QED BY <2>5 DEF th
<1>2. worker' = [g \in Gateways |-> worker'[g]]
  BY DEF RestartStorage
<1> QED BY <1>1, <1>2

-----------------------------------------------------------------------------
(* The types are inductive.                                                   *)

LEMMA TypedStep ==
  ASSUME Typed, SensorPosts, [PipelineNext]_vars
  PROVE  Typed' /\ SensorPosts'
<1> USE SizesAssumption, DestinationsAssumption
<1>1. CASE Generate
  <2>1. sensor.sequence + 1 \in 0..MaxSequence /\ sensor.sequence + 1 \in Sequences
    BY <1>1 DEF Typed, Generate, Sensors, Sequences
  <2>2. /\ sensor' \in Sensors /\ sensor'.at = 1 /\ sensor'.sequence = sensor.sequence + 1
        /\ sensor'.waiting = sensor.waiting
    BY <1>1, <2>1 DEF Typed, Generate, Sensors
  <2> QED BY <1>1, <2>1, <2>2 DEF Generate, Typed, SensorPosts
<1>2. CASE Post
  <2>1. Typed'
    BY <1>2, PostEffect DEF GatewayThreadsBecome, GatewayBecomes, Post, Typed
  <2>2. SensorPosts'
    BY <1>2, PostEffect DEF Post, SensorPosts
  <2> QED BY <2>1, <2>2
<1>3. CASE SensorGivesUp
  BY <1>3, SensorGivesUpEffect, RecordedTyped
     DEF GatewayThreadsBecome, GatewayBecomes, SensorGivesUp, Typed
<1>4. CASE RestartStorage
  BY <1>4, RestartEffect DEF RestartStorage, Typed, SensorPosts
<1>5. ASSUME NEW g \in Gateways, Forward(g) PROVE Typed' /\ SensorPosts'
  BY <1>5, ForwardEffect
     DEF WorkerThreadsBecome, WorkerBecomes, GatewayBecomes, Forward, Typed, SensorPosts
<1>6. ASSUME NEW g \in Gateways, ForwardGivesUp(g) PROVE Typed' /\ SensorPosts'
  BY <1>6, ForwardGivesUpEffect
     DEF WorkerThreadsBecome, WorkerBecomes, GatewayBecomes, ForwardGivesUp, Typed, SensorPosts
<1>7. ASSUME NEW g \in Gateways, NEW seq \in Sequences, Serve(g, seq)
      PROVE  Typed' /\ SensorPosts'
  <2>1. worker' = worker
    BY <1>7 DEF Serve
  <2>2. CASE Admit(g, seq) /\ UNCHANGED sensor
    BY <2>1, <2>2, AdmitEffect DEF GatewayThreadsBecome, GatewayBecomes, Typed, SensorPosts
  <2>3. CASE Count(g, seq) /\ UNCHANGED sensor
    BY <2>1, <2>3, CountEffect DEF GatewayBecomes, Typed, SensorPosts
  <2>4. CASE AnswerSensor(g, seq)
    BY <2>1, <2>4, AnswerSensorEffect, RecordedTyped
       DEF GatewayThreadsBecome, GatewayBecomes, Typed, SensorPosts, Awaits
  <2> QED BY <1>7, <2>2, <2>3, <2>4 DEF Serve
<1>8. ASSUME NEW g \in Gateways, NEW seq \in Sequences, Process(g, seq)
      PROVE  Typed' /\ SensorPosts'
  BY <1>8, GoesEffect DEF WorkerThreadsBecome, WorkerBecomes, Process, Typed, SensorPosts
<1>9. ASSUME NEW g \in Gateways, NEW seq \in Sequences, CountProcessed(g, seq)
      PROVE  Typed' /\ SensorPosts'
  <2>1. worker' \in [Gateways -> WorkerStates]
    BY <1>9, CountProcessedEffect DEF WorkerBecomes
  <2>2. UNCHANGED <<sensor, gateway>>
    BY <1>9 DEF CountProcessed
  <2> QED BY <2>1, <2>2 DEF Typed, SensorPosts
<1>10. ASSUME NEW g \in Gateways, NEW seq \in Sequences, AnswerForward(g, seq)
       PROVE  Typed' /\ SensorPosts'
  BY <1>10, AnswerForwardEffect
     DEF WorkerThreadsBecome, WorkerBecomes, GatewayBecomes, AnswerForward, Typed, SensorPosts
<1>11. ASSUME NEW g \in Gateways, NEW seq \in Sequences, ServeSummary(g, seq)
       PROVE  Typed' /\ SensorPosts'
  BY <1>11, GoesEffect DEF WorkerThreadsBecome, WorkerBecomes, ServeSummary, InsertSummary,
       CountRecord, Confirm, Typed, SensorPosts
<1>12. ASSUME NEW g \in Gateways, NEW seq \in Sequences, SummaryGivesUp(g, seq)
       PROVE  Typed' /\ SensorPosts'
  BY <1>12, GoesEffect DEF WorkerThreadsBecome, WorkerBecomes, SummaryGivesUp, Typed, SensorPosts
<1>13. CASE UNCHANGED vars
  BY <1>13 DEF vars, Typed, SensorPosts
<1> QED
  BY <1>1, <1>2, <1>3, <1>4, <1>5, <1>6, <1>7, <1>8, <1>9, <1>10, <1>11, <1>12, <1>13
     DEF PipelineNext, Handle

-----------------------------------------------------------------------------
(* The threads stay finite in number ...                                      *)

LEMMA FiniteStep ==
  ASSUME Typed, SensorPosts, ThreadsFinite, [PipelineNext]_vars
  PROVE  ThreadsFinite'
<1> SUFFICES ASSUME NEW h \in Gateways
             PROVE  IsFiniteSet(gateway'[h].threads) /\ IsFiniteSet(worker'[h].threads)
  BY DEF ThreadsFinite
<1> DEFINE G == gateway[h].threads
           W == worker[h].threads
<1>1. IsFiniteSet(G) /\ IsFiniteSet(W)
  BY DEF ThreadsFinite
<1>2. \A x : IsFiniteSet(G \union {x}) /\ IsFiniteSet(W \union {x})
  BY <1>1, FS_AddElement
<1>3. \A S : IsFiniteSet(G \ S) /\ IsFiniteSet(W \ S)
  BY <1>1, FS_Subset
<1>4. \A seq, from, to : IsFiniteSet(Step(G, seq, from, to)) /\ IsFiniteSet(Step(W, seq, from, to))
  BY <1>1, StepFinite
<1>5. IsFiniteSet({Broken(t) : t \in W})
  <2> DEFINE f == [t \in W |-> Broken(t)]
  <2>1. f \in Surjection(W, {Broken(t) : t \in W})
    BY Fun_IsSurj
  <2> QED BY <1>1, <2>1, FS_Surjection
<1> HIDE DEF G, W
<1>6. CASE Generate
  BY <1>1, <1>6 DEF Generate, G, W
<1>7. CASE Post
  <2>1. worker' = worker
    BY <1>7 DEF Post
  <2>2. gateway'[h].threads = G \/ \E x : gateway'[h].threads = G \union {x}
    BY <1>7, PostEffect DEF GatewayThreadsBecome, GatewayBecomes, G
  <2> QED BY <1>1, <1>2, <2>1, <2>2 DEF W
<1>8. CASE SensorGivesUp
  <2>1. worker' = worker
    BY <1>8 DEF SensorGivesUp
  <2>2. gateway'[h].threads = G \/ \E S : gateway'[h].threads = G \ S
    BY <1>8, SensorGivesUpEffect DEF GatewayThreadsBecome, GatewayBecomes, G
  <2> QED BY <1>1, <1>3, <2>1, <2>2 DEF W
<1>9. CASE RestartStorage
  BY <1>1, <1>5, <1>9, RestartEffect DEF RestartStorage, G, W
<1>10. ASSUME NEW g \in Gateways, Forward(g)
       PROVE  IsFiniteSet(gateway'[h].threads) /\ IsFiniteSet(worker'[h].threads)
  <2>1. gateway'[h].threads = G
    BY <1>10, ForwardEffect, ZenonT(60) DEF GatewayBecomes, G
  <2>2. worker'[h].threads = W \/ \E x : worker'[h].threads = W \union {x}
    BY <1>10, ForwardEffect, SMTT(40) DEF WorkerThreadsBecome, WorkerBecomes, W
  <2> QED BY <1>1, <1>2, <2>1, <2>2
<1>11. ASSUME NEW g \in Gateways, ForwardGivesUp(g)
       PROVE  IsFiniteSet(gateway'[h].threads) /\ IsFiniteSet(worker'[h].threads)
  <2>1. gateway'[h].threads = G
    BY <1>11, ForwardGivesUpEffect DEF GatewayBecomes, G
  <2>2. worker'[h].threads = W \/ \E S : worker'[h].threads = W \ S
    BY <1>11, ForwardGivesUpEffect DEF WorkerThreadsBecome, WorkerBecomes, W
  <2> QED BY <1>1, <1>3, <2>1, <2>2
<1>12. ASSUME NEW g \in Gateways, NEW seq \in Sequences, Serve(g, seq)
       PROVE  IsFiniteSet(gateway'[h].threads) /\ IsFiniteSet(worker'[h].threads)
  <2>1. worker' = worker
    BY <1>12 DEF Serve
  <2>2. CASE Admit(g, seq)
    BY <1>1, <1>4, <2>1, <2>2, AdmitEffect DEF GatewayThreadsBecome, GatewayBecomes, G, W
  <2>3. CASE Count(g, seq)
    BY <1>1, <1>4, <2>1, <2>3, CountEffect DEF GatewayBecomes, G, W
  <2>4. CASE AnswerSensor(g, seq)
    <3>1. gateway'[h].threads = G \/ \E S : gateway'[h].threads = G \ S
      BY <2>4, AnswerSensorEffect, ZenonT(60) DEF GatewayThreadsBecome, GatewayBecomes, G
    <3> QED BY <1>1, <1>3, <2>1, <3>1 DEF W
  <2> QED BY <1>12, <2>2, <2>3, <2>4 DEF Serve
<1>13. ASSUME NEW g \in Gateways, NEW seq \in Sequences, NEW from,
              NEW to \in {"process", "posting", "plain", "stored", "failed", "processed"},
              Goes(g, seq, from, to), gateway' = gateway
       PROVE  IsFiniteSet(gateway'[h].threads) /\ IsFiniteSet(worker'[h].threads)
  BY <1>1, <1>4, <1>13, GoesEffect DEF WorkerThreadsBecome, WorkerBecomes, G, W
<1>14. ASSUME NEW g \in Gateways, NEW seq \in Sequences, CountProcessed(g, seq)
       PROVE  IsFiniteSet(gateway'[h].threads) /\ IsFiniteSet(worker'[h].threads)
  <2>1. gateway' = gateway
    BY <1>14 DEF CountProcessed
  <2> QED BY <1>1, <1>4, <1>14, <2>1, CountProcessedEffect DEF WorkerBecomes, G, W
<1>15. ASSUME NEW g \in Gateways, NEW seq \in Sequences, AnswerForward(g, seq)
       PROVE  IsFiniteSet(gateway'[h].threads) /\ IsFiniteSet(worker'[h].threads)
  <2>1. gateway'[h].threads = G
    BY <1>15, AnswerForwardEffect DEF GatewayBecomes, G
  <2>2. \/ worker'[h].threads = W
        \/ worker'[h].threads = W \ {Thread(seq, "processed")}
    BY <1>15, AnswerForwardEffect DEF WorkerThreadsBecome, WorkerBecomes, W
  <2> QED BY <1>1, <1>3, <2>1, <2>2
<1>16. ASSUME UNCHANGED <<gateway, worker>>
       PROVE  IsFiniteSet(gateway'[h].threads) /\ IsFiniteSet(worker'[h].threads)
  BY <1>1, <1>16 DEF G, W
<1> QED
  BY <1>6, <1>7, <1>8, <1>9, <1>10, <1>11, <1>12, <1>13, <1>14, <1>15, <1>16, ZenonT(60)
     DEF PipelineNext, Handle, Process, ServeSummary, InsertSummary, CountRecord, Confirm,
         SummaryGivesUp, vars

\* ... and one for each payload of a gateway.
LEMMA UniqueStep ==
  ASSUME Typed, SensorPosts, ThreadsUnique, [PipelineNext]_vars
  PROVE  ThreadsUnique'
<1>1. /\ sensor.at \in Nat /\ sensor.sequence \in Nat /\ DOMAIN Destinations = 1..Len(Destinations)
      /\ \A t \in GatewayThreads : t.seq \in Nat
      /\ \A g \in Gateways : gateway[g].threads \subseteq GatewayThreads
      /\ Len(Destinations) \in Nat
  <2>1. sensor.at \in Nat /\ sensor.sequence \in Nat
    BY SizesAssumption DEF Typed, Sensors
  <2>2. \A t \in GatewayThreads : t.seq \in Nat
    BY DEF GatewayThreads, Sequences
  <2>3. \A g \in Gateways : gateway[g].threads \subseteq GatewayThreads
    BY DEF Typed, GatewayStates
  <2>4. DOMAIN Destinations = 1..Len(Destinations) /\ Len(Destinations) \in Nat
    BY DestinationsAssumption
  <2> QED BY <2>1, <2>2, <2>3, <2>4
<1>2. CASE Generate
  <2>1. /\ gateway' = gateway /\ sensor'.sequence = sensor.sequence + 1
    BY <1>2 DEF Generate, Typed, Sensors
  <2> QED BY <1>1, <2>1 DEF ThreadsUnique
<1>3. CASE Post
  <2> DEFINE new == Thread(sensor.sequence, "admit")
  <2>0. PICK p \in Gateways : p = Destinations[sensor.at]
    BY <1>3, PostEffect
  <2>1. /\ gateway'[p].threads = gateway[p].threads \union {new}
        /\ \A h \in Gateways \ {p} : gateway'[h] = gateway[h]
        /\ sensor'.at = sensor.at /\ sensor'.sequence = sensor.sequence /\ sensor'.waiting
        /\ sensor.at \in DOMAIN Destinations /\ ~sensor.waiting /\ new.seq = sensor.sequence
        /\ sensor.at # 0
    BY <1>1, <1>3, <2>0, PostEffect, SMTT(40)
       DEF GatewayThreadsBecome, GatewayBecomes, Post, Thread
  <2> HIDE DEF new
  <2>2. \A g \in Gateways : PostedTo(g) => PostedTo(g)'
    BY <2>1 DEF PostedTo
  <2>3. PostedTo(p)' /\ ~PostedTo(p)
    BY <1>1, <2>0, <2>1, DestinationsAssumption DEF PostedTo
  <2>4. \A t \in gateway[p].threads : t.seq # sensor.sequence
    BY <2>1, <2>3 DEF ThreadsUnique
  <2>5. ASSUME NEW h \in Gateways \ {p}, NEW t \in gateway'[h].threads
        PROVE  /\ t.seq <= sensor'.sequence
               /\ t.seq = sensor'.sequence /\ sensor'.at # 0 => PostedTo(h)'
               /\ \A u \in gateway'[h].threads : u.seq = t.seq => u = t
    BY <2>1, <2>2, <2>5 DEF ThreadsUnique
  <2>6. ASSUME NEW t \in gateway'[p].threads
        PROVE  /\ t.seq <= sensor'.sequence
               /\ t.seq = sensor'.sequence /\ sensor'.at # 0 => PostedTo(p)'
               /\ \A u \in gateway'[p].threads : u.seq = t.seq => u = t
    BY <1>1, <2>1, <2>3, <2>4, <2>6 DEF ThreadsUnique
  <2> QED BY <2>5, <2>6 DEF ThreadsUnique
<1>4. ASSUME NEW ok \in BOOLEAN, sensor.waiting, sensor' = Recorded(ok),
             \A g \in Gateways : gateway'[g].threads \subseteq gateway[g].threads
      PROVE  ThreadsUnique'
  <2>1. /\ sensor'.sequence = sensor.sequence /\ sensor'.waiting = FALSE
        /\ sensor'.at = IF sensor.at = Len(Destinations) THEN 0 ELSE sensor.at + 1
    BY <1>4, RecordedTyped DEF Typed
  <2>2. \A g \in Gateways : PostedTo(g) /\ sensor'.at # 0 => PostedTo(g)'
    BY <1>1, <2>1 DEF PostedTo
  <2>3. sensor.at # 0
    BY <1>4 DEF SensorPosts
  <2> QED BY <1>1, <1>4, <2>1, <2>2, <2>3 DEF ThreadsUnique
<1>5. CASE SensorGivesUp
  <2>1. \A g \in Gateways : gateway'[g].threads \subseteq gateway[g].threads
    BY <1>5, SensorGivesUpEffect DEF GatewayThreadsBecome, GatewayBecomes
  <2> QED BY <1>4, <1>5, <2>1 DEF SensorGivesUp
<1>6. ASSUME NEW g \in Gateways, NEW seq \in Sequences, NEW from, NEW to, sensor' = sensor,
             Thread(seq, from) \in gateway[g].threads,
             gateway'[g].threads = Step(gateway[g].threads, seq, from, to),
             \A h \in Gateways \ {g} : gateway'[h] = gateway[h]
      PROVE  ThreadsUnique'
  <2>1. \A h \in Gateways : PostedTo(h)' <=> PostedTo(h)
    BY <1>6 DEF PostedTo
  <2>2. ASSUME NEW h \in Gateways \ {g}, NEW t \in gateway'[h].threads
        PROVE  /\ t.seq <= sensor'.sequence
               /\ t.seq = sensor'.sequence /\ sensor'.at # 0 => PostedTo(h)'
               /\ \A u \in gateway'[h].threads : u.seq = t.seq => u = t
    BY <1>6, <2>1, <2>2 DEF ThreadsUnique
  <2>3. Thread(seq, from).seq = seq /\ Thread(seq, to).seq = seq
    BY DEF Thread
  <2>4. ASSUME NEW t \in gateway'[g].threads
        PROVE  /\ t.seq <= sensor'.sequence
               /\ t.seq = sensor'.sequence /\ sensor'.at # 0 => PostedTo(g)'
               /\ \A u \in gateway'[g].threads : u.seq = t.seq => u = t
    BY <1>6, <2>1, <2>3, <2>4 DEF ThreadsUnique, Step
  <2> QED BY <2>2, <2>4 DEF ThreadsUnique
<1>7. ASSUME NEW g \in Gateways, NEW seq \in Sequences, Serve(g, seq)
      PROVE  ThreadsUnique'
  <2>1. CASE Admit(g, seq) /\ UNCHANGED sensor
    BY <1>6, <2>1, AdmitEffect DEF GatewayThreadsBecome, GatewayBecomes
  <2>2. CASE Count(g, seq) /\ UNCHANGED sensor
    BY <1>6, <2>2, CountEffect DEF GatewayBecomes
  <2>3. CASE AnswerSensor(g, seq)
    <3>1. \A h \in Gateways : gateway'[h].threads \subseteq gateway[h].threads
      BY <2>3, AnswerSensorEffect DEF GatewayThreadsBecome, GatewayBecomes
    <3>2. CASE Awaits(g, seq)
      BY <1>4, <2>3, <3>1, <3>2, AnswerSensorEffect DEF Awaits
    <3>3. CASE ~Awaits(g, seq)
      <4>1. sensor' = sensor
        BY <2>3, <3>3 DEF AnswerSensor
      <4> QED BY <3>1, <4>1 DEF ThreadsUnique, PostedTo
    <3> QED BY <3>2, <3>3
  <2> QED BY <1>7, <2>1, <2>2, <2>3 DEF Serve
<1>8. ASSUME sensor' = sensor, \A g \in Gateways : gateway'[g].threads = gateway[g].threads
      PROVE  ThreadsUnique'
  BY <1>8 DEF ThreadsUnique, PostedTo
<1>9. ASSUME NEW g \in Gateways, Forward(g) \/ ForwardGivesUp(g)
      PROVE  ThreadsUnique'
  <2>1. \A h \in Gateways : gateway'[h].threads = gateway[h].threads
    BY <1>9, ForwardEffect, ForwardGivesUpEffect DEF GatewayBecomes
  <2> QED BY <1>8, <1>9, <2>1 DEF Forward, ForwardGivesUp
<1>10. ASSUME NEW g \in Gateways, NEW seq \in Sequences, AnswerForward(g, seq)
       PROVE  ThreadsUnique'
  <2>1. \A h \in Gateways : gateway'[h].threads = gateway[h].threads
    BY <1>10, AnswerForwardEffect DEF GatewayBecomes
  <2> QED BY <1>8, <1>10, <2>1 DEF AnswerForward
<1>11. ASSUME UNCHANGED <<sensor, gateway>> PROVE ThreadsUnique'
  BY <1>8, <1>11
<1>12. ASSUME NEW g \in Gateways, NEW seq \in Sequences,
              \/ Process(g, seq) \/ CountProcessed(g, seq)
              \/ ServeSummary(g, seq) \/ SummaryGivesUp(g, seq)
       PROVE  ThreadsUnique'
  <2>1. UNCHANGED <<sensor, gateway>>
    BY <1>12 DEF Process, CountProcessed, ServeSummary, InsertSummary, CountRecord, Confirm,
         SummaryGivesUp
  <2> QED BY <1>11, <2>1
<1>13. CASE RestartStorage \/ UNCHANGED vars
  BY <1>11, <1>13 DEF RestartStorage, vars
<1> QED
  BY <1>2, <1>3, <1>5, <1>7, <1>9, <1>10, <1>12, <1>13 DEF PipelineNext, Handle

-----------------------------------------------------------------------------
(* The queue stays bounded, and the worker's accounts balanced.               *)

LEMMA QueueStep ==
  ASSUME Typed, SensorPosts, QueueBounded, [PipelineNext]_vars
  PROVE  QueueBounded'
<1> SUFFICES ASSUME NEW h \in Gateways PROVE Len(gateway'[h].queue) <= QueueSize
  BY DEF QueueBounded
<1>1. Len(gateway[h].queue) <= QueueSize /\ gateway[h].queue \in Seq(Sequences)
  BY DEF QueueBounded, Typed, GatewayStates
<1>2. ASSUME gateway'[h].queue = gateway[h].queue PROVE Len(gateway'[h].queue) <= QueueSize
  BY <1>1, <1>2
<1>3. ASSUME NEW g \in Gateways, Forward(g) PROVE Len(gateway'[h].queue) <= QueueSize
  <2>1. CASE h # g
    BY <1>2, <1>3, <2>1, ForwardEffect DEF GatewayBecomes
  <2>2. CASE h = g
    <3>1. gateway'[h].queue = Tail(gateway[h].queue) /\ gateway[h].queue # <<>>
      BY <1>3, <2>2, ForwardEffect DEF GatewayBecomes
    <3>2. Len(Tail(gateway[h].queue)) = Len(gateway[h].queue) - 1
      BY <1>1, <3>1
    <3> QED BY <1>1, <3>1, <3>2, SizesAssumption
  <2> QED BY <2>1, <2>2
<1>4. ASSUME NEW g \in Gateways, NEW seq \in Sequences, Admit(g, seq)
      PROVE  Len(gateway'[h].queue) <= QueueSize
  <2>1. CASE h # g
    BY <1>2, <1>4, <2>1, AdmitEffect DEF GatewayBecomes, GatewayThreadsBecome
  <2>2. CASE h = g /\ gateway'[h].queue = gateway[h].queue
    BY <1>2, <2>2
  <2>3. CASE h = g /\ gateway'[h].queue # gateway[h].queue
    <3>1. gateway'[h].queue = Append(gateway[h].queue, seq) /\ Len(gateway[h].queue) < QueueSize
      BY <1>4, <2>3, AdmitEffect DEF GatewayBecomes, GatewayThreadsBecome
    <3> QED BY <1>1, <3>1, SizesAssumption
  <2> QED BY <2>1, <2>2, <2>3
<1>5. CASE Post \/ SensorGivesUp
  <2>1. gateway'[h].queue = gateway[h].queue
    BY <1>5, PostEffect, SensorGivesUpEffect DEF GatewayBecomes, GatewayThreadsBecome
  <2> QED BY <1>2, <2>1
<1>6. ASSUME NEW g \in Gateways, ForwardGivesUp(g) PROVE gateway'[h].queue = gateway[h].queue
  BY <1>6, ForwardGivesUpEffect DEF GatewayBecomes
<1>7. ASSUME NEW g \in Gateways, NEW seq \in Sequences,
             Count(g, seq) \/ AnswerSensor(g, seq) \/ AnswerForward(g, seq)
      PROVE  gateway'[h].queue = gateway[h].queue
  BY <1>7, CountEffect, AnswerSensorEffect, AnswerForwardEffect
     DEF GatewayBecomes, GatewayThreadsBecome
<1>8. ASSUME NEW g \in Gateways, NEW seq \in Sequences,
             \/ Process(g, seq) \/ CountProcessed(g, seq)
             \/ ServeSummary(g, seq) \/ SummaryGivesUp(g, seq)
      PROVE  gateway'[h].queue = gateway[h].queue
  BY <1>8 DEF Process, CountProcessed, ServeSummary, InsertSummary, CountRecord, Confirm,
       SummaryGivesUp
<1>9. CASE Generate \/ RestartStorage \/ UNCHANGED vars
  BY <1>2, <1>9 DEF Generate, RestartStorage, vars
<1> QED
  BY <1>2, <1>3, <1>4, <1>5, <1>6, <1>7, <1>8, <1>9 DEF PipelineNext, Handle, Serve

\* The accounts of a worker nothing happens to.
LEMMA AccountsKept ==
  ASSUME WorkerAccounts, NEW h \in Gateways, worker'[h] = worker[h],
         gateway'[h].busy = gateway[h].busy, gateway'[h].forwarded = gateway[h].forwarded,
         gateway'[h].forward_errors = gateway[h].forward_errors
  PROVE  /\ worker'[h].requests_total + Cardinality(Pending(h)') <= Left(h)'
         /\ gateway'[h].forwarded + Cardinality(Finished(h)') <= worker'[h].requests_total
BY DEF WorkerAccounts, Pending, Finished, Left

\* What the numbers of a worker and its threads are.
LEMMA AccountsTyped ==
  ASSUME Typed, ThreadsFinite, NEW h \in Gateways
  PROVE  /\ worker[h].requests_total \in Nat /\ gateway[h].forwarded \in Nat
         /\ gateway[h].forward_errors \in Nat /\ gateway[h].busy \in 0..MaxSequence
         /\ IsFiniteSet(worker[h].threads)
         /\ IsFiniteSet(Pending(h)) /\ Cardinality(Pending(h)) \in Nat
         /\ IsFiniteSet(Finished(h)) /\ Cardinality(Finished(h)) \in Nat
<1>1. IsFiniteSet(worker[h].threads)
  BY DEF ThreadsFinite
<1>2. IsFiniteSet(Pending(h)) /\ IsFiniteSet(Finished(h))
  BY <1>1, FS_Subset DEF Pending, Finished, PendingOf, FinishedOf
<1>3. Cardinality(Pending(h)) \in Nat /\ Cardinality(Finished(h)) \in Nat
  BY <1>2, FS_CardinalityType
<1> QED BY <1>1, <1>2, <1>3 DEF Typed, WorkerStates, GatewayStates

\* A thread of worker g goes on without an effect on its accounts.
LEMMA AccountsGo ==
  ASSUME Typed, ThreadsFinite, WorkerAccounts, NEW g \in Gateways, NEW seq \in Sequences,
         NEW from \in {"process", "posting"}, NEW to \in {"posting", "plain", "stored", "failed"},
         Thread(seq, from) \in worker[g].threads, Goes(g, seq, from, to), gateway' = gateway
  PROVE  WorkerAccounts'
<1> SUFFICES ASSUME NEW h \in Gateways
             PROVE  /\ worker'[h].requests_total + Cardinality(Pending(h)') <= Left(h)'
                    /\ gateway'[h].forwarded + Cardinality(Finished(h)') <= worker'[h].requests_total
  BY DEF WorkerAccounts
<1>1. WorkerThreadsBecome(g, Step(worker[g].threads, seq, from, to))
  BY GoesEffect
<1>2. CASE h # g
  BY <1>1, <1>2, AccountsKept DEF WorkerThreadsBecome, WorkerBecomes
<1>3. CASE h = g
  <2>1. /\ Cardinality(Pending(g)') <= Cardinality(Pending(g)) /\ Cardinality(Pending(g)') \in Nat
        /\ Cardinality(Finished(g)') = Cardinality(Finished(g))
    <3>1. worker'[g].threads = Step(worker[g].threads, seq, from, to)
      BY <1>1 DEF WorkerThreadsBecome, WorkerBecomes
    <3> QED BY <3>1, AccountsTyped, WorkerStep DEF Pending, Finished
  <2>2. worker'[g].requests_total = worker[g].requests_total /\ Left(g)' = Left(g)
    BY <1>1 DEF WorkerThreadsBecome, WorkerBecomes, Left
  <2> QED BY <1>3, <2>1, <2>2, AccountsTyped DEF WorkerAccounts, Left
<1> QED BY <1>2, <1>3

\* The worker of g changes, and nothing at the other gateways does.
LEMMA AccountsOf ==
  ASSUME WorkerAccounts, NEW g \in Gateways,
         \A h \in Gateways \ {g} : worker'[h] = worker[h] /\ gateway'[h] = gateway[h],
         worker'[g].requests_total + Cardinality(Pending(g)') <= Left(g)',
         gateway'[g].forwarded + Cardinality(Finished(g)') <= worker'[g].requests_total
  PROVE  WorkerAccounts'
<1> SUFFICES ASSUME NEW h \in Gateways \ {g}
             PROVE  /\ worker'[h].requests_total + Cardinality(Pending(h)') <= Left(h)'
                    /\ gateway'[h].forwarded + Cardinality(Finished(h)') <= worker'[h].requests_total
  BY DEF WorkerAccounts
<1> QED BY AccountsKept

LEMMA AccountsStep ==
  ASSUME Typed, SensorPosts, ThreadsFinite, WorkerAccounts, [PipelineNext]_vars
  PROVE  WorkerAccounts'
<1>1. ASSUME worker' = worker,
             \A h \in Gateways : /\ gateway'[h].busy = gateway[h].busy
                                 /\ gateway'[h].forwarded = gateway[h].forwarded
                                 /\ gateway'[h].forward_errors = gateway[h].forward_errors
      PROVE  WorkerAccounts'
  BY <1>1, AccountsKept DEF WorkerAccounts
<1>2. CASE Generate \/ UNCHANGED vars
  BY <1>1, <1>2 DEF Generate, vars
<1>3. CASE Post \/ SensorGivesUp
  <2>1. worker' = worker
    BY <1>3 DEF Post, SensorGivesUp
  <2> QED BY <1>1, <1>3, <2>1, PostEffect, SensorGivesUpEffect
       DEF GatewayBecomes, GatewayThreadsBecome
<1>4. ASSUME NEW g \in Gateways, NEW seq \in Sequences, Serve(g, seq) PROVE WorkerAccounts'
  <2>1. worker' = worker
    BY <1>4 DEF Serve
  <2> QED BY <1>1, <1>4, <2>1, AdmitEffect, CountEffect, AnswerSensorEffect
       DEF Serve, GatewayBecomes, GatewayThreadsBecome
<1>5. ASSUME NEW g \in Gateways, Forward(g) PROVE WorkerAccounts'
  <2> DEFINE new == Thread(Head(gateway[g].queue), "process")
  <2>1. /\ worker'[g].threads = worker[g].threads \union {new}
        /\ worker'[g].requests_total = worker[g].requests_total
        /\ gateway[g].busy = 0 /\ gateway'[g].busy \in Sequences
        /\ gateway'[g].forwarded = gateway[g].forwarded
        /\ gateway'[g].forward_errors = gateway[g].forward_errors
        /\ \A h \in Gateways \ {g} : worker'[h] = worker[h] /\ gateway'[h] = gateway[h]
    BY <1>5, ForwardEffect DEF GatewayBecomes, WorkerThreadsBecome, WorkerBecomes
  <2>2. Pending(g)' = Pending(g) \union {new} /\ Finished(g)' = Finished(g)
    BY <2>1 DEF Pending, Finished, PendingOf, FinishedOf, Thread
  <2>3. Left(g)' = Left(g) + 1
    BY <2>1, AccountsTyped DEF Left, Sequences
  <2>4. Left(g) \in Nat
    BY AccountsTyped DEF Left
  <2> HIDE DEF new
  <2>5. Cardinality(Pending(g)') <= Cardinality(Pending(g)) + 1 /\ Cardinality(Pending(g)') \in Nat
    <3>1. IsFiniteSet(Pending(g)) /\ Cardinality(Pending(g)) \in Nat
      BY AccountsTyped
    <3>2. /\ IsFiniteSet(Pending(g) \union {new})
          /\ \/ Cardinality(Pending(g) \union {new}) = Cardinality(Pending(g))
             \/ Cardinality(Pending(g) \union {new}) = Cardinality(Pending(g)) + 1
      BY <3>1, FS_AddElement
    <3> QED BY <2>2, <3>1, <3>2
  <2>6. worker'[g].requests_total + Cardinality(Pending(g)') <= Left(g)'
    BY <2>1, <2>3, <2>4, <2>5, AccountsTyped DEF WorkerAccounts
  <2>7. gateway'[g].forwarded + Cardinality(Finished(g)') <= worker'[g].requests_total
    BY <2>1, <2>2 DEF WorkerAccounts
  <2> QED BY <2>1, <2>6, <2>7, AccountsOf
<1>6. ASSUME NEW g \in Gateways, ForwardGivesUp(g) PROVE WorkerAccounts'
  <2>1. PICK lost : worker'[g].threads = worker[g].threads \ lost
    BY <1>6, ForwardGivesUpEffect DEF WorkerThreadsBecome, WorkerBecomes
  <2>2. /\ worker'[g].requests_total = worker[g].requests_total
        /\ gateway[g].busy # 0 /\ gateway'[g].busy = 0
        /\ gateway'[g].forwarded = gateway[g].forwarded
        /\ gateway'[g].forward_errors = gateway[g].forward_errors + 1
        /\ \A h \in Gateways \ {g} : worker'[h] = worker[h] /\ gateway'[h] = gateway[h]
    BY <1>6, ForwardGivesUpEffect DEF GatewayBecomes, WorkerThreadsBecome, WorkerBecomes
  <2>3. Pending(g)' \subseteq Pending(g) /\ Finished(g)' \subseteq Finished(g)
    BY <2>1 DEF Pending, Finished, PendingOf, FinishedOf
  <2>4. /\ Cardinality(Pending(g)') <= Cardinality(Pending(g))
        /\ Cardinality(Finished(g)') <= Cardinality(Finished(g))
        /\ Cardinality(Pending(g)') \in Nat /\ Cardinality(Finished(g)') \in Nat
    BY <2>3, AccountsTyped, FS_Subset, FS_CardinalityType
  <2>5. Left(g)' = Left(g) /\ Left(g) \in Nat
    BY <2>2, AccountsTyped DEF Left
  <2>6. worker'[g].requests_total + Cardinality(Pending(g)') <= Left(g)'
    BY <2>2, <2>4, <2>5, AccountsTyped DEF WorkerAccounts
  <2>7. gateway'[g].forwarded + Cardinality(Finished(g)') <= worker'[g].requests_total
    BY <2>2, <2>4, AccountsTyped DEF WorkerAccounts
  <2> QED BY <2>2, <2>6, <2>7, AccountsOf
<1>7. ASSUME NEW g \in Gateways, NEW seq \in Sequences, Process(g, seq) PROVE WorkerAccounts'
  BY <1>7, AccountsGo DEF Process, Working
<1>8. ASSUME NEW g \in Gateways, NEW seq \in Sequences, CountProcessed(g, seq)
      PROVE  WorkerAccounts'
  <2>0. gateway' = gateway
    BY <1>8 DEF CountProcessed
  <2>1. PICK pc \in {"stored", "failed", "plain"} :
          /\ Thread(seq, pc) \in worker[g].threads
          /\ worker'[g].threads = Step(worker[g].threads, seq, pc, "processed")
          /\ worker'[g].requests_total = worker[g].requests_total + 1
          /\ \A h \in Gateways \ {g} : worker'[h] = worker[h]
    BY <1>8, CountProcessedEffect DEF WorkerBecomes
  <2>2. /\ Cardinality(Pending(g)') = Cardinality(Pending(g)) - 1
        /\ Cardinality(Finished(g)') <= Cardinality(Finished(g)) + 1
        /\ Cardinality(Pending(g)') \in Nat /\ Cardinality(Finished(g)') \in Nat
    BY <2>1, AccountsTyped, WorkerStep DEF Pending, Finished
  <2>3. Left(g)' = Left(g) /\ Left(g) \in Nat
    BY <2>0, AccountsTyped DEF Left
  <2>4. worker'[g].requests_total + Cardinality(Pending(g)') <= Left(g)'
    BY <2>1, <2>2, <2>3, AccountsTyped DEF WorkerAccounts
  <2>5. gateway'[g].forwarded + Cardinality(Finished(g)') <= worker'[g].requests_total
    BY <2>0, <2>1, <2>2, AccountsTyped DEF WorkerAccounts
  <2> QED BY <2>0, <2>1, <2>4, <2>5, AccountsOf
<1>9. ASSUME NEW g \in Gateways, NEW seq \in Sequences, AnswerForward(g, seq)
      PROVE  WorkerAccounts'
  <2> DEFINE gone == Thread(seq, "processed")
  <2>1. /\ gone \in worker[g].threads
        /\ worker'[g].threads = worker[g].threads \ {gone}
        /\ worker'[g].requests_total = worker[g].requests_total
        /\ \A h \in Gateways \ {g} : worker'[h] = worker[h] /\ gateway'[h] = gateway[h]
    BY <1>9, AnswerForwardEffect DEF GatewayBecomes, WorkerThreadsBecome, WorkerBecomes
  <2>2. /\ Pending(g)' = Pending(g) /\ Finished(g)' = Finished(g) \ {gone}
        /\ gone \in Finished(g)
    BY <2>1 DEF Pending, Finished, PendingOf, FinishedOf, Thread
  <2> HIDE DEF gone
  <2>3. Cardinality(Finished(g)') = Cardinality(Finished(g)) - 1
    BY <2>2, AccountsTyped, FS_RemoveElement
  <2>4. /\ Left(g)' = Left(g) /\ Left(g) \in Nat
        /\ gateway'[g].forwarded \in {gateway[g].forwarded, gateway[g].forwarded + 1}
    <3>1. CASE gateway[g].busy = seq
      <4>1. /\ gateway'[g].busy = 0 /\ gateway'[g].forwarded = gateway[g].forwarded + 1
            /\ gateway'[g].forward_errors = gateway[g].forward_errors
        BY <1>9, <3>1, AnswerForwardEffect DEF GatewayBecomes
      <4>2. seq # 0
        BY DEF Sequences
      <4> QED BY <3>1, <4>1, <4>2, AccountsTyped DEF Left
    <3>2. CASE gateway[g].busy # seq
      <4>1. gateway' = gateway
        BY <1>9, <3>2, AnswerForwardEffect
      <4> QED BY <4>1, AccountsTyped DEF Left
    <3> QED BY <3>1, <3>2
  <2>5. worker'[g].requests_total + Cardinality(Pending(g)') <= Left(g)'
    BY <2>1, <2>2, <2>4 DEF WorkerAccounts
  <2>6. gateway'[g].forwarded + Cardinality(Finished(g)') <= worker'[g].requests_total
    BY <2>1, <2>3, <2>4, AccountsTyped DEF WorkerAccounts
  <2> QED BY <2>1, <2>5, <2>6, AccountsOf
<1>10. ASSUME NEW g \in Gateways, NEW seq \in Sequences, ServeSummary(g, seq)
       PROVE  WorkerAccounts'
  <2>1. CASE worker' = worker
    BY <1>1, <1>10, <2>1 DEF ServeSummary, InsertSummary, CountRecord, Confirm
  <2>2. CASE Working(g, seq, "posting") /\ Goes(g, seq, "posting", "stored") /\ gateway' = gateway
    BY <2>2, AccountsGo DEF Working
  <2> QED BY <1>10, <2>1, <2>2 DEF ServeSummary, InsertSummary, CountRecord, Confirm
<1>11. ASSUME NEW g \in Gateways, NEW seq \in Sequences, SummaryGivesUp(g, seq)
       PROVE  WorkerAccounts'
  BY <1>11, AccountsGo DEF SummaryGivesUp, Working
<1>12. CASE RestartStorage
  <2> SUFFICES ASSUME NEW h \in Gateways
               PROVE  /\ worker'[h].requests_total + Cardinality(Pending(h)') <= Left(h)'
                      /\ gateway'[h].forwarded + Cardinality(Finished(h)') <= worker'[h].requests_total
    BY DEF WorkerAccounts
  <2>1. /\ worker'[h].threads = {Broken(t) : t \in worker[h].threads}
        /\ worker'[h].requests_total = worker[h].requests_total /\ gateway' = gateway
    BY <1>12, RestartEffect DEF RestartStorage
  <2>2. worker[h].threads \subseteq WorkerThreads
    BY DEF Typed, WorkerStates
  <2> DEFINE f == [t \in Pending(h) |-> Broken(t)]
  <2>3. \A t \in WorkerThreads : t.pc = "processed" => Broken(t) = t
    BY DEF Broken
  <2>4. \A t \in WorkerThreads : t.pc # "processed" => Broken(t).pc # "processed"
    BY DEF Broken, WorkerThreads
  <2>5. Pending(h)' = {Broken(t) : t \in Pending(h)} /\ Finished(h)' = Finished(h)
    BY <2>1, <2>2, <2>3, <2>4 DEF Pending, Finished, PendingOf, FinishedOf
  <2>6. f \in Surjection(Pending(h), Pending(h)')
    BY <2>5, Fun_IsSurj
  <2>7. Cardinality(Pending(h)') <= Cardinality(Pending(h)) /\ Cardinality(Pending(h)') \in Nat
    BY <2>6, AccountsTyped, FS_Surjection, FS_CardinalityType
  <2>8. Left(h)' = Left(h) /\ Left(h) \in Nat
    BY <2>1, AccountsTyped DEF Left
  <2> QED BY <2>1, <2>5, <2>7, <2>8, AccountsTyped DEF WorkerAccounts
<1> QED
  BY <1>2, <1>3, <1>4, <1>5, <1>6, <1>7, <1>8, <1>9, <1>10, <1>11, <1>12 DEF PipelineNext, Handle

-----------------------------------------------------------------------------
(* The refinement.                                                            *)

LEMMA InvInit == PipelineInit => RelayInv
<1> SUFFICES ASSUME PipelineInit PROVE RelayInv
  OBVIOUS
<1>1. Typed /\ SensorPosts
  BY TypedInit
<1>2. ASSUME NEW g \in Gateways
      PROVE  /\ gateway[g].threads = {} /\ worker[g].threads = {} /\ gateway[g].queue = <<>>
             /\ gateway[g].busy = 0 /\ gateway[g].forwarded = 0 /\ gateway[g].forward_errors = 0
             /\ worker[g].requests_total = 0 /\ Pending(g) = {} /\ Finished(g) = {}
  BY DEF PipelineInit, Pending, Finished, PendingOf, FinishedOf
<1>3. IsFiniteSet({}) /\ Cardinality({}) = 0
  BY FS_EmptySet
<1>4. ThreadsFinite /\ ThreadsUnique
  BY <1>2, <1>3 DEF ThreadsFinite, ThreadsUnique
<1>6. QueueBounded
  <2>1. Len(<<>>) = 0 /\ 0 <= QueueSize
    BY SizesAssumption
  <2> QED BY <1>2, <2>1 DEF QueueBounded
<1>5. WorkerAccounts
  <2> SUFFICES ASSUME NEW g \in Gateways
               PROVE  /\ worker[g].requests_total + Cardinality(Pending(g)) <= Left(g)
                      /\ gateway[g].forwarded + Cardinality(Finished(g)) <= worker[g].requests_total
    BY DEF WorkerAccounts
  <2>1. Left(g) = 0
    BY <1>2 DEF Left
  <2>2. Cardinality(Pending(g)) = 0 /\ Cardinality(Finished(g)) = 0
    BY <1>2, <1>3
  <2>3. worker[g].requests_total = 0 /\ gateway[g].forwarded = 0
    BY <1>2
  <2> QED BY <2>1, <2>2, <2>3
<1> QED BY <1>1, <1>4, <1>5, <1>6 DEF RelayInv

LEMMA InvStep == RelayInv /\ [PipelineNext]_vars => RelayInv'
BY TypedStep, FiniteStep, UniqueStep, QueueStep, AccountsStep DEF RelayInv

\* Nothing the relay knows of happens at h.
LEMMA SameEntry ==
  ASSUME NEW h \in Gateways,
         Uncounted(h, "count")' = Uncounted(h, "count"),
         Uncounted(h, "refuse")' = Uncounted(h, "refuse"),
         gateway'[h].received = gateway[h].received, gateway'[h].dropped = gateway[h].dropped,
         gateway'[h].queue = gateway[h].queue, gateway'[h].busy = gateway[h].busy,
         gateway'[h].forwarded = gateway[h].forwarded,
         gateway'[h].forward_errors = gateway[h].forward_errors,
         worker'[h].requests_total = worker[h].requests_total
  PROVE  RelayOf(h)' = RelayOf(h)
BY DEF RelayOf, Accepted

\* Only the entry of g changes.
LEMMA OneEntry ==
  ASSUME NEW g \in Gateways,
         \A h \in Gateways \ {g} :
           gateway'[h] = gateway[h] /\ worker'[h].requests_total = worker[h].requests_total
  PROVE  RelayState' = [RelayState EXCEPT ![g] = RelayOf(g)']
<1>1. ASSUME NEW h \in Gateways \ {g} PROVE RelayOf(h)' = RelayOf(h)
  BY <1>1, SameEntry DEF Uncounted
<1> QED BY <1>1 DEF RelayState

\* A step that leaves every entry alone is a stutter of the relay.
LEMMA NoEntry ==
  ASSUME \A h \in Gateways : RelayOf(h)' = RelayOf(h)
  PROVE  RelayState' = RelayState
BY DEF RelayState

\* A gateway's thread goes on and nothing else of its gateway changes but the counters.
LEMMA UncountedStep ==
  ASSUME RelayInv, NEW g \in Gateways, NEW seq \in Sequences, NEW from, NEW to, from # to,
         Thread(seq, from) \in gateway[g].threads,
         gateway'[g].threads = Step(gateway[g].threads, seq, from, to), NEW pc
  PROVE  /\ Cardinality(Uncounted(g, pc)) \in Nat
         /\ pc = from => Cardinality(Uncounted(g, pc)') = Cardinality(Uncounted(g, pc)) - 1
         /\ pc = to => Cardinality(Uncounted(g, pc)') = Cardinality(Uncounted(g, pc)) + 1
         /\ pc \notin {from, to} => Uncounted(g, pc)' = Uncounted(g, pc)
<1>1. Thread(seq, to) \notin gateway[g].threads
  <2>1. Thread(seq, to).seq = Thread(seq, from).seq /\ Thread(seq, to) # Thread(seq, from)
    BY DEF Thread
  <2> QED BY <2>1 DEF RelayInv, ThreadsUnique
<1>2. IsFiniteSet(gateway[g].threads)
  BY DEF RelayInv, ThreadsFinite
<1>3. /\ Uncounted(g, pc) = AtPc(gateway[g].threads, pc)
      /\ Uncounted(g, pc)' = AtPc(Step(gateway[g].threads, seq, from, to), pc)
  BY DEF Uncounted, AtPc
<1> QED BY <1>1, <1>2, <1>3, StepCounts

\* A thread comes or goes that has nothing to count.
LEMMA CountedThreads ==
  ASSUME NEW g \in Gateways, NEW t, t.pc \notin {"count", "refuse"},
         gateway'[g].threads \in {gateway[g].threads \union {t}, gateway[g].threads \ {t},
                                  gateway[g].threads}
  PROVE  /\ Uncounted(g, "count")' = Uncounted(g, "count")
         /\ Uncounted(g, "refuse")' = Uncounted(g, "refuse")
BY DEF Uncounted

LEMMA GatewayNumbers ==
  ASSUME Typed, NEW g \in Gateways
  PROVE  /\ gateway[g].received \in Nat /\ gateway[g].dropped \in Nat
         /\ gateway[g].forwarded \in Nat /\ gateway[g].forward_errors \in Nat
         /\ gateway[g].queue \in Seq(Sequences) /\ worker[g].requests_total \in Nat
BY DEF Typed, GatewayStates, WorkerStates

\* What the relay keeps of a gateway.
RelayEntries ==
  [accepted : Int, refused : Int, queue : Seq(Sequences), busy : Int, forwarded : Int,
   errors : Int, processed : Int]
EntriesTyped == \A g \in Gateways : RelayOf(g) \in RelayEntries

LEMMA EntriesOfInv == RelayInv => EntriesTyped
<1> SUFFICES ASSUME RelayInv, NEW g \in Gateways PROVE RelayOf(g) \in RelayEntries
  BY DEF EntriesTyped
<1>1. IsFiniteSet(gateway[g].threads)
  BY DEF RelayInv, ThreadsFinite
<1>2. IsFiniteSet(Uncounted(g, "count")) /\ IsFiniteSet(Uncounted(g, "refuse"))
  BY <1>1, FS_Subset DEF Uncounted
<1>3. Cardinality(Uncounted(g, "count")) \in Nat /\ Cardinality(Uncounted(g, "refuse")) \in Nat
  BY <1>2, FS_CardinalityType
<1>4. gateway[g].busy \in Int
  BY DEF RelayInv, Typed, GatewayStates
<1>5. Accepted(g) + Cardinality(Uncounted(g, "count")) \in Int
  BY <1>3, GatewayNumbers DEF RelayInv, Accepted
<1>6. gateway[g].dropped + Cardinality(Uncounted(g, "refuse")) \in Int
  BY <1>3, GatewayNumbers DEF RelayInv
<1> QED BY <1>4, <1>5, <1>6, GatewayNumbers DEF RelayInv, RelayOf, RelayEntries

LEMMA EntriesOfInvNext == RelayInv' => EntriesTyped'
BY EntriesOfInv, PTL

\* Two entries with the same fields are the same.
LEMMA SameFields ==
  ASSUME NEW r \in RelayEntries, NEW s \in RelayEntries,
         r.accepted = s.accepted, r.refused = s.refused, r.queue = s.queue, r.busy = s.busy,
         r.forwarded = s.forwarded, r.errors = s.errors, r.processed = s.processed
  PROVE  r = s
BY DEF RelayEntries

\* The fields of an entry.
LEMMA EntryFields ==
  ASSUME NEW g \in Gateways
  PROVE  /\ RelayOf(g).accepted = Accepted(g) + Cardinality(Uncounted(g, "count"))
         /\ RelayOf(g).refused = gateway[g].dropped + Cardinality(Uncounted(g, "refuse"))
         /\ RelayOf(g).queue = gateway[g].queue /\ RelayOf(g).busy = gateway[g].busy
         /\ RelayOf(g).forwarded = gateway[g].forwarded
         /\ RelayOf(g).errors = gateway[g].forward_errors
         /\ RelayOf(g).processed = worker[g].requests_total
         /\ RelayState[g] = RelayOf(g)
         /\ RelayOf(g)'.accepted = Accepted(g)' + Cardinality(Uncounted(g, "count")')
         /\ RelayOf(g)'.refused = gateway'[g].dropped + Cardinality(Uncounted(g, "refuse")')
         /\ RelayOf(g)'.queue = gateway'[g].queue /\ RelayOf(g)'.busy = gateway'[g].busy
         /\ RelayOf(g)'.forwarded = gateway'[g].forwarded
         /\ RelayOf(g)'.errors = gateway'[g].forward_errors
         /\ RelayOf(g)'.processed = worker'[g].requests_total
BY DEF RelayOf, RelayState

\* What each action of the relay does to an entry, field by field.
LEMMA EntryAccept ==
  ASSUME NEW r \in RelayEntries, NEW s \in RelayEntries, NEW p \in Sequences,
         s.accepted = r.accepted + 1, s.refused = r.refused,
         s.queue = Append(r.queue, p), s.busy = r.busy,
         s.forwarded = r.forwarded, s.errors = r.errors,
         s.processed = r.processed
  PROVE  s = [r EXCEPT !.accepted = @ + 1, !.queue = Append(@, p)]
<1> DEFINE next == [r EXCEPT !.accepted = @ + 1, !.queue = Append(@, p)]
<1>1. /\ next.accepted = r.accepted + 1 /\ next.refused = r.refused
      /\ next.queue = Append(r.queue, p) /\ next.busy = r.busy
      /\ next.forwarded = r.forwarded /\ next.errors = r.errors
      /\ next.processed = r.processed
  BY DEF RelayEntries
<1>2. next \in RelayEntries
  BY DEF RelayEntries
<1> HIDE DEF next
<1>3. s = next
  BY <1>1, <1>2, SameFields
<1> QED BY <1>3 DEF next

LEMMA EntryRefuse ==
  ASSUME NEW r \in RelayEntries, NEW s \in RelayEntries,
         s.accepted = r.accepted, s.refused = r.refused + 1,
         s.queue = r.queue, s.busy = r.busy,
         s.forwarded = r.forwarded, s.errors = r.errors,
         s.processed = r.processed
  PROVE  s = [r EXCEPT !.refused = @ + 1]
<1> DEFINE next == [r EXCEPT !.refused = @ + 1]
<1>1. /\ next.accepted = r.accepted /\ next.refused = r.refused + 1
      /\ next.queue = r.queue /\ next.busy = r.busy
      /\ next.forwarded = r.forwarded /\ next.errors = r.errors
      /\ next.processed = r.processed
  BY DEF RelayEntries
<1>2. next \in RelayEntries
  BY DEF RelayEntries
<1> HIDE DEF next
<1>3. s = next
  BY <1>1, <1>2, SameFields
<1> QED BY <1>3 DEF next

LEMMA EntryTake ==
  ASSUME NEW r \in RelayEntries, NEW s \in RelayEntries, r.queue # <<>>,
         s.accepted = r.accepted, s.refused = r.refused,
         s.queue = Tail(r.queue), s.busy = Head(r.queue),
         s.forwarded = r.forwarded, s.errors = r.errors,
         s.processed = r.processed
  PROVE  s = [r EXCEPT !.busy = Head(r.queue), !.queue = Tail(@)]
<1> DEFINE next == [r EXCEPT !.busy = Head(r.queue), !.queue = Tail(@)]
<1>0. Head(r.queue) \in Int /\ Tail(r.queue) \in Seq(Sequences)
  <2>1. r.queue \in Seq(Sequences)
    BY DEF RelayEntries
  <2>2. Head(r.queue) \in Sequences /\ Tail(r.queue) \in Seq(Sequences)
    BY <2>1
  <2> QED BY <2>2 DEF Sequences
<1>1. /\ next.accepted = r.accepted /\ next.refused = r.refused
      /\ next.queue = Tail(r.queue) /\ next.busy = Head(r.queue)
      /\ next.forwarded = r.forwarded /\ next.errors = r.errors
      /\ next.processed = r.processed
  BY <1>0 DEF RelayEntries
<1>2. next \in RelayEntries
  BY <1>0 DEF RelayEntries
<1> HIDE DEF next
<1>3. s = next
  BY <1>1, <1>2, SameFields
<1> QED BY <1>3 DEF next

LEMMA EntryProcess ==
  ASSUME NEW r \in RelayEntries, NEW s \in RelayEntries,
         s.accepted = r.accepted, s.refused = r.refused,
         s.queue = r.queue, s.busy = r.busy,
         s.forwarded = r.forwarded, s.errors = r.errors,
         s.processed = r.processed + 1
  PROVE  s = [r EXCEPT !.processed = @ + 1]
<1> DEFINE next == [r EXCEPT !.processed = @ + 1]
<1>1. /\ next.accepted = r.accepted /\ next.refused = r.refused
      /\ next.queue = r.queue /\ next.busy = r.busy
      /\ next.forwarded = r.forwarded /\ next.errors = r.errors
      /\ next.processed = r.processed + 1
  BY DEF RelayEntries
<1>2. next \in RelayEntries
  BY DEF RelayEntries
<1> HIDE DEF next
<1>3. s = next
  BY <1>1, <1>2, SameFields
<1> QED BY <1>3 DEF next

LEMMA EntryConfirm ==
  ASSUME NEW r \in RelayEntries, NEW s \in RelayEntries,
         s.accepted = r.accepted, s.refused = r.refused,
         s.queue = r.queue, s.busy = 0,
         s.forwarded = r.forwarded + 1, s.errors = r.errors,
         s.processed = r.processed
  PROVE  s = [r EXCEPT !.busy = 0, !.forwarded = @ + 1]
<1> DEFINE next == [r EXCEPT !.busy = 0, !.forwarded = @ + 1]
<1>1. /\ next.accepted = r.accepted /\ next.refused = r.refused
      /\ next.queue = r.queue /\ next.busy = 0
      /\ next.forwarded = r.forwarded + 1 /\ next.errors = r.errors
      /\ next.processed = r.processed
  BY DEF RelayEntries
<1>2. next \in RelayEntries
  BY DEF RelayEntries
<1> HIDE DEF next
<1>3. s = next
  BY <1>1, <1>2, SameFields
<1> QED BY <1>3 DEF next

LEMMA EntryFail ==
  ASSUME NEW r \in RelayEntries, NEW s \in RelayEntries,
         s.accepted = r.accepted, s.refused = r.refused,
         s.queue = r.queue, s.busy = 0,
         s.forwarded = r.forwarded, s.errors = r.errors + 1,
         s.processed = r.processed
  PROVE  s = [r EXCEPT !.busy = 0, !.errors = @ + 1]
<1> DEFINE next == [r EXCEPT !.busy = 0, !.errors = @ + 1]
<1>1. /\ next.accepted = r.accepted /\ next.refused = r.refused
      /\ next.queue = r.queue /\ next.busy = 0
      /\ next.forwarded = r.forwarded /\ next.errors = r.errors + 1
      /\ next.processed = r.processed
  BY DEF RelayEntries
<1>2. next \in RelayEntries
  BY DEF RelayEntries
<1> HIDE DEF next
<1>3. s = next
  BY <1>1, <1>2, SameFields
<1> QED BY <1>3 DEF next

LEMMA AdmitRefines ==
  ASSUME RelayInv, RelayInv', NEW g \in Gateways, NEW seq \in Sequences, Admit(g, seq), worker' = worker
  PROVE  Relay!Accept(g) \/ Relay!Refuse(g)
<1> USE DEF RelayInv
<1>1. CASE Len(gateway[g].queue) < QueueSize
  <2>1. GatewayBecomes(g, Step(gateway[g].threads, seq, "admit", "count"),
          Append(gateway[g].queue, seq), gateway[g].busy, gateway[g].received,
          gateway[g].dropped, gateway[g].forwarded, gateway[g].forward_errors)
    BY <1>1, AdmitEffect
  <2>2. /\ Cardinality(Uncounted(g, "count")) \in Nat
        /\ Cardinality(Uncounted(g, "count")') = Cardinality(Uncounted(g, "count")) + 1
        /\ Uncounted(g, "refuse")' = Uncounted(g, "refuse")
    <3>1. /\ Thread(seq, "admit") \in gateway[g].threads
          /\ gateway'[g].threads = Step(gateway[g].threads, seq, "admit", "count")
      BY <2>1, AdmitEffect DEF GatewayBecomes
    <3>2. /\ Cardinality(Uncounted(g, "count")) \in Nat
          /\ Cardinality(Uncounted(g, "count")') = Cardinality(Uncounted(g, "count")) + 1
      BY <3>1, UncountedStep
    <3>3. Uncounted(g, "refuse")' = Uncounted(g, "refuse")
      BY <3>1, UncountedStep
    <3> QED BY <3>2, <3>3
  <2>3. RelayOf(g)' = [RelayOf(g) EXCEPT !.accepted = @ + 1, !.queue = Append(@, seq)]
    <3>1. Accepted(g)' = Accepted(g) /\ Accepted(g) \in Int
      BY <2>1, GatewayNumbers DEF Accepted, GatewayBecomes
    <3>2. /\ gateway'[g].dropped = gateway[g].dropped
          /\ gateway'[g].queue = Append(gateway[g].queue, seq)
          /\ gateway'[g].busy = gateway[g].busy /\ gateway'[g].forwarded = gateway[g].forwarded
          /\ gateway'[g].forward_errors = gateway[g].forward_errors
      BY <2>1 DEF GatewayBecomes
    <3>3. Accepted(g)' + Cardinality(Uncounted(g, "count")') =
            Accepted(g) + Cardinality(Uncounted(g, "count")) + 1
      BY <2>2, <3>1
    <3>4. /\ RelayOf(g) \in RelayEntries /\ RelayOf(g)' \in RelayEntries
      BY EntriesOfInv, EntriesOfInvNext DEF EntriesTyped
    <3>5. /\ RelayOf(g)'.accepted = RelayOf(g).accepted + 1
          /\ RelayOf(g)'.refused = RelayOf(g).refused
          /\ RelayOf(g)'.queue = Append(RelayOf(g).queue, seq)
          /\ RelayOf(g)'.busy = RelayOf(g).busy
          /\ RelayOf(g)'.forwarded = RelayOf(g).forwarded
          /\ RelayOf(g)'.errors = RelayOf(g).errors
          /\ RelayOf(g)'.processed = RelayOf(g).processed
      BY <2>2, <3>2, <3>3, EntryFields, ZenonT(60)
    <3> QED BY <3>4, <3>5, EntryAccept
  <2>4. RelayState' = [RelayState EXCEPT ![g] = RelayOf(g)']
    BY <2>1, OneEntry DEF GatewayBecomes
  <2>5. RelayState[g] = RelayOf(g) /\ RelayOf(g).queue = gateway[g].queue
    BY DEF RelayState, RelayOf
  <2>6. RelayState' = [RelayState EXCEPT ![g].accepted = @ + 1, ![g].queue = Append(@, seq)]
    BY <2>3, <2>4, <2>5
  <2> QED BY <1>1, <2>5, <2>6 DEF Relay!Accept
<1>2. CASE ~(Len(gateway[g].queue) < QueueSize)
  <2>1. GatewayThreadsBecome(g, Step(gateway[g].threads, seq, "admit", "refuse"))
    BY <1>2, AdmitEffect
  <2>2. /\ Cardinality(Uncounted(g, "refuse")) \in Nat
        /\ Cardinality(Uncounted(g, "refuse")') = Cardinality(Uncounted(g, "refuse")) + 1
        /\ Uncounted(g, "count")' = Uncounted(g, "count")
    <3>1. /\ Thread(seq, "admit") \in gateway[g].threads
          /\ gateway'[g].threads = Step(gateway[g].threads, seq, "admit", "refuse")
      BY <2>1, AdmitEffect DEF GatewayBecomes, GatewayThreadsBecome
    <3> QED BY <3>1, UncountedStep
  <2>3. RelayOf(g)' = [RelayOf(g) EXCEPT !.refused = @ + 1]
    <3>1. /\ Accepted(g)' = Accepted(g) /\ gateway'[g].dropped = gateway[g].dropped
          /\ gateway'[g].queue = gateway[g].queue
          /\ gateway'[g].busy = gateway[g].busy /\ gateway'[g].forwarded = gateway[g].forwarded
          /\ gateway'[g].forward_errors = gateway[g].forward_errors
      BY <2>1 DEF Accepted, GatewayBecomes, GatewayThreadsBecome
    <3>2. gateway'[g].dropped + Cardinality(Uncounted(g, "refuse")') =
            gateway[g].dropped + Cardinality(Uncounted(g, "refuse")) + 1
      <4>1. gateway[g].dropped \in Nat
        BY GatewayNumbers
      <4> QED BY <2>2, <3>1, <4>1
    <3>3. RelayOf(g) \in RelayEntries /\ RelayOf(g)' \in RelayEntries
      BY EntriesOfInv, EntriesOfInvNext DEF EntriesTyped
    <3> QED BY <2>2, <3>1, <3>2, <3>3, EntryFields, EntryRefuse
  <2>4. RelayState' = [RelayState EXCEPT ![g] = RelayOf(g)']
    BY <2>1, OneEntry DEF GatewayBecomes, GatewayThreadsBecome
  <2>5. RelayState[g] = RelayOf(g) /\ RelayOf(g).queue = gateway[g].queue
    BY DEF RelayState, RelayOf
  <2>6. Len(gateway[g].queue) = QueueSize
    BY <1>2, SizesAssumption, GatewayNumbers DEF QueueBounded
  <2>7. RelayState' = [RelayState EXCEPT ![g].refused = @ + 1]
    BY <2>3, <2>4, <2>5
  <2> QED BY <2>5, <2>6, <2>7 DEF Relay!Refuse
<1> QED BY <1>1, <1>2

LEMMA CountRefines ==
  ASSUME RelayInv, NEW g \in Gateways, NEW seq \in Sequences, Count(g, seq), worker' = worker
  PROVE  RelayState' = RelayState
<1> USE DEF RelayInv
<1>1. \A h \in Gateways \ {g} : gateway'[h] = gateway[h]
  BY CountEffect DEF GatewayBecomes
<1>2. /\ gateway'[g].queue = gateway[g].queue
      /\ gateway'[g].busy = gateway[g].busy /\ gateway'[g].forwarded = gateway[g].forwarded
      /\ gateway'[g].forward_errors = gateway[g].forward_errors
  BY CountEffect DEF GatewayBecomes
<1>3. CASE /\ Thread(seq, "count") \in gateway[g].threads
           /\ GatewayBecomes(g, Step(gateway[g].threads, seq, "count", "accepted"),
                gateway[g].queue, gateway[g].busy, gateway[g].received + 1,
                gateway[g].dropped, gateway[g].forwarded, gateway[g].forward_errors)
  <2>1. /\ gateway'[g].threads = Step(gateway[g].threads, seq, "count", "accepted")
        /\ gateway'[g].received = gateway[g].received + 1
        /\ gateway'[g].dropped = gateway[g].dropped
    BY <1>3 DEF GatewayBecomes
  <2>2. /\ Cardinality(Uncounted(g, "count")) \in Nat
        /\ Cardinality(Uncounted(g, "count")') = Cardinality(Uncounted(g, "count")) - 1
        /\ Uncounted(g, "refuse")' = Uncounted(g, "refuse")
    BY <1>3, <2>1, UncountedStep
  <2>3. Accepted(g)' + Cardinality(Uncounted(g, "count")') =
          Accepted(g) + Cardinality(Uncounted(g, "count"))
    <3>1. Accepted(g)' = Accepted(g) + 1 /\ Accepted(g) \in Int
      BY <2>1, GatewayNumbers, SMTT(40) DEF Accepted
    <3> QED BY <2>2, <3>1
  <2>4. RelayOf(g)' = RelayOf(g)
    BY <1>2, <2>1, <2>2, <2>3 DEF RelayOf
  <2>5. ASSUME NEW h \in Gateways \ {g} PROVE RelayOf(h)' = RelayOf(h)
    BY <1>1, <2>5, SameEntry DEF Uncounted
  <2> QED BY <2>4, <2>5, NoEntry
<1>4. CASE /\ Thread(seq, "refuse") \in gateway[g].threads
           /\ GatewayBecomes(g, Step(gateway[g].threads, seq, "refuse", "refused"),
                gateway[g].queue, gateway[g].busy, gateway[g].received + 1,
                gateway[g].dropped + 1, gateway[g].forwarded, gateway[g].forward_errors)
  <2>1. /\ gateway'[g].threads = Step(gateway[g].threads, seq, "refuse", "refused")
        /\ gateway'[g].received = gateway[g].received + 1
        /\ gateway'[g].dropped = gateway[g].dropped + 1
    BY <1>4 DEF GatewayBecomes
  <2>2. /\ Cardinality(Uncounted(g, "refuse")) \in Nat
        /\ Cardinality(Uncounted(g, "refuse")') = Cardinality(Uncounted(g, "refuse")) - 1
        /\ Uncounted(g, "count")' = Uncounted(g, "count")
    BY <1>4, <2>1, UncountedStep
  <2>3. Accepted(g)' = Accepted(g)
    BY <2>1, GatewayNumbers, SMTT(40) DEF Accepted
  <2>4. gateway'[g].dropped + Cardinality(Uncounted(g, "refuse")') =
          gateway[g].dropped + Cardinality(Uncounted(g, "refuse"))
    <3>1. gateway[g].dropped \in Nat
      BY GatewayNumbers
    <3> QED BY <2>1, <2>2, <3>1
  <2>5. RelayOf(g)' = RelayOf(g)
    BY <1>2, <2>2, <2>3, <2>4 DEF RelayOf
  <2>6. ASSUME NEW h \in Gateways \ {g} PROVE RelayOf(h)' = RelayOf(h)
    BY <1>1, <2>6, SameEntry DEF Uncounted
  <2> QED BY <2>5, <2>6, NoEntry
<1> QED BY <1>3, <1>4, CountEffect

\* A gateway's threads come and go, and none that has something to count.
LEMMA ThreadsRefine ==
  ASSUME NEW g \in Gateways, NEW t, t.pc \notin {"count", "refuse"}, NEW threads,
         threads \in {gateway[g].threads \union {t}, gateway[g].threads \ {t}, gateway[g].threads},
         GatewayThreadsBecome(g, threads), worker' = worker
  PROVE  RelayState' = RelayState
<1>1. /\ gateway'[g].threads = threads
      /\ gateway'[g].received = gateway[g].received /\ gateway'[g].dropped = gateway[g].dropped
      /\ gateway'[g].queue = gateway[g].queue /\ gateway'[g].busy = gateway[g].busy
      /\ gateway'[g].forwarded = gateway[g].forwarded
      /\ gateway'[g].forward_errors = gateway[g].forward_errors
      /\ \A h \in Gateways \ {g} : gateway'[h] = gateway[h]
  BY DEF GatewayThreadsBecome, GatewayBecomes
<1>2. /\ Uncounted(g, "count")' = Uncounted(g, "count")
      /\ Uncounted(g, "refuse")' = Uncounted(g, "refuse")
  BY <1>1, CountedThreads
<1>3. RelayOf(g)' = RelayOf(g)
  BY <1>1, <1>2, SameEntry
<1>4. ASSUME NEW h \in Gateways \ {g} PROVE RelayOf(h)' = RelayOf(h)
  BY <1>1, <1>4, SameEntry DEF Uncounted
<1> QED BY <1>3, <1>4, NoEntry

LEMMA ForwardRefines ==
  ASSUME RelayInv, RelayInv', NEW g \in Gateways, Forward(g)
  PROVE  Relay!Take(g)
<1> USE DEF RelayInv
<1>1. /\ gateway[g].busy = 0 /\ gateway[g].queue # <<>>
      /\ gateway'[g].threads = gateway[g].threads
      /\ gateway'[g].received = gateway[g].received /\ gateway'[g].dropped = gateway[g].dropped
      /\ gateway'[g].queue = Tail(gateway[g].queue) /\ gateway'[g].busy = Head(gateway[g].queue)
      /\ gateway'[g].forwarded = gateway[g].forwarded
      /\ gateway'[g].forward_errors = gateway[g].forward_errors
      /\ worker'[g].requests_total = worker[g].requests_total
      /\ \A h \in Gateways \ {g} : gateway'[h] = gateway[h] /\ worker'[h] = worker[h]
  BY ForwardEffect DEF GatewayBecomes, WorkerThreadsBecome, WorkerBecomes
<1>2. RelayOf(g)' = [RelayOf(g) EXCEPT !.busy = Head(RelayOf(g).queue), !.queue = Tail(@)]
  <2>1. RelayOf(g) \in RelayEntries /\ RelayOf(g)' \in RelayEntries
    BY EntriesOfInv, EntriesOfInvNext DEF EntriesTyped
  <2>2. /\ Accepted(g)' = Accepted(g)
        /\ Uncounted(g, "count")' = Uncounted(g, "count")
        /\ Uncounted(g, "refuse")' = Uncounted(g, "refuse")
    BY <1>1 DEF Accepted, Uncounted
  <2>3. /\ RelayOf(g)'.accepted = RelayOf(g).accepted
        /\ RelayOf(g)'.refused = RelayOf(g).refused
        /\ RelayOf(g)'.queue = Tail(RelayOf(g).queue)
        /\ RelayOf(g)'.busy = Head(RelayOf(g).queue)
        /\ RelayOf(g)'.forwarded = RelayOf(g).forwarded
        /\ RelayOf(g)'.errors = RelayOf(g).errors
        /\ RelayOf(g)'.processed = RelayOf(g).processed
    BY <1>1, <2>2, EntryFields
  <2>4. RelayOf(g).queue # <<>>
    BY <1>1, EntryFields
  <2> QED BY <2>1, <2>3, <2>4, EntryTake
<1>3. RelayState' = [RelayState EXCEPT ![g] = RelayOf(g)']
  BY <1>1, OneEntry
<1>4. RelayState[g] = RelayOf(g) /\ RelayOf(g).queue = gateway[g].queue /\ RelayOf(g).busy = 0
  BY <1>1 DEF RelayState, RelayOf
<1>5. RelayState' = [RelayState EXCEPT ![g].busy = Head(RelayState[g].queue), ![g].queue = Tail(@)]
  BY <1>2, <1>3, <1>4
<1> QED BY <1>1, <1>4, <1>5 DEF Relay!Take

LEMMA ForwardGivesUpRefines ==
  ASSUME RelayInv, RelayInv', NEW g \in Gateways, ForwardGivesUp(g)
  PROVE  Relay!Fail(g)
<1> USE DEF RelayInv
<1>1. /\ gateway[g].busy # 0
      /\ gateway'[g].threads = gateway[g].threads
      /\ gateway'[g].received = gateway[g].received /\ gateway'[g].dropped = gateway[g].dropped
      /\ gateway'[g].queue = gateway[g].queue /\ gateway'[g].busy = 0
      /\ gateway'[g].forwarded = gateway[g].forwarded
      /\ gateway'[g].forward_errors = gateway[g].forward_errors + 1
      /\ \A h \in Gateways \ {g} : gateway'[h] = gateway[h]
  BY ForwardGivesUpEffect DEF GatewayBecomes
<1>2. /\ worker'[g].requests_total = worker[g].requests_total
      /\ \A h \in Gateways \ {g} : worker'[h] = worker[h]
  BY ForwardGivesUpEffect DEF WorkerThreadsBecome, WorkerBecomes
<1>3. RelayOf(g)' = [RelayOf(g) EXCEPT !.busy = 0, !.errors = @ + 1]
  <2>1. RelayOf(g) \in RelayEntries /\ RelayOf(g)' \in RelayEntries
    BY EntriesOfInv, EntriesOfInvNext DEF EntriesTyped
  <2>2. /\ Accepted(g)' = Accepted(g)
        /\ Uncounted(g, "count")' = Uncounted(g, "count")
        /\ Uncounted(g, "refuse")' = Uncounted(g, "refuse")
    BY <1>1, <1>2 DEF Accepted, Uncounted
  <2>3. /\ RelayOf(g)'.accepted = RelayOf(g).accepted
        /\ RelayOf(g)'.refused = RelayOf(g).refused
        /\ RelayOf(g)'.queue = RelayOf(g).queue
        /\ RelayOf(g)'.busy = 0
        /\ RelayOf(g)'.forwarded = RelayOf(g).forwarded
        /\ RelayOf(g)'.errors = RelayOf(g).errors + 1
        /\ RelayOf(g)'.processed = RelayOf(g).processed
    BY <1>1, <1>2, <2>2, EntryFields
  <2> QED BY <2>1, <2>3, EntryFail
<1>4. RelayState' = [RelayState EXCEPT ![g] = RelayOf(g)']
  BY <1>1, <1>2, OneEntry
<1>5. RelayState[g] = RelayOf(g) /\ RelayOf(g).busy = gateway[g].busy
  BY DEF RelayState, RelayOf
<1>6. RelayState' = [RelayState EXCEPT ![g].busy = 0, ![g].errors = @ + 1]
  BY <1>3, <1>4, <1>5
<1> QED BY <1>1, <1>5, <1>6 DEF Relay!Fail

LEMMA CountProcessedRefines ==
  ASSUME RelayInv, RelayInv', NEW g \in Gateways, NEW seq \in Sequences, CountProcessed(g, seq)
  PROVE  Relay!Process(g)
<1> USE DEF RelayInv
<1>1. PICK pc \in {"stored", "failed", "plain"} :
        /\ Thread(seq, pc) \in worker[g].threads
        /\ worker'[g].requests_total = worker[g].requests_total + 1
        /\ \A h \in Gateways \ {g} : worker'[h] = worker[h]
  BY CountProcessedEffect DEF WorkerBecomes
<1>2. gateway' = gateway
  BY DEF CountProcessed
<1>3. worker[g].requests_total < Left(g)
  <2>1. Thread(seq, pc) \in Pending(g)
    BY <1>1 DEF Pending, PendingOf, Thread
  <2>2. Cardinality(Pending(g)) # 0
    BY <2>1, AccountsTyped, FS_EmptySet
  <2>3. Left(g) \in Nat
    BY AccountsTyped DEF Left
  <2> QED BY <2>2, <2>3, AccountsTyped DEF WorkerAccounts
<1>4. RelayOf(g)' = [RelayOf(g) EXCEPT !.processed = @ + 1]
  <2>1. RelayOf(g) \in RelayEntries /\ RelayOf(g)' \in RelayEntries
    BY EntriesOfInv, EntriesOfInvNext DEF EntriesTyped
  <2>2. /\ Accepted(g)' = Accepted(g)
        /\ Uncounted(g, "count")' = Uncounted(g, "count")
        /\ Uncounted(g, "refuse")' = Uncounted(g, "refuse")
    BY <1>1, <1>2 DEF Accepted, Uncounted
  <2> QED BY <1>1, <1>2, <2>1, <2>2, EntryFields, EntryProcess
<1>5. RelayState' = [RelayState EXCEPT ![g] = RelayOf(g)']
  BY <1>1, <1>2, OneEntry
<1>6. /\ RelayState[g] = RelayOf(g) /\ RelayOf(g).processed = worker[g].requests_total
      /\ Relay!Taken(g) = Left(g)
  BY DEF RelayState, RelayOf, Relay!Taken, Left
<1>7. RelayState' = [RelayState EXCEPT ![g].processed = @ + 1]
  BY <1>4, <1>5, <1>6
<1> QED BY <1>3, <1>6, <1>7 DEF Relay!Process

LEMMA AnswerForwardRefines ==
  ASSUME RelayInv, RelayInv', NEW g \in Gateways, NEW seq \in Sequences, AnswerForward(g, seq)
  PROVE  Relay!Confirm(g) \/ RelayState' = RelayState
<1> USE DEF RelayInv
<1>1. /\ Thread(seq, "processed") \in worker[g].threads
      /\ \A h \in Gateways : worker'[h].requests_total = worker[h].requests_total
  BY AnswerForwardEffect DEF WorkerThreadsBecome, WorkerBecomes
<1>2. CASE gateway[g].busy = seq
  <2>1. /\ gateway'[g].threads = gateway[g].threads
        /\ gateway'[g].received = gateway[g].received /\ gateway'[g].dropped = gateway[g].dropped
        /\ gateway'[g].queue = gateway[g].queue /\ gateway'[g].busy = 0
        /\ gateway'[g].forwarded = gateway[g].forwarded + 1
        /\ gateway'[g].forward_errors = gateway[g].forward_errors
        /\ \A h \in Gateways \ {g} : gateway'[h] = gateway[h]
    BY <1>2, AnswerForwardEffect DEF GatewayBecomes
  <2>2. gateway[g].forwarded < worker[g].requests_total
    <3>1. Thread(seq, "processed") \in Finished(g)
      BY <1>1 DEF Finished, FinishedOf, Thread
    <3>2. Cardinality(Finished(g)) # 0
      BY <3>1, AccountsTyped, FS_EmptySet
    <3>3. gateway[g].forwarded + Cardinality(Finished(g)) <= worker[g].requests_total
      BY DEF WorkerAccounts
    <3> QED BY <3>2, <3>3, AccountsTyped
  <2>3. RelayOf(g)' = [RelayOf(g) EXCEPT !.busy = 0, !.forwarded = @ + 1]
    <3>1. RelayOf(g) \in RelayEntries /\ RelayOf(g)' \in RelayEntries
      BY EntriesOfInv, EntriesOfInvNext DEF EntriesTyped
    <3>2. /\ Accepted(g)' = Accepted(g)
          /\ Uncounted(g, "count")' = Uncounted(g, "count")
          /\ Uncounted(g, "refuse")' = Uncounted(g, "refuse")
      BY <1>1, <2>1 DEF Accepted, Uncounted
    <3>3. /\ RelayOf(g)'.accepted = RelayOf(g).accepted
          /\ RelayOf(g)'.refused = RelayOf(g).refused
          /\ RelayOf(g)'.queue = RelayOf(g).queue
          /\ RelayOf(g)'.busy = 0
          /\ RelayOf(g)'.forwarded = RelayOf(g).forwarded + 1
          /\ RelayOf(g)'.errors = RelayOf(g).errors
          /\ RelayOf(g)'.processed = RelayOf(g).processed
      BY <1>1, <2>1, <3>2, EntryFields
    <3> QED BY <3>1, <3>3, EntryConfirm
  <2>4. RelayState' = [RelayState EXCEPT ![g] = RelayOf(g)']
    BY <1>1, <2>1, OneEntry
  <2>5. /\ RelayState[g] = RelayOf(g) /\ RelayOf(g).busy = gateway[g].busy
        /\ RelayOf(g).forwarded = gateway[g].forwarded
        /\ RelayOf(g).processed = worker[g].requests_total
    BY DEF RelayState, RelayOf
  <2>6. RelayState' = [RelayState EXCEPT ![g].busy = 0, ![g].forwarded = @ + 1]
    BY <2>3, <2>4, <2>5
  <2>7. seq # 0
    BY DEF Sequences
  <2> QED BY <1>2, <2>2, <2>5, <2>6, <2>7 DEF Relay!Confirm
<1>3. CASE gateway[g].busy # seq
  <2>1. gateway' = gateway
    BY <1>3, AnswerForwardEffect
  <2>2. ASSUME NEW h \in Gateways PROVE RelayOf(h)' = RelayOf(h)
    BY <1>1, <2>1, <2>2, SameEntry DEF Uncounted
  <2> QED BY <2>2, NoEntry
<1> QED BY <1>2, <1>3

LEMMA RelayStarts == PipelineInit => Relay!RelayInit
<1> SUFFICES ASSUME PipelineInit PROVE Relay!RelayInit
  OBVIOUS
<1>1. ASSUME NEW g \in Gateways
      PROVE  RelayOf(g) = [accepted |-> 0, refused |-> 0, queue |-> <<>>, busy |-> 0,
                           forwarded |-> 0, errors |-> 0, processed |-> 0]
  <2>1. Uncounted(g, "count") = {} /\ Uncounted(g, "refuse") = {}
    BY DEF PipelineInit, Uncounted
  <2>2. Cardinality(Uncounted(g, "count")) = 0 /\ Cardinality(Uncounted(g, "refuse")) = 0
    BY <2>1, FS_EmptySet
  <2>3. /\ gateway[g].received = 0 /\ gateway[g].dropped = 0 /\ gateway[g].queue = <<>>
        /\ gateway[g].busy = 0 /\ gateway[g].forwarded = 0 /\ gateway[g].forward_errors = 0
        /\ worker[g].requests_total = 0
    BY DEF PipelineInit
  <2> QED BY <2>2, <2>3 DEF RelayOf, Accepted
<1> QED BY <1>1 DEF RelayState, Relay!RelayInit

\* Every step of the pipeline is a step of the relay or leaves it alone.
LEMMA RelaySteps ==
  ASSUME RelayInv, RelayInv', [PipelineNext]_vars
  PROVE  [Relay!RelayNext]_RelayState
<1> USE DEF RelayInv
<1>1. ASSUME gateway' = gateway,
             \A h \in Gateways : worker'[h].requests_total = worker[h].requests_total
      PROVE  RelayState' = RelayState
  <2>1. ASSUME NEW h \in Gateways PROVE RelayOf(h)' = RelayOf(h)
    BY <1>1, <2>1, SameEntry DEF Uncounted
  <2> QED BY <2>1, NoEntry
<1>2. CASE Generate \/ UNCHANGED vars
  BY <1>1, <1>2 DEF Generate, vars
<1>3. CASE Post
  <2>1. PICK g \in Gateways : g = Destinations[sensor.at]
    BY <1>3, PostEffect
  <2>2. /\ GatewayThreadsBecome(g, gateway[g].threads \union {Thread(sensor.sequence, "admit")})
        /\ worker' = worker /\ Thread(sensor.sequence, "admit").pc = "admit"
    BY <1>3, <2>1, PostEffect DEF Post, Thread
  <2> QED BY <2>2, ThreadsRefine
<1>4. CASE SensorGivesUp
  <2>1. PICK g \in Gateways : g = Destinations[sensor.at]
    BY <1>4, SensorGivesUpEffect
  <2>2. /\ worker' = worker /\ Thread(sensor.sequence, "admit").pc = "admit"
        /\ \E lost \in {{}, {Thread(sensor.sequence, "admit")}} :
             GatewayThreadsBecome(g, gateway[g].threads \ lost)
    BY <1>4, <2>1, SensorGivesUpEffect DEF SensorGivesUp, Thread
  <2>3. PICK threads \in {gateway[g].threads \ {Thread(sensor.sequence, "admit")},
                          gateway[g].threads} : GatewayThreadsBecome(g, threads)
    <3>1. gateway[g].threads \ {} = gateway[g].threads
      OBVIOUS
    <3> QED BY <2>2, <3>1
  <2> QED BY <2>2, <2>3, ThreadsRefine
<1>5. CASE RestartStorage
  BY <1>1, <1>5, RestartEffect DEF RestartStorage
<1>6. ASSUME NEW g \in Gateways, Forward(g) \/ ForwardGivesUp(g) PROVE Relay!RelayNext
  BY <1>6, ForwardRefines, ForwardGivesUpRefines DEF Relay!RelayNext
<1>7. ASSUME NEW g \in Gateways, NEW seq \in Sequences, Serve(g, seq)
      PROVE  [Relay!RelayNext]_RelayState
  <2>1. worker' = worker
    BY <1>7 DEF Serve
  <2>2. CASE Admit(g, seq)
    BY <2>1, <2>2, AdmitRefines DEF Relay!RelayNext
  <2>3. CASE Count(g, seq)
    BY <2>1, <2>3, CountRefines
  <2>4. CASE AnswerSensor(g, seq)
    <3>1. PICK pc \in {"accepted", "refused"} :
            GatewayThreadsBecome(g, gateway[g].threads \ {Thread(seq, pc)})
      BY <2>4, AnswerSensorEffect
    <3>2. Thread(seq, pc).pc \notin {"count", "refuse"}
      BY DEF Thread
    <3> QED BY <2>1, <3>1, <3>2, ThreadsRefine
  <2> QED BY <1>7, <2>2, <2>3, <2>4 DEF Serve
<1>8. ASSUME NEW g \in Gateways, NEW seq \in Sequences, CountProcessed(g, seq)
      PROVE  Relay!RelayNext
  BY <1>8, CountProcessedRefines DEF Relay!RelayNext
<1>9. ASSUME NEW g \in Gateways, NEW seq \in Sequences, AnswerForward(g, seq)
      PROVE  [Relay!RelayNext]_RelayState
  BY <1>9, AnswerForwardRefines DEF Relay!RelayNext
<1>10. ASSUME NEW g \in Gateways, NEW seq \in Sequences, NEW from,
              NEW to \in {"process", "posting", "plain", "stored", "failed", "processed"},
              Goes(g, seq, from, to), gateway' = gateway
       PROVE  RelayState' = RelayState
  BY <1>1, <1>10, GoesEffect DEF WorkerThreadsBecome, WorkerBecomes
<1>11. ASSUME NEW g \in Gateways, NEW seq \in Sequences,
              Process(g, seq) \/ ServeSummary(g, seq) \/ SummaryGivesUp(g, seq)
       PROVE  RelayState' = RelayState
  <2>1. CASE gateway' = gateway /\ worker' = worker
    BY <1>1, <2>1
  <2> QED BY <1>10, <1>11, <2>1 DEF Process, ServeSummary, InsertSummary, CountRecord, Confirm,
        SummaryGivesUp
<1> QED
  BY <1>2, <1>3, <1>4, <1>5, <1>6, <1>7, <1>8, <1>9, <1>11 DEF PipelineNext, Handle

\* The pipeline implements the relay, whatever overlaps or times out: a gateway loses
\* nothing it admitted and counts as forwarded only what its worker has processed
\* (do_POST and forward_loop of a gateway, do_POST of a worker).
THEOREM PipelineRefinesRelay == PipelineSpec => RelayImplemented
<1>1. PipelineInit => RelayInv /\ Relay!RelayInit
  BY InvInit, RelayStarts
<1>2. RelayInv /\ [PipelineNext]_vars => RelayInv' /\ [Relay!RelayNext]_RelayState
  BY InvStep, RelaySteps
<1> QED BY <1>1, <1>2, PTL DEF PipelineSpec, RelayImplemented, Relay!RelaySpec

-----------------------------------------------------------------------------
(* What the pipeline has from the relay it implements: BoundedRelayProofs'    *)
(* theorems, carried over along the refinement.                               *)

Promise == INSTANCE BoundedRelayProofs WITH
  Capacity <- QueueSize, Payloads <- Sequences, relay <- RelayState

LEMMA Parameters == Promise!ParametersSound
BY SizesAssumption DEF Promise!ParametersSound, Sequences

LEMMA RelayPromised == PipelineSpec => Promise!RelaySpec
<1>1. Relay!RelayInit => Promise!RelayInit
  BY DEF Relay!RelayInit, Promise!RelayInit
<1>2. Relay!RelayNext => Promise!RelayNext
  BY DEF Relay!RelayNext, Relay!Accept, Relay!Refuse, Relay!Take, Relay!Process, Relay!Confirm,
         Relay!Fail, Relay!Taken, Promise!RelayNext, Promise!Accept, Promise!Refuse,
         Promise!Take, Promise!Process, Promise!Confirm, Promise!Fail, Promise!Taken
<1> QED
  BY <1>1, <1>2, PipelineRefinesRelay, PTL DEF RelayImplemented, Relay!RelaySpec, Promise!RelaySpec

\* No payload a gateway's threads put into its queue is lost: it is in the queue, in the
\* hands of the forward loop, or counted as forwarded or failed (edge-gateway's
\* forward_loop and do_POST).
THEOREM NothingLost == PipelineSpec => []Relay!Conserved
<1>1. Promise!ParametersSound /\ Promise!RelaySpec => []Promise!Conserved
  BY Promise!RelayConserves
<1>2. Promise!Conserved => Relay!Conserved
  BY DEF Promise!Conserved, Relay!Conserved, Promise!Taken, Relay!Taken
<1> QED BY <1>1, <1>2, Parameters, RelayPromised, PTL

\* What a gateway counts as forwarded its worker has processed, and a worker never
\* processes more than its gateway has sent (forward_loop counts after the answer).
THEOREM ForwardedIsProcessed == PipelineSpec => []Relay!ForwardedProcessed
<1>1. Promise!ParametersSound /\ Promise!RelaySpec => []Promise!ForwardedProcessed
  BY Promise!RelayReportsProcessed
<1>2. Promise!ForwardedProcessed => Relay!ForwardedProcessed
  BY DEF Promise!ForwardedProcessed, Relay!ForwardedProcessed, Promise!Taken, Relay!Taken
<1> QED BY <1>1, <1>2, Parameters, RelayPromised, PTL

-----------------------------------------------------------------------------
(* Nobody gave up on the route of g: one call at a time is under way on each  *)
(* of its hops, and payloads go through it in the order of their numbers.     *)

\* The only thread of g serves the call the sensor waits for.
OneServed(g) == \A t \in gateway[g].threads : Awaits(g, t.seq)

\* The only thread of the worker serves the call the forward loop waits for.
OneForwarded(g) ==
  \A t \in worker[g].threads :
    t.seq = gateway[g].busy /\ \A u \in worker[g].threads : u = t

\* The queue grows, and what it holds comes after what left it.
QueueInOrder(last, busy, queue) ==
  /\ busy # 0 => last <= busy
  /\ \A i \in DOMAIN queue : last < queue[i] /\ busy < queue[i]
  /\ \A i, j \in DOMAIN queue : i < j => queue[i] < queue[j]

\* Nothing after n has come into the queue.
UpTo(last, busy, queue, n) == last <= n /\ busy <= n /\ \A i \in DOMAIN queue : queue[i] <= n

\* The sensor's present payload has yet to come into the queue of g.
YetToCome(g) ==
  \E i \in DOMAIN Destinations :
    /\ sensor.at # 0 /\ Destinations[i] = g
    /\ \/ i > sensor.at
       \/ i = sensor.at /\ (~sensor.waiting \/ At(g, sensor.sequence, "admit"))

Ordered(g) == QueueInOrder(worker[g].last_sequence, gateway[g].busy, gateway[g].queue)
Through(g, n) == UpTo(worker[g].last_sequence, gateway[g].busy, gateway[g].queue, n)

InOrder(g) ==
  /\ OneServed(g) /\ OneForwarded(g) /\ Ordered(g)
  /\ Through(g, sensor.sequence)
  /\ YetToCome(g) => Through(g, sensor.sequence - 1)

OrderInv == RelayInv /\ \A g \in Gateways \ late : InOrder(g)

-----------------------------------------------------------------------------
(* Queues in order.                                                           *)

LEMMA AppendInOrder ==
  ASSUME NEW q \in Seq(Nat), NEW last \in Nat, NEW busy \in Nat, NEW n \in Nat,
         QueueInOrder(last, busy, q), UpTo(last, busy, q, n - 1)
  PROVE  QueueInOrder(last, busy, Append(q, n)) /\ UpTo(last, busy, Append(q, n), n)
<1>1. /\ DOMAIN Append(q, n) = 1..Len(q) + 1 /\ DOMAIN q = 1..Len(q) /\ Len(q) \in Nat
      /\ \A i \in 1..Len(q) : Append(q, n)[i] = q[i] /\ q[i] \in Nat
      /\ Append(q, n)[Len(q) + 1] = n
  OBVIOUS
<1>2. ASSUME NEW i \in DOMAIN Append(q, n)
      PROVE  i \in 1..Len(q) \/ i = Len(q) + 1
  BY <1>1
<1>3. \A i \in DOMAIN Append(q, n) :
        last < Append(q, n)[i] /\ busy < Append(q, n)[i] /\ Append(q, n)[i] <= n
  BY <1>1, <1>2 DEF QueueInOrder, UpTo
<1>4. ASSUME NEW i \in DOMAIN Append(q, n), NEW j \in DOMAIN Append(q, n), i < j
      PROVE  Append(q, n)[i] < Append(q, n)[j]
  <2>1. CASE j \in 1..Len(q)
    <3>1. i \in 1..Len(q)
      BY <1>1, <1>4, <2>1
    <3> QED BY <1>1, <1>4, <2>1, <3>1 DEF QueueInOrder
  <2>2. CASE j = Len(q) + 1
    <3>1. i \in 1..Len(q)
      BY <1>1, <1>4, <2>2
    <3> QED BY <1>1, <2>2, <3>1 DEF UpTo
  <2> QED BY <1>2, <2>1, <2>2
<1>5. (busy # 0 => last <= busy) /\ last <= n /\ busy <= n
  BY DEF QueueInOrder, UpTo
<1> QED BY <1>3, <1>4, <1>5 DEF QueueInOrder, UpTo

LEMMA TailInOrder ==
  ASSUME NEW q \in Seq(Nat), q # <<>>, NEW last \in Nat, NEW n \in Int,
         QueueInOrder(last, 0, q)
  PROVE  /\ QueueInOrder(last, Head(q), Tail(q))
         /\ UpTo(last, 0, q, n) => UpTo(last, Head(q), Tail(q), n)
<1>1. /\ DOMAIN q = 1..Len(q) /\ DOMAIN Tail(q) = 1..Len(q) - 1 /\ Len(q) \in Nat \ {0}
      /\ \A i \in 1..Len(q) - 1 : Tail(q)[i] = q[i + 1] /\ i + 1 \in 1..Len(q) /\ 1 < i + 1
      /\ Head(q) = q[1] /\ 1 \in 1..Len(q) /\ \A i \in 1..Len(q) : q[i] \in Nat
  OBVIOUS
<1>2. \A i \in DOMAIN Tail(q) : last < Tail(q)[i] /\ Head(q) < Tail(q)[i]
  BY <1>1 DEF QueueInOrder
<1>3. ASSUME NEW i \in DOMAIN Tail(q), NEW j \in DOMAIN Tail(q), i < j
      PROVE  Tail(q)[i] < Tail(q)[j]
  <2>1. i + 1 \in DOMAIN q /\ j + 1 \in DOMAIN q /\ i + 1 < j + 1
    BY <1>1, <1>3, SMTT(40)
  <2> QED BY <1>1, <1>3, <2>1, SMTT(40) DEF QueueInOrder
<1>4. last <= Head(q)
  BY <1>1 DEF QueueInOrder
<1>5. UpTo(last, 0, q, n) => UpTo(last, Head(q), Tail(q), n)
  BY <1>1 DEF UpTo
<1> QED BY <1>2, <1>3, <1>4, <1>5 DEF QueueInOrder

-----------------------------------------------------------------------------
(* What the steps leave alone.                                                *)

\* Sensor, queue, busy and last sequence number as they were.
LEMMA Quiet ==
  ASSUME NEW g \in Gateways, InOrder(g), sensor' = sensor,
         gateway'[g].threads = gateway[g].threads, gateway'[g].busy = gateway[g].busy,
         gateway'[g].queue = gateway[g].queue,
         worker'[g].last_sequence = worker[g].last_sequence, OneForwarded(g)'
  PROVE  InOrder(g)'
<1>1. OneServed(g)'
  BY DEF InOrder, OneServed, Awaits
<1>2. YetToCome(g)' <=> YetToCome(g)
  BY DEF YetToCome, At
<1>3. Ordered(g)' /\ Through(g, sensor.sequence)'
  BY DEF InOrder, Ordered, Through
<1>4. YetToCome(g) => Through(g, sensor.sequence - 1)'
  BY DEF InOrder, Through
<1> QED BY <1>1, <1>2, <1>3, <1>4 DEF InOrder

\* The worker's only thread goes on.
LEMMA OnlyThreadGoes ==
  ASSUME NEW g \in Gateways, OneForwarded(g), NEW seq, NEW from, NEW to,
         Thread(seq, from) \in worker[g].threads,
         worker'[g].threads = Step(worker[g].threads, seq, from, to),
         gateway'[g].busy = gateway[g].busy
  PROVE  OneForwarded(g)' /\ seq = gateway[g].busy
<1>1. worker[g].threads = {Thread(seq, from)} /\ Thread(seq, from).seq = gateway[g].busy
  BY DEF OneForwarded
<1>2. worker'[g].threads = {Thread(seq, to)}
  BY <1>1 DEF Step
<1> QED BY <1>1, <1>2 DEF OneForwarded, Thread

\* A gateway's thread goes on and has not to put anything into the queue any more.
LEMMA ServedGoes ==
  ASSUME Typed, NEW g \in Gateways, InOrder(g), NEW seq, NEW from, NEW to, to # "admit",
         sensor' = sensor, worker' = worker, Thread(seq, from) \in gateway[g].threads,
         gateway'[g].threads = Step(gateway[g].threads, seq, from, to),
         gateway'[g].busy = gateway[g].busy
  PROVE  /\ OneServed(g)' /\ OneForwarded(g)'
         /\ YetToCome(g)' => YetToCome(g)
         /\ gateway'[g].queue = gateway[g].queue => InOrder(g)'
<1>1. Thread(seq, from).seq = seq /\ Thread(seq, to).seq = seq /\ Thread(seq, to).pc = to
  BY DEF Thread
<1>2. OneServed(g)'
  BY <1>1 DEF InOrder, OneServed, Awaits, Step
<1>3. OneForwarded(g)'
  BY DEF InOrder, OneForwarded
<1>4. At(g, sensor.sequence, "admit")' => At(g, sensor.sequence, "admit")
  BY <1>1 DEF At, Step, Thread
<1>5. YetToCome(g)' => YetToCome(g)
  BY <1>4 DEF YetToCome
<1>6. ASSUME gateway'[g].queue = gateway[g].queue PROVE InOrder(g)'
  <2>1. Ordered(g)' /\ Through(g, sensor.sequence)'
    BY <1>6 DEF InOrder, Ordered, Through
  <2>2. YetToCome(g) => Through(g, sensor.sequence - 1)'
    BY <1>6 DEF InOrder, Through
  <2> QED BY <1>2, <1>3, <1>5, <2>1, <2>2 DEF InOrder
<1> QED BY <1>2, <1>3, <1>5, <1>6

\* The sensor goes on to the next destination, and nothing of it is served at g.
LEMMA SensorGoesOn ==
  ASSUME RelayInv, NEW g \in Gateways, InOrder(g), sensor.waiting, NEW ok \in BOOLEAN,
         sensor' = Recorded(ok), gateway'[g].threads = {}, gateway'[g].busy = gateway[g].busy,
         gateway'[g].queue = gateway[g].queue, worker' = worker
  PROVE  InOrder(g)'
<1>1. /\ sensor'.sequence = sensor.sequence
      /\ sensor'.at = IF sensor.at = Len(Destinations) THEN 0 ELSE sensor.at + 1
      /\ sensor.at \in Nat \ {0}
  BY RecordedTyped DEF RelayInv, Typed, SensorPosts, Sensors
<1>2. OneServed(g)'
  BY DEF OneServed
<1>3. OneForwarded(g)'
  BY DEF InOrder, OneForwarded
<1>4. YetToCome(g)' => YetToCome(g)
  <2>1. ASSUME NEW i \in DOMAIN Destinations, sensor'.at # 0, i >= sensor'.at PROVE i > sensor.at
    BY <1>1, <2>1, DestinationsAssumption
  <2>2. ASSUME NEW i \in DOMAIN Destinations, sensor'.at # 0, i > sensor'.at \/ i = sensor'.at
        PROVE  i >= sensor'.at
    BY <1>1, <2>2, DestinationsAssumption
  <2> QED BY <1>1, <2>1, <2>2 DEF YetToCome
<1>5. Ordered(g)' /\ Through(g, sensor.sequence)'
  BY <1>1 DEF InOrder, Ordered, Through
<1>6. YetToCome(g) => Through(g, sensor.sequence - 1)'
  BY <1>1 DEF InOrder, Through
<1> QED BY <1>1, <1>2, <1>3, <1>4, <1>5, <1>6 DEF InOrder

-----------------------------------------------------------------------------
(* Every step keeps the order.                                                *)

LEMMA Numbers ==
  ASSUME Typed, NEW g \in Gateways
  PROVE  /\ sensor.at \in Nat /\ sensor.sequence \in Nat /\ gateway[g].busy \in Nat
         /\ gateway[g].queue \in Seq(Nat) /\ gateway[g].queue \in Seq(Sequences)
         /\ worker[g].last_sequence \in Nat
         /\ worker[g].threads \subseteq WorkerThreads
<1>1. /\ sensor.at \in Nat /\ sensor.sequence \in Nat /\ gateway[g].busy \in Nat
      /\ gateway[g].queue \in Seq(Sequences) /\ worker[g].last_sequence \in Nat
      /\ worker[g].threads \subseteq WorkerThreads
  BY SizesAssumption, SMTT(40) DEF Typed, Sensors, GatewayStates, WorkerStates
<1>2. gateway[g].queue \in Seq(Nat)
  <2>1. Sequences \subseteq Nat
    BY DEF Sequences
  <2>2. gateway[g].queue \in [1..Len(gateway[g].queue) -> Nat] /\ Len(gateway[g].queue) \in Nat
    BY <1>1, <2>1, LenProperties
  <2> QED BY <2>2, SeqDef
<1> QED BY <1>1, <1>2

LEMMA GenerateOrder ==
  ASSUME RelayInv, NEW g \in Gateways, InOrder(g), Generate
  PROVE  InOrder(g)'
<1>1. /\ sensor'.sequence = sensor.sequence + 1 /\ ~sensor.waiting
      /\ gateway' = gateway /\ worker' = worker
  BY DEF Generate, RelayInv, Typed, Sensors, SensorPosts
<1>2. OneServed(g)' /\ OneForwarded(g)' /\ Ordered(g)'
  BY <1>1 DEF InOrder, OneServed, Awaits, OneForwarded, Ordered
<1>3. Through(g, sensor.sequence - 1)' /\ Through(g, sensor.sequence)'
  <2>1. /\ worker[g].last_sequence \in Nat /\ gateway[g].busy \in Nat /\ sensor.sequence \in Nat
        /\ \A i \in DOMAIN gateway[g].queue : gateway[g].queue[i] \in Nat
    BY Numbers DEF RelayInv
  <2> QED BY <1>1, <2>1 DEF InOrder, Through, UpTo
<1> QED BY <1>2, <1>3 DEF InOrder

LEMMA PostOrder ==
  ASSUME RelayInv, NEW g \in Gateways, InOrder(g), Post
  PROVE  InOrder(g)'
<1>1. PICK p \in Gateways : p = Destinations[sensor.at]
  BY PostEffect DEF RelayInv
<1>2. /\ gateway'[p].threads = gateway[p].threads \union {Thread(sensor.sequence, "admit")}
      /\ gateway'[p].queue = gateway[p].queue /\ gateway'[p].busy = gateway[p].busy
      /\ \A h \in Gateways \ {p} : gateway'[h] = gateway[h]
      /\ sensor'.at = sensor.at /\ sensor'.sequence = sensor.sequence /\ sensor'.waiting
      /\ ~sensor.waiting /\ worker' = worker
  BY <1>1, PostEffect DEF RelayInv, GatewayThreadsBecome, GatewayBecomes, Post
<1>3. gateway[g].threads = {}
  BY <1>2 DEF InOrder, OneServed, Awaits
<1>4. OneServed(g)'
  BY <1>1, <1>2, <1>3 DEF OneServed, Awaits, Thread
<1>5. OneForwarded(g)' /\ Ordered(g)' /\ Through(g, sensor.sequence)'
  BY <1>2 DEF InOrder, OneForwarded, Ordered, Through
<1>6. YetToCome(g)' => YetToCome(g)
  BY <1>2 DEF YetToCome
<1>7. YetToCome(g) => Through(g, sensor.sequence - 1)'
  BY <1>2 DEF InOrder, Through
<1> QED BY <1>4, <1>5, <1>6, <1>7 DEF InOrder

LEMMA SensorGivesUpOrder ==
  ASSUME RelayInv, NEW g \in Gateways \ late', InOrder(g), SensorGivesUp
  PROVE  InOrder(g)'
<1>1. PICK p \in Gateways : p = Destinations[sensor.at]
  BY SensorGivesUpEffect DEF RelayInv
<1>2. g # p /\ gateway'[g] = gateway[g] /\ worker' = worker
      /\ sensor.waiting /\ sensor' = Recorded(FALSE)
  BY <1>1, SensorGivesUpEffect DEF RelayInv, GatewayThreadsBecome, GatewayBecomes, SensorGivesUp
<1>3. gateway'[g].threads = {}
  BY <1>1, <1>2 DEF InOrder, OneServed, Awaits
<1> QED BY <1>2, <1>3, SensorGoesOn

LEMMA ServeOrder ==
  ASSUME RelayInv, NEW g \in Gateways, InOrder(g),
         NEW h \in Gateways, NEW seq \in Sequences, Serve(h, seq)
  PROVE  InOrder(g)'
<1>1. worker' = worker /\ Typed
  BY DEF Serve, RelayInv
<1>2. ASSUME sensor' = sensor, gateway'[g] = gateway[g] PROVE InOrder(g)'
  BY <1>1, <1>2, Quiet DEF InOrder, OneForwarded
<1>3. CASE Admit(h, seq) /\ UNCHANGED sensor
  <2>1. CASE g # h
    BY <1>1, <1>2, <1>3, <2>1, AdmitEffect DEF GatewayThreadsBecome, GatewayBecomes
  <2>2. CASE g = h /\ Len(gateway[g].queue) < QueueSize
    <3>1. /\ Thread(seq, "admit") \in gateway[g].threads
          /\ gateway'[g].threads = Step(gateway[g].threads, seq, "admit", "count")
          /\ gateway'[g].queue = Append(gateway[g].queue, seq)
          /\ gateway'[g].busy = gateway[g].busy
      BY <1>1, <1>3, <2>2, AdmitEffect DEF GatewayThreadsBecome, GatewayBecomes
    <3>2. sensor.waiting /\ sensor.sequence = seq /\ Destinations[sensor.at] = g
      BY <3>1 DEF InOrder, OneServed, Awaits, Thread
    <3>3. YetToCome(g)
      <4>1. sensor.at \in DOMAIN Destinations /\ sensor.at # 0
        BY <3>2 DEF RelayInv, SensorPosts
      <4> QED BY <3>1, <3>2, <4>1 DEF YetToCome, At
    <3>4. OneServed(g)' /\ OneForwarded(g)'
      BY <1>1, <1>3, <3>1, ServedGoes
    <3>5. Ordered(g)' /\ Through(g, sensor.sequence)'
      <4>1. Ordered(g) /\ Through(g, seq - 1)
        BY <3>2, <3>3 DEF InOrder
      <4>2. seq \in Nat
        BY DEF Sequences
      <4> DEFINE l == worker[g].last_sequence
                 b == gateway[g].busy
                 q == gateway[g].queue
      <4>3. QueueInOrder(l, b, q) /\ UpTo(l, b, q, seq - 1)
        BY <4>1 DEF Ordered, Through
      <4>4. l \in Nat /\ b \in Nat /\ q \in Seq(Nat)
        BY <1>1, Numbers
      <4>5. QueueInOrder(l, b, Append(q, seq)) /\ UpTo(l, b, Append(q, seq), seq)
        <5> HIDE DEF l, b, q
        <5> QED BY <4>2, <4>3, <4>4, AppendInOrder
      <4> QED BY <1>1, <1>3, <3>1, <3>2, <4>5 DEF Ordered, Through
    <3>6. ~YetToCome(g)'
      <4>1. Thread(seq, "admit") \notin gateway'[g].threads
        BY <3>1 DEF Step, Thread
      <4>2. \A i \in DOMAIN Destinations : Destinations[i] = g => i = sensor.at
        BY <3>2, DestinationsAssumption DEF RelayInv, SensorPosts
      <4>3. sensor.at \in Nat
        BY <1>1, Numbers
      <4> QED BY <1>3, <3>2, <4>1, <4>2, <4>3 DEF YetToCome, At
    <3> QED BY <3>4, <3>5, <3>6 DEF InOrder
  <2>3. CASE g = h /\ ~(Len(gateway[g].queue) < QueueSize)
    <3>1. /\ Thread(seq, "admit") \in gateway[g].threads
          /\ gateway'[g].threads = Step(gateway[g].threads, seq, "admit", "refuse")
          /\ gateway'[g].queue = gateway[g].queue
          /\ gateway'[g].busy = gateway[g].busy
      BY <1>1, <1>3, <2>3, AdmitEffect DEF GatewayThreadsBecome, GatewayBecomes
    <3> QED BY <1>1, <1>3, <3>1, ServedGoes
  <2> QED BY <2>1, <2>2, <2>3
<1>4. CASE Count(h, seq) /\ UNCHANGED sensor
  <2>1. CASE g # h
    BY <1>1, <1>2, <1>4, <2>1, CountEffect DEF GatewayBecomes
  <2>2. CASE g = h
    <3>1. \E from \in {"count", "refuse"}, to \in {"accepted", "refused"} :
            /\ Thread(seq, from) \in gateway[g].threads
            /\ gateway'[g].threads = Step(gateway[g].threads, seq, from, to)
            /\ gateway'[g].queue = gateway[g].queue
            /\ gateway'[g].busy = gateway[g].busy
      BY <1>1, <1>4, <2>2, CountEffect DEF GatewayBecomes
    <3> QED BY <1>1, <1>4, <3>1, ServedGoes
  <2> QED BY <2>1, <2>2
<1>5. CASE AnswerSensor(h, seq)
  <2>1. PICK pc \in {"accepted", "refused"} :
          /\ Thread(seq, pc) \in gateway[h].threads
          /\ GatewayThreadsBecome(h, gateway[h].threads \ {Thread(seq, pc)})
          /\ sensor' = IF Awaits(h, seq) THEN Recorded(pc = "accepted") ELSE sensor
    BY <1>1, <1>5, AnswerSensorEffect
  <2>2. CASE Awaits(h, seq)
    <3>1. gateway'[g].threads = {}
      <4>1. CASE g # h
        <5>1. gateway'[g] = gateway[g]
          BY <2>1, <4>1 DEF GatewayThreadsBecome, GatewayBecomes
        <5> QED BY <2>2, <4>1, <5>1 DEF Awaits, InOrder, OneServed
      <4>2. CASE g = h
        <5>1. \A t \in gateway[g].threads : t.seq = seq
          BY <2>2 DEF Awaits, InOrder, OneServed
        <5>2. \A t \in gateway[g].threads : t = Thread(seq, pc)
          BY <2>1, <4>2, <5>1 DEF RelayInv, ThreadsUnique, Thread
        <5> QED BY <2>1, <4>2, <5>2 DEF GatewayThreadsBecome, GatewayBecomes
      <4> QED BY <4>1, <4>2
    <3>2. gateway'[g].busy = gateway[g].busy /\ gateway'[g].queue = gateway[g].queue
      BY <2>1 DEF GatewayThreadsBecome, GatewayBecomes
    <3>3. sensor.waiting /\ sensor' = Recorded(pc = "accepted") /\ (pc = "accepted") \in BOOLEAN
      BY <2>1, <2>2 DEF Awaits
    <3> QED BY <1>1, <3>1, <3>2, <3>3, SensorGoesOn
  <2>3. CASE ~Awaits(h, seq)
    <3>1. g # h
      BY <2>1, <2>3 DEF InOrder, OneServed, Thread
    <3>2. sensor' = sensor /\ gateway'[g] = gateway[g]
      BY <2>1, <2>3, <3>1 DEF GatewayThreadsBecome, GatewayBecomes
    <3> QED BY <1>2, <3>2
  <2> QED BY <2>2, <2>3
<1> QED BY <1>3, <1>4, <1>5 DEF Serve

LEMMA ForwardOrder ==
  ASSUME RelayInv, NEW g \in Gateways, InOrder(g), NEW h \in Gateways, Forward(h)
  PROVE  InOrder(g)'
<1> DEFINE q == gateway[g].queue
<1>1. sensor' = sensor /\ Typed
  BY DEF Forward, RelayInv
<1>2. CASE g # h
  <2>1. gateway'[g] = gateway[g] /\ worker'[g] = worker[g]
    BY <1>1, <1>2, ForwardEffect
    DEF GatewayBecomes, WorkerThreadsBecome, WorkerBecomes
  <2> QED BY <1>1, <2>1, Quiet DEF InOrder, OneForwarded
<1>3. CASE g = h
  <2>1. /\ gateway[g].busy = 0 /\ q # <<>> /\ Head(q) \in Sequences
        /\ gateway'[g].threads = gateway[g].threads /\ gateway'[g].queue = Tail(q)
        /\ gateway'[g].busy = Head(q)
        /\ worker'[g].threads = worker[g].threads \union {Thread(Head(q), "process")}
        /\ worker'[g].last_sequence = worker[g].last_sequence
    BY <1>1, <1>3, ForwardEffect DEF GatewayBecomes, WorkerThreadsBecome, WorkerBecomes
  <2>2. worker[g].threads = {}
    <3>1. \A t \in worker[g].threads : t.seq # 0
      BY <1>1, Numbers DEF WorkerThreads, Sequences
    <3> QED BY <2>1, <3>1 DEF InOrder, OneForwarded
  <2>3. OneForwarded(g)'
    BY <2>1, <2>2 DEF OneForwarded, Thread
  <2>4. OneServed(g)' /\ (YetToCome(g)' <=> YetToCome(g))
    BY <1>1, <2>1 DEF InOrder, OneServed, Awaits, YetToCome, At
  <2>5. /\ Ordered(g)'
        /\ Through(g, sensor.sequence) => Through(g, sensor.sequence)'
        /\ Through(g, sensor.sequence - 1) => Through(g, sensor.sequence - 1)'
    <3> DEFINE l == worker[g].last_sequence
    <3>1. l \in Nat /\ q \in Seq(Nat) /\ q # <<>>
      BY <1>1, <2>1, Numbers
    <3>2. QueueInOrder(l, 0, q)
      BY <2>1 DEF InOrder, Ordered
    <3>3. QueueInOrder(l, Head(q), Tail(q))
      <4> HIDE DEF l, q
      <4> QED BY <3>1, <3>2, TailInOrder
    <3>4. \A n \in Int : UpTo(l, 0, q, n) => UpTo(l, Head(q), Tail(q), n)
      <4> HIDE DEF l, q
      <4> QED BY <3>1, <3>2, TailInOrder
    <3>5. sensor.sequence \in Int /\ sensor.sequence - 1 \in Int
      BY <1>1, Numbers
    <3> QED BY <1>1, <2>1, <3>3, <3>4, <3>5 DEF Ordered, Through
  <2> QED BY <2>3, <2>4, <2>5 DEF InOrder
<1> QED BY <1>2, <1>3

LEMMA ForwardGivesUpOrder ==
  ASSUME RelayInv, NEW g \in Gateways \ late', InOrder(g), NEW h \in Gateways, ForwardGivesUp(h)
  PROVE  InOrder(g)'
<1>1. g # h /\ sensor' = sensor /\ gateway'[g] = gateway[g] /\ worker'[g] = worker[g]
  BY ForwardGivesUpEffect
  DEF RelayInv, GatewayBecomes, WorkerThreadsBecome, WorkerBecomes, ForwardGivesUp
<1> QED BY <1>1, Quiet DEF InOrder, OneForwarded

\* A worker's thread goes on without counting its payload.
LEMMA WorkerGoes ==
  ASSUME RelayInv, NEW g \in Gateways, InOrder(g), NEW h \in Gateways, NEW seq \in Sequences,
         NEW from, NEW to \in {"process", "posting", "plain", "stored", "failed", "processed"},
         Working(h, seq, from), Goes(h, seq, from, to), sensor' = sensor, gateway' = gateway
  PROVE  InOrder(g)'
<1>1. WorkerThreadsBecome(h, Step(worker[h].threads, seq, from, to))
  BY GoesEffect DEF RelayInv
<1>2. worker'[g].last_sequence = worker[g].last_sequence
  BY <1>1 DEF WorkerThreadsBecome, WorkerBecomes
<1>3. OneForwarded(g)'
  <2>1. CASE g # h
    BY <1>1, <2>1 DEF WorkerThreadsBecome, WorkerBecomes, InOrder, OneForwarded
  <2>2. CASE g = h
    BY <1>1, <2>2, OnlyThreadGoes DEF WorkerThreadsBecome, WorkerBecomes, InOrder, Working
  <2> QED BY <2>1, <2>2
<1> QED BY <1>2, <1>3, Quiet

LEMMA CountProcessedOrder ==
  ASSUME RelayInv, NEW g \in Gateways, InOrder(g),
         NEW h \in Gateways, NEW seq \in Sequences, CountProcessed(h, seq)
  PROVE  InOrder(g)' /\ worker'[g].last_sequence >= worker[g].last_sequence
<1>1. PICK pc \in {"stored", "failed", "plain"} :
        /\ Thread(seq, pc) \in worker[h].threads
        /\ worker'[h].threads = Step(worker[h].threads, seq, pc, "processed")
        /\ worker'[h].last_sequence = seq
        /\ \A k \in Gateways \ {h} : worker'[k] = worker[k]
  BY CountProcessedEffect DEF RelayInv, WorkerBecomes
<1>2. sensor' = sensor /\ gateway' = gateway
  BY DEF CountProcessed
<1>3. worker[g].last_sequence \in Nat /\ seq \in Nat \ {0}
  BY Numbers DEF RelayInv, Sequences
<1>4. CASE g # h
  <2>1. worker'[g] = worker[g]
    BY <1>1, <1>4
  <2> QED BY <1>2, <1>3, <2>1, Quiet DEF InOrder, OneForwarded
<1>5. CASE g = h
  <2>1. OneForwarded(g)' /\ seq = gateway[g].busy
    BY <1>1, <1>2, <1>5, OnlyThreadGoes DEF InOrder
  <2>2. worker[g].last_sequence <= seq
    BY <1>3, <2>1 DEF InOrder, Ordered, QueueInOrder
  <2>3. Ordered(g)'
    BY <1>1, <1>2, <1>3, <1>5, <2>1 DEF InOrder, Ordered, QueueInOrder
  <2>4. /\ Through(g, sensor.sequence)'
        /\ Through(g, sensor.sequence - 1) => Through(g, sensor.sequence - 1)'
    BY <1>1, <1>2, <1>5, <2>1 DEF InOrder, Through, UpTo
  <2>5. OneServed(g)' /\ (YetToCome(g)' <=> YetToCome(g))
    BY <1>2 DEF InOrder, OneServed, Awaits, YetToCome, At
  <2>6. InOrder(g)'
    BY <1>2, <2>1, <2>3, <2>4, <2>5 DEF InOrder
  <2> QED BY <1>1, <1>3, <1>5, <2>2, <2>6
<1> QED BY <1>4, <1>5

LEMMA AnswerForwardOrder ==
  ASSUME RelayInv, NEW g \in Gateways, InOrder(g),
         NEW h \in Gateways, NEW seq \in Sequences, AnswerForward(h, seq)
  PROVE  InOrder(g)'
<1>1. sensor' = sensor /\ Typed
  BY DEF AnswerForward, RelayInv
<1>2. CASE g # h
  <2>1. gateway'[g] = gateway[g] /\ worker'[g] = worker[g]
    BY <1>1, <1>2, AnswerForwardEffect
    DEF GatewayBecomes, WorkerThreadsBecome, WorkerBecomes
  <2> QED BY <1>1, <2>1, Quiet DEF InOrder, OneForwarded
<1>3. CASE g = h
  <2>1. /\ Thread(seq, "processed") \in worker[g].threads
        /\ worker'[g].threads = worker[g].threads \ {Thread(seq, "processed")}
        /\ worker'[g].last_sequence = worker[g].last_sequence
    BY <1>1, <1>3, AnswerForwardEffect DEF WorkerThreadsBecome, WorkerBecomes
  <2>2. gateway[g].busy = seq /\ worker'[g].threads = {}
    BY <2>1 DEF InOrder, OneForwarded, Thread
  <2>3. /\ gateway'[g].threads = gateway[g].threads /\ gateway'[g].queue = gateway[g].queue
        /\ gateway'[g].busy = 0
    BY <1>1, <1>3, <2>2, AnswerForwardEffect DEF GatewayBecomes
  <2>4. OneForwarded(g)'
    BY <2>2 DEF OneForwarded
  <2>5. OneServed(g)' /\ (YetToCome(g)' <=> YetToCome(g))
    BY <1>1, <2>3 DEF InOrder, OneServed, Awaits, YetToCome, At
  <2>6. /\ gateway[g].busy \in Nat /\ \A i \in DOMAIN gateway[g].queue : gateway[g].queue[i] \in Nat
        /\ sensor.sequence \in Nat /\ seq \in Nat \ {0}
    BY <1>1, Numbers DEF Sequences
  <2>7. Ordered(g)'
    BY <2>1, <2>2, <2>3, <2>6 DEF InOrder, Ordered, QueueInOrder
  <2>8. /\ Through(g, sensor.sequence)'
        /\ Through(g, sensor.sequence - 1) => Through(g, sensor.sequence - 1)'
    BY <1>1, <2>1, <2>2, <2>3, <2>6 DEF InOrder, Through, UpTo
  <2> QED BY <2>4, <2>5, <2>7, <2>8 DEF InOrder
<1> QED BY <1>2, <1>3

LEMMA RestartOrder ==
  ASSUME RelayInv, NEW g \in Gateways, InOrder(g), RestartStorage
  PROVE  InOrder(g)'
<1>1. /\ worker'[g].threads = {Broken(t) : t \in worker[g].threads}
      /\ worker'[g].last_sequence = worker[g].last_sequence
      /\ sensor' = sensor /\ gateway' = gateway
  BY RestartEffect DEF RelayInv, RestartStorage
<1>2. OneForwarded(g)'
  <2>1. \A t \in WorkerThreads : Broken(t).seq = t.seq
    BY DEF Broken, WorkerThreads
  <2>2. worker[g].threads \subseteq WorkerThreads
    BY Numbers DEF RelayInv
  <2> QED BY <1>1, <2>1, <2>2 DEF InOrder, OneForwarded
<1> QED BY <1>1, <1>2, Quiet

-----------------------------------------------------------------------------

LEMMA OrderInit == PipelineInit => OrderInv
<1> SUFFICES ASSUME PipelineInit, NEW g \in Gateways PROVE InOrder(g)
  BY InvInit DEF OrderInv
<1>1. /\ gateway[g].threads = {} /\ gateway[g].queue = <<>> /\ gateway[g].busy = 0
      /\ worker[g].threads = {} /\ worker[g].last_sequence = 0
      /\ sensor.sequence = 0 /\ sensor.at = 0
  BY DEF PipelineInit
<1>2. OneServed(g) /\ OneForwarded(g) /\ ~YetToCome(g)
  BY <1>1 DEF OneServed, OneForwarded, YetToCome
<1>3. Ordered(g) /\ Through(g, sensor.sequence)
  BY <1>1 DEF Ordered, QueueInOrder, Through, UpTo
<1> QED BY <1>2, <1>3 DEF InOrder

\* Of a route's own steps only CountProcessed changes the last sequence number.
LEMMA LastKept ==
  ASSUME RelayInv, NEW g \in Gateways, NEW h \in Gateways, NEW seq \in Sequences,
         \/ Serve(h, seq) \/ Process(h, seq) \/ AnswerForward(h, seq)
         \/ ServeSummary(h, seq) \/ SummaryGivesUp(h, seq)
  PROVE  worker'[g].last_sequence = worker[g].last_sequence
<1>1. ASSUME NEW th, WorkerThreadsBecome(h, th)
      PROVE  worker'[g].last_sequence = worker[g].last_sequence
  BY <1>1 DEF WorkerThreadsBecome, WorkerBecomes
<1>2. CASE Serve(h, seq)
  BY <1>2 DEF Serve
<1>3. CASE AnswerForward(h, seq)
  BY <1>1, <1>3, AnswerForwardEffect DEF RelayInv
<1>4. CASE Process(h, seq) \/ ServeSummary(h, seq) \/ SummaryGivesUp(h, seq)
  <2>1. \/ worker' = worker
        \/ \E from, to \in {"process", "posting", "plain", "stored", "failed", "processed"} :
             Goes(h, seq, from, to)
    BY <1>4 DEF Process, ServeSummary, InsertSummary, CountRecord, Confirm, SummaryGivesUp
  <2> QED BY <1>1, <2>1, GoesEffect DEF RelayInv
<1> QED BY <1>2, <1>3, <1>4

\* A step keeps the order of every route nobody gave up on.
LEMMA InOrderStep ==
  ASSUME RelayInv, PipelineNext, NEW g \in Gateways \ late', InOrder(g)
  PROVE  InOrder(g)' /\ worker'[g].last_sequence >= worker[g].last_sequence
<1>1. worker[g].last_sequence \in Nat
  BY Numbers DEF RelayInv
<1>2. ASSUME UNCHANGED <<sensor, gateway, worker>> PROVE InOrder(g)'
  BY <1>2, Quiet DEF InOrder, OneForwarded
<1>3. CASE Generate \/ Post \/ SensorGivesUp \/ RestartStorage
  <2>1. InOrder(g)'
    BY <1>3, GenerateOrder, PostOrder, SensorGivesUpOrder, RestartOrder
  <2>2. worker'[g].last_sequence = worker[g].last_sequence
    <3>1. CASE RestartStorage
      BY <3>1, RestartEffect DEF RelayInv
    <3> QED BY <1>3, <3>1 DEF Generate, Post, SensorGivesUp
  <2> QED BY <1>1, <2>1, <2>2
<1>4. ASSUME NEW h \in Gateways, Forward(h) \/ ForwardGivesUp(h)
      PROVE  InOrder(g)' /\ worker'[g].last_sequence >= worker[g].last_sequence
  <2>1. InOrder(g)'
    BY <1>4, ForwardOrder, ForwardGivesUpOrder
  <2>2. worker'[g].last_sequence = worker[g].last_sequence
    BY <1>4, ForwardEffect, ForwardGivesUpEffect
    DEF RelayInv, WorkerThreadsBecome, WorkerBecomes
  <2> QED BY <1>1, <2>1, <2>2
<1>5. ASSUME NEW h \in Gateways, NEW seq \in Sequences,
             \/ Serve(h, seq) \/ Process(h, seq) \/ AnswerForward(h, seq)
             \/ ServeSummary(h, seq) \/ SummaryGivesUp(h, seq)
      PROVE  InOrder(g)' /\ worker'[g].last_sequence >= worker[g].last_sequence
  <2>1. ASSUME Serve(h, seq) PROVE InOrder(g)'
    BY <2>1, ServeOrder
  <2>2. ASSUME AnswerForward(h, seq) PROVE InOrder(g)'
    BY <2>2, AnswerForwardOrder
  <2>3. ASSUME Process(h, seq) PROVE InOrder(g)'
    BY <2>3, WorkerGoes DEF Process
  <2>4. ASSUME SummaryGivesUp(h, seq) PROVE InOrder(g)'
    BY <2>4, WorkerGoes DEF SummaryGivesUp
  <2>5. ASSUME Confirm(h, seq) PROVE InOrder(g)'
    BY <1>2, <2>5, WorkerGoes DEF Confirm
  <2>6. ASSUME InsertSummary(h, seq) \/ CountRecord(h, seq) PROVE InOrder(g)'
    BY <1>2, <2>6 DEF InsertSummary, CountRecord
  <2>7. InOrder(g)'
    BY <1>5, <2>1, <2>2, <2>3, <2>4, <2>5, <2>6 DEF ServeSummary
  <2>8. worker'[g].last_sequence = worker[g].last_sequence
    BY <1>5, LastKept
  <2> QED BY <1>1, <2>7, <2>8
<1>6. ASSUME NEW h \in Gateways, NEW seq \in Sequences, CountProcessed(h, seq)
      PROVE  InOrder(g)' /\ worker'[g].last_sequence >= worker[g].last_sequence
  BY <1>6, CountProcessedOrder
<1> QED BY <1>3, <1>4, <1>5, <1>6 DEF PipelineNext, Handle

\* Only two steps give up on a call, and for good.
LEMMA LateStays ==
  ASSUME [PipelineNext]_vars
  PROVE  /\ late \subseteq late'
         /\ \/ late' = late \/ SensorGivesUp
            \/ \E h \in Gateways : ForwardGivesUp(h)
<1>1. CASE Generate \/ Post \/ RestartStorage \/ UNCHANGED vars
  BY <1>1 DEF Generate, Post, RestartStorage, vars
<1>2. CASE SensorGivesUp
  BY <1>2 DEF SensorGivesUp
<1>3. ASSUME NEW h \in Gateways, ForwardGivesUp(h) PROVE late \subseteq late'
  BY <1>3 DEF ForwardGivesUp
<1>4. ASSUME NEW h \in Gateways, Forward(h) PROVE late' = late
  BY <1>4 DEF Forward
<1>5. ASSUME NEW h \in Gateways, NEW seq \in Sequences,
             Serve(h, seq) \/ Handle(h, seq) \/ ServeSummary(h, seq) \/ SummaryGivesUp(h, seq)
      PROVE  late' = late
  BY <1>5 DEF Serve, Handle, Process, CountProcessed, AnswerForward, ServeSummary,
     InsertSummary, CountRecord, Confirm, SummaryGivesUp
<1> QED BY <1>1, <1>2, <1>3, <1>4, <1>5 DEF PipelineNext

LEMMA OrderStep == OrderInv /\ [PipelineNext]_vars => OrderInv'
<1> SUFFICES ASSUME OrderInv, [PipelineNext]_vars PROVE OrderInv'
  OBVIOUS
<1>1. RelayInv'
  BY InvStep DEF OrderInv
<1>2. ASSUME NEW g \in Gateways \ late' PROVE InOrder(g)'
  <2>1. InOrder(g) /\ RelayInv
    BY LateStays DEF OrderInv
  <2>2. CASE PipelineNext
    BY <2>1, <2>2, InOrderStep
  <2>3. CASE UNCHANGED vars
    BY <2>1, <2>3, Quiet DEF vars, InOrder, OneForwarded
  <2> QED BY <2>2, <2>3
<1> QED BY <1>1, <1>2 DEF OrderInv

\* A worker's last sequence number never goes back on a route where no caller gave up,
\* however many payloads, gateways and restarts of cloud-db there are (telemetry_loop,
\* forward_loop, the worker's do_POST).
THEOREM InOrderUnlessGivenUp == PipelineSpec => LastSequenceGrows
<1> DEFINE Grows ==
      \A g \in Gateways :
        worker'[g].last_sequence >= worker[g].last_sequence \/ g \in late
<1>1. OrderInv /\ [PipelineNext]_vars => [Grows]_vars
  <2> SUFFICES ASSUME OrderInv, PipelineNext, NEW g \in Gateways, g \notin late
               PROVE  worker'[g].last_sequence >= worker[g].last_sequence
    OBVIOUS
  <2>1. RelayInv /\ InOrder(g)
    BY DEF OrderInv
  <2>2. CASE g \notin late'
    BY <2>1, <2>2, InOrderStep
  <2>3. CASE g \in late'
    <3>1. SensorGivesUp \/ \E h \in Gateways : ForwardGivesUp(h)
      BY <2>3, LateStays
    <3>2. worker'[g].last_sequence = worker[g].last_sequence
      <4>1. CASE SensorGivesUp
        BY <4>1 DEF SensorGivesUp
      <4>2. ASSUME NEW h \in Gateways, ForwardGivesUp(h)
            PROVE  worker'[g].last_sequence = worker[g].last_sequence
        BY <2>1, <4>2, ForwardGivesUpEffect DEF RelayInv, WorkerThreadsBecome, WorkerBecomes
      <4> QED BY <3>1, <4>1, <4>2
    <3> QED BY <2>1, <3>2, Numbers DEF RelayInv
  <2> QED BY <2>2, <2>3
<1> QED BY <1>1, OrderInit, OrderStep, PTL DEF PipelineSpec, LastSequenceGrows

-----------------------------------------------------------------------------
(* The summaries. Each payload comes to the worker once, and so to cloud-db:  *)
(* of those it has yet to come to, and of those in the queue, neither has     *)
(* heard.                                                                     *)

StoringThreads == [route : Gateways, seq : Sequences, pc : {"insert", "count", "stored"}]
RowRecords == [route : Gateways, seq : Sequences]
StorageStates ==
  [threads : SUBSET StoringThreads, rows : SUBSET RowRecords, summary_records_total : Nat]

StorageTyped == storage \in StorageStates /\ IsFiniteSet(storage.rows)

RowOf(g, seq) == [route |-> g, seq |-> seq]

\* cloud-db has heard of a payload, or the worker has.
Heard(g, seq) ==
  \/ RowOf(g, seq) \in storage.rows
  \/ \E t \in storage.threads : t.route = g /\ t.seq = seq
Known(g, seq) == Heard(g, seq) \/ \E t \in worker[g].threads : t.seq = seq

\* The payload has yet to come into the queue of g: it is posted to g later, or
\* a thread there has yet to admit it.
Unposted(g, seq) ==
  seq > sensor.sequence \/ (seq = sensor.sequence /\ sensor.at # 0 /\ ~PostedTo(g))
Ahead(g, seq) == At(g, seq, "admit") \/ Unposted(g, seq)

InQueue(g, seq) == \E i \in DOMAIN gateway[g].queue : gateway[g].queue[i] = seq

QueueDistinct ==
  \A g \in Gateways : \A i, j \in DOMAIN gateway[g].queue :
    gateway[g].queue[i] = gateway[g].queue[j] => i = j
NewToWorker == \A g \in Gateways, seq \in Sequences : InQueue(g, seq) => ~Known(g, seq)
NewToQueue ==
  \A g \in Gateways, seq \in Sequences : Ahead(g, seq) => ~Known(g, seq) /\ ~InQueue(g, seq)
NewToStorage ==
  \A g \in Gateways, seq \in Sequences : Working(g, seq, "process") => ~Heard(g, seq)

\* One thread for each payload, at the worker and at cloud-db.
OneWorking == \A g \in Gateways : \A t, u \in worker[g].threads : t.seq = u.seq => t = u
OneStoring ==
  \A t, u \in storage.threads : t.route = u.route /\ t.seq = u.seq => t = u

\* A summary that is being counted, or has been answered for, is a row.
RowsBehind ==
  /\ \A t \in storage.threads : t.pc # "insert" => RowOf(t.route, t.seq) \in storage.rows
  /\ \A g \in Gateways : \A t \in worker[g].threads :
       t.pc = "stored" => RowOf(g, t.seq) \in storage.rows

\* The rows that the worker may have counted, and those that cloud-db may have.
CountableAt(g) ==
  {r \in storage.rows :
     r.route = g /\ \A t \in worker[g].threads : t.seq = r.seq => t.pc \notin {"posting", "stored"}}
Countable ==
  {r \in storage.rows :
     \A t \in storage.threads : t.route = r.route /\ t.seq = r.seq => t.pc = "stored"}

SummaryCounts ==
  /\ \A g \in Gateways : worker[g].summaries_total <= Cardinality(CountableAt(g))
  /\ storage.summary_records_total <= Cardinality(Countable)

OnceInv ==
  /\ StorageTyped /\ QueueDistinct /\ NewToWorker /\ NewToQueue /\ NewToStorage
  /\ OneWorking /\ OneStoring /\ RowsBehind
SummaryInv == RelayInv /\ OnceInv /\ SummaryCounts

\* What was to come into a queue before a step may have come by then, but nothing
\* new is to come.
LEMMA AheadStays ==
  ASSUME RelayInv, [PipelineNext]_vars, NEW g \in Gateways, NEW seq \in Sequences, Ahead(g, seq)'
  PROVE  Ahead(g, seq)
<1>0. /\ Typed /\ SensorPosts /\ ThreadsUnique
      /\ sensor.at \in Nat /\ sensor.sequence \in Nat /\ seq \in Nat
      /\ DOMAIN Destinations = 1..Len(Destinations) /\ Len(Destinations) \in Nat
  BY Numbers, DestinationsAssumption DEF RelayInv, Sequences
<1>1. ASSUME sensor' = sensor, At(g, seq, "admit")' => At(g, seq, "admit") PROVE Ahead(g, seq)
  BY <1>1 DEF Ahead, Unposted, PostedTo
<1>2. ASSUME NEW ok \in BOOLEAN, sensor.waiting, sensor' = Recorded(ok),
             At(g, seq, "admit")' => At(g, seq, "admit")
      PROVE  Ahead(g, seq)
  <2>1. /\ sensor'.sequence = sensor.sequence /\ sensor'.waiting = FALSE
        /\ sensor'.at = IF sensor.at = Len(Destinations) THEN 0 ELSE sensor.at + 1
    BY <1>0, <1>2, RecordedTyped DEF Typed
  <2>2. PostedTo(g) /\ sensor'.at # 0 => PostedTo(g)'
    BY <1>0, <2>1 DEF PostedTo
  <2>3. sensor.at # 0
    BY <1>0, <1>2 DEF SensorPosts
  <2> QED BY <1>2, <2>1, <2>2, <2>3 DEF Ahead, Unposted
<1>3. CASE Generate
  <2>1. gateway' = gateway /\ sensor'.sequence = sensor.sequence + 1
    BY <1>0, <1>3 DEF Generate, Typed, Sensors
  <2>2. seq > sensor.sequence + 1 \/ seq = sensor.sequence + 1 => seq > sensor.sequence
    BY <1>0
  <2> QED BY <2>1, <2>2 DEF Ahead, Unposted, At
<1>4. CASE Post
  <2> DEFINE new == Thread(sensor.sequence, "admit")
  <2>0. PICK p \in Gateways : p = Destinations[sensor.at]
    BY <1>0, <1>4, PostEffect
  <2>1. /\ gateway'[p].threads = gateway[p].threads \union {new}
        /\ \A h \in Gateways \ {p} : gateway'[h] = gateway[h]
        /\ sensor'.at = sensor.at /\ sensor'.sequence = sensor.sequence /\ sensor'.waiting
        /\ sensor.at \in DOMAIN Destinations /\ ~sensor.waiting
        /\ sensor.at # 0
    BY <1>0, <1>4, <2>0, PostEffect, SMTT(40)
       DEF GatewayThreadsBecome, GatewayBecomes, Post
  <2>2. PostedTo(g) => PostedTo(g)'
    BY <2>1 DEF PostedTo
  <2>3. ~PostedTo(p)
    BY <1>0, <2>0, <2>1, DestinationsAssumption DEF PostedTo
  <2>4. At(g, seq, "admit")' => At(g, seq, "admit") \/ (g = p /\ seq = sensor.sequence)
    BY <2>1 DEF At, Thread
  <2> QED BY <2>1, <2>2, <2>3, <2>4 DEF Ahead, Unposted
<1>5. CASE SensorGivesUp
  <2>1. gateway'[g].threads \subseteq gateway[g].threads
    BY <1>0, <1>5, SensorGivesUpEffect DEF GatewayThreadsBecome, GatewayBecomes
  <2>2. At(g, seq, "admit")' => At(g, seq, "admit")
    BY <2>1 DEF At
  <2> QED BY <1>2, <1>5, <2>2 DEF SensorGivesUp
<1>6. ASSUME NEW h \in Gateways, NEW x \in Sequences, Serve(h, x) PROVE Ahead(g, seq)
  <2>0. \A T, from, to : to # "admit" /\ Thread(seq, "admit") \in Step(T, x, from, to) =>
          Thread(seq, "admit") \in T
    BY DEF Step, Thread
  <2>1. CASE Admit(h, x) /\ UNCHANGED sensor
    <3>0. \/ gateway'[g].threads = gateway[g].threads
          \/ \E to \in {"count", "refuse"} :
               gateway'[g].threads = Step(gateway[g].threads, x, "admit", to)
      BY <1>0, <2>1, AdmitEffect DEF GatewayThreadsBecome, GatewayBecomes
    <3>1. At(g, seq, "admit")' => At(g, seq, "admit")
      BY <2>0, <3>0 DEF At
    <3> QED BY <1>1, <2>1, <3>1
  <2>2. CASE Count(h, x) /\ UNCHANGED sensor
    <3>0. \/ gateway'[g].threads = gateway[g].threads
          \/ gateway'[g].threads = Step(gateway[g].threads, x, "count", "accepted")
          \/ gateway'[g].threads = Step(gateway[g].threads, x, "refuse", "refused")
      BY <1>0, <2>2, CountEffect DEF GatewayBecomes
    <3>1. At(g, seq, "admit")' => At(g, seq, "admit")
      BY <2>0, <3>0 DEF At
    <3> QED BY <1>1, <2>2, <3>1
  <2>3. CASE AnswerSensor(h, x)
    <3>1. At(g, seq, "admit")' => At(g, seq, "admit")
      BY <1>0, <2>3, AnswerSensorEffect DEF GatewayThreadsBecome, GatewayBecomes, At
    <3>2. CASE Awaits(h, x)
      BY <1>0, <1>2, <2>3, <3>1, <3>2, AnswerSensorEffect DEF Awaits
    <3>3. CASE ~Awaits(h, x)
      BY <1>1, <2>3, <3>1, <3>3 DEF AnswerSensor
    <3> QED BY <3>2, <3>3
  <2> QED BY <1>6, <2>1, <2>2, <2>3 DEF Serve
<1>7. ASSUME NEW h \in Gateways, Forward(h) \/ ForwardGivesUp(h) PROVE Ahead(g, seq)
  <2>1. gateway'[g].threads = gateway[g].threads
    BY <1>0, <1>7, ForwardEffect, ForwardGivesUpEffect DEF GatewayBecomes
  <2> QED BY <1>1, <1>7, <2>1 DEF Forward, ForwardGivesUp, At
<1>8. ASSUME NEW h \in Gateways, NEW x \in Sequences, AnswerForward(h, x) PROVE Ahead(g, seq)
  <2>1. gateway'[g].threads = gateway[g].threads
    BY <1>0, <1>8, AnswerForwardEffect DEF GatewayBecomes
  <2> QED BY <1>1, <1>8, <2>1 DEF AnswerForward, At
<1>9. ASSUME UNCHANGED <<sensor, gateway>> PROVE Ahead(g, seq)
  BY <1>1, <1>9 DEF At
<1>10. ASSUME NEW h \in Gateways, NEW x \in Sequences,
              \/ Process(h, x) \/ CountProcessed(h, x)
              \/ ServeSummary(h, x) \/ SummaryGivesUp(h, x)
       PROVE  Ahead(g, seq)
  <2>1. UNCHANGED <<sensor, gateway>>
    BY <1>10 DEF Process, CountProcessed, ServeSummary, InsertSummary, CountRecord, Confirm,
         SummaryGivesUp
  <2> QED BY <1>9, <2>1
<1>11. CASE RestartStorage \/ UNCHANGED vars
  BY <1>9, <1>11 DEF RestartStorage, vars
<1> QED
  BY <1>3, <1>4, <1>5, <1>6, <1>7, <1>8, <1>10, <1>11 DEF PipelineNext, Handle

\* No payload comes to a queue or to a worker for the second time.
LEMMA OnceKept ==
  ASSUME QueueDistinct, NewToWorker, NewToQueue,
         \A g \in Gateways : gateway'[g].queue = gateway[g].queue,
         \A g \in Gateways, seq \in Sequences : /\ Known(g, seq)' => Known(g, seq)
                                                /\ Ahead(g, seq)' => Ahead(g, seq)
  PROVE  QueueDistinct' /\ NewToWorker' /\ NewToQueue'
<1>1. QueueDistinct'
  BY DEF QueueDistinct
<1>2. \A g \in Gateways, seq \in Sequences : InQueue(g, seq)' => InQueue(g, seq)
  BY DEF InQueue
<1>3. NewToWorker'
  BY <1>2 DEF NewToWorker
<1>4. NewToQueue'
  BY <1>2 DEF NewToQueue
<1> QED BY <1>1, <1>3, <1>4

\* A payload is admitted that has not been in the queue.
LEMMA OnceAdmitted ==
  ASSUME RelayInv, QueueDistinct, NewToWorker, NewToQueue, UNCHANGED <<sensor, worker, storage>>,
         NEW g \in Gateways, NEW seq \in Sequences, Admit(g, seq),
         \A h \in Gateways, x \in Sequences : Ahead(h, x)' => Ahead(h, x)
  PROVE  QueueDistinct' /\ NewToWorker' /\ NewToQueue'
<1>1. \A h \in Gateways, x \in Sequences : Known(h, x)' <=> Known(h, x)
  BY DEF Known, Heard
<1>2. CASE ~(Len(gateway[g].queue) < QueueSize)
  <2>1. \A h \in Gateways : gateway'[h].queue = gateway[h].queue
    BY <1>2, AdmitEffect DEF GatewayThreadsBecome, GatewayBecomes, RelayInv
  <2> QED BY <1>1, <2>1, OnceKept
<1>3. CASE Len(gateway[g].queue) < QueueSize
  <2> DEFINE q == gateway[g].queue
             r == Append(q, seq)
  <2>1. /\ gateway'[g].queue = r
        /\ gateway'[g].threads = Step(gateway[g].threads, seq, "admit", "count")
        /\ \A h \in Gateways \ {g} : gateway'[h] = gateway[h]
        /\ Thread(seq, "admit") \in gateway[g].threads
    BY <1>3, AdmitEffect DEF GatewayBecomes, RelayInv
  <2>2. q \in Seq(Sequences)
    BY Numbers DEF RelayInv
  <2>3. /\ DOMAIN r = 1..Len(q) + 1 /\ DOMAIN q = 1..Len(q) /\ Len(q) \in Nat
        /\ \A i \in DOMAIN q : r[i] = q[i]
        /\ r[Len(q) + 1] = seq
    BY <2>2
  <2>4. Ahead(g, seq)
    BY <2>1 DEF Ahead, At
  <2>5. ~Known(g, seq) /\ \A i \in DOMAIN q : q[i] # seq
    BY <2>4 DEF NewToQueue, InQueue
  <2>6. ~Ahead(g, seq)'
    <3>1. Thread(seq, "admit") \notin Step(gateway[g].threads, seq, "admit", "count")
      BY DEF Step, Thread
    <3>2. Thread(seq, "admit").seq = seq /\ sensor.sequence \in Nat /\ seq \in Nat
      BY Numbers DEF Thread, RelayInv, Sequences
    <3>3. ~Unposted(g, seq)
      BY <2>1, <3>2 DEF RelayInv, ThreadsUnique, Unposted
    <3>4. ~Unposted(g, seq)'
      BY <3>3 DEF Unposted, PostedTo
    <3> QED BY <2>1, <3>1, <3>4 DEF Ahead, At
  <2> HIDE DEF q, r
  <2>7. \A x \in Sequences : InQueue(g, x)' => (InQueue(g, x) \/ x = seq)
    BY <2>1, <2>3 DEF InQueue, q
  <2>8. \A h \in Gateways \ {g}, x \in Sequences : InQueue(h, x)' => InQueue(h, x)
    BY <2>1 DEF InQueue
  <2>9. \A i, j \in DOMAIN r : r[i] = r[j] => i = j
    BY <2>3, <2>5 DEF QueueDistinct, q
  <2>10. QueueDistinct'
    BY <2>1, <2>9 DEF QueueDistinct
  <2>11. NewToWorker'
    BY <1>1, <2>5, <2>7, <2>8 DEF NewToWorker
  <2>12. NewToQueue'
    BY <1>1, <2>6, <2>7, <2>8 DEF NewToQueue
  <2> QED BY <2>10, <2>11, <2>12
<1> QED BY <1>2, <1>3

\* The worker learns of what was first in the queue.
LEMMA OnceForwarded ==
  ASSUME RelayInv, QueueDistinct, NewToWorker, NewToQueue, UNCHANGED <<sensor, storage>>,
         NEW g \in Gateways, Forward(g),
         \A h \in Gateways, x \in Sequences : Ahead(h, x)' => Ahead(h, x)
  PROVE  QueueDistinct' /\ NewToWorker' /\ NewToQueue'
<1> DEFINE q == gateway[g].queue
           seq == Head(q)
           r == Tail(q)
<1>1. /\ gateway'[g].queue = r /\ q # <<>> /\ seq \in Sequences
      /\ \A h \in Gateways \ {g} : gateway'[h] = gateway[h] /\ worker'[h] = worker[h]
      /\ worker'[g].threads = worker[g].threads \union {Thread(seq, "process")}
  BY ForwardEffect DEF GatewayBecomes, WorkerThreadsBecome, WorkerBecomes, RelayInv
<1>2. q \in Seq(Sequences)
  BY Numbers DEF RelayInv
<1>3. /\ DOMAIN r = 1..Len(q) - 1 /\ DOMAIN q = 1..Len(q) /\ Len(q) \in Nat \ {0}
      /\ \A i \in DOMAIN r : r[i] = q[i + 1]
      /\ q[1] = seq
  BY <1>1, <1>2
<1> HIDE DEF q, seq, r
<1>4. \A i \in DOMAIN r : i \in Nat /\ i + 1 \in DOMAIN q /\ i + 1 # 1
  BY <1>3
<1>5. \A x \in Sequences : InQueue(g, x)' => (InQueue(g, x) /\ x # seq)
  <2>1. \A i \in DOMAIN r : r[i] # seq
    BY <1>3, <1>4 DEF QueueDistinct, q
  <2> QED BY <1>1, <1>3, <1>4, <2>1 DEF InQueue, q
<1>6. \A h \in Gateways \ {g}, x \in Sequences : InQueue(h, x)' => InQueue(h, x)
  BY <1>1 DEF InQueue
<1>7. InQueue(g, seq)
  BY <1>3 DEF InQueue, q
<1>8. \A h \in Gateways, x \in Sequences : Known(h, x)' => Known(h, x) \/ (h = g /\ x = seq)
  BY <1>1 DEF Known, Heard, Thread
<1>9. QueueDistinct'
  <2>1. \A i, j \in DOMAIN r : r[i] = r[j] => i = j
    BY <1>3, <1>4, SMTT(60) DEF QueueDistinct, q
  <2> QED BY <1>1, <2>1 DEF QueueDistinct
<1>10. NewToWorker'
  BY <1>5, <1>6, <1>8 DEF NewToWorker
<1>11. NewToQueue'
  BY <1>1, <1>5, <1>6, <1>7, <1>8 DEF NewToQueue
<1> QED BY <1>9, <1>10, <1>11

-----------------------------------------------------------------------------
(* The threads of the worker and of cloud-db.                                 *)

\* A thread of the worker goes on.
LEMMA WorkingGoes ==
  ASSUME OneWorking, NEW g \in Gateways, NEW seq \in Sequences, NEW from, NEW to, to # "process",
         Thread(seq, from) \in worker[g].threads,
         worker'[g].threads = Step(worker[g].threads, seq, from, to),
         \A h \in Gateways \ {g} : worker'[h].threads = worker[h].threads
  PROVE  /\ OneWorking'
         /\ \A h \in Gateways, x \in Sequences :
              /\ (\E t \in worker'[h].threads : t.seq = x) => \E t \in worker[h].threads : t.seq = x
              /\ Working(h, x, "process")' => Working(h, x, "process") /\ ~(h = g /\ x = seq)
         /\ \A h \in Gateways : \A t \in worker'[h].threads :
              t \in worker[h].threads \/ (h = g /\ t = Thread(seq, to))
<1> DEFINE W == worker[g].threads
           old == Thread(seq, from)
           new == Thread(seq, to)
<1>1. worker'[g].threads = (W \ {old}) \union {new} /\ old \in W
  BY DEF Step
<1>2. old.seq = seq /\ new.seq = seq /\ new.pc # "process"
  BY DEF Thread
<1>3. \A t \in W : t.seq = seq => t = old
  BY <1>1, <1>2 DEF OneWorking
<1>4. \A x : Thread(x, "process").seq = x /\ Thread(x, "process").pc = "process"
  BY DEF Thread
<1> HIDE DEF W, old, new
<1>5. OneWorking'
  BY <1>1, <1>2, <1>3 DEF OneWorking, W
<1>6. \A h \in Gateways, x \in Sequences :
         (\E t \in worker'[h].threads : t.seq = x) => \E t \in worker[h].threads : t.seq = x
  BY <1>1, <1>2 DEF W
<1>7. \A h \in Gateways, x \in Sequences :
        Working(h, x, "process")' => Working(h, x, "process") /\ ~(h = g /\ x = seq)
  BY <1>1, <1>2, <1>3, <1>4 DEF Working, W
<1>8. \A h \in Gateways : \A t \in worker'[h].threads :
        t \in worker[h].threads \/ (h = g /\ t = Thread(seq, to))
  BY <1>1 DEF W, new
<1> QED BY <1>5, <1>6, <1>7, <1>8

\* Threads of the worker end.
LEMMA WorkingEnds ==
  ASSUME OneWorking, \A h \in Gateways : worker'[h].threads \subseteq worker[h].threads
  PROVE  /\ OneWorking'
         /\ \A h \in Gateways, x \in Sequences :
              /\ (\E t \in worker'[h].threads : t.seq = x) => \E t \in worker[h].threads : t.seq = x
              /\ Working(h, x, "process")' => Working(h, x, "process")
BY DEF OneWorking, Working

\* What a step of the worker or of cloud-db has to keep.
StorageInv == StorageTyped /\ NewToStorage /\ OneWorking /\ OneStoring /\ RowsBehind

StoringThread(g, seq, pc) == [route |-> g, seq |-> seq, pc |-> pc]

LEMMA StoringFields ==
  ASSUME NEW g \in Gateways, NEW seq \in Sequences
  PROVE  /\ \A pc : /\ StoringThread(g, seq, pc).route = g /\ StoringThread(g, seq, pc).seq = seq
                    /\ StoringThread(g, seq, pc).pc = pc
         /\ \A pc \in {"insert", "count", "stored"} : StoringThread(g, seq, pc) \in StoringThreads
         /\ RowOf(g, seq) \in RowRecords
         /\ RowOf(g, seq).route = g /\ RowOf(g, seq).seq = seq
         /\ \A h, x : RowOf(h, x) = RowOf(g, seq) => h = g /\ x = seq
BY DEF StoringThread, StoringThreads, RowOf, RowRecords

StorageBecomes(threads, rows, total) ==
  /\ storage' \in StorageStates
  /\ storage'.threads = threads /\ storage'.rows = rows
  /\ storage'.summary_records_total = total

LEMMA StorageEffect ==
  ASSUME StorageTyped, NEW th \in SUBSET StoringThreads, NEW rows \in SUBSET RowRecords, NEW n \in Nat,
         \/ storage' = [storage EXCEPT !.threads = th] /\ rows = storage.rows
                         /\ n = storage.summary_records_total
         \/ storage' = [storage EXCEPT !.rows = rows, !.threads = th]
                         /\ n = storage.summary_records_total
         \/ storage' = [storage EXCEPT !.summary_records_total = n, !.threads = th]
                         /\ rows = storage.rows
         \/ storage' = [storage EXCEPT !.threads = th, !.summary_records_total = n]
                         /\ rows = storage.rows
  PROVE  StorageBecomes(th, rows, n)
BY DEF StorageTyped, StorageStates, StorageBecomes

LEMMA StorageFields ==
  ASSUME StorageTyped
  PROVE  /\ storage.threads \in SUBSET StoringThreads /\ storage.rows \in SUBSET RowRecords
         /\ storage.summary_records_total \in Nat /\ IsFiniteSet(storage.rows)
BY DEF StorageTyped, StorageStates

\* process_payload.
LEMMA ProcessEffect ==
  ASSUME Typed, StorageTyped, NEW g \in Gateways, NEW seq \in Sequences, Process(g, seq)
  PROVE  /\ UNCHANGED <<sensor, gateway>> /\ Thread(seq, "process") \in worker[g].threads
         /\ \/ /\ WorkerThreadsBecome(g, Step(worker[g].threads, seq, "process", "posting"))
               /\ StorageBecomes(storage.threads \union {StoringThread(g, seq, "insert")},
                                 storage.rows, storage.summary_records_total)
            \/ /\ WorkerThreadsBecome(g, Step(worker[g].threads, seq, "process", "plain"))
               /\ storage' = storage
<1>1. UNCHANGED <<sensor, gateway>> /\ Thread(seq, "process") \in worker[g].threads
  BY DEF Process, Working
<1>2. CASE Due(seq)
  <2> DEFINE th == storage.threads \union {StoringThread(g, seq, "insert")}
  <2>1. th \in SUBSET StoringThreads /\ storage.rows \in SUBSET RowRecords
        /\ storage.summary_records_total \in Nat
    BY StorageFields, StoringFields
  <2>2. storage' = [storage EXCEPT !.threads = th]
    BY <1>2 DEF Process, StoringThread
  <2>3. Goes(g, seq, "process", "posting")
    BY <1>2 DEF Process
  <2> HIDE DEF th
  <2>4. StorageBecomes(th, storage.rows, storage.summary_records_total)
    BY <2>1, <2>2, StorageEffect
  <2> QED BY <1>1, <2>3, <2>4, GoesEffect DEF th
<1>3. CASE ~Due(seq)
  <2>1. Goes(g, seq, "process", "plain") /\ storage' = storage
    BY <1>3 DEF Process
  <2> QED BY <1>1, <2>1, GoesEffect
<1> QED BY <1>2, <1>3

LEMMA SummaryGivesUpEffect ==
  ASSUME Typed, StorageTyped, NEW g \in Gateways, NEW seq \in Sequences, SummaryGivesUp(g, seq)
  PROVE  /\ UNCHANGED <<sensor, gateway>> /\ Thread(seq, "posting") \in worker[g].threads
         /\ WorkerThreadsBecome(g, Step(worker[g].threads, seq, "posting", "failed"))
         /\ \E lost \in {{}, {StoringThread(g, seq, "insert")}} :
              StorageBecomes(storage.threads \ lost, storage.rows, storage.summary_records_total)
<1>1. PICK lost \in {{}, {StoringThread(g, seq, "insert")}} :
        storage' = [storage EXCEPT !.threads = @ \ lost]
  BY DEF SummaryGivesUp, StoringThread
<1> DEFINE th == storage.threads \ lost
<1>2. th \in SUBSET StoringThreads /\ storage.rows \in SUBSET RowRecords
      /\ storage.summary_records_total \in Nat
  BY StorageFields
<1>3. storage' = [storage EXCEPT !.threads = th]
  BY <1>1
<1>4. StorageBecomes(th, storage.rows, storage.summary_records_total)
  <2> HIDE DEF th
  <2> QED BY <1>2, <1>3, StorageEffect
<1> QED BY <1>4, GoesEffect DEF SummaryGivesUp, Working

LEMMA InsertEffect ==
  ASSUME StorageTyped, NEW g \in Gateways, NEW seq \in Sequences, InsertSummary(g, seq)
  PROVE  /\ UNCHANGED <<sensor, gateway, worker>>
         /\ StoringThread(g, seq, "insert") \in storage.threads
         /\ StorageBecomes((storage.threads \ {StoringThread(g, seq, "insert")})
                              \union {StoringThread(g, seq, "count")},
                           storage.rows \union {RowOf(g, seq)}, storage.summary_records_total)
<1> DEFINE th == (storage.threads \ {StoringThread(g, seq, "insert")})
                    \union {StoringThread(g, seq, "count")}
           rows == storage.rows \union {RowOf(g, seq)}
<1>1. th \in SUBSET StoringThreads /\ rows \in SUBSET RowRecords
      /\ storage.summary_records_total \in Nat
  BY StorageFields, StoringFields
<1>2. storage' = [storage EXCEPT !.rows = rows, !.threads = th]
  BY DEF InsertSummary, Moved, StoringThread, RowOf
<1>3. StorageBecomes(th, rows, storage.summary_records_total)
  <2> HIDE DEF th, rows
  <2> QED BY <1>1, <1>2, StorageEffect
<1> QED BY <1>3 DEF InsertSummary, Storing, StoringThread

LEMMA CountRecordEffect ==
  ASSUME StorageTyped, NEW g \in Gateways, NEW seq \in Sequences, CountRecord(g, seq)
  PROVE  /\ UNCHANGED <<sensor, gateway, worker>>
         /\ StoringThread(g, seq, "count") \in storage.threads
         /\ StorageBecomes((storage.threads \ {StoringThread(g, seq, "count")})
                              \union {StoringThread(g, seq, "stored")},
                           storage.rows, storage.summary_records_total + 1)
<1> DEFINE th == (storage.threads \ {StoringThread(g, seq, "count")})
                    \union {StoringThread(g, seq, "stored")}
           n == storage.summary_records_total + 1
<1>1. th \in SUBSET StoringThreads /\ storage.rows \in SUBSET RowRecords /\ n \in Nat
  BY StorageFields, StoringFields
<1>2. storage' = [storage EXCEPT !.summary_records_total = n, !.threads = th]
  BY DEF CountRecord, Moved, StoringThread
<1>3. StorageBecomes(th, storage.rows, n)
  <2> HIDE DEF th, n
  <2> QED BY <1>1, <1>2, StorageEffect
<1> QED BY <1>3 DEF CountRecord, Storing, StoringThread

LEMMA ConfirmEffect ==
  ASSUME Typed, StorageTyped, NEW g \in Gateways, NEW seq \in Sequences, Confirm(g, seq)
  PROVE  /\ UNCHANGED <<sensor, gateway>>
         /\ StoringThread(g, seq, "stored") \in storage.threads
         /\ StorageBecomes(storage.threads \ {StoringThread(g, seq, "stored")},
                           storage.rows, storage.summary_records_total)
         /\ \/ worker' = worker
            \/ /\ Thread(seq, "posting") \in worker[g].threads
               /\ WorkerThreadsBecome(g, Step(worker[g].threads, seq, "posting", "stored"))
<1> DEFINE th == storage.threads \ {StoringThread(g, seq, "stored")}
<1>1. th \in SUBSET StoringThreads /\ storage.rows \in SUBSET RowRecords
      /\ storage.summary_records_total \in Nat
  BY StorageFields
<1>2. storage' = [storage EXCEPT !.threads = th]
  BY DEF Confirm, StoringThread
<1>3. StorageBecomes(th, storage.rows, storage.summary_records_total)
  <2> HIDE DEF th
  <2> QED BY <1>1, <1>2, StorageEffect
<1>4. \/ worker' = worker
      \/ Working(g, seq, "posting") /\ Goes(g, seq, "posting", "stored")
  BY DEF Confirm
<1> QED BY <1>3, <1>4, GoesEffect DEF Confirm, Storing, StoringThread, Working

\* Nobody hears of a new payload.
NothingNew ==
  \A g \in Gateways, seq \in Sequences : /\ Known(g, seq)' => Known(g, seq)
                                         /\ Heard(g, seq)' => Heard(g, seq)

\* Neither the worker nor cloud-db does anything but end threads.
LEMMA StorageQuiet ==
  ASSUME StorageInv, storage' = storage,
         \A h \in Gateways : worker'[h].threads \subseteq worker[h].threads
  PROVE  StorageInv' /\ NothingNew
<1>1. /\ OneWorking'
      /\ \A h \in Gateways, x \in Sequences :
           /\ (\E t \in worker'[h].threads : t.seq = x) => \E t \in worker[h].threads : t.seq = x
           /\ Working(h, x, "process")' => Working(h, x, "process")
  BY WorkingEnds DEF StorageInv
<1>2. StorageTyped' /\ OneStoring' /\ RowsBehind'
  BY DEF StorageInv, StorageTyped, OneStoring, RowsBehind
<1>3. NothingNew
  BY <1>1 DEF NothingNew, Known, Heard
<1>4. NewToStorage'
  BY <1>1, <1>3 DEF StorageInv, NewToStorage, NothingNew
<1> QED BY <1>1, <1>2, <1>3, <1>4 DEF StorageInv

LEMMA ProcessStorage ==
  ASSUME Typed, StorageInv, NEW g \in Gateways, NEW seq \in Sequences, Process(g, seq)
  PROVE  /\ StorageInv' /\ UNCHANGED <<sensor, gateway>>
         /\ \A h \in Gateways, x \in Sequences : Known(h, x)' => Known(h, x)
<1>0. /\ StorageTyped /\ OneWorking /\ UNCHANGED <<sensor, gateway>>
      /\ Thread(seq, "process") \in worker[g].threads /\ Thread(seq, "process").seq = seq
  BY ProcessEffect DEF StorageInv, Thread
<1>1. ASSUME NEW to \in {"posting", "plain"},
             WorkerThreadsBecome(g, Step(worker[g].threads, seq, "process", to))
      PROVE  /\ OneWorking'
             /\ \A h \in Gateways, x \in Sequences :
                  /\ (\E t \in worker'[h].threads : t.seq = x) => \E t \in worker[h].threads : t.seq = x
                  /\ Working(h, x, "process")' => Working(h, x, "process") /\ ~(h = g /\ x = seq)
             /\ \A h \in Gateways : \A t \in worker'[h].threads :
                  t \in worker[h].threads \/ t.pc = to
  <2>1. /\ worker'[g].threads = Step(worker[g].threads, seq, "process", to)
        /\ \A h \in Gateways \ {g} : worker'[h].threads = worker[h].threads
    BY <1>1 DEF WorkerThreadsBecome, WorkerBecomes
  <2>2. Thread(seq, to).pc = to /\ to # "process"
    BY DEF Thread
  <2> QED BY <1>0, <2>1, <2>2, WorkingGoes
<1>2. CASE /\ WorkerThreadsBecome(g, Step(worker[g].threads, seq, "process", "plain"))
           /\ storage' = storage
  <2>1. \A h \in Gateways, x \in Sequences : (Known(h, x)' => Known(h, x)) /\ (Heard(h, x)' <=> Heard(h, x))
    BY <1>1, <1>2 DEF Known, Heard
  <2>2. StorageTyped' /\ OneStoring'
    BY <1>2 DEF StorageInv, StorageTyped, OneStoring
  <2>3. RowsBehind'
    BY <1>1, <1>2 DEF StorageInv, RowsBehind
  <2>4. NewToStorage'
    BY <1>1, <1>2, <2>1 DEF StorageInv, NewToStorage
  <2> QED BY <1>0, <1>1, <1>2, <2>1, <2>2, <2>3, <2>4 DEF StorageInv
<1>3. CASE /\ WorkerThreadsBecome(g, Step(worker[g].threads, seq, "process", "posting"))
           /\ StorageBecomes(storage.threads \union {StoringThread(g, seq, "insert")},
                             storage.rows, storage.summary_records_total)
  <2> DEFINE new == StoringThread(g, seq, "insert")
  <2>1. /\ storage' \in StorageStates /\ storage'.threads = storage.threads \union {new}
        /\ storage'.rows = storage.rows
        /\ new.route = g /\ new.seq = seq /\ new.pc = "insert"
    BY <1>3, StoringFields DEF StorageBecomes
  <2>2. ~Heard(g, seq)
    BY <1>0 DEF StorageInv, NewToStorage, Working
  <2> HIDE DEF new
  <2>3. \A h \in Gateways, x \in Sequences : Heard(h, x)' => Heard(h, x) \/ (h = g /\ x = seq)
    BY <2>1 DEF Heard
  <2>4. Known(g, seq)
    BY <1>0 DEF Known
  <2>5. \A h \in Gateways, x \in Sequences : Known(h, x)' => Known(h, x)
    BY <1>1, <1>3, <2>3, <2>4 DEF Known
  <2>6. StorageTyped'
    BY <2>1, StorageFields DEF StorageTyped, StorageInv
  <2>7. OneStoring'
    BY <2>1, <2>2 DEF StorageInv, OneStoring, Heard
  <2>8. RowsBehind'
    BY <1>1, <1>3, <2>1 DEF StorageInv, RowsBehind
  <2>9. NewToStorage'
    BY <1>1, <1>3, <2>3 DEF StorageInv, NewToStorage
  <2> QED BY <1>0, <1>1, <1>3, <2>5, <2>6, <2>7, <2>8, <2>9 DEF StorageInv
<1> QED BY <1>0, <1>2, <1>3, ProcessEffect

\* A thread of cloud-db goes on, maybe with a row.
LEMMA StoringGoes ==
  ASSUME StorageInv, UNCHANGED worker, NEW g \in Gateways, NEW seq \in Sequences,
         NEW from, NEW to \in {"count", "stored"}, NEW rows, NEW n,
         StoringThread(g, seq, from) \in storage.threads,
         StorageBecomes((storage.threads \ {StoringThread(g, seq, from)})
                          \union {StoringThread(g, seq, to)}, rows, n),
         \/ rows = storage.rows /\ RowOf(g, seq) \in rows
         \/ rows = storage.rows \union {RowOf(g, seq)}
  PROVE  StorageInv' /\ NothingNew
<1> DEFINE old == StoringThread(g, seq, from)
           new == StoringThread(g, seq, to)
           row == RowOf(g, seq)
<1>1. /\ storage' \in StorageStates /\ storage'.threads = (storage.threads \ {old}) \union {new}
      /\ storage'.rows = rows /\ old \in storage.threads
      /\ old.route = g /\ old.seq = seq /\ new.route = g /\ new.seq = seq /\ new.pc = to
      /\ \A h, x : RowOf(h, x) = row => h = g /\ x = seq
  BY StoringFields DEF StorageBecomes
<1>2. storage.rows \subseteq rows /\ row \in rows /\ rows \subseteq storage.rows \union {row}
  OBVIOUS
<1>3. RowOf(new.route, new.seq) = row
  BY <1>1
<1> HIDE DEF old, new, row
<1>4. IsFiniteSet(rows)
  <2>1. IsFiniteSet(storage.rows \union {row})
    BY StorageFields, FS_AddElement DEF StorageInv
  <2> QED BY <1>2, <2>1, FS_Subset
<1>5. StorageTyped'
  BY <1>1, <1>4 DEF StorageTyped
<1>6. OneStoring'
  BY <1>1 DEF StorageInv, OneStoring
<1>7. RowsBehind'
  BY <1>1, <1>2, <1>3 DEF StorageInv, RowsBehind
<1>8. \A h \in Gateways, x \in Sequences : Heard(h, x)' => Heard(h, x)
  BY <1>1, <1>2 DEF Heard
<1>9. NothingNew
  BY <1>8 DEF NothingNew, Known
<1>10. NewToStorage' /\ OneWorking'
  BY <1>8 DEF StorageInv, NewToStorage, OneWorking, Working
<1> QED BY <1>5, <1>6, <1>7, <1>9, <1>10 DEF StorageInv

\* Threads of cloud-db end.
LEMMA StoringEnds ==
  ASSUME StorageInv, NEW th \in SUBSET storage.threads, NEW n, StorageBecomes(th, storage.rows, n)
  PROVE  /\ StorageTyped' /\ OneStoring'
         /\ \A h \in Gateways, x \in Sequences : Heard(h, x)' => Heard(h, x)
         /\ \A t \in storage'.threads : t.pc # "insert" => RowOf(t.route, t.seq) \in storage'.rows
         /\ storage'.rows = storage.rows
<1>1. storage' \in StorageStates /\ storage'.threads \subseteq storage.threads
      /\ storage'.rows = storage.rows
  BY DEF StorageBecomes
<1>2. StorageTyped'
  BY <1>1 DEF StorageTyped, StorageInv
<1> QED BY <1>1, <1>2 DEF StorageInv, OneStoring, Heard, RowsBehind

\* A thread of the worker goes on while threads of cloud-db end.
LEMMA WorkingGoesOn ==
  ASSUME Typed, StorageInv, NEW g \in Gateways, NEW seq \in Sequences, NEW from, NEW to, to # "process",
         Thread(seq, from) \in worker[g].threads,
         worker'[g].threads = Step(worker[g].threads, seq, from, to),
         \A h \in Gateways \ {g} : worker'[h].threads = worker[h].threads,
         to = "stored" => RowOf(g, seq) \in storage.rows,
         \/ storage' = storage
         \/ \E th \in SUBSET storage.threads : \E n : StorageBecomes(th, storage.rows, n)
  PROVE  StorageInv' /\ NothingNew
<1>1. /\ OneWorking'
      /\ \A h \in Gateways, x \in Sequences :
           /\ (\E t \in worker'[h].threads : t.seq = x) => \E t \in worker[h].threads : t.seq = x
           /\ Working(h, x, "process")' => Working(h, x, "process") /\ ~(h = g /\ x = seq)
      /\ \A h \in Gateways : \A t \in worker'[h].threads :
           t \in worker[h].threads \/ (h = g /\ t = Thread(seq, to))
  <2>1. OneWorking
    BY DEF StorageInv
  <2> DEFINE W == worker[g].threads
             old == Thread(seq, from)
             new == Thread(seq, to)
  <2>2. worker'[g].threads = (W \ {old}) \union {new} /\ old \in W
    BY DEF Step
  <2>3. old.seq = seq /\ new.seq = seq /\ new.pc # "process"
    BY DEF Thread
  <2>4. \A t \in W : t.seq = seq => t = old
    BY <2>1, <2>2, <2>3 DEF OneWorking
  <2>5. \A x : Thread(x, "process").seq = x /\ Thread(x, "process").pc = "process"
    BY DEF Thread
  <2> HIDE DEF W, old, new
  <2>6. OneWorking'
    BY <2>1, <2>2, <2>3, <2>4 DEF OneWorking, W
  <2>7. \A h \in Gateways, x \in Sequences :
           (\E t \in worker'[h].threads : t.seq = x) => \E t \in worker[h].threads : t.seq = x
    BY <2>2, <2>3 DEF W
  <2>8. \A h \in Gateways, x \in Sequences :
          Working(h, x, "process")' => Working(h, x, "process") /\ ~(h = g /\ x = seq)
    BY <2>2, <2>3, <2>4, <2>5 DEF Working, W
  <2>9. \A h \in Gateways : \A t \in worker'[h].threads :
          t \in worker[h].threads \/ (h = g /\ t = Thread(seq, to))
    BY <2>2 DEF W, new
  <2> QED BY <2>6, <2>7, <2>8, <2>9
<1>2. /\ StorageTyped' /\ OneStoring'
      /\ \A h \in Gateways, x \in Sequences : Heard(h, x)' => Heard(h, x)
      /\ \A t \in storage'.threads : t.pc # "insert" => RowOf(t.route, t.seq) \in storage'.rows
      /\ storage'.rows = storage.rows
  <2>1. CASE storage' = storage
    BY <2>1 DEF StorageInv, StorageTyped, OneStoring, Heard, RowsBehind
  <2>2. CASE \E th \in SUBSET storage.threads : \E n : StorageBecomes(th, storage.rows, n)
    BY <2>2, StoringEnds
  <2> QED BY <2>1, <2>2
<1>3. NothingNew
  BY <1>1, <1>2 DEF NothingNew, Known
<1>4. NewToStorage'
  BY <1>1, <1>2 DEF StorageInv, NewToStorage
<1>5. RowsBehind'
  <2>1. Thread(seq, to).seq = seq /\ Thread(seq, to).pc = to
    BY DEF Thread
  <2> QED BY <1>1, <1>2, <2>1 DEF StorageInv, RowsBehind
<1> QED BY <1>1, <1>2, <1>3, <1>4, <1>5 DEF StorageInv

LEMMA ForwardStorage ==
  ASSUME RelayInv, StorageInv, NewToWorker, NEW g \in Gateways, Forward(g)
  PROVE  StorageInv' /\ storage' = storage
<1> DEFINE seq == Head(gateway[g].queue)
           new == Thread(seq, "process")
<1>1. /\ gateway[g].queue # <<>> /\ seq \in Sequences /\ storage' = storage
      /\ \A h \in Gateways \ {g} : worker'[h] = worker[h]
      /\ worker'[g].threads = worker[g].threads \union {new}
      /\ new.seq = seq
  BY ForwardEffect DEF WorkerThreadsBecome, WorkerBecomes, RelayInv, Forward, Thread
<1>2. gateway[g].queue \in Seq(Sequences)
  BY Numbers DEF RelayInv
<1>3. InQueue(g, seq)
  <2>1. 1 \in DOMAIN gateway[g].queue /\ gateway[g].queue[1] = seq
    BY <1>1, <1>2
  <2> QED BY <2>1 DEF InQueue
<1>4. ~Known(g, seq)
  BY <1>1, <1>3 DEF NewToWorker
<1>5. \A h \in Gateways, x \in Sequences :
        Working(h, x, "process")' => Working(h, x, "process") \/ (h = g /\ x = seq)
  BY <1>1 DEF Working, Thread
<1>6. new.pc = "process"
  BY DEF Thread
<1> HIDE DEF seq, new
<1>7. OneWorking'
  BY <1>1, <1>4 DEF StorageInv, OneWorking, Known
<1>8. \A h \in Gateways, x \in Sequences : Heard(h, x)' <=> Heard(h, x)
  BY <1>1 DEF Heard
<1>9. NewToStorage'
  BY <1>4, <1>5, <1>8 DEF StorageInv, NewToStorage, Known
<1>10. StorageTyped' /\ OneStoring'
  BY <1>1 DEF StorageInv, StorageTyped, OneStoring
<1>11. RowsBehind'
  BY <1>1, <1>6 DEF StorageInv, RowsBehind
<1> QED BY <1>1, <1>7, <1>9, <1>10, <1>11 DEF StorageInv

LEMMA RestartStorageEffect ==
  ASSUME StorageTyped, RestartStorage
  PROVE  StorageBecomes({}, storage.rows, 0)
<1>1. {} \in SUBSET StoringThreads /\ storage.rows \in SUBSET RowRecords /\ 0 \in Nat
  BY StorageFields
<1>2. storage' = [storage EXCEPT !.threads = {}, !.summary_records_total = 0]
  BY DEF RestartStorage
<1> QED BY <1>1, <1>2, StorageEffect

\* A thread whose call broke is the same thread, and not one that begins or
\* that was answered.
LEMMA BrokenThread ==
  ASSUME NEW t \in WorkerThreads
  PROVE  /\ Broken(t).seq = t.seq /\ Broken(t).pc # "posting"
         /\ t.pc # "posting" => Broken(t) = t
         /\ Broken(t).pc \in {"process", "stored"} => Broken(t) = t
BY DEF Broken, WorkerThreads

LEMMA RestartKeeps ==
  ASSUME Typed, StorageInv, RestartStorage
  PROVE  StorageInv' /\ NothingNew
<1>0. StorageBecomes({}, storage.rows, 0)
  BY RestartStorageEffect DEF StorageInv
<1>1. /\ StorageTyped' /\ OneStoring'
      /\ \A h \in Gateways, x \in Sequences : Heard(h, x)' => Heard(h, x)
      /\ \A t \in storage'.threads : t.pc # "insert" => RowOf(t.route, t.seq) \in storage'.rows
      /\ storage'.rows = storage.rows
  BY <1>0, StoringEnds
<1>2. ASSUME NEW h \in Gateways, NEW u \in worker'[h].threads
      PROVE  /\ \E t \in worker[h].threads : u = Broken(t) /\ u.seq = t.seq
             /\ u.pc \in {"process", "stored"} => u \in worker[h].threads
  <2>1. PICK t \in worker[h].threads : u = Broken(t)
    BY <1>2, RestartEffect
  <2>2. t \in WorkerThreads
    BY Numbers
  <2> QED BY <2>1, <2>2, BrokenThread
<1>3. OneWorking'
  <2> SUFFICES ASSUME NEW h \in Gateways, NEW u \in worker'[h].threads, NEW v \in worker'[h].threads,
                      u.seq = v.seq
               PROVE  u = v
    BY DEF OneWorking
  <2>1. PICK t \in worker[h].threads : u = Broken(t) /\ u.seq = t.seq
    BY <1>2
  <2>2. PICK w \in worker[h].threads : v = Broken(w) /\ v.seq = w.seq
    BY <1>2
  <2>3. t = w
    BY <2>1, <2>2 DEF StorageInv, OneWorking
  <2> QED BY <2>1, <2>2, <2>3
<1>4. \A h \in Gateways, x \in Sequences : Working(h, x, "process")' => Working(h, x, "process")
  BY <1>2 DEF Working, Thread
<1>5. NothingNew
  BY <1>1, <1>2 DEF NothingNew, Known
<1>6. NewToStorage'
  BY <1>1, <1>4 DEF StorageInv, NewToStorage
<1>7. RowsBehind'
  BY <1>1, <1>2 DEF StorageInv, RowsBehind
<1> QED BY <1>1, <1>3, <1>5, <1>6, <1>7 DEF StorageInv

\* Whatever happens, no payload comes for the second time.
LEMMA OnceStep == RelayInv /\ OnceInv /\ [PipelineNext]_vars => OnceInv'
<1> SUFFICES ASSUME RelayInv, OnceInv, [PipelineNext]_vars PROVE OnceInv'
  OBVIOUS
<1>0. /\ StorageInv /\ QueueDistinct /\ NewToWorker /\ NewToQueue /\ Typed /\ SensorPosts
      /\ StorageTyped
  BY DEF OnceInv, StorageInv, RelayInv
<1>1. \A h \in Gateways, x \in Sequences : Ahead(h, x)' => Ahead(h, x)
  BY AheadStays
<1>2. ASSUME StorageInv', \A h \in Gateways, x \in Sequences : Known(h, x)' => Known(h, x),
             \A g \in Gateways : gateway'[g].queue = gateway[g].queue
      PROVE  OnceInv'
  BY <1>0, <1>1, <1>2, OnceKept DEF OnceInv, StorageInv
<1>3. ASSUME UNCHANGED <<worker, storage>>, \A g \in Gateways : gateway'[g].queue = gateway[g].queue
      PROVE  OnceInv'
  BY <1>0, <1>2, <1>3, StorageQuiet DEF NothingNew
<1>4. CASE Generate \/ UNCHANGED vars
  BY <1>3, <1>4 DEF Generate, vars
<1>5. CASE Post \/ SensorGivesUp
  <2>1. \A g \in Gateways : gateway'[g].queue = gateway[g].queue
    BY <1>0, <1>5, PostEffect, SensorGivesUpEffect DEF GatewayThreadsBecome, GatewayBecomes
  <2> QED BY <1>3, <1>5, <2>1 DEF Post, SensorGivesUp
<1>6. ASSUME NEW g \in Gateways, NEW seq \in Sequences, Serve(g, seq) PROVE OnceInv'
  <2>1. UNCHANGED <<worker, storage>>
    BY <1>6 DEF Serve
  <2>2. CASE Admit(g, seq) /\ UNCHANGED sensor
    <3>1. StorageInv'
      BY <1>0, <2>1, StorageQuiet
    <3>2. QueueDistinct' /\ NewToWorker' /\ NewToQueue'
      BY <1>0, <1>1, <2>1, <2>2, OnceAdmitted
    <3> QED BY <3>1, <3>2 DEF OnceInv, StorageInv
  <2>3. CASE Count(g, seq)
    <3>1. \A h \in Gateways : gateway'[h].queue = gateway[h].queue
      BY <1>0, <2>3, CountEffect DEF GatewayBecomes
    <3> QED BY <1>3, <2>1, <3>1
  <2>4. CASE AnswerSensor(g, seq)
    <3>1. \A h \in Gateways : gateway'[h].queue = gateway[h].queue
      BY <1>0, <2>4, AnswerSensorEffect DEF GatewayThreadsBecome, GatewayBecomes
    <3> QED BY <1>3, <2>1, <3>1
  <2> QED BY <1>6, <2>2, <2>3, <2>4 DEF Serve
<1>7. ASSUME NEW g \in Gateways, Forward(g) PROVE OnceInv'
  <2>1. StorageInv' /\ UNCHANGED <<sensor, storage>>
    BY <1>0, <1>7, ForwardStorage DEF Forward
  <2>2. QueueDistinct' /\ NewToWorker' /\ NewToQueue'
    BY <1>0, <1>1, <1>7, <2>1, OnceForwarded
  <2> QED BY <2>1, <2>2 DEF OnceInv, StorageInv
<1>8. ASSUME NEW g \in Gateways, ForwardGivesUp(g) PROVE OnceInv'
  <2>1. /\ \A h \in Gateways : worker'[h].threads \subseteq worker[h].threads
        /\ \A h \in Gateways : gateway'[h].queue = gateway[h].queue
    BY <1>0, <1>8, ForwardGivesUpEffect DEF GatewayBecomes, WorkerThreadsBecome, WorkerBecomes
  <2>2. storage' = storage
    BY <1>8 DEF ForwardGivesUp
  <2> QED BY <1>0, <1>2, <2>1, <2>2, StorageQuiet DEF NothingNew
<1>9. ASSUME NEW g \in Gateways, NEW seq \in Sequences, AnswerForward(g, seq) PROVE OnceInv'
  <2>1. \A h \in Gateways : worker'[h].threads \subseteq worker[h].threads
    BY <1>0, <1>9, AnswerForwardEffect DEF WorkerThreadsBecome, WorkerBecomes
  <2>2. \A h \in Gateways : gateway'[h].queue = gateway[h].queue
    BY <1>0, <1>9, AnswerForwardEffect DEF GatewayBecomes
  <2>3. storage' = storage
    BY <1>9 DEF AnswerForward
  <2> QED BY <1>0, <1>2, <2>1, <2>2, <2>3, StorageQuiet DEF NothingNew
<1>10. ASSUME StorageInv', \A h \in Gateways, x \in Sequences : Known(h, x)' => Known(h, x),
              gateway' = gateway
       PROVE  OnceInv'
  BY <1>2, <1>10
<1>11. ASSUME NEW g \in Gateways, NEW seq \in Sequences, Process(g, seq) PROVE OnceInv'
  BY <1>0, <1>10, <1>11, ProcessStorage
<1>12. ASSUME NEW g \in Gateways, NEW seq \in Sequences, CountProcessed(g, seq) PROVE OnceInv'
  <2>1. PICK pc \in {"stored", "failed", "plain"} :
          /\ Thread(seq, pc) \in worker[g].threads
          /\ worker'[g].threads = Step(worker[g].threads, seq, pc, "processed")
          /\ \A h \in Gateways \ {g} : worker'[h] = worker[h]
    BY <1>0, <1>12, CountProcessedEffect DEF WorkerBecomes
  <2>2. UNCHANGED <<gateway, storage>>
    BY <1>12 DEF CountProcessed
  <2>3. StorageInv' /\ NothingNew
    BY <1>0, <2>1, <2>2, WorkingGoesOn, SMTT(60)
  <2> QED BY <1>10, <2>2, <2>3 DEF NothingNew
<1>13. ASSUME NEW g \in Gateways, NEW seq \in Sequences, SummaryGivesUp(g, seq) PROVE OnceInv'
  <2>1. /\ UNCHANGED <<sensor, gateway>> /\ Thread(seq, "posting") \in worker[g].threads
        /\ WorkerThreadsBecome(g, Step(worker[g].threads, seq, "posting", "failed"))
    BY <1>0, <1>13, SummaryGivesUpEffect
  <2>2. \E th \in SUBSET storage.threads : \E n : StorageBecomes(th, storage.rows, n)
    BY <1>0, <1>13, SummaryGivesUpEffect
  <2>3. /\ worker'[g].threads = Step(worker[g].threads, seq, "posting", "failed")
        /\ \A h \in Gateways \ {g} : worker'[h].threads = worker[h].threads
    BY <2>1 DEF WorkerThreadsBecome, WorkerBecomes
  <2>4. /\ Thread(seq, "posting") \in worker[g].threads /\ Typed /\ StorageInv
        /\ "failed" # "process" /\ "failed" # "stored"
    BY <1>0, <2>1
  <2>5. StorageInv' /\ NothingNew
    BY <2>2, <2>3, <2>4, WorkingGoesOn, SMTT(60)
  <2> QED BY <1>10, <2>1, <2>5 DEF NothingNew
<1>14. ASSUME NEW g \in Gateways, NEW seq \in Sequences, InsertSummary(g, seq) PROVE OnceInv'
  <2>1. StorageInv' /\ NothingNew
    BY <1>0, <1>14, InsertEffect, StoringGoes
  <2> QED BY <1>0, <1>10, <1>14, <2>1, InsertEffect DEF NothingNew
<1>15. ASSUME NEW g \in Gateways, NEW seq \in Sequences, CountRecord(g, seq) PROVE OnceInv'
  <2>0. StoringThread(g, seq, "count") \in storage.threads
    BY <1>0, <1>15, CountRecordEffect
  <2>1. RowOf(g, seq) \in storage.rows
    BY <1>0, <2>0, StoringFields DEF StorageInv, RowsBehind
  <2>2. StorageInv' /\ NothingNew
    BY <1>0, <1>15, <2>1, CountRecordEffect, StoringGoes
  <2> QED BY <1>0, <1>10, <1>15, <2>2, CountRecordEffect DEF NothingNew
<1>16. ASSUME NEW g \in Gateways, NEW seq \in Sequences, Confirm(g, seq) PROVE OnceInv'
  <2>0. /\ StoringThread(g, seq, "stored") \in storage.threads /\ gateway' = gateway
        /\ \E th \in SUBSET storage.threads : \E n : StorageBecomes(th, storage.rows, n)
    BY <1>0, <1>16, ConfirmEffect
  <2>1. RowOf(g, seq) \in storage.rows
    BY <1>0, <2>0, StoringFields DEF StorageInv, RowsBehind
  <2>2. CASE worker' = worker
    <3>1. /\ StorageTyped' /\ OneStoring'
          /\ \A h \in Gateways, x \in Sequences : Heard(h, x)' => Heard(h, x)
          /\ \A t \in storage'.threads : t.pc # "insert" => RowOf(t.route, t.seq) \in storage'.rows
          /\ storage'.rows = storage.rows
      BY <1>0, <2>0, StoringEnds
    <3>2. \A h \in Gateways, x \in Sequences : Known(h, x)' => Known(h, x)
      BY <2>2, <3>1 DEF Known
    <3>3. StorageInv'
      BY <1>0, <2>2, <3>1 DEF StorageInv, NewToStorage, OneWorking, RowsBehind, Working
    <3> QED BY <1>10, <2>0, <3>2, <3>3
  <2>3. CASE /\ Thread(seq, "posting") \in worker[g].threads
             /\ WorkerThreadsBecome(g, Step(worker[g].threads, seq, "posting", "stored"))
    <3>1. StorageInv' /\ NothingNew
      BY <1>0, <2>0, <2>1, <2>3, WorkingGoesOn DEF WorkerThreadsBecome, WorkerBecomes
    <3> QED BY <1>10, <2>0, <3>1 DEF NothingNew
  <2> QED BY <1>0, <1>16, <2>2, <2>3, ConfirmEffect
<1>17. CASE RestartStorage
  BY <1>0, <1>10, <1>17, RestartKeeps DEF RestartStorage, NothingNew
<1> QED
  BY <1>4, <1>5, <1>6, <1>7, <1>8, <1>9, <1>11, <1>12, <1>13, <1>14, <1>15, <1>16, <1>17
     DEF PipelineNext, Handle, ServeSummary

\* What is counted stays within what may be counted.
LEMMA CountsGrow ==
  ASSUME NEW A, NEW B, IsFiniteSet(B), A \subseteq B, NEW n \in Nat, n <= Cardinality(A)
  PROVE  n <= Cardinality(B)
<1>1. Cardinality(A) <= Cardinality(B)
  BY FS_Subset
<1>2. IsFiniteSet(A)
  BY FS_Subset
<1> QED BY <1>1, <1>2, FS_CardinalityType

LEMMA CountsOneMore ==
  ASSUME NEW A, NEW B, IsFiniteSet(B), A \subseteq B, NEW x \in B, x \notin A,
         NEW n \in Nat, n <= Cardinality(A)
  PROVE  n + 1 <= Cardinality(B)
<1>1. IsFiniteSet(A)
  BY FS_Subset
<1>2. IsFiniteSet(A \union {x}) /\ Cardinality(A \union {x}) = Cardinality(A) + 1
  BY <1>1, FS_AddElement
<1>3. n + 1 \in Nat /\ n + 1 <= Cardinality(A \union {x})
  BY <1>1, <1>2, FS_CardinalityType
<1> QED BY <1>3, CountsGrow

\* A thread of the worker in one of these states is answerable for its row: the worker
\* has not counted it.
Answerable(t) == t.pc \in {"posting", "stored"}

\* The worker goes on without counting a summary.
WorkerKeeps(g) ==
  /\ worker'[g].summaries_total = worker[g].summaries_total
  /\ \A t \in worker'[g].threads : Answerable(t) =>
       \/ \E u \in worker[g].threads : Answerable(u) /\ u.seq = t.seq
       \/ RowOf(g, t.seq) \notin storage.rows

StorageKeeps ==
  /\ storage'.summary_records_total = storage.summary_records_total
  /\ \A t \in storage'.threads : t.pc # "stored" =>
       \/ \E u \in storage.threads : u.pc # "stored" /\ u.route = t.route /\ u.seq = t.seq
       \/ RowOf(t.route, t.seq) \notin storage.rows

LEMMA CountableGrows ==
  ASSUME StorageTyped, StorageTyped', storage.rows \subseteq storage'.rows, NEW g \in Gateways,
         WorkerKeeps(g)
  PROVE  CountableAt(g) \subseteq CountableAt(g)'
<1> SUFFICES ASSUME NEW r \in CountableAt(g) PROVE r \in CountableAt(g)'
  OBVIOUS
<1>1. /\ r \in storage.rows /\ r.route = g
      /\ \A u \in worker[g].threads : Answerable(u) => u.seq # r.seq
  BY DEF CountableAt, Answerable
<1>2. r = RowOf(g, r.seq)
  BY <1>1 DEF StorageTyped, StorageStates, RowRecords, RowOf
<1>3. ASSUME NEW t \in worker'[g].threads, t.seq = r.seq PROVE ~Answerable(t)
  BY <1>1, <1>2, <1>3 DEF WorkerKeeps
<1>4. r \in storage'.rows
  BY <1>1
<1> QED BY <1>1, <1>3, <1>4 DEF CountableAt, Answerable

LEMMA RecordableGrows ==
  ASSUME StorageTyped, StorageTyped', storage.rows \subseteq storage'.rows, StorageKeeps
  PROVE  Countable \subseteq Countable'
<1> SUFFICES ASSUME NEW r \in Countable PROVE r \in Countable'
  OBVIOUS
<1>1. /\ r \in storage.rows
      /\ \A u \in storage.threads : u.route = r.route /\ u.seq = r.seq => u.pc = "stored"
  BY DEF Countable
<1>2. r = RowOf(r.route, r.seq)
  BY <1>1 DEF StorageTyped, StorageStates, RowRecords, RowOf
<1>3. ASSUME NEW t \in storage'.threads, t.route = r.route, t.seq = r.seq PROVE t.pc = "stored"
  BY <1>1, <1>2, <1>3 DEF StorageKeeps
<1>4. r \in storage'.rows
  BY <1>1
<1> QED BY <1>3, <1>4 DEF Countable

\* The two halves of SummaryCounts, for a step that counts nothing.
LEMMA WorkerCountKept ==
  ASSUME Typed, StorageTyped, StorageTyped', storage.rows \subseteq storage'.rows,
         NEW g \in Gateways, WorkerKeeps(g), worker[g].summaries_total <= Cardinality(CountableAt(g))
  PROVE  worker'[g].summaries_total <= Cardinality(CountableAt(g)')
<1>1. CountableAt(g) \subseteq CountableAt(g)'
  BY CountableGrows
<1>2. IsFiniteSet(CountableAt(g)')
  <2>1. CountableAt(g)' \subseteq storage'.rows
    BY DEF CountableAt
  <2> QED BY <2>1, FS_Subset DEF StorageTyped
<1>3. worker[g].summaries_total \in Nat
  BY DEF Typed, WorkerStates
<1>4. worker[g].summaries_total <= Cardinality(CountableAt(g)')
  BY <1>1, <1>2, <1>3, CountsGrow
<1> QED BY <1>4 DEF WorkerKeeps

LEMMA StorageCountKept ==
  ASSUME StorageTyped, StorageTyped', storage.rows \subseteq storage'.rows, StorageKeeps,
         storage.summary_records_total <= Cardinality(Countable)
  PROVE  storage'.summary_records_total <= Cardinality(Countable')
<1>1. Countable \subseteq Countable'
  BY RecordableGrows
<1>2. IsFiniteSet(Countable')
  <2>1. Countable' \subseteq storage'.rows
    BY DEF Countable
  <2> QED BY <2>1, FS_Subset DEF StorageTyped
<1>3. storage.summary_records_total \in Nat
  BY StorageFields
<1>4. storage.summary_records_total <= Cardinality(Countable')
  BY <1>1, <1>2, <1>3, CountsGrow
<1> QED BY <1>4 DEF StorageKeeps

\* Threads of the worker that go on to a state that answers for nothing, or that
\* end, count nothing; nor does one that goes on to answer for the same row.
LEMMA WorkerKeepsEnding ==
  ASSUME NEW g \in Gateways, worker'[g].threads \subseteq worker[g].threads,
         worker'[g].summaries_total = worker[g].summaries_total
  PROVE  WorkerKeeps(g)
BY DEF WorkerKeeps

LEMMA WorkerKeepsGoing ==
  ASSUME NEW g \in Gateways, NEW seq \in Sequences, NEW from, NEW to,
         Thread(seq, from) \in worker[g].threads,
         worker'[g].threads = Step(worker[g].threads, seq, from, to),
         worker'[g].summaries_total = worker[g].summaries_total,
         \/ to \notin {"posting", "stored"}
         \/ from \in {"posting", "stored"}
         \/ RowOf(g, seq) \notin storage.rows
  PROVE  WorkerKeeps(g)
<1> DEFINE old == Thread(seq, from)
           new == Thread(seq, to)
<1>1. worker'[g].threads = (worker[g].threads \ {old}) \union {new} /\ old \in worker[g].threads
  BY DEF Step
<1>2. old.seq = seq /\ new.seq = seq /\ new.pc = to /\ old.pc = from
  BY DEF Thread
<1> HIDE DEF old, new
<1>3. ASSUME NEW t \in worker'[g].threads, Answerable(t)
      PROVE  \/ \E u \in worker[g].threads : Answerable(u) /\ u.seq = t.seq
             \/ RowOf(g, t.seq) \notin storage.rows
  <2>1. CASE t \in worker[g].threads
    BY <1>3, <2>1
  <2>2. CASE t = new
    BY <1>1, <1>2, <1>3, <2>2 DEF Answerable
  <2> QED BY <1>1, <2>1, <2>2
<1> QED BY <1>3 DEF WorkerKeeps

LEMMA StorageKeepsGoing ==
  ASSUME NEW g \in Gateways, NEW seq \in Sequences, NEW from, NEW to,
         StoringThread(g, seq, from) \in storage.threads, from # "stored",
         storage'.threads = (storage.threads \ {StoringThread(g, seq, from)})
                              \union {StoringThread(g, seq, to)},
         storage'.summary_records_total = storage.summary_records_total
  PROVE  StorageKeeps
<1> DEFINE old == StoringThread(g, seq, from)
           new == StoringThread(g, seq, to)
<1>1. /\ storage'.threads = (storage.threads \ {old}) \union {new} /\ old \in storage.threads
      /\ old.route = g /\ old.seq = seq /\ old.pc = from
      /\ new.route = g /\ new.seq = seq /\ new.pc = to
  BY StoringFields
<1> HIDE DEF old, new
<1>2. ASSUME NEW t \in storage'.threads, t.pc # "stored"
      PROVE  \E u \in storage.threads : u.pc # "stored" /\ u.route = t.route /\ u.seq = t.seq
  <2>1. CASE t \in storage.threads
    BY <1>2, <2>1
  <2>2. CASE t = new
    BY <1>1, <2>2
  <2> QED BY <1>1, <2>1, <2>2
<1> QED BY <1>2 DEF StorageKeeps

\* A summary that was answered for is counted, and its row with it.
LEMMA SummaryCounted ==
  ASSUME Typed, StorageInv, NEW g \in Gateways, NEW seq \in Sequences, storage' = storage,
         Thread(seq, "stored") \in worker[g].threads,
         worker'[g].threads = Step(worker[g].threads, seq, "stored", "processed"),
         worker'[g].summaries_total = worker[g].summaries_total + 1,
         worker[g].summaries_total <= Cardinality(CountableAt(g))
  PROVE  worker'[g].summaries_total <= Cardinality(CountableAt(g)')
<1> DEFINE old == Thread(seq, "stored")
           new == Thread(seq, "processed")
           row == RowOf(g, seq)
<1>1. /\ worker'[g].threads = (worker[g].threads \ {old}) \union {new} /\ old \in worker[g].threads
      /\ old.seq = seq /\ new.seq = seq /\ new.pc = "processed" /\ old.pc = "stored"
      /\ row.route = g /\ row.seq = seq
  BY DEF Step, Thread, RowOf
<1>2. row \in storage.rows
  BY <1>1 DEF StorageInv, RowsBehind
<1> HIDE DEF old, new, row
<1>3. \A t \in worker'[g].threads : t \in worker[g].threads \/ t.pc = "processed"
  BY <1>1
<1>4. \A t \in worker'[g].threads : t.seq = seq => t.pc = "processed"
  <2>1. \A t \in worker[g].threads : t.seq = seq => t = old
    BY <1>1 DEF StorageInv, OneWorking
  <2> QED BY <1>1, <2>1
<1>5. row \notin CountableAt(g)
  BY <1>1 DEF CountableAt
<1>6. row \in CountableAt(g)'
  BY <1>1, <1>2, <1>4 DEF CountableAt
<1>7. CountableAt(g) \subseteq CountableAt(g)'
  BY <1>3 DEF CountableAt
<1>8. IsFiniteSet(CountableAt(g)')
  <2>1. CountableAt(g)' \subseteq storage.rows
    BY DEF CountableAt
  <2> QED BY <2>1, FS_Subset DEF StorageInv, StorageTyped
<1>9. worker[g].summaries_total \in Nat
  BY DEF Typed, WorkerStates
<1>10. worker[g].summaries_total + 1 <= Cardinality(CountableAt(g)')
  <2> HIDE DEF row
  <2> QED BY <1>5, <1>6, <1>7, <1>8, <1>9, CountsOneMore
<1> QED BY <1>10

\* A row is recorded in the counter of cloud-db.
LEMMA RowRecorded ==
  ASSUME StorageInv, NEW g \in Gateways, NEW seq \in Sequences,
         StoringThread(g, seq, "count") \in storage.threads,
         StorageBecomes((storage.threads \ {StoringThread(g, seq, "count")})
                          \union {StoringThread(g, seq, "stored")},
                        storage.rows, storage.summary_records_total + 1),
         storage.summary_records_total <= Cardinality(Countable)
  PROVE  storage'.summary_records_total <= Cardinality(Countable')
<1> DEFINE old == StoringThread(g, seq, "count")
           new == StoringThread(g, seq, "stored")
           row == RowOf(g, seq)
<1>1. /\ storage'.threads = (storage.threads \ {old}) \union {new} /\ old \in storage.threads
      /\ storage'.rows = storage.rows
      /\ storage'.summary_records_total = storage.summary_records_total + 1
      /\ old.route = g /\ old.seq = seq /\ old.pc = "count"
      /\ new.route = g /\ new.seq = seq /\ new.pc = "stored"
      /\ row.route = g /\ row.seq = seq
  BY StoringFields DEF StorageBecomes
<1>2. row \in storage.rows
  BY <1>1 DEF StorageInv, RowsBehind
<1> HIDE DEF old, new, row
<1>3. \A t \in storage.threads : t.route = g /\ t.seq = seq => t = old
  BY <1>1 DEF StorageInv, OneStoring
<1>4. row \notin Countable
  BY <1>1 DEF Countable
<1>5. row \in Countable'
  BY <1>1, <1>2, <1>3 DEF Countable
<1>6. Countable \subseteq Countable'
  BY <1>1 DEF Countable
<1>7. IsFiniteSet(Countable')
  <2>1. Countable' \subseteq storage.rows
    BY <1>1 DEF Countable
  <2> QED BY <2>1, FS_Subset DEF StorageInv, StorageTyped
<1>8. storage.summary_records_total \in Nat
  BY StorageFields DEF StorageInv
<1>9. storage.summary_records_total + 1 <= Cardinality(Countable')
  BY <1>4, <1>5, <1>6, <1>7, <1>8, CountsOneMore
<1> QED BY <1>1, <1>9

\* Rows are never deleted.
LEMMA RowsStay ==
  ASSUME RelayInv, OnceInv, [PipelineNext]_vars
  PROVE  storage.rows \subseteq storage'.rows
<1>0. Typed /\ StorageTyped
  BY DEF RelayInv, OnceInv
<1>1. CASE UNCHANGED storage
  BY <1>1
<1>2. ASSUME NEW th, NEW rows, NEW n, StorageBecomes(th, rows, n), storage.rows \subseteq rows
      PROVE  storage.rows \subseteq storage'.rows
  BY <1>2 DEF StorageBecomes
<1>3. ASSUME NEW g \in Gateways, NEW seq \in Sequences,
             Process(g, seq) \/ SummaryGivesUp(g, seq) \/ ServeSummary(g, seq)
      PROVE  storage.rows \subseteq storage'.rows
  <2>1. CASE Process(g, seq)
    BY <1>0, <1>1, <1>2, <2>1, ProcessEffect
  <2>2. CASE SummaryGivesUp(g, seq)
    <3>1. PICK lost : StorageBecomes(storage.threads \ lost, storage.rows, storage.summary_records_total)
      BY <1>0, <2>2, SummaryGivesUpEffect
    <3> QED BY <1>2, <3>1
  <2>3. CASE InsertSummary(g, seq)
    BY <1>0, <2>3, InsertEffect DEF StorageBecomes
  <2>4. CASE CountRecord(g, seq)
    BY <1>0, <1>2, <2>4, CountRecordEffect
  <2>5. CASE Confirm(g, seq)
    BY <1>0, <1>2, <2>5, ConfirmEffect
  <2> QED BY <1>3, <2>1, <2>2, <2>3, <2>4, <2>5 DEF ServeSummary
<1>4. CASE RestartStorage
  BY <1>0, <1>2, <1>4, RestartStorageEffect
<1>5. CASE Generate \/ Post \/ SensorGivesUp \/ UNCHANGED vars
  BY <1>1, <1>5 DEF Generate, Post, SensorGivesUp, vars
<1>6. CASE \E g \in Gateways : Forward(g) \/ ForwardGivesUp(g)
  BY <1>1, <1>6 DEF Forward, ForwardGivesUp
<1>7. CASE \E g \in Gateways, seq \in Sequences :
             Serve(g, seq) \/ CountProcessed(g, seq) \/ AnswerForward(g, seq)
  BY <1>1, <1>7 DEF Serve, CountProcessed, AnswerForward
<1> QED BY <1>3, <1>4, <1>5, <1>6, <1>7 DEF PipelineNext, Handle

LEMMA SummaryStep ==
  ASSUME RelayInv, OnceInv, SummaryCounts, [PipelineNext]_vars
  PROVE  SummaryCounts'
<1>0. /\ Typed /\ StorageTyped /\ StorageInv /\ StorageTyped'
      /\ storage.rows \subseteq storage'.rows
  BY OnceStep, RowsStay DEF RelayInv, OnceInv, StorageInv
<1>1. ASSUME NEW g \in Gateways, WorkerKeeps(g)
      PROVE  worker'[g].summaries_total <= Cardinality(CountableAt(g)')
  BY <1>0, <1>1, WorkerCountKept DEF SummaryCounts
<1>2. ASSUME StorageKeeps PROVE storage'.summary_records_total <= Cardinality(Countable')
  BY <1>0, <1>2, StorageCountKept DEF SummaryCounts
<1>3. ASSUME NEW g \in Gateways, worker'[g] = worker[g] PROVE WorkerKeeps(g)
  BY <1>3, WorkerKeepsEnding
<1>4. ASSUME storage' = storage PROVE StorageKeeps
  BY <1>4 DEF StorageKeeps
<1>5. ASSUME \A g \in Gateways : WorkerKeeps(g), StorageKeeps PROVE SummaryCounts'
  BY <1>1, <1>2, <1>5 DEF SummaryCounts
<1>6. ASSUME NEW th, NEW n, storage'.threads \subseteq storage.threads,
             storage'.summary_records_total = storage.summary_records_total
      PROVE  StorageKeeps
  BY <1>6 DEF StorageKeeps
<1>7. ASSUME NEW g \in Gateways, NEW th, WorkerThreadsBecome(g, th)
      PROVE  /\ worker'[g].threads = th
             /\ worker'[g].summaries_total = worker[g].summaries_total
             /\ \A h \in Gateways \ {g} : WorkerKeeps(h)
  <2>1. /\ worker'[g].threads = th
        /\ worker'[g].summaries_total = worker[g].summaries_total
        /\ \A h \in Gateways \ {g} : worker'[h] = worker[h]
    BY <1>7 DEF WorkerThreadsBecome, WorkerBecomes
  <2> QED BY <1>3, <2>1
<1>8. CASE Generate \/ Post \/ SensorGivesUp \/ UNCHANGED vars
           \/ \E g \in Gateways, seq \in Sequences : Serve(g, seq)
  <2>1. UNCHANGED <<worker, storage>>
    BY <1>8 DEF Generate, Post, SensorGivesUp, Serve, vars
  <2> QED BY <1>3, <1>4, <1>5, <2>1
<1>9. ASSUME NEW g \in Gateways, Forward(g) PROVE SummaryCounts'
  <2> DEFINE new == Thread(Head(gateway[g].queue), "process")
  <2>1. WorkerThreadsBecome(g, worker[g].threads \union {new}) /\ storage' = storage
    BY <1>0, <1>9, ForwardEffect DEF Forward
  <2>2. ~Answerable(new)
    BY DEF Answerable, Thread
  <2> HIDE DEF new
  <2>3. WorkerKeeps(g)
    BY <1>7, <2>1, <2>2 DEF WorkerKeeps
  <2> QED BY <1>4, <1>5, <1>7, <2>1, <2>3
<1>10. ASSUME NEW g \in Gateways, ForwardGivesUp(g) PROVE SummaryCounts'
  <2>1. PICK lost : WorkerThreadsBecome(g, worker[g].threads \ lost)
    BY <1>0, <1>10, ForwardGivesUpEffect
  <2>2. storage' = storage
    BY <1>10 DEF ForwardGivesUp
  <2>3. WorkerKeeps(g)
    BY <1>7, <2>1, WorkerKeepsEnding
  <2> QED BY <1>4, <1>5, <1>7, <2>1, <2>2, <2>3
<1>11. ASSUME NEW g \in Gateways, NEW seq \in Sequences, AnswerForward(g, seq)
       PROVE  SummaryCounts'
  <2>1. WorkerThreadsBecome(g, worker[g].threads \ {Thread(seq, "processed")})
        /\ storage' = storage
    BY <1>0, <1>11, AnswerForwardEffect DEF AnswerForward
  <2>2. WorkerKeeps(g)
    BY <1>7, <2>1, WorkerKeepsEnding
  <2> QED BY <1>4, <1>5, <1>7, <2>1, <2>2
<1>12. ASSUME NEW g \in Gateways, NEW seq \in Sequences, NEW from, NEW to,
              Thread(seq, from) \in worker[g].threads,
              WorkerThreadsBecome(g, Step(worker[g].threads, seq, from, to)),
              \/ to \notin {"posting", "stored"}
              \/ from \in {"posting", "stored"}
              \/ RowOf(g, seq) \notin storage.rows
       PROVE  \A h \in Gateways : WorkerKeeps(h)
  <2>1. /\ worker'[g].threads = Step(worker[g].threads, seq, from, to)
        /\ worker'[g].summaries_total = worker[g].summaries_total
        /\ \A h \in Gateways \ {g} : WorkerKeeps(h)
    BY <1>7, <1>12
  <2>2. WorkerKeeps(g)
    BY <1>12, <2>1, WorkerKeepsGoing
  <2> QED BY <2>1, <2>2
<1>13. ASSUME NEW g \in Gateways, NEW seq \in Sequences, Process(g, seq) PROVE SummaryCounts'
  <2>1. Thread(seq, "process") \in worker[g].threads
    BY <1>0, <1>13, ProcessEffect
  <2>2. ~Heard(g, seq)
    BY <1>0, <2>1 DEF StorageInv, NewToStorage, Working
  <2>3. RowOf(g, seq) \notin storage.rows
    BY <2>2 DEF Heard
  <2>4. CASE /\ WorkerThreadsBecome(g, Step(worker[g].threads, seq, "process", "posting"))
             /\ StorageBecomes(storage.threads \union {StoringThread(g, seq, "insert")},
                               storage.rows, storage.summary_records_total)
    <3> DEFINE new == StoringThread(g, seq, "insert")
    <3>1. /\ storage'.threads = storage.threads \union {new}
          /\ storage'.summary_records_total = storage.summary_records_total
      BY <2>4 DEF StorageBecomes
    <3>2. new.route = g /\ new.seq = seq
      BY StoringFields
    <3> HIDE DEF new
    <3>3. StorageKeeps
      BY <2>3, <3>1, <3>2 DEF StorageKeeps
    <3>4. \A h \in Gateways : WorkerKeeps(h)
      BY <1>12, <2>1, <2>3, <2>4
    <3> QED BY <1>5, <3>3, <3>4
  <2>5. CASE /\ WorkerThreadsBecome(g, Step(worker[g].threads, seq, "process", "plain"))
             /\ storage' = storage
    <3>1. \A h \in Gateways : WorkerKeeps(h)
      BY <1>12, <2>1, <2>3, <2>5
    <3> QED BY <1>4, <1>5, <2>5, <3>1
  <2> QED BY <1>0, <1>13, <2>4, <2>5, ProcessEffect
<1>14. ASSUME NEW g \in Gateways, NEW seq \in Sequences, CountProcessed(g, seq)
       PROVE  SummaryCounts'
  <2>1. PICK pc \in {"stored", "failed", "plain"}, sm, er \in Nat :
          /\ Thread(seq, pc) \in worker[g].threads
          /\ WorkerBecomes(g, Step(worker[g].threads, seq, pc, "processed"),
               worker[g].requests_total + 1, seq, sm, er)
          /\ sm = IF pc = "stored" THEN worker[g].summaries_total + 1
                  ELSE worker[g].summaries_total
    BY <1>0, <1>14, CountProcessedEffect
  <2>2. /\ worker'[g].threads = Step(worker[g].threads, seq, pc, "processed")
        /\ worker'[g].summaries_total = sm
        /\ \A h \in Gateways \ {g} : worker'[h] = worker[h]
    BY <2>1 DEF WorkerBecomes
  <2>3. storage' = storage
    BY <1>14 DEF CountProcessed
  <2>4. worker'[g].summaries_total <= Cardinality(CountableAt(g)')
    <3>1. CASE pc = "stored"
      <4>1. /\ Thread(seq, "stored") \in worker[g].threads
            /\ worker'[g].threads = Step(worker[g].threads, seq, "stored", "processed")
            /\ worker'[g].summaries_total = worker[g].summaries_total + 1
            /\ worker[g].summaries_total <= Cardinality(CountableAt(g))
        BY <2>1, <2>2, <3>1 DEF SummaryCounts
      <4> QED BY <1>0, <2>3, <4>1, SummaryCounted
    <3>2. CASE pc # "stored"
      <4>1. worker'[g].summaries_total = worker[g].summaries_total
        BY <2>1, <2>2, <3>2
      <4>2. WorkerKeeps(g)
        BY <2>1, <2>2, <4>1, WorkerKeepsGoing
      <4> QED BY <1>1, <4>2
    <3> QED BY <3>1, <3>2
  <2>5. \A h \in Gateways \ {g} : worker'[h].summaries_total <= Cardinality(CountableAt(h)')
    BY <1>1, <1>3, <2>2
  <2>6. storage'.summary_records_total <= Cardinality(Countable')
    BY <1>2, <1>4, <2>3
  <2> QED BY <2>4, <2>5, <2>6 DEF SummaryCounts
<1>15. ASSUME NEW g \in Gateways, NEW seq \in Sequences, SummaryGivesUp(g, seq)
       PROVE  SummaryCounts'
  <2>1. /\ Thread(seq, "posting") \in worker[g].threads
        /\ WorkerThreadsBecome(g, Step(worker[g].threads, seq, "posting", "failed"))
    BY <1>0, <1>15, SummaryGivesUpEffect
  <2>2. PICK lost : StorageBecomes(storage.threads \ lost, storage.rows, storage.summary_records_total)
    BY <1>0, <1>15, SummaryGivesUpEffect
  <2>3. StorageKeeps
    BY <2>2 DEF StorageKeeps, StorageBecomes
  <2>4. \A h \in Gateways : WorkerKeeps(h)
    BY <1>12, <2>1
  <2> QED BY <1>5, <2>3, <2>4
<1>16. ASSUME NEW g \in Gateways, NEW seq \in Sequences, InsertSummary(g, seq)
       PROVE  SummaryCounts'
  <2>1. /\ worker' = worker /\ StoringThread(g, seq, "insert") \in storage.threads
        /\ storage'.threads = (storage.threads \ {StoringThread(g, seq, "insert")})
                                \union {StoringThread(g, seq, "count")}
        /\ storage'.summary_records_total = storage.summary_records_total
    BY <1>0, <1>16, InsertEffect DEF StorageBecomes
  <2>2. StorageKeeps
    BY <2>1, StorageKeepsGoing
  <2> QED BY <1>3, <1>5, <2>1, <2>2
<1>17. ASSUME NEW g \in Gateways, NEW seq \in Sequences, CountRecord(g, seq)
       PROVE  SummaryCounts'
  <2>1. worker' = worker
    BY <1>0, <1>17, CountRecordEffect
  <2>2. storage'.summary_records_total <= Cardinality(Countable')
    BY <1>0, <1>17, CountRecordEffect, RowRecorded DEF SummaryCounts
  <2> QED BY <1>1, <1>3, <2>1, <2>2 DEF SummaryCounts
<1>18. ASSUME NEW g \in Gateways, NEW seq \in Sequences, Confirm(g, seq)
       PROVE  SummaryCounts'
  <2>1. /\ storage'.threads \subseteq storage.threads
        /\ storage'.summary_records_total = storage.summary_records_total
    BY <1>0, <1>18, ConfirmEffect DEF StorageBecomes
  <2>2. StorageKeeps
    BY <2>1 DEF StorageKeeps
  <2>3. CASE worker' = worker
    BY <1>3, <1>5, <2>2, <2>3
  <2>4. CASE /\ Thread(seq, "posting") \in worker[g].threads
             /\ WorkerThreadsBecome(g, Step(worker[g].threads, seq, "posting", "stored"))
    <3>1. \A h \in Gateways : WorkerKeeps(h)
      BY <1>12, <2>4
    <3> QED BY <1>5, <2>2, <3>1
  <2> QED BY <1>0, <1>18, <2>3, <2>4, ConfirmEffect
<1>19. CASE RestartStorage
  <2>1. storage'.summary_records_total = 0 /\ storage'.rows = storage.rows
    BY <1>0, <1>19, RestartStorageEffect DEF StorageBecomes
  <2>2. storage'.summary_records_total <= Cardinality(Countable')
    <3>1. Countable' \subseteq storage.rows
      BY <2>1 DEF Countable
    <3>2. IsFiniteSet(Countable')
      BY <1>0, <3>1, FS_Subset DEF StorageTyped
    <3> QED BY <2>1, <3>2, FS_CardinalityType
  <2>3. ASSUME NEW g \in Gateways PROVE WorkerKeeps(g)
    <3>1. /\ worker'[g].threads = {Broken(t) : t \in worker[g].threads}
          /\ worker'[g].summaries_total = worker[g].summaries_total
      BY <1>0, <1>19, RestartEffect
    <3>2. worker[g].threads \in SUBSET WorkerThreads
      BY <1>0 DEF Typed, WorkerStates
    <3>3. ASSUME NEW t \in worker'[g].threads, Answerable(t)
          PROVE  \E u \in worker[g].threads : Answerable(u) /\ u.seq = t.seq
      <4>1. PICK u \in worker[g].threads : t = Broken(u)
        BY <3>1
      <4>2. u.seq = t.seq /\ t = u
        BY <3>2, <3>3, <4>1, BrokenThread DEF Answerable
      <4> QED BY <3>3, <4>2
    <3> QED BY <3>1, <3>3 DEF WorkerKeeps
  <2> QED BY <1>1, <2>2, <2>3 DEF SummaryCounts
<1> QED
  BY <1>8, <1>9, <1>10, <1>11, <1>13, <1>14, <1>15, <1>16, <1>17, <1>18, <1>19
     DEF PipelineNext, Handle, ServeSummary

\* At the start nothing was sent, heard of or counted.
LEMMA SummaryStart == PipelineInit => OnceInv /\ SummaryCounts
<1> SUFFICES ASSUME PipelineInit PROVE OnceInv /\ SummaryCounts
  OBVIOUS
<1>1. /\ storage.threads = {} /\ storage.rows = {} /\ storage.summary_records_total = 0
      /\ storage \in StorageStates
  BY DEF PipelineInit, StorageStates
<1>2. \A g \in Gateways : /\ worker[g].threads = {} /\ worker[g].summaries_total = 0
                          /\ gateway[g].queue = <<>> /\ gateway[g].threads = {}
  BY DEF PipelineInit
<1>3. \A g \in Gateways : ~\E i \in DOMAIN gateway[g].queue : TRUE
  BY <1>2
<1>4. \A g \in Gateways, seq \in Sequences : ~Known(g, seq) /\ ~Heard(g, seq) /\ ~InQueue(g, seq)
  BY <1>1, <1>2, <1>3 DEF Known, Heard, InQueue
<1>5. StorageTyped /\ OneStoring
  BY <1>1, FS_EmptySet DEF StorageTyped, OneStoring
<1>6. QueueDistinct
  BY <1>3 DEF QueueDistinct
<1>7. NewToWorker /\ NewToQueue /\ NewToStorage
  BY <1>4 DEF NewToWorker, NewToQueue, NewToStorage
<1>8. OneWorking /\ RowsBehind
  BY <1>1, <1>2 DEF OneWorking, RowsBehind
<1>9. \A g \in Gateways : CountableAt(g) = {}
  BY <1>1 DEF CountableAt
<1>10. Countable = {}
  BY <1>1 DEF Countable
<1>11. SummaryCounts
  <2>1. Cardinality({}) = 0
    BY FS_EmptySet
  <2>2. Cardinality(Countable) = 0 /\ \A g \in Gateways : Cardinality(CountableAt(g)) = 0
    BY <1>9, <1>10, <2>1
  <2> QED BY <1>1, <1>2, <2>2 DEF SummaryCounts
<1> QED BY <1>5, <1>6, <1>7, <1>8, <1>11 DEF OnceInv

\* In every state no payload is to come where it has been, every summary the worker
\* counted is a row it no longer answers for, and every row cloud-db counted is one
\* it is done with (insert_summary before stats_lock before the answer).
THEOREM SummaryInvariant == PipelineSpec => []SummaryInv
<1>1. PipelineInit => SummaryInv
  BY InvInit, SummaryStart DEF SummaryInv
<1>2. SummaryInv /\ [PipelineNext]_vars => SummaryInv'
  <2> SUFFICES ASSUME SummaryInv, [PipelineNext]_vars PROVE SummaryInv'
    OBVIOUS
  <2>1. RelayInv /\ OnceInv /\ SummaryCounts
    BY DEF SummaryInv
  <2>2. RelayInv' /\ OnceInv' /\ SummaryCounts'
    BY <2>1, InvStep, OnceStep, SummaryStep
  <2> QED BY <2>2 DEF SummaryInv
<1> QED BY <1>1, <1>2, PTL DEF PipelineSpec

\* A summary the worker counts as posted is a row of cloud-db, and cloud-db counts
\* no more records than it has rows, also after it restarted (insert_summary,
\* maybe_forward_summary).
THEOREM PostedIsStored == PipelineSpec => []SummariesAreStored
<1>1. SummaryInv => SummariesAreStored
  <2> SUFFICES ASSUME SummaryInv PROVE SummariesAreStored
    OBVIOUS
  <2>1. Typed /\ StorageTyped /\ SummaryCounts
    BY DEF SummaryInv, RelayInv, OnceInv
  <2>2. ASSUME NEW g \in Gateways PROVE worker[g].summaries_total <= Cardinality(Rows(g))
    <3>1. CountableAt(g) \subseteq Rows(g) /\ Rows(g) \subseteq storage.rows
      BY DEF CountableAt, Rows
    <3>2. IsFiniteSet(Rows(g))
      BY <2>1, <3>1, FS_Subset DEF StorageTyped
    <3>3. worker[g].summaries_total \in Nat
      BY <2>1 DEF Typed, WorkerStates
    <3> QED BY <2>1, <3>1, <3>2, <3>3, CountsGrow DEF SummaryCounts
  <2>3. storage.summary_records_total <= Cardinality(storage.rows)
    <3>1. Countable \subseteq storage.rows
      BY DEF Countable
    <3> QED BY <2>1, <3>1, StorageFields, CountsGrow DEF SummaryCounts, StorageTyped
  <2> QED BY <2>2, <2>3 DEF SummariesAreStored
<1> QED BY <1>1, SummaryInvariant, PTL

-----------------------------------------------------------------------------
(* Sums over a finite set. The folds of the community modules are recursive   *)
(* functions on its subsets: that they are well defined, and what they are    *)
(* when one term grows, is by induction on the number of elements.            *)

\* A nonempty set of numbers has a least one.
LEMMA Least ==
  ASSUME NEW T, T \subseteq Nat, T # {}
  PROVE  \E n \in T : \A m \in T : n <= m
<1>1. PICK R : IsWellFoundedOn(R, Nat) /\ \A y, x \in Nat : y < x => <<y, x>> \in R
  <2> DEFINE Q == OpToRel(<, Nat)
  <2>1. IsWellFoundedOn(Q, Nat)
    BY NatLessThanWellFounded
  <2>2. \A y, x \in Nat : y < x => <<y, x>> \in Q
    BY DEF OpToRel
  <2> HIDE DEF Q
  <2> QED BY <2>1, <2>2
<1>2. \E x \in T : \A y \in T : ~(<<y, x>> \in R)
  <2>1. IsWellFoundedOn(R, Nat)
    BY <1>1
  <2> QED BY <2>1, WFMin, Zenon
<1>4. PICK n \in T : \A m \in T : ~(<<m, n>> \in R)
  BY <1>2
<1>3. \A m \in T : ~(m < n)
  BY <1>1, <1>4
<1> QED BY <1>3

\* What holds of the empty set, and of a set when it holds without any one of its
\* elements, holds of every subset of a finite set.
LEMMA SizeInduction ==
  ASSUME NEW D, IsFiniteSet(D), NEW Good, {} \in Good,
         \A T \in SUBSET D : T # {} /\ (\A x \in T : T \ {x} \in Good) => T \in Good
  PROVE  \A T \in SUBSET D : T \in Good
<1> DEFINE Bad == {T \in SUBSET D : T \notin Good}
           Sizes == {Cardinality(T) : T \in Bad}
<1> SUFFICES ASSUME Bad # {} PROVE FALSE
  OBVIOUS
<1>1. \A T \in SUBSET D : IsFiniteSet(T) /\ Cardinality(T) \in Nat
  BY FS_Subset, FS_CardinalityType
<1>2. Sizes \subseteq Nat /\ Sizes # {}
  BY <1>1
<1> HIDE DEF Sizes
<1>3. PICK n \in Sizes : \A m \in Sizes : n <= m
  BY <1>2, Least
<1>4. PICK T \in Bad : Cardinality(T) = n
  BY <1>3 DEF Sizes
<1>5. ASSUME NEW x \in T PROVE T \ {x} \in Good
  <2>1. Cardinality(T \ {x}) = Cardinality(T) - 1 /\ T \ {x} \in SUBSET D
    BY <1>1, <1>5, FS_RemoveElement
  <2>2. Cardinality(T) \in Nat
    BY <1>1
  <2>3. Cardinality(T \ {x}) \notin Sizes
    BY <1>3, <1>4, <2>1, <2>2
  <2> QED BY <2>1, <2>3 DEF Sizes
<1>6. T # {}
  BY <1>4
<1> QED BY <1>4, <1>5, <1>6

\* A sum over the subsets of D, as the folds of the community modules take it: of one
\* element, and of the rest.
Some(T) == CHOOSE x \in T : TRUE

IsSum(F, f, D) ==
  /\ F \in [SUBSET D -> Nat]
  /\ \A T \in SUBSET D : F[T] = IF T = {} THEN 0 ELSE f[Some(T)] + F[T \ {Some(T)}]

LEMMA SumExists ==
  ASSUME NEW D, IsFiniteSet(D), NEW f \in [D -> Nat]
  PROVE  \E F : IsSum(F, f, D)
<1> DEFINE Sum(H, T) == IF T = {} THEN 0 ELSE f[Some(T)] + H[T \ {Some(T)}]
           Right(n) == {H \in [SUBSET D -> Nat] :
                          \A T \in SUBSET D : Cardinality(T) <= n => H[T] = Sum(H, T)}
           Bad == {n \in Nat : Right(n) = {}}
<1>1. ASSUME NEW T \in SUBSET D, T # {}
      PROVE  /\ Some(T) \in D /\ T \ {Some(T)} \in SUBSET D
             /\ Cardinality(T \ {Some(T)}) = Cardinality(T) - 1
  <2>1. Some(T) \in T
    BY <1>1 DEF Some
  <2>2. IsFiniteSet(T)
    BY FS_Subset
  <2> QED BY <2>1, <2>2, FS_RemoveElement
<1>2. \A T \in SUBSET D : Cardinality(T) \in Nat /\ IsFiniteSet(T)
  BY FS_Subset, FS_CardinalityType
<1>3. ASSUME NEW H \in [SUBSET D -> Nat], NEW T \in SUBSET D PROVE Sum(H, T) \in Nat
  <2>1. CASE T = {}
    BY <2>1
  <2>2. CASE T # {}
    <3>1. f[Some(T)] \in Nat /\ H[T \ {Some(T)}] \in Nat
      BY <1>1, <2>2
    <3> QED BY <2>2, <3>1
  <2> QED BY <2>1, <2>2
<1>4. 0 \notin Bad
  <2> DEFINE H == [T \in SUBSET D |-> 0]
  <2>1. H \in [SUBSET D -> Nat]
    OBVIOUS
  <2>2. ASSUME NEW T \in SUBSET D, Cardinality(T) <= 0 PROVE H[T] = Sum(H, T)
    <3>1. T = {}
      BY <1>2, <2>2, FS_EmptySet
    <3> QED BY <3>1
  <2>3. H \in Right(0)
    BY <2>1, <2>2
  <2> QED BY <2>3
<1>5. ASSUME NEW n \in Nat, n \notin Bad PROVE n + 1 \notin Bad
  <2>1. PICK H \in [SUBSET D -> Nat] :
          \A T \in SUBSET D : Cardinality(T) <= n => H[T] = Sum(H, T)
    BY <1>5
  <2> DEFINE G == [T \in SUBSET D |-> Sum(H, T)]
  <2>2. G \in [SUBSET D -> Nat]
    BY <1>3
  <2>3. ASSUME NEW T \in SUBSET D, Cardinality(T) <= n + 1 PROVE G[T] = Sum(G, T)
    <3>1. CASE T = {}
      BY <3>1
    <3>2. CASE T # {}
      <4> DEFINE U == T \ {Some(T)}
      <4>1. U \in SUBSET D /\ Cardinality(U) <= n
        BY <1>1, <1>2, <2>3, <3>2
      <4>2. H[U] = Sum(H, U)
        BY <2>1, <4>1
      <4>3. G[U] = Sum(H, U)
        BY <4>1
      <4>4. Sum(G, T) = f[Some(T)] + G[U] /\ G[T] = f[Some(T)] + H[U]
        BY <3>2
      <4> QED BY <4>2, <4>3, <4>4
    <3> QED BY <3>1, <3>2
  <2>4. G \in Right(n + 1)
    BY <2>2, <2>3
  <2> QED BY <2>4
<1>6. Bad = {}
  <2> SUFFICES ASSUME Bad # {} PROVE FALSE
    OBVIOUS
  <2> HIDE DEF Right
  <2>1. PICK n \in Bad : \A m \in Bad : n <= m
    <3>1. Bad \subseteq Nat
      OBVIOUS
    <3> HIDE DEF Bad
    <3> QED BY <3>1, Least
  <2>2. n # 0 /\ n \in Nat
    BY <1>4
  <2>3. n - 1 \in Nat /\ n - 1 \notin Bad /\ (n - 1) + 1 = n
    <3> HIDE DEF Bad
    <3> QED BY <2>1, <2>2
  <2>4. (n - 1) + 1 \notin Bad
    <3> HIDE DEF Bad
    <3> QED BY <1>5, <2>3
  <2> QED BY <2>1, <2>3, <2>4
<1>7. PICK H \in [SUBSET D -> Nat] :
        \A T \in SUBSET D : Cardinality(T) <= Cardinality(D) => H[T] = Sum(H, T)
  <2>1. Cardinality(D) \notin Bad /\ Cardinality(D) \in Nat
    BY <1>2, <1>6
  <2> QED BY <2>1
<1>8. \A T \in SUBSET D : Cardinality(T) <= Cardinality(D)
  BY FS_Subset
<1>9. IsSum(H, f, D)
  BY <1>7, <1>8 DEF IsSum
<1> QED BY <1>9

\* What holds of a sum over the rest holds of the sum.
LEMMA SumParts ==
  ASSUME NEW D, NEW f, NEW F, IsSum(F, f, D)
  PROVE  \A T \in SUBSET D : T # {} =>
           /\ Some(T) \in T /\ Some(T) \in D
           /\ F[T] = f[Some(T)] + F[T \ {Some(T)}] /\ F[T \ {Some(T)}] \in Nat
<1> SUFFICES ASSUME NEW T \in SUBSET D, T # {}
             PROVE  /\ Some(T) \in T /\ Some(T) \in D
                    /\ F[T] = f[Some(T)] + F[T \ {Some(T)}] /\ F[T \ {Some(T)}] \in Nat
  OBVIOUS
<1>1. Some(T) \in T
  BY DEF Some
<1>2. T \ {Some(T)} \in SUBSET D
  OBVIOUS
<1> QED BY <1>1, <1>2 DEF IsSum

LEMMA SumGrows ==
  ASSUME NEW D, IsFiniteSet(D), NEW f \in [D -> Nat], NEW e \in [D -> Nat],
         NEW F, NEW G, IsSum(F, f, D), IsSum(G, e, D),
         NEW g \in D, NEW d \in Nat, e[g] = f[g] + d, \A h \in D \ {g} : e[h] = f[h]
  PROVE  G[D] = F[D] + d
<1> DEFINE part(T) == IF g \in T THEN d ELSE 0
           Good == {T \in SUBSET D : G[T] = F[T] + part(T)}
<1>3. \A T \in SUBSET D : T # {} =>
        /\ Some(T) \in T /\ Some(T) \in D
        /\ F[T] = f[Some(T)] + F[T \ {Some(T)}] /\ F[T \ {Some(T)}] \in Nat
  BY ONLY IsSum(F, f, D), SumParts
<1>4. \A T \in SUBSET D : T # {} =>
        G[T] = e[Some(T)] + G[T \ {Some(T)}] /\ G[T \ {Some(T)}] \in Nat
  BY ONLY IsSum(G, e, D), SumParts
<1>1. {} \in Good
  <2>1. F[{}] = 0 /\ G[{}] = 0
    BY DEF IsSum
  <2> QED BY <2>1
<1>2. ASSUME NEW T \in SUBSET D, T # {}, \A x \in T : T \ {x} \in Good PROVE T \in Good
  <2> DEFINE x == Some(T)
  <2>0. T \in SUBSET D /\ T # {}
    BY <1>2
  <2>1. x \in T /\ x \in D /\ F[T] = f[x] + F[T \ {x}] /\ F[T \ {x}] \in Nat
    BY <1>3, <2>0
  <2>2. G[T] = e[x] + G[T \ {x}]
    BY <1>4, <2>0
  <2> HIDE DEF x
  <2>3. G[T \ {x}] = F[T \ {x}] + part(T \ {x})
    <3>1. T \ {x} \in Good
      BY <1>2, <2>1
    <3> QED BY <3>1
  <2>4. f[x] \in Nat /\ e[x] \in Nat
    BY <2>1
  <2>5. CASE x = g
    <3>1. part(T) = d /\ part(T \ {x}) = 0 /\ e[x] = f[x] + d
      BY <2>1, <2>5
    <3>2. G[T] = F[T] + part(T)
      <4> HIDE DEF part
      <4> QED BY <2>1, <2>2, <2>3, <2>4, <3>1
    <3> QED BY <3>2
  <2>6. CASE x # g
    <3>1. part(T) = part(T \ {x}) /\ e[x] = f[x] /\ part(T) \in Nat
      BY <2>1, <2>6
    <3>2. G[T] = F[T] + part(T)
      <4> HIDE DEF part
      <4> QED BY <2>1, <2>2, <2>3, <2>4, <3>1
    <3> QED BY <3>2
  <2> QED BY <2>5, <2>6
<1> HIDE DEF Good
<1>5. \A T \in SUBSET D : T \in Good
  BY <1>1, <1>2, SizeInduction
<1>6. D \in Good
  BY <1>5
<1> QED BY <1>6 DEF Good

LEMMA SumMonotone ==
  ASSUME NEW D, IsFiniteSet(D), NEW f \in [D -> Nat], NEW e \in [D -> Nat],
         NEW F, NEW G, IsSum(F, f, D), IsSum(G, e, D), \A h \in D : f[h] <= e[h]
  PROVE  F[D] <= G[D]
<1> DEFINE Good == {T \in SUBSET D : F[T] <= G[T]}
<1>3. \A T \in SUBSET D : T # {} =>
        /\ Some(T) \in T /\ Some(T) \in D
        /\ F[T] = f[Some(T)] + F[T \ {Some(T)}] /\ F[T \ {Some(T)}] \in Nat
  BY ONLY IsSum(F, f, D), SumParts
<1>4. \A T \in SUBSET D : T # {} =>
        G[T] = e[Some(T)] + G[T \ {Some(T)}] /\ G[T \ {Some(T)}] \in Nat
  BY ONLY IsSum(G, e, D), SumParts
<1>1. {} \in Good
  <2>1. F[{}] = 0 /\ G[{}] = 0
    BY DEF IsSum
  <2> QED BY <2>1
<1>2. ASSUME NEW T \in SUBSET D, T # {}, \A x \in T : T \ {x} \in Good PROVE T \in Good
  <2> DEFINE x == Some(T)
  <2>0. T \in SUBSET D /\ T # {}
    BY <1>2
  <2>1. x \in T /\ x \in D /\ F[T] = f[x] + F[T \ {x}] /\ F[T \ {x}] \in Nat
    BY <1>3, <2>0
  <2>2. G[T] = e[x] + G[T \ {x}] /\ G[T \ {x}] \in Nat
    BY <1>4, <2>0
  <2> HIDE DEF x
  <2>3. F[T \ {x}] <= G[T \ {x}]
    <3>1. T \ {x} \in Good
      BY <1>2, <2>1
    <3> QED BY <3>1
  <2>4. f[x] \in Nat /\ e[x] \in Nat /\ f[x] <= e[x]
    BY <2>1
  <2>5. F[T] <= G[T]
    BY <2>1, <2>2, <2>3, <2>4
  <2> QED BY <2>5
<1> HIDE DEF Good
<1>5. \A T \in SUBSET D : T \in Good
  BY <1>1, <1>2, SizeInduction
<1>6. D \in Good
  BY <1>5
<1> QED BY <1>6 DEF Good

-----------------------------------------------------------------------------
(* The sensor. What it has counted as sent the gateways have accepted and     *)
(* answered for.                                                              *)

Delivered(g) == Accepted(g) - Cardinality(Uncounted(g, "accepted"))
DeliveredBy == [g \in Gateways |-> Delivered(g)]
AcceptedBy == [g \in Gateways |-> Accepted(g)]

SentWithin == \E F : IsSum(F, DeliveredBy, Gateways) /\ sensor.sent_total <= F[Gateways]
SentInv == DeliveredBy \in [Gateways -> Nat] /\ SentWithin

\* The sum of the specification is the sum here.
LEMMA AcceptedSum ==
  ASSUME AcceptedBy \in [Gateways -> Nat]
  PROVE  \E F : IsSum(F, AcceptedBy, Gateways) /\ MapThenSumSet(Accepted, Gateways) = F[Gateways]
<1> DEFINE Eq(it) ==
      it = [s \in SUBSET Gateways |->
              IF s = {} THEN 0
              ELSE Accepted(CHOOSE x \in s : TRUE) + it[s \ {CHOOSE x \in s : TRUE}]]
           F == CHOOSE it : Eq(it)
<1>1. MapThenSumSet(Accepted, Gateways) = F[Gateways]
  BY DEF MapThenSumSet, MapThenFoldSet
<1>2. \A x \in Gateways : AcceptedBy[x] = Accepted(x)
  BY DEF AcceptedBy
<1>3. PICK H : IsSum(H, AcceptedBy, Gateways)
  BY GatewaysAssumption, SumExists
<1>4. Eq(H)
  <2>1. ASSUME NEW s \in SUBSET Gateways
        PROVE  H[s] = IF s = {} THEN 0
                      ELSE Accepted(CHOOSE x \in s : TRUE) + H[s \ {CHOOSE x \in s : TRUE}]
    <3>1. CASE s = {}
      BY <1>3, <3>1 DEF IsSum
    <3>2. CASE s # {}
      BY <1>2, <1>3, <3>2 DEF IsSum, Some
    <3> QED BY <3>1, <3>2
  <2>2. H = [s \in SUBSET Gateways |-> H[s]]
    BY <1>3 DEF IsSum
  <2> QED BY <2>1, <2>2
<1>5. Eq(F)
  <2> HIDE DEF Eq
  <2> QED BY <1>4
<1>6. \A s \in SUBSET Gateways :
        F[s] = IF s = {} THEN 0 ELSE AcceptedBy[Some(s)] + F[s \ {Some(s)}]
  <2>1. \A s \in SUBSET Gateways :
          F[s] = IF s = {} THEN 0
                 ELSE Accepted(CHOOSE x \in s : TRUE) + F[s \ {CHOOSE x \in s : TRUE}]
    <3> HIDE DEF F
    <3> QED BY <1>5
  <2>2. \A s \in SUBSET Gateways : s # {} => AcceptedBy[Some(s)] = Accepted(CHOOSE x \in s : TRUE)
    BY <1>2 DEF Some
  <2> HIDE DEF F
  <2> QED BY <2>1, <2>2 DEF Some
<1>7. F = [s \in SUBSET Gateways |-> F[s]]
  <2> HIDE DEF F
  <2> QED BY <1>5
<1> HIDE DEF F
<1>8. F \in [SUBSET Gateways -> Nat]
  <2> DEFINE Good == {s \in SUBSET Gateways : F[s] \in Nat}
  <2>1. {} \in Good
    <3>1. {} \in SUBSET Gateways
      OBVIOUS
    <3>2. F[{}] = IF {} = {} THEN 0 ELSE AcceptedBy[Some({})] + F[{} \ {Some({})}]
      BY <1>6, <3>1
    <3>3. F[{}] = 0
      BY <3>2
    <3> QED BY <3>1, <3>3
  <2>2. ASSUME NEW s \in SUBSET Gateways, s # {}, \A x \in s : s \ {x} \in Good PROVE s \in Good
    <3>1. Some(s) \in s
      BY <2>2 DEF Some
    <3>2. AcceptedBy[Some(s)] \in Nat /\ F[s \ {Some(s)}] \in Nat
      BY <2>2, <3>1
    <3>3. F[s] = AcceptedBy[Some(s)] + F[s \ {Some(s)}]
      BY <1>6, <2>2
    <3> QED BY <3>2, <3>3
  <2> HIDE DEF Good
  <2>3. \A s \in SUBSET Gateways : s \in Good
    BY <2>1, <2>2, GatewaysAssumption, SizeInduction
  <2> QED BY <1>7, <2>3 DEF Good
<1>9. IsSum(F, AcceptedBy, Gateways)
  BY <1>6, <1>8 DEF IsSum
<1> QED BY <1>1, <1>9

\* A step at no gateway but g: others have delivered what they had.
LEMMA DeliveredElsewhere ==
  ASSUME NEW h \in Gateways, gateway'[h] = gateway[h]
  PROVE  Delivered(h)' = Delivered(h)
BY DEF Delivered, Accepted, Uncounted

LEMMA DeliveredTyped ==
  ASSUME RelayInv, NEW g \in Gateways
  PROVE  /\ gateway[g].received \in Nat /\ gateway[g].dropped \in Nat
         /\ IsFiniteSet(Uncounted(g, "accepted")) /\ Cardinality(Uncounted(g, "accepted")) \in Nat
         /\ Delivered(g) \in Int
<1>1. IsFiniteSet(gateway[g].threads)
  BY DEF RelayInv, ThreadsFinite
<1>2. IsFiniteSet(Uncounted(g, "accepted"))
  BY <1>1, FS_Subset DEF Uncounted
<1>3. Cardinality(Uncounted(g, "accepted")) \in Nat
  BY <1>2, FS_CardinalityType
<1> QED BY <1>2, <1>3, GatewayNumbers DEF RelayInv, Delivered, Accepted

\* Nothing that is answered for changes at g.
LEMMA DeliveredKept ==
  ASSUME NEW g \in Gateways, gateway'[g].received = gateway[g].received,
         gateway'[g].dropped = gateway[g].dropped,
         \A t : t.pc = "accepted" => (t \in gateway'[g].threads <=> t \in gateway[g].threads)
  PROVE  Delivered(g)' = Delivered(g)
<1>1. Uncounted(g, "accepted")' = Uncounted(g, "accepted")
  BY DEF Uncounted
<1> QED BY <1>1 DEF Delivered, Accepted

\* A step that answers nothing leaves the sums alone; one that does adds one.
LEMMA SentKept ==
  ASSUME SentInv, \A g \in Gateways : Delivered(g)' = Delivered(g),
         sensor'.sent_total = sensor.sent_total
  PROVE  SentInv'
<1>1. DeliveredBy' = DeliveredBy
  BY DEF DeliveredBy
<1> QED BY <1>1 DEF SentInv, SentWithin

LEMMA SentGrows ==
  ASSUME RelayInv, SentInv, NEW g \in Gateways, Delivered(g)' = Delivered(g) + 1,
         \A h \in Gateways \ {g} : Delivered(h)' = Delivered(h),
         sensor'.sent_total \in {sensor.sent_total, sensor.sent_total + 1}
  PROVE  SentInv'
<1> DEFINE f == DeliveredBy
           e == DeliveredBy'
<1>1. f \in [Gateways -> Nat] /\ sensor.sent_total \in Nat
  BY DEF SentInv, RelayInv, Typed, Sensors
<1>2. \A h \in Gateways : f[h] = Delivered(h) /\ e[h] = Delivered(h)'
  BY DEF DeliveredBy
<1>3. e = [h \in Gateways |-> e[h]]
  BY DEF DeliveredBy
<1>4. PICK F : IsSum(F, f, Gateways) /\ sensor.sent_total <= F[Gateways]
  BY DEF SentInv, SentWithin
<1> HIDE DEF f, e
<1>5. e[g] = f[g] + 1 /\ \A h \in Gateways \ {g} : e[h] = f[h]
  BY <1>2
<1>6. e \in [Gateways -> Nat]
  <2>1. \A h \in Gateways : e[h] \in Nat
    BY <1>1, <1>5
  <2> QED BY <1>3, <2>1
<1>7. PICK G : IsSum(G, e, Gateways)
  BY <1>6, GatewaysAssumption, SumExists
<1>8. G[Gateways] = F[Gateways] + 1
  <2>1. 1 \in Nat
    OBVIOUS
  <2> QED BY <1>1, <1>4, <1>5, <1>6, <1>7, <2>1, GatewaysAssumption, SumGrows
<1>9. F[Gateways] \in Nat
  BY <1>4 DEF IsSum
<1>10. sensor'.sent_total <= G[Gateways]
  BY <1>1, <1>4, <1>8, <1>9
<1> QED BY <1>6, <1>7, <1>10 DEF e, SentInv, SentWithin

LEMMA SentStep ==
  ASSUME RelayInv, SentInv, [PipelineNext]_vars
  PROVE  SentInv'
<1>0. Typed /\ SensorPosts /\ sensor \in Sensors
  BY DEF RelayInv, Typed
<1>1. ASSUME NEW g \in Gateways, \A h \in Gateways \ {g} : gateway'[h] = gateway[h],
             Delivered(g)' = Delivered(g), sensor'.sent_total = sensor.sent_total
      PROVE  SentInv'
  BY <1>1, DeliveredElsewhere, SentKept
<1>2. ASSUME NEW g \in Gateways, \A h \in Gateways \ {g} : gateway'[h] = gateway[h],
             Delivered(g)' = Delivered(g) + 1,
             sensor'.sent_total \in {sensor.sent_total, sensor.sent_total + 1}
      PROVE  SentInv'
  BY <1>2, DeliveredElsewhere, SentGrows
<1>3. CASE gateway' = gateway /\ sensor'.sent_total = sensor.sent_total
  BY <1>3, DeliveredElsewhere, SentKept
<1>4. CASE Generate \/ UNCHANGED vars \/ RestartStorage
           \/ \E g \in Gateways, seq \in Sequences :
                Process(g, seq) \/ CountProcessed(g, seq) \/ SummaryGivesUp(g, seq)
                \/ ServeSummary(g, seq)
  <2>1. gateway' = gateway /\ (sensor' = sensor \/ Generate)
    <3>1. CASE Generate \/ UNCHANGED vars \/ RestartStorage
      BY <3>1 DEF Generate, vars, RestartStorage
    <3>2. ASSUME NEW g \in Gateways, NEW seq \in Sequences,
                 Process(g, seq) \/ CountProcessed(g, seq) \/ SummaryGivesUp(g, seq)
                   \/ ServeSummary(g, seq)
          PROVE  gateway' = gateway /\ sensor' = sensor
      BY <3>2 DEF Process, CountProcessed, SummaryGivesUp, ServeSummary, InsertSummary,
           CountRecord, Confirm
    <3> QED BY <1>4, <3>1, <3>2
  <2>2. sensor'.sent_total = sensor.sent_total
    BY <1>0, <2>1 DEF Generate, Sensors
  <2> QED BY <1>3, <2>1, <2>2
<1>5. CASE Post
  <2> DEFINE t == Thread(sensor.sequence, "admit")
  <2>1. PICK g \in Gateways : GatewayThreadsBecome(g, gateway[g].threads \union {t})
    BY <1>0, <1>5, PostEffect
  <2>2. t.pc # "accepted"
    BY DEF Thread
  <2> HIDE DEF t
  <2>3. sensor'.sent_total = sensor.sent_total
    BY <1>0, <1>5 DEF Post, Sensors
  <2>4. Delivered(g)' = Delivered(g)
    BY <2>1, <2>2, DeliveredKept DEF GatewayThreadsBecome, GatewayBecomes
  <2> QED BY <1>1, <2>1, <2>3, <2>4 DEF GatewayThreadsBecome, GatewayBecomes
<1>6. CASE SensorGivesUp
  <2>1. PICK g \in Gateways : g = Destinations[sensor.at]
    BY <1>0, <1>6, SensorGivesUpEffect
  <2>2. PICK lost \in {{}, {Thread(sensor.sequence, "admit")}} :
          GatewayThreadsBecome(g, gateway[g].threads \ lost)
    BY <1>0, <1>6, <2>1, SensorGivesUpEffect
  <2>3. \A t \in lost : t.pc # "accepted"
    BY DEF Thread
  <2>4. sensor'.sent_total = sensor.sent_total
    <3>1. sensor' = Recorded(FALSE) /\ sensor.waiting
      BY <1>6 DEF SensorGivesUp
    <3> QED BY <1>0, <3>1, RecordedTyped
  <2>5. Delivered(g)' = Delivered(g)
    BY <2>1, <2>2, <2>3, DeliveredKept DEF GatewayThreadsBecome, GatewayBecomes
  <2> QED BY <1>1, <2>1, <2>2, <2>4, <2>5 DEF GatewayThreadsBecome, GatewayBecomes
<1>7. ASSUME NEW g \in Gateways, NEW seq \in Sequences, NEW from, NEW to,
             from # "accepted", to # "accepted",
             gateway'[g].threads = Step(gateway[g].threads, seq, from, to)
      PROVE  \A t : t.pc = "accepted" => (t \in gateway'[g].threads <=> t \in gateway[g].threads)
  BY <1>7 DEF Step, Thread
<1>8. ASSUME NEW g \in Gateways, NEW seq \in Sequences, Admit(g, seq), sensor' = sensor
      PROVE  SentInv'
  <2>1. PICK to \in {"count", "refuse"} :
          /\ gateway'[g].threads = Step(gateway[g].threads, seq, "admit", to)
          /\ gateway'[g].received = gateway[g].received
          /\ gateway'[g].dropped = gateway[g].dropped
          /\ \A h \in Gateways \ {g} : gateway'[h] = gateway[h]
    BY <1>0, <1>8, AdmitEffect DEF GatewayThreadsBecome, GatewayBecomes
  <2>2. Delivered(g)' = Delivered(g)
    BY <1>7, <2>1, DeliveredKept, ZenonT(60)
  <2> QED BY <1>1, <1>8, <2>1, <2>2
<1>9. ASSUME NEW g \in Gateways, NEW seq \in Sequences, Count(g, seq), sensor' = sensor
      PROVE  SentInv'
  <2>0. /\ gateway[g].received \in Nat /\ gateway[g].dropped \in Nat
        /\ Cardinality(Uncounted(g, "accepted")) \in Nat
    BY DeliveredTyped
  <2>1. CASE /\ Thread(seq, "count") \in gateway[g].threads
             /\ GatewayBecomes(g, Step(gateway[g].threads, seq, "count", "accepted"),
                  gateway[g].queue, gateway[g].busy, gateway[g].received + 1,
                  gateway[g].dropped, gateway[g].forwarded, gateway[g].forward_errors)
    <3>1. /\ gateway'[g].threads = Step(gateway[g].threads, seq, "count", "accepted")
          /\ gateway'[g].received = gateway[g].received + 1
          /\ gateway'[g].dropped = gateway[g].dropped
          /\ \A h \in Gateways \ {g} : gateway'[h] = gateway[h]
      BY <2>1 DEF GatewayBecomes
    <3>2. Cardinality(Uncounted(g, "accepted")') = Cardinality(Uncounted(g, "accepted")) + 1
      BY <2>1, <3>1, UncountedStep
    <3>3. Delivered(g)' = Delivered(g)
      BY <2>0, <3>1, <3>2 DEF Delivered, Accepted
    <3> QED BY <1>1, <1>9, <3>1, <3>3
  <2>2. CASE /\ Thread(seq, "refuse") \in gateway[g].threads
             /\ GatewayBecomes(g, Step(gateway[g].threads, seq, "refuse", "refused"),
                  gateway[g].queue, gateway[g].busy, gateway[g].received + 1,
                  gateway[g].dropped + 1, gateway[g].forwarded, gateway[g].forward_errors)
    <3>1. /\ gateway'[g].threads = Step(gateway[g].threads, seq, "refuse", "refused")
          /\ gateway'[g].received = gateway[g].received + 1
          /\ gateway'[g].dropped = gateway[g].dropped + 1
          /\ \A h \in Gateways \ {g} : gateway'[h] = gateway[h]
      BY <2>2 DEF GatewayBecomes
    <3>2. Uncounted(g, "accepted")' = Uncounted(g, "accepted")
      BY <1>7, <3>1, ZenonT(60) DEF Uncounted
    <3>3. Delivered(g)' = Delivered(g)
      BY <2>0, <3>1, <3>2 DEF Delivered, Accepted
    <3> QED BY <1>1, <1>9, <3>1, <3>3
  <2> QED BY <1>0, <1>9, <2>1, <2>2, CountEffect
<1>10. ASSUME NEW g \in Gateways, NEW seq \in Sequences, AnswerSensor(g, seq)
       PROVE  SentInv'
  <2>0. /\ gateway[g].received \in Nat /\ gateway[g].dropped \in Nat
        /\ IsFiniteSet(Uncounted(g, "accepted"))
        /\ Cardinality(Uncounted(g, "accepted")) \in Nat
    BY DeliveredTyped
  <2>1. PICK pc \in {"accepted", "refused"} :
          /\ Thread(seq, pc) \in gateway[g].threads
          /\ GatewayThreadsBecome(g, gateway[g].threads \ {Thread(seq, pc)})
          /\ sensor' = IF Awaits(g, seq) THEN Recorded(pc = "accepted") ELSE sensor
    BY <1>0, <1>10, AnswerSensorEffect
  <2>2. /\ gateway'[g].threads = gateway[g].threads \ {Thread(seq, pc)}
        /\ gateway'[g].received = gateway[g].received
        /\ gateway'[g].dropped = gateway[g].dropped
        /\ \A h \in Gateways \ {g} : gateway'[h] = gateway[h]
    BY <2>1 DEF GatewayThreadsBecome, GatewayBecomes
  <2>3. /\ pc = "accepted" => sensor'.sent_total \in {sensor.sent_total, sensor.sent_total + 1}
        /\ pc = "refused" => sensor'.sent_total = sensor.sent_total
    <3>1. CASE Awaits(g, seq)
      <4>1. (pc = "accepted") \in BOOLEAN /\ sensor' = Recorded(pc = "accepted") /\ sensor.waiting
        BY <2>1, <3>1 DEF Awaits
      <4>2. sensor'.sent_total = IF pc = "accepted" THEN sensor.sent_total + 1
                                 ELSE sensor.sent_total
        BY <1>0, <4>1, RecordedTyped
      <4> QED BY <4>2
    <3>2. CASE ~Awaits(g, seq)
      BY <2>1, <3>2
    <3> QED BY <3>1, <3>2
  <2>4. Thread(seq, pc).pc = pc
    BY DEF Thread
  <2>5. CASE pc = "accepted"
    <3>1. /\ Uncounted(g, "accepted")' = Uncounted(g, "accepted") \ {Thread(seq, pc)}
          /\ Thread(seq, pc) \in Uncounted(g, "accepted")
      BY <2>1, <2>2, <2>4, <2>5 DEF Uncounted
    <3>2. Cardinality(Uncounted(g, "accepted")') = Cardinality(Uncounted(g, "accepted")) - 1
      BY <2>0, <3>1, FS_RemoveElement
    <3>3. Delivered(g)' = Delivered(g) + 1
      BY <2>0, <2>2, <3>2 DEF Delivered, Accepted
    <3> QED BY <1>2, <2>2, <2>3, <2>5, <3>3
  <2>6. CASE pc = "refused"
    <3>1. \A t : t.pc = "accepted" => (t \in gateway'[g].threads <=> t \in gateway[g].threads)
      BY <2>2, <2>4, <2>6
    <3>2. Delivered(g)' = Delivered(g)
      BY <2>2, <3>1, DeliveredKept
    <3> QED BY <1>1, <2>2, <2>3, <2>6, <3>2
  <2> QED BY <2>5, <2>6
<1>11. CASE \E g \in Gateways, seq \in Sequences : Serve(g, seq)
  BY <1>8, <1>9, <1>10, <1>11 DEF Serve
<1>12. ASSUME NEW g \in Gateways,
              Forward(g) \/ ForwardGivesUp(g) \/ \E seq \in Sequences : AnswerForward(g, seq)
       PROVE  SentInv'
  <2>1. \/ gateway' = gateway
        \/ /\ gateway'[g].threads = gateway[g].threads
           /\ gateway'[g].received = gateway[g].received
           /\ gateway'[g].dropped = gateway[g].dropped
           /\ \A h \in Gateways \ {g} : gateway'[h] = gateway[h]
    BY <1>0, <1>12, ForwardEffect, ForwardGivesUpEffect, AnswerForwardEffect DEF GatewayBecomes
  <2>2. sensor' = sensor
    BY <1>12 DEF Forward, ForwardGivesUp, AnswerForward
  <2>3. CASE gateway' = gateway
    BY <1>3, <2>2, <2>3
  <2>4. CASE /\ gateway'[g].threads = gateway[g].threads
             /\ gateway'[g].received = gateway[g].received
             /\ gateway'[g].dropped = gateway[g].dropped
             /\ \A h \in Gateways \ {g} : gateway'[h] = gateway[h]
    <3>1. Delivered(g)' = Delivered(g)
      BY <2>4, DeliveredKept
    <3> QED BY <1>1, <2>2, <2>4, <3>1
  <2> QED BY <2>1, <2>3, <2>4
<1> QED BY <1>4, <1>5, <1>6, <1>11, <1>12 DEF PipelineNext, Handle

LEMMA SentStart == PipelineInit => SentInv
<1> SUFFICES ASSUME PipelineInit PROVE SentInv
  OBVIOUS
<1>1. ASSUME NEW g \in Gateways PROVE Delivered(g) = 0
  <2>1. /\ gateway[g].received = 0 /\ gateway[g].dropped = 0 /\ Uncounted(g, "accepted") = {}
    BY DEF PipelineInit, Uncounted
  <2> QED BY <2>1, FS_EmptySet DEF Delivered, Accepted
<1>2. DeliveredBy \in [Gateways -> Nat]
  BY <1>1 DEF DeliveredBy
<1>3. PICK F : IsSum(F, DeliveredBy, Gateways)
  BY <1>2, GatewaysAssumption, SumExists
<1>4. F[Gateways] \in Nat /\ sensor.sent_total = 0
  BY <1>3 DEF IsSum, PipelineInit
<1> QED BY <1>2, <1>3, <1>4 DEF SentInv, SentWithin

\* The sensor has sent no more than the gateways have accepted, and a gateway has
\* forwarded no more than its worker has processed: no service reports what the next
\* one has not counted (record_result, the lock before the answer in each do_POST).
THEOREM NothingOverreported == PipelineSpec => []DeliveredIsCounted
<1>1. PipelineInit => RelayInv /\ SentInv
  BY InvInit, SentStart
<1>2. (RelayInv /\ SentInv) /\ [PipelineNext]_vars => (RelayInv /\ SentInv)'
  BY InvStep, SentStep
<1>3. RelayInv /\ SentInv /\ Relay!ForwardedProcessed => DeliveredIsCounted
  <2> SUFFICES ASSUME RelayInv, SentInv, Relay!ForwardedProcessed PROVE DeliveredIsCounted
    OBVIOUS
  <2>1. \A g \in Gateways : Delivered(g) \in Nat /\ DeliveredBy[g] = Delivered(g)
    BY DEF SentInv, DeliveredBy
  <2>2. ASSUME NEW g \in Gateways PROVE Accepted(g) \in Nat /\ Delivered(g) <= Accepted(g)
    <3>1. /\ gateway[g].received \in Nat /\ gateway[g].dropped \in Nat
          /\ Cardinality(Uncounted(g, "accepted")) \in Nat
      BY DeliveredTyped
    <3> QED BY <2>1, <3>1 DEF Delivered, Accepted
  <2>3. AcceptedBy \in [Gateways -> Nat] /\ \A g \in Gateways : AcceptedBy[g] = Accepted(g)
    BY <2>2 DEF AcceptedBy
  <2>4. PICK F : IsSum(F, DeliveredBy, Gateways) /\ sensor.sent_total <= F[Gateways]
    BY DEF SentInv, SentWithin
  <2>5. PICK G : IsSum(G, AcceptedBy, Gateways)
                 /\ MapThenSumSet(Accepted, Gateways) = G[Gateways]
    BY <2>3, AcceptedSum
  <2>6. F[Gateways] <= G[Gateways]
    <3>1. DeliveredBy \in [Gateways -> Nat] /\ \A g \in Gateways : DeliveredBy[g] <= AcceptedBy[g]
      BY <2>1, <2>2, <2>3 DEF SentInv
    <3> QED BY <2>3, <2>4, <2>5, <3>1, GatewaysAssumption, SumMonotone
  <2>7. F[Gateways] \in Nat /\ G[Gateways] \in Nat /\ sensor.sent_total \in Nat
    BY <2>4, <2>5 DEF IsSum, RelayInv, Typed, Sensors
  <2>8. sensor.sent_total <= MapThenSumSet(Accepted, Gateways)
    BY <2>4, <2>5, <2>6, <2>7
  <2>9. \A g \in Gateways : gateway[g].forwarded <= worker[g].requests_total
    BY EntryFields DEF Relay!ForwardedProcessed
  <2> QED BY <2>8, <2>9 DEF DeliveredIsCounted
<1> QED BY <1>1, <1>2, <1>3, ForwardedIsProcessed, PTL DEF PipelineSpec
=============================================================================
