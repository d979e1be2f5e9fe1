---------------------------- MODULE BoundedRelay ----------------------------
(* What a gateway promises of the payloads of its route, whatever the calls   *)
(* and threads that carry them: it takes a payload in or refuses it, and      *)
(* refuses only when its queue is full; those it took in leave in the order   *)
(* they came, one at a time; and each ends as forwarded, which the worker has *)
(* processed by then, or as an error, which it may have processed.            *)
(*                                                                            *)
(* TelemetryPipeline implements it.                                           *)
EXTENDS Integers, Sequences

CONSTANTS
  Gateways,   \* each with its queue and its worker
  Capacity,   \* of a queue
  Payloads    \* what is relayed

\* 0 is nothing in hand.
ParametersSound == Capacity \in Nat \ {0} /\ 0 \notin Payloads

VARIABLE relay   \* per gateway: [accepted, refused, queue, busy, forwarded, errors, processed]

\* How many payloads have left the queue.
Taken(g) ==
  relay[g].forwarded + relay[g].errors + (IF relay[g].busy = 0 THEN 0 ELSE 1)

RelayInit ==
  relay = [g \in Gateways |-> [accepted |-> 0, refused |-> 0, queue |-> <<>>, busy |-> 0,
                               forwarded |-> 0, errors |-> 0, processed |-> 0]]

Accept(g) ==
  /\ Len(relay[g].queue) < Capacity
  /\ \E p \in Payloads :
       relay' = [relay EXCEPT ![g].accepted = @ + 1, ![g].queue = Append(@, p)]

Refuse(g) ==
  /\ Len(relay[g].queue) = Capacity
  /\ relay' = [relay EXCEPT ![g].refused = @ + 1]

Take(g) ==
  /\ relay[g].busy = 0 /\ relay[g].queue # <<>>
  /\ relay' = [relay EXCEPT ![g].busy = Head(relay[g].queue), ![g].queue = Tail(@)]

Process(g) ==
  /\ relay[g].processed < Taken(g)
  /\ relay' = [relay EXCEPT ![g].processed = @ + 1]

Confirm(g) ==
  /\ relay[g].busy # 0 /\ relay[g].forwarded < relay[g].processed
  /\ relay' = [relay EXCEPT ![g].busy = 0, ![g].forwarded = @ + 1]

Fail(g) ==
  /\ relay[g].busy # 0
  /\ relay' = [relay EXCEPT ![g].busy = 0, ![g].errors = @ + 1]

RelayNext ==
  \E g \in Gateways :
    Accept(g) \/ Refuse(g) \/ Take(g) \/ Process(g) \/ Confirm(g) \/ Fail(g)

RelaySpec == RelayInit /\ [][RelayNext]_relay

-----------------------------------------------------------------------------

RelayTypeOK ==
  relay \in [Gateways -> [accepted : Nat, refused : Nat, queue : Seq(Payloads),
                          busy : Payloads \union {0}, forwarded : Nat, errors : Nat,
                          processed : Nat]]

\* No payload taken in is lost, and the queue never outgrows its capacity (the
\* queue.Queue(maxsize) of a route, its forward loop's two counters).
Conserved ==
  \A g \in Gateways :
    /\ relay[g].accepted = Len(relay[g].queue) + Taken(g)
    /\ Len(relay[g].queue) <= Capacity

\* The worker has processed what is reported as forwarded, and nothing it was not
\* sent.
ForwardedProcessed ==
  \A g \in Gateways :
    relay[g].forwarded <= relay[g].processed /\ relay[g].processed <= Taken(g)
=============================================================================
