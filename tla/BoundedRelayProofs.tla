------------------------- MODULE BoundedRelayProofs -------------------------
(* Proofs about BoundedRelay for any gateways, payloads and capacity.          *)
EXTENDS BoundedRelay, TLAPS

Entries ==
  [accepted : Nat, refused : Nat, queue : Seq(Payloads), busy : Payloads \union {0},
   forwarded : Nat, errors : Nat, processed : Nat]

\* An entry's promises: nothing taken in is lost, and what is reported was processed.
TakenOf(r) == r.forwarded + r.errors + (IF r.busy = 0 THEN 0 ELSE 1)
Sound(r) ==
  /\ r.accepted = Len(r.queue) + TakenOf(r) /\ Len(r.queue) <= Capacity
  /\ r.forwarded <= r.processed /\ r.processed <= TakenOf(r)

RelayIInv ==
  /\ ParametersSound
  /\ relay \in [Gateways -> Entries] /\ \A g \in Gateways : Sound(relay[g])

-----------------------------------------------------------------------------
(* Each action on an entry.                                                    *)

LEMMA AcceptEntry ==
  ASSUME ParametersSound,
         NEW r \in Entries, Sound(r), Len(r.queue) < Capacity, NEW p \in Payloads,
         NEW s, s = [r EXCEPT !.accepted = @ + 1, !.queue = Append(@, p)]
  PROVE  s \in Entries /\ Sound(s)
<1> DEFINE n == r.accepted + 1
           q == Append(r.queue, p)
<1>0. s = [r EXCEPT !.accepted = n, !.queue = q]
  OBVIOUS
<1>1. r.queue \in Seq(Payloads) /\ Len(r.queue) \in Nat /\ r.accepted \in Nat
  BY DEF Entries
<1>2. n \in Nat /\ q \in Seq(Payloads) /\ Len(q) = Len(r.queue) + 1
  BY <1>1
<1>3. n = Len(q) + TakenOf(r) /\ Len(q) <= Capacity
  <2>1. TakenOf(r) \in Nat
    BY DEF Entries, TakenOf
  <2> QED BY <1>1, <1>2, <2>1 DEF Sound, ParametersSound
<1> HIDE DEF n, q
<1>4. /\ s \in Entries /\ s.accepted = n /\ s.queue = q /\ s.busy = r.busy
      /\ s.forwarded = r.forwarded /\ s.errors = r.errors /\ s.processed = r.processed
  BY <1>0, <1>2 DEF Entries
<1>5. TakenOf(s) = TakenOf(r)
  BY <1>4 DEF TakenOf
<1>6. Sound(s)
  BY <1>3, <1>4, <1>5 DEF Sound
<1> QED BY <1>4, <1>6

LEMMA RefuseEntry ==
  ASSUME NEW r \in Entries, Sound(r),
         NEW s, s = [r EXCEPT !.refused = @ + 1]
  PROVE  s \in Entries /\ Sound(s)
<1> DEFINE n == r.refused + 1
<1>0. s = [r EXCEPT !.refused = n]
  OBVIOUS
<1>1. n \in Nat
  BY DEF Entries
<1> HIDE DEF n
<1>2. /\ s \in Entries /\ s.accepted = r.accepted /\ s.queue = r.queue /\ s.busy = r.busy
      /\ s.forwarded = r.forwarded /\ s.errors = r.errors /\ s.processed = r.processed
  BY <1>0, <1>1 DEF Entries
<1>3. Sound(s)
  BY <1>2 DEF Sound, TakenOf
<1> QED BY <1>2, <1>3

LEMMA TakeEntry ==
  ASSUME ParametersSound,
         NEW r \in Entries, Sound(r), r.busy = 0, r.queue # <<>>,
         NEW s, s = [r EXCEPT !.busy = Head(r.queue), !.queue = Tail(@)]
  PROVE  s \in Entries /\ Sound(s)
<1> DEFINE b == Head(r.queue)
           q == Tail(r.queue)
<1>0. s = [r EXCEPT !.busy = b, !.queue = q]
  OBVIOUS
<1>1. r.queue \in Seq(Payloads) /\ r.queue # <<>> /\ Len(r.queue) \in Nat
  BY DEF Entries
<1>2. b \in Payloads /\ q \in Seq(Payloads) /\ Len(q) = Len(r.queue) - 1
  BY <1>1
<1>3. b # 0
  BY <1>2 DEF ParametersSound
<1> HIDE DEF b, q
<1>4. /\ s \in Entries /\ s.accepted = r.accepted /\ s.queue = q /\ s.busy = b
      /\ s.forwarded = r.forwarded /\ s.errors = r.errors /\ s.processed = r.processed
  BY <1>0, <1>2 DEF Entries
<1>5. /\ r.accepted \in Nat /\ r.forwarded \in Nat /\ r.errors \in Nat /\ r.processed \in Nat
      /\ Capacity \in Nat
  BY DEF Entries, ParametersSound
<1>6. TakenOf(s) = r.forwarded + r.errors + 1 /\ TakenOf(r) = r.forwarded + r.errors
  BY <1>3, <1>4, <1>5 DEF TakenOf
<1>7. TakenOf(s) = TakenOf(r) + 1 /\ TakenOf(r) \in Nat /\ Len(q) \in Nat
  BY <1>1, <1>2, <1>5, <1>6
<1>8. Sound(s)
  <2>1. /\ r.accepted = Len(r.queue) + TakenOf(r) /\ Len(r.queue) <= Capacity
        /\ r.forwarded <= r.processed /\ r.processed <= TakenOf(r)
    BY DEF Sound
  <2>2. r.accepted = Len(q) + TakenOf(s) /\ Len(q) <= Capacity /\ r.processed <= TakenOf(s)
    <3>1. r.accepted = Len(q) + TakenOf(s) /\ Len(q) <= Capacity
      BY <1>1, <1>2, <1>5, <1>7, <2>1, SMTT(30)
    <3>2. r.processed <= TakenOf(s)
      BY <1>5, <1>7, <2>1, SMTT(30)
    <3> QED BY <3>1, <3>2
  <2> QED BY <1>4, <2>1, <2>2 DEF Sound
<1> QED BY <1>4, <1>8

LEMMA ProcessEntry ==
  ASSUME NEW r \in Entries, Sound(r), r.processed < TakenOf(r),
         NEW s, s = [r EXCEPT !.processed = @ + 1]
  PROVE  s \in Entries /\ Sound(s)
<1> DEFINE n == r.processed + 1
<1>0. s = [r EXCEPT !.processed = n]
  OBVIOUS
<1>1. n \in Nat /\ r.processed \in Nat /\ r.forwarded \in Nat /\ TakenOf(r) \in Nat
  BY DEF Entries, TakenOf
<1>2. r.forwarded <= n /\ n <= TakenOf(r)
  BY <1>1 DEF Sound
<1> HIDE DEF n
<1>3. /\ s \in Entries /\ s.accepted = r.accepted /\ s.queue = r.queue /\ s.busy = r.busy
      /\ s.forwarded = r.forwarded /\ s.errors = r.errors /\ s.processed = n
  BY <1>0, <1>1 DEF Entries
<1>4. TakenOf(s) = TakenOf(r)
  BY <1>3 DEF TakenOf
<1>5. Sound(s)
  BY <1>2, <1>3, <1>4 DEF Sound
<1> QED BY <1>3, <1>5

LEMMA ConfirmEntry ==
  ASSUME NEW r \in Entries, Sound(r), r.busy # 0, r.forwarded < r.processed,
         NEW s, s = [r EXCEPT !.busy = 0, !.forwarded = @ + 1]
  PROVE  s \in Entries /\ Sound(s)
<1> DEFINE n == r.forwarded + 1
<1>0. s = [r EXCEPT !.busy = 0, !.forwarded = n]
  OBVIOUS
<1>1. /\ r.forwarded \in Nat /\ r.errors \in Nat /\ r.processed \in Nat
      /\ n \in Nat /\ n <= r.processed
  BY DEF Entries
<1>2. TakenOf(r) = n + r.errors
  BY <1>1 DEF TakenOf
<1> HIDE DEF n
<1>3. /\ s \in Entries /\ s.accepted = r.accepted /\ s.queue = r.queue /\ s.busy = 0
      /\ s.forwarded = n /\ s.errors = r.errors /\ s.processed = r.processed
  BY <1>0, <1>1 DEF Entries
<1>4. TakenOf(s) = TakenOf(r)
  BY <1>1, <1>2, <1>3 DEF TakenOf
<1>5. Sound(s)
  BY <1>1, <1>3, <1>4 DEF Sound
<1> QED BY <1>3, <1>5

LEMMA FailEntry ==
  ASSUME NEW r \in Entries, Sound(r), r.busy # 0,
         NEW s, s = [r EXCEPT !.busy = 0, !.errors = @ + 1]
  PROVE  s \in Entries /\ Sound(s)
<1> DEFINE n == r.errors + 1
<1>0. s = [r EXCEPT !.busy = 0, !.errors = n]
  OBVIOUS
<1>1. r.forwarded \in Nat /\ r.errors \in Nat /\ n \in Nat
  BY DEF Entries
<1>2. TakenOf(r) = r.forwarded + n
  BY <1>1 DEF TakenOf
<1> HIDE DEF n
<1>3. /\ s \in Entries /\ s.accepted = r.accepted /\ s.queue = r.queue /\ s.busy = 0
      /\ s.forwarded = r.forwarded /\ s.errors = n /\ s.processed = r.processed
  BY <1>0, <1>1 DEF Entries
<1>4. TakenOf(s) = TakenOf(r)
  BY <1>1, <1>2, <1>3 DEF TakenOf
<1>5. Sound(s)
  BY <1>3, <1>4 DEF Sound
<1> QED BY <1>3, <1>5

-----------------------------------------------------------------------------
(* The invariant, and what follows from it.                                    *)

LEMMA IInvInit == ParametersSound /\ RelayInit => RelayIInv
<1> SUFFICES ASSUME ParametersSound, RelayInit PROVE RelayIInv
  OBVIOUS
<1> DEFINE none == [accepted |-> 0, refused |-> 0, queue |-> <<>>, busy |-> 0, forwarded |-> 0,
                    errors |-> 0, processed |-> 0]
<1>1. none \in Entries
  BY DEF Entries
<1>2. Sound(none)
  <2>1. Len(<<>>) = 0
    OBVIOUS
  <2>2. TakenOf(none) = 0
    BY DEF TakenOf
  <2> QED BY <2>1, <2>2 DEF Sound, ParametersSound
<1>3. relay = [g \in Gateways |-> none]
  BY DEF RelayInit
<1> HIDE DEF none
<1> QED BY <1>1, <1>2, <1>3 DEF RelayIInv

LEMMA IInvNext == RelayIInv /\ [RelayNext]_relay => RelayIInv'
<1> SUFFICES ASSUME RelayIInv, [RelayNext]_relay PROVE RelayIInv'
  OBVIOUS
<1>1. ASSUME NEW g \in Gateways, NEW s \in Entries, Sound(s), relay' = [relay EXCEPT ![g] = s]
      PROVE  RelayIInv'
  BY <1>1 DEF RelayIInv
<1>2. ASSUME NEW g \in Gateways
      PROVE  relay[g] \in Entries /\ Sound(relay[g]) /\ Taken(g) = TakenOf(relay[g])
  BY DEF RelayIInv, Taken, TakenOf
<1>3. ASSUME NEW g \in Gateways, Accept(g) PROVE RelayIInv'
  <2>1. PICK p \in Payloads :
          relay' = [relay EXCEPT ![g].accepted = @ + 1, ![g].queue = Append(@, p)]
    BY <1>3 DEF Accept
  <2> DEFINE s == [relay[g] EXCEPT !.accepted = @ + 1, !.queue = Append(@, p)]
  <2>2. relay' = [relay EXCEPT ![g] = s]
    BY <2>1 DEF RelayIInv
  <2>3. s \in Entries /\ Sound(s)
    BY <1>2, <1>3, AcceptEntry DEF Accept, RelayIInv
  <2> QED BY <1>1, <2>2, <2>3
<1>4. ASSUME NEW g \in Gateways, Refuse(g) PROVE RelayIInv'
  <2> DEFINE s == [relay[g] EXCEPT !.refused = @ + 1]
  <2>1. relay' = [relay EXCEPT ![g] = s]
    BY <1>2, <1>4 DEF Refuse, RelayIInv
  <2>2. s \in Entries /\ Sound(s)
    BY <1>2, <1>4, RefuseEntry DEF Refuse
  <2> QED BY <1>1, <2>1, <2>2
<1>5. ASSUME NEW g \in Gateways, Take(g) PROVE RelayIInv'
  <2> DEFINE s == [relay[g] EXCEPT !.busy = Head(relay[g].queue), !.queue = Tail(@)]
  <2>1. relay' = [relay EXCEPT ![g] = s]
    BY <1>2, <1>5 DEF Take, RelayIInv
  <2>2. s \in Entries /\ Sound(s)
    BY <1>2, <1>5, TakeEntry DEF Take, RelayIInv
  <2> QED BY <1>1, <2>1, <2>2
<1>6. ASSUME NEW g \in Gateways, Process(g) PROVE RelayIInv'
  <2> DEFINE s == [relay[g] EXCEPT !.processed = @ + 1]
  <2>1. relay' = [relay EXCEPT ![g] = s]
    BY <1>2, <1>6 DEF Process, RelayIInv
  <2>2. s \in Entries /\ Sound(s)
    BY <1>2, <1>6, ProcessEntry DEF Process
  <2> QED BY <1>1, <2>1, <2>2
<1>7. ASSUME NEW g \in Gateways, Confirm(g) PROVE RelayIInv'
  <2> DEFINE s == [relay[g] EXCEPT !.busy = 0, !.forwarded = @ + 1]
  <2>1. relay' = [relay EXCEPT ![g] = s]
    BY <1>2, <1>7 DEF Confirm, RelayIInv
  <2>2. s \in Entries /\ Sound(s)
    BY <1>2, <1>7, ConfirmEntry DEF Confirm
  <2> QED BY <1>1, <2>1, <2>2
<1>8. ASSUME NEW g \in Gateways, Fail(g) PROVE RelayIInv'
  <2> DEFINE s == [relay[g] EXCEPT !.busy = 0, !.errors = @ + 1]
  <2>1. relay' = [relay EXCEPT ![g] = s]
    BY <1>2, <1>8 DEF Fail, RelayIInv
  <2>2. s \in Entries /\ Sound(s)
    BY <1>2, <1>8, FailEntry DEF Fail
  <2> QED BY <1>1, <2>1, <2>2
<1>9. CASE UNCHANGED relay
  BY <1>9 DEF RelayIInv
<1> QED BY <1>3, <1>4, <1>5, <1>6, <1>7, <1>8, <1>9 DEF RelayNext

LEMMA IInvFacts == RelayIInv => RelayTypeOK /\ Conserved /\ ForwardedProcessed
BY DEF RelayIInv, Entries, Sound, TakenOf, Taken, RelayTypeOK, Conserved, ForwardedProcessed

\* A relay's entries are what their names say.
THEOREM RelayTypeCorrect == ParametersSound /\ RelaySpec => []RelayTypeOK
BY IInvInit, IInvNext, IInvFacts, PTL DEF RelaySpec

\* A relay loses no payload it took in, and its queue keeps to its capacity.
THEOREM RelayConserves == ParametersSound /\ RelaySpec => []Conserved
BY IInvInit, IInvNext, IInvFacts, PTL DEF RelaySpec

\* A relay reports as forwarded only what was processed.
THEOREM RelayReportsProcessed == ParametersSound /\ RelaySpec => []ForwardedProcessed
BY IInvInit, IInvNext, IInvFacts, PTL DEF RelaySpec
=============================================================================
