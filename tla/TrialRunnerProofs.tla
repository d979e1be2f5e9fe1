------------------------- MODULE TrialRunnerProofs --------------------------
(* Proofs about TrialRunner for any selections, scenario, model modes, bounds *)
(* and number of retries: what a stage installs is what it selected, the      *)
(* service's context is the latest one posted, nothing is installed twice     *)
(* unasked, and no trial touches a node outside its scenario without naming   *)
(* it past the guard.                                                         *)
EXTENDS TrialRunner, FiniteSetTheorems, TLAPS

-----------------------------------------------------------------------------
(* What there is.                                                             *)

\* What the constraint guard and the adapter let through: a request of an answer that
\* names no key of it.
Guarded(x) ==
  /\ x.action \in Supported /\ x.id = NoId
  /\ x.action = "observe" \/ x.target \in ScenarioNodes \union {NoTarget}

\* What a caller may have chosen.
Chosen(r) == IF r = Trial THEN Requests ELSE Selections
Choices == Selections \union Requests \union {NoChoice}

Services == {"context", "decide", "action"}
Posts == [by : {Runtime, Eval}, n : Nat, choice : Choices]
Contexts == {NoContext} \union {[key \in Keys |-> post] : post \in Posts}

RoundType == [n : Nat, at : 0..3, try : Nat, choice : Choices, decided : Choices]
CallType == [by : Callers, n : Nat, to : Services, try : Nat, selected : Choices,
             choice : Choices, context : Contexts]
\* Who installed a policy, and what it is.
PolicyOK(p) ==
  /\ p.by \in Callers /\ p.n \in Nat /\ p.n <= caller[p.by].n
  /\ p.by # Trial => /\ Choice(p.action, p.target) = p.selected
                     /\ p.id[1] = p.by /\ p.id[2] = p.n
  /\ p.by = Trial => p.target \in ScenarioNodes \/ p.selected.named

LEMMA ChosenAreChoices ==
  ASSUME NEW r \in Callers
  PROVE  Chosen(r) \subseteq Choices
BY DEF Chosen, Choices

\* The calls of a round: the context is posted first, the controller called last.
LEMMA CallsInOrder ==
  ASSUME NEW r \in Callers
  PROVE  /\ Len(CallsOf(r)) \in 2..3
         /\ \A i \in 1..Len(CallsOf(r)) :
              /\ CallsOf(r)[i] \in Services
              /\ CallsOf(r)[i] = "context" <=> i = 1
              /\ CallsOf(r)[i] = "action" <=> i = Len(CallsOf(r))
              /\ CallsOf(r)[i] = "decide" => r = Runtime
              /\ \A j \in 1..Len(CallsOf(r)) : CallsOf(r)[i] = CallsOf(r)[j] => i = j
<1>1. CASE r = Runtime
  <2>1. CallsOf(r) = <<"context", "decide", "action">>
    BY <1>1 DEF CallsOf
  <2> QED BY <1>1, <2>1 DEF Services
<1>2. CASE r # Runtime
  <2>1. CallsOf(r) = <<"context", "action">>
    BY <1>2 DEF CallsOf
  <2> QED BY <1>2, <2>1 DEF Services
<1> QED BY <1>1, <1>2

\* A post replaces the context that was there, and a decision follows the post in the
\* request; a trial's request changes nothing.
LEMMA ContextsMerged ==
  ASSUME NEW old \in Contexts
  PROVE  /\ \A post : post.by # Trial =>
              /\ UpdateContext(old, ContextPayload(post)) = [key \in Keys |-> post]
              /\ MergedContext(old, ContextPayload(post)) = [key \in Keys |-> post]
         /\ \A post : post.by = Trial => UpdateContext(old, ContextPayload(post)) = old
<1>1. DOMAIN old \subseteq Keys /\ old = [key \in DOMAIN old |-> old[key]]
  BY DEF Contexts, NoContext
<1>2. ASSUME NEW post, post.by # Trial
      PROVE  Overlaid(old, ContextPayload(post)) = [key \in Keys |-> post]
  <2>1. ContextPayload(post) = [key \in Keys |-> post]
    BY <1>2 DEF ContextPayload
  <2>2. DOMAIN old \union Keys = Keys
    BY <1>1
  <2> QED BY <2>1, <2>2 DEF Overlaid
<1>3. ASSUME NEW post, post.by = Trial
      PROVE  Overlaid(old, ContextPayload(post)) = old
  <2>1. ContextPayload(post) = [key \in {} |-> {}]
    BY <1>3 DEF ContextPayload, NoContext
  <2> QED BY <1>1, <2>1 DEF Overlaid
<1> QED BY <1>2, <1>3 DEF UpdateContext, MergedContext

LEMMA ContextRead ==
  ASSUME NEW post
  PROVE  /\ [key \in Keys |-> post] # NoContext
         /\ StrategyAction([key \in Keys |-> post]) = post.choice
         /\ [key \in Keys |-> post]["strategy_layer"] = post
         /\ [key \in Keys |-> post]["selected_defender_strategy"] = post
<1>1. "strategy_layer" \in Keys /\ "selected_defender_strategy" \in Keys
  BY DEF Keys
<1>2. DOMAIN [key \in Keys |-> post] # DOMAIN NoContext
  BY <1>1 DEF NoContext
<1> QED BY <1>1, <1>2 DEF StrategyAction

\* Without parameters that name a key, what is sent is what was checked.
LEMMA SentAsChecked ==
  ASSUME NEW a, NEW t
  PROVE  Payload(a, t, NoParameters) = Choice(a, t)
<1> DEFINE checked == [action |-> a, target |-> t, action_id |-> NoId]
           body == Overlaid(checked, NoParameters)
<1>1. DOMAIN NoParameters = {}
  BY DEF NoParameters
<1>2. /\ DOMAIN checked = {"action", "target", "action_id"}
      /\ checked["action"] = a /\ checked["target"] = t /\ checked["action_id"] = NoId
  OBVIOUS
<1> HIDE DEF checked
<1>3. body["action"] = a /\ body["target"] = t /\ body["action_id"] = NoId
  BY <1>1, <1>2 DEF Overlaid
<1>4. Payload(a, t, NoParameters) =
        [action |-> body["action"], target |-> body["target"], id |-> body["action_id"],
         named |-> FALSE]
  BY DEF Payload, checked
<1> HIDE DEF body
<1> QED BY <1>3, <1>4 DEF Choice

\* Whatever a trial decides, what is left of it after the guard is guarded, unless its
\* parameters name a key of the request.
LEMMA RequestsGuarded ==
  ASSUME NEW x \in Requests
  PROVE  x.named \/ Guarded(x)
<1>1. PICK mode \in Modes, pressed \in BOOLEAN : \E d \in Decisions(mode, pressed) : x = Adapted(d)
  BY DEF Requests
<1>1a. PICK d \in Decisions(mode, pressed) : x = Adapted(d)
  BY <1>1
<1>2. CASE ~Executable(d)
  <2>0. d.action # "observe"
    BY <1>2 DEF Executable, Supported
  <2>1. x = Choice("observe", d.target)
    BY <1>1a, <1>2, <2>0 DEF Adapted
  <2> QED BY <2>1 DEF Guarded, Choice, Supported
<1>3. CASE Executable(d) /\ d.action = "observe" /\ d.target = NoTarget
  <2>1. x = Choice("observe", NoTarget)
    BY <1>1a, <1>3 DEF Adapted, Observe
  <2> QED BY <2>1 DEF Guarded, Choice, Supported
<1>4. CASE Executable(d) /\ ~(d.action = "observe" /\ d.target = NoTarget)
  <2>1. x = Payload(d.action, d.target, d.parameters)
    BY <1>1a, <1>4 DEF Adapted
  <2>2. CASE d.parameters = NoParameters
    <3>1. x = Choice(d.action, d.target)
      BY <2>1, <2>2, SentAsChecked
    <3>2. x.action = d.action /\ x.target = d.target /\ x.id = NoId
      BY <3>1 DEF Choice
    <3> QED BY <1>4, <3>2 DEF Guarded, Executable
  <2>3. CASE d.parameters # NoParameters
    BY <2>1, <2>3 DEF Payload
  <2> QED BY <2>2, <2>3
<1> QED BY <1>2, <1>3, <1>4

-----------------------------------------------------------------------------
(* The invariant.                                                             *)

\* A round that goes on has a choice of its caller's; whatever was decided is that.
RoundOK(r) ==
  /\ caller[r].at \in 0..Len(CallsOf(r))
  /\ caller[r].at # 0 => /\ caller[r].try >= 1
                         /\ caller[r].choice \in Chosen(r)
                         /\ caller[r].decided \in {NoChoice, caller[r].choice}

\* A call carries the choice of its round, and a decision is taken by that, too.
CallOK(c) ==
  /\ c.n <= caller[c.by].n
  /\ ~Idle(c.by) /\ c.n = caller[c.by].n => c.selected = caller[c.by].choice
  /\ c.selected \in Chosen(c.by) /\ c.choice = c.selected
  /\ c.to = "decide" =>
       c.by = Runtime /\ (c.context # NoContext => StrategyAction(c.context) = c.selected)

RunnersTyped ==
  /\ caller \in [Callers -> RoundType] /\ \A r \in Callers : RoundOK(r)
  /\ calls \subseteq CallType /\ \A c \in calls : CallOK(c)

\* A call that was not given up is the only one of its kind in its round, and the
\* caller waits for it.
Key(c) == [by |-> c.by, n |-> c.n, to |-> c.to]

CallsAwaited ==
  \A c \in calls : Key(c) \notin late =>
    /\ Awaited(c)
    /\ \A d \in calls : Key(d) = Key(c) => d = c

\* The rounds whose call to the controller is made once: those of a stage, and of a
\* trial that did not give it up.
Sole(by, n) == by # Trial \/ [by |-> by, n |-> n, to |-> "action"] \notin late

\* It is on its way, or it has installed at most one policy, and neither before the
\* round came to it.
ActedOnce ==
  /\ \A c \in calls, d \in calls :
       c.to = "action" /\ d.to = "action" /\ c.by = d.by /\ c.n = d.n /\ Sole(c.by, c.n) => c = d
  /\ \A p \in mtd, c \in calls :
       c.to = "action" /\ p.by = c.by /\ p.n = c.n => ~Sole(c.by, c.n)
  /\ \A p \in mtd, q \in mtd : p.by = q.by /\ p.n = q.n /\ Sole(p.by, p.n) => p = q
  /\ \A r \in Callers : caller[r].at \in 1..(Len(CallsOf(r)) - 1) =>
       /\ \A c \in calls : c.by = r /\ c.n = caller[r].n => c.to # "action"
       /\ \A p \in mtd : p.by = r => p.n # caller[r].n

\* The context is that of the last round whose post it has.
PostedLast ==
  /\ external \in Contexts
  /\ external # NoContext =>
       LET post == external["strategy_layer"]
           posting == ~Idle(post.by) /\ Calling(post.by) = "context"
       IN (\A l \in late : l.by = post.by => l.to # "context") =>
            caller[post.by].n = post.n + (IF posting THEN 1 ELSE 0)

PoliciesOK == \A p \in mtd : PolicyOK(p)

RunnersInv == RunnersTyped /\ CallsAwaited /\ ActedOnce /\ PostedLast /\ PoliciesOK

-----------------------------------------------------------------------------
(* How the callers move.                                                      *)

\* The call of the round that r is at by now.
MakesCall(r, c) ==
  /\ c \in CallType /\ c.by = r /\ c.n = caller'[r].n /\ caller'[r].at # 0
  /\ c.to = CallsOf(r)[caller'[r].at] /\ c.try = caller'[r].try
  /\ c.selected = caller'[r].choice /\ c.choice = c.selected /\ c.context = NoContext

Stays(r) == caller'[r] = caller[r]

\* A round begins, a call is repeated, or the round goes on to its next call or ends.
FirstCall(r) == Idle(r) /\ caller'[r].n = caller[r].n + 1 /\ caller'[r].at = 1

Repeats(r) ==
  /\ ~Idle(r) /\ caller'[r].n = caller[r].n /\ caller'[r].at = caller[r].at
  /\ caller'[r].choice = caller[r].choice
  /\ Calling(r) = "action" => r = Trial
  /\ [by |-> r, n |-> caller[r].n, to |-> Calling(r)] \in late'

Proceeds(r, left) ==
  /\ ~Idle(r) /\ caller'[r].n = caller[r].n
  /\ caller'[r].at # 0 => /\ caller'[r].at = caller[r].at + 1
                          /\ caller'[r].choice = caller[r].choice
  /\ \/ [by |-> r, n |-> caller[r].n, to |-> Calling(r)] \in late'
     \/ \E c \in calls : Awaited(c) /\ c.by = r /\ left = calls \ {c}

\* Of the calls these are left, and those are made.
Moved(r, left, new) ==
  /\ left \subseteq calls /\ calls' = left \union new
  /\ \A c \in new : MakesCall(r, c) /\ \A d \in new : c = d
  /\ caller' \in [Callers -> RoundType] /\ \A x \in Callers \ {r} : caller'[x] = caller[x]
  /\ RoundOK(r)'
  /\ late \subseteq late'
  /\ \/ Stays(r) /\ new = {}
     \/ FirstCall(r)
     \/ Repeats(r)
     \/ Proceeds(r, left) /\ (caller'[r].at = 0 => new = {})

LEMMA RoundTyped ==
  ASSUME NEW t \in RoundType
  PROVE  t.n \in Nat /\ t.at \in 0..3 /\ t.try \in Nat /\ t.choice \in Choices /\ t.decided \in Choices
BY DEF RoundType

LEMMA RoundAdvanced ==
  ASSUME NEW t \in RoundType, NEW at, NEW try, NEW decided
  PROVE  [t EXCEPT !.at = at, !.try = try, !.decided = decided] =
           [n |-> t.n, at |-> at, try |-> try, choice |-> t.choice, decided |-> decided]
<1>1. /\ DOMAIN t = {"n", "at", "try", "choice", "decided"}
      /\ t = [n |-> t.n, at |-> t.at, try |-> t.try, choice |-> t.choice, decided |-> t.decided]
  BY DEF RoundType
<1> DEFINE u == [t EXCEPT !.at = at, !.try = try, !.decided = decided]
<1>2. /\ u.n = t.n /\ u.at = at /\ u.try = try /\ u.choice = t.choice /\ u.decided = decided
      /\ DOMAIN u = DOMAIN t /\ u = [x \in DOMAIN u |-> u[x]]
  BY <1>1
<1> HIDE DEF u
<1>3. u = [n |-> u.n, at |-> u.at, try |-> u.try, choice |-> u.choice, decided |-> u.decided]
  BY <1>1, <1>2
<1> QED BY <1>2, <1>3 DEF u

LEMMA CallTyped ==
  ASSUME NEW c \in CallType
  PROVE  /\ c.by \in Callers /\ c.n \in Nat /\ c.to \in Services /\ c.try \in Nat
         /\ c.selected \in Choices /\ c.choice \in Choices /\ c.context \in Contexts
BY DEF CallType

LEMMA CallMade ==
  ASSUME NEW r \in Callers, NEW round \in RoundType, round.at \in 1..Len(CallsOf(r)),
         round.decided \in {NoChoice, round.choice}
  PROVE  LET c == Call(r, round)
         IN /\ c \in CallType /\ c.by = r /\ c.n = round.n /\ c.to = CallsOf(r)[round.at]
            /\ c.try = round.try /\ c.selected = round.choice /\ c.choice = c.selected
            /\ c.context = NoContext
<1>1. CallsOf(r)[round.at] \in Services
  BY CallsInOrder
<1>2. Intent(round.decided, round.choice) = round.choice
  BY DEF Intent
<1>3. NoContext \in Contexts
  BY DEF Contexts
<1>4. round.n \in Nat /\ round.try \in Nat /\ round.choice \in Choices
  BY RoundTyped
<1> QED BY <1>1, <1>2, <1>3, <1>4 DEF Call, CallType

LEMMA MovesOn ==
  ASSUME RunnersTyped, NEW r \in Callers, ~Idle(r), NEW decided \in {NoChoice, caller[r].choice},
         NEW left \in SUBSET calls, GoesOn(r, decided, left), late \subseteq late',
         \/ [by |-> r, n |-> caller[r].n, to |-> Calling(r)] \in late'
         \/ \E c \in calls : Awaited(c) /\ c.by = r /\ left = calls \ {c}
  PROVE  \E new : Moved(r, left, new)
<1> DEFINE t == caller[r]
           round == [t EXCEPT !.at = @ + 1, !.try = 1, !.decided = decided]
           idle == [NoRound EXCEPT !.n = t.n]
<1>1. /\ t \in RoundType /\ caller \in [Callers -> RoundType]
      /\ t.at \in 1..Len(CallsOf(r)) /\ t.choice \in Chosen(r)
  BY DEF RunnersTyped, RoundOK, Idle
<1>1a. t.n \in Nat /\ t.at \in 0..3 /\ t.choice \in Choices /\ decided \in Choices
  BY <1>1, RoundTyped DEF Choices
<1>2. round.n = t.n /\ round.at = t.at + 1 /\ round.try = 1 /\ round.decided = decided
      /\ round.choice = t.choice
  BY <1>1 DEF RoundType
<1>3. round = [n |-> t.n, at |-> t.at + 1, try |-> 1, choice |-> t.choice, decided |-> decided]
  <2> DEFINE a == t.at + 1
  <2>2. round = [t EXCEPT !.at = a, !.try = 1, !.decided = decided]
    OBVIOUS
  <2> HIDE DEF a
  <2>3. [t EXCEPT !.at = a, !.try = 1, !.decided = decided] =
          [n |-> t.n, at |-> a, try |-> 1, choice |-> t.choice, decided |-> decided]
    BY <1>1, RoundAdvanced
  <2> HIDE DEF round
  <2>4. round = [n |-> t.n, at |-> a, try |-> 1, choice |-> t.choice, decided |-> decided]
    BY <2>2, <2>3
  <2> QED BY <2>4 DEF a
<1>4. idle = [n |-> t.n, at |-> 0, try |-> 0, choice |-> NoChoice, decided |-> NoChoice]
  BY DEF NoRound
<1>5. idle \in RoundType
  BY <1>1a, <1>4 DEF RoundType, Choices
<1>6. \/ Over(r, round) /\ caller' = [caller EXCEPT ![r] = idle] /\ calls' = left
      \/ ~Over(r, round) /\ caller' = [caller EXCEPT ![r] = round]
         /\ calls' = left \union {Call(r, round)}
  BY DEF GoesOn
<1> HIDE DEF round, idle
<1>7. CASE Over(r, round) /\ caller' = [caller EXCEPT ![r] = idle] /\ calls' = left
  <2>1. caller'[r] = idle /\ caller' \in [Callers -> RoundType]
        /\ \A x \in Callers \ {r} : caller'[x] = caller[x]
    BY <1>1, <1>5, <1>7
  <2>2. idle.at = 0 /\ idle.n = t.n
    BY <1>4
  <2>3. RoundOK(r)'
    BY <2>1, <2>2, CallsInOrder DEF RoundOK
  <2>4. Moved(r, left, {})
    BY <1>7, <2>1, <2>2, <2>3 DEF Moved, Proceeds
  <2> QED BY <2>4
<1>8. CASE ~Over(r, round) /\ caller' = [caller EXCEPT ![r] = round]
           /\ calls' = left \union {Call(r, round)}
  <2> DEFINE c == Call(r, round)
  <2>1. round.at \in 1..Len(CallsOf(r)) /\ round.at \in 0..3
    BY <1>1, <1>1a, <1>2, <1>8, CallsInOrder DEF Over
  <2>2. round \in RoundType
    BY <1>1a, <1>2, <1>3, <2>1 DEF RoundType
  <2>3. caller'[r] = round /\ caller' \in [Callers -> RoundType]
        /\ \A x \in Callers \ {r} : caller'[x] = caller[x]
    BY <1>1, <1>8, <2>2
  <2>4. /\ c \in CallType /\ c.by = r /\ c.n = round.n /\ c.to = CallsOf(r)[round.at]
        /\ c.try = round.try /\ c.selected = round.choice /\ c.choice = c.selected
        /\ c.context = NoContext
    BY <1>2, <2>1, <2>2, CallMade
  <2> HIDE DEF c
  <2>5. MakesCall(r, c)
    BY <2>1, <2>3, <2>4 DEF MakesCall
  <2>6. RoundOK(r)'
    BY <1>1, <1>2, <2>1, <2>3 DEF RoundOK
  <2>7. Moved(r, left, {c})
    BY <1>2, <1>8, <2>1, <2>3, <2>5, <2>6 DEF Moved, Proceeds, c
  <2> QED BY <2>7
<1> QED BY <1>6, <1>7, <1>8

\* A call that is answered is made no longer, and its caller goes on if it waits for it.
LEMMA MovesAnswered ==
  ASSUME RunnersTyped, NEW c \in calls, NEW decided, Answer(c, decided),
         Awaited(c) => decided \in {NoChoice, caller[c.by].choice}, late \subseteq late'
  PROVE  \E new : Moved(c.by, calls \ {c}, new)
<1>1. c.by \in Callers
  BY CallTyped DEF RunnersTyped
<1>2. CASE Awaited(c)
  BY <1>1, <1>2, MovesOn DEF Answer, Awaited
<1>3. CASE ~Awaited(c)
  <2>1. caller' = caller /\ calls' = calls \ {c}
    BY <1>3 DEF Answer
  <2>2. Moved(c.by, calls \ {c}, {})
    BY <1>1, <2>1 DEF Moved, Stays, RunnersTyped, RoundOK
  <2> QED BY <2>2
<1> QED BY <1>2, <1>3

LEMMA MovesFirst ==
  ASSUME RunnersTyped, NEW r \in Callers, NEW choice \in Chosen(r), Begins(r, choice)
  PROVE  \E new : Moved(r, calls, new)
<1> DEFINE round == [n |-> caller[r].n + 1, at |-> 1, try |-> 1, choice |-> choice,
                     decided |-> NoChoice]
           c == Call(r, round)
<1>1. caller \in [Callers -> RoundType] /\ caller[r].n \in Nat /\ choice \in Choices
  BY RoundTyped, ChosenAreChoices DEF RunnersTyped
<1>2. round \in RoundType /\ round.at \in 1..Len(CallsOf(r)) /\ round.decided \in {NoChoice, round.choice}
  BY <1>1, CallsInOrder DEF RoundType, Choices
<1>3. /\ caller' = [caller EXCEPT ![r] = round] /\ calls' = calls \union {c}
      /\ Idle(r) /\ late' = late
  BY DEF Begins
<1>4. /\ c \in CallType /\ c.by = r /\ c.n = round.n /\ c.to = CallsOf(r)[round.at]
      /\ c.try = round.try /\ c.selected = round.choice /\ c.choice = c.selected
      /\ c.context = NoContext
  BY <1>2, CallMade
<1>5. round.n = caller[r].n + 1 /\ round.at = 1 /\ round.try = 1 /\ round.choice = choice
      /\ round.decided = NoChoice
  OBVIOUS
<1> HIDE DEF c, round
<1>6. caller'[r] = round /\ caller' \in [Callers -> RoundType]
      /\ \A x \in Callers \ {r} : caller'[x] = caller[x]
  BY <1>1, <1>2, <1>3
<1>7. MakesCall(r, c)
  BY <1>2, <1>4, <1>5, <1>6 DEF MakesCall
<1>8. RoundOK(r)'
  BY <1>2, <1>5, <1>6 DEF RoundOK
<1>9. Moved(r, calls, {c})
  BY <1>3, <1>5, <1>6, <1>7, <1>8 DEF Moved, FirstCall
<1> QED BY <1>9

LEMMA MovesGivenUp ==
  ASSUME RunnersTyped, NEW r \in Callers, GiveUp(r)
  PROVE  \E left \in SUBSET calls, new \in SUBSET calls' : Moved(r, left, new)
<1> DEFINE t == caller[r]
           again == [t EXCEPT !.try = @ + 1]
           c == Call(r, again)
<1>1. /\ ~Idle(r) /\ caller \in [Callers -> RoundType] /\ t \in RoundType /\ RoundOK(r)
      /\ t.at \in 1..Len(CallsOf(r))
  BY DEF GiveUp, RunnersTyped, RoundOK, Idle
<1>2. [by |-> r, n |-> caller[r].n, to |-> Calling(r)] \in late' /\ late \subseteq late'
  BY DEF GiveUp, Late
<1>3. PICK left \in SUBSET calls, tries \in Tries(r, Calling(r)) :
        IF t.try < tries
        THEN caller' = [caller EXCEPT ![r] = again] /\ calls' = left \union {c}
        ELSE t.try = tries /\ GoesOn(r, t.decided, left)
  <2>1. PICK left \in Left(r), tries \in Tries(r, Calling(r)) :
          IF t.try < tries
          THEN caller' = [caller EXCEPT ![r] = again] /\ calls' = left \union {c}
          ELSE t.try = tries /\ GoesOn(r, t.decided, left)
    BY DEF GiveUp
  <2>2. left \in SUBSET calls
    BY DEF Left
  <2> QED BY <2>1, <2>2
<1>4. CASE t.try < tries
  <2>1. again.n = t.n /\ again.at = t.at /\ again.try = t.try + 1 /\ again.choice = t.choice
        /\ again.decided = t.decided
        /\ again = [n |-> t.n, at |-> t.at, try |-> t.try + 1, choice |-> t.choice, decided |-> t.decided]
    BY <1>1 DEF RoundType
  <2>2. again \in RoundType
    BY <1>1, <2>1, RoundTyped DEF RoundType
  <2>3. caller' = [caller EXCEPT ![r] = again] /\ calls' = left \union {c}
    BY <1>3, <1>4
  <2>4. t.decided \in {NoChoice, t.choice} /\ t.choice \in Chosen(r) /\ t.try >= 1 /\ t.try \in Nat
    BY <1>1, RoundTyped DEF RoundOK
  <2>5. /\ c \in CallType /\ c.by = r /\ c.n = again.n /\ c.to = CallsOf(r)[again.at]
        /\ c.try = again.try /\ c.selected = again.choice /\ c.choice = c.selected
        /\ c.context = NoContext
    <3> HIDE DEF again
    <3> QED BY <1>1, <2>1, <2>2, <2>4, CallMade
  <2>6. Calling(r) = "action" => r = Trial
    <3> SUFFICES ASSUME Calling(r) = "action", r # Trial PROVE FALSE
      OBVIOUS
    <3>1. tries = 1
      BY DEF Tries
    <3> QED BY <1>4, <2>4, <3>1
  <2> HIDE DEF again, c
  <2>7. caller'[r] = again /\ caller' \in [Callers -> RoundType]
        /\ \A x \in Callers \ {r} : caller'[x] = caller[x]
    BY <1>1, <2>2, <2>3
  <2>8. MakesCall(r, c)
    BY <1>1, <2>1, <2>5, <2>7 DEF MakesCall
  <2>9. RoundOK(r)'
    BY <1>1, <2>1, <2>4, <2>7 DEF RoundOK
  <2>10. Moved(r, left, {c})
    BY <1>1, <1>2, <2>1, <2>3, <2>6, <2>7, <2>8, <2>9 DEF Moved, Repeats
  <2> QED BY <2>3, <2>10
<1>5. CASE ~(t.try < tries)
  <2>1. GoesOn(r, t.decided, left) /\ t.decided \in {NoChoice, t.choice}
    BY <1>1, <1>3, <1>5 DEF RoundOK
  <2>2. PICK new : Moved(r, left, new)
    BY <1>1, <1>2, <2>1, MovesOn
  <2>3. new \in SUBSET calls'
    BY <2>2 DEF Moved
  <2> QED BY <2>2, <2>3
<1> QED BY <1>4, <1>5

-----------------------------------------------------------------------------
(* What a move leaves as it was.                                              *)

LEMMA RoundsMoved ==
  ASSUME RunnersTyped, NEW r \in Callers, NEW left, NEW new, Moved(r, left, new)
  PROVE  /\ \A x \in Callers : caller[x].n <= caller'[x].n /\ caller[x].n \in Nat /\ caller'[x].n \in Nat
         /\ \A x \in Callers : caller'[x].n = caller[x].n /\ caller'[x].at # 0 =>
              caller[x].at # 0 /\ caller'[x].choice = caller[x].choice /\ caller[x].at <= caller'[x].at
         /\ \A x \in Callers : caller[x].at \in 0..3 /\ caller'[x].at \in 0..3
<1>1. caller \in [Callers -> RoundType] /\ caller' \in [Callers -> RoundType]
  BY DEF RunnersTyped, Moved
<1>2. \A x \in Callers : /\ caller[x].n \in Nat /\ caller'[x].n \in Nat
                         /\ caller[x].at \in 0..3 /\ caller'[x].at \in 0..3
  BY <1>1, RoundTyped
<1>3. \A x \in Callers \ {r} : caller'[x] = caller[x]
  BY DEF Moved
<1>4. \/ caller'[r] = caller[r]
      \/ caller'[r].n = caller[r].n + 1
      \/ /\ caller'[r].n = caller[r].n /\ caller[r].at # 0
         /\ caller'[r].at # 0 =>
              /\ caller'[r].at \in {caller[r].at, caller[r].at + 1}
              /\ caller'[r].choice = caller[r].choice
  BY DEF Moved, Stays, FirstCall, Repeats, Proceeds, Idle
<1> QED BY <1>2, <1>3, <1>4

LEMMA TypedMoved ==
  ASSUME RunnersTyped, NEW r \in Callers, NEW left, NEW new, Moved(r, left, new)
  PROVE  RunnersTyped'
<1>1. \A x \in Callers : RoundOK(x)'
  BY DEF Moved, RunnersTyped, RoundOK
<1>2. calls' \subseteq CallType
  BY DEF Moved, RunnersTyped, MakesCall
<1>3. ASSUME NEW c \in left PROVE CallOK(c)'
  <2>1. CallOK(c) /\ c.by \in Callers /\ c.n \in Nat
    BY CallTyped DEF Moved, RunnersTyped
  <2>2. c.n <= caller'[c.by].n
    BY <2>1, RoundsMoved DEF CallOK
  <2>3. ASSUME caller'[c.by].at # 0, c.n = caller'[c.by].n
        PROVE  c.selected = caller'[c.by].choice
    <3>1. c.n = caller[c.by].n
      BY <2>1, <2>3, RoundsMoved DEF CallOK
    <3>2. caller[c.by].at # 0 /\ caller'[c.by].choice = caller[c.by].choice
      BY <2>1, <2>3, <3>1, RoundsMoved
    <3> QED BY <2>1, <3>1, <3>2 DEF CallOK, Idle
  <2> QED BY <2>1, <2>2, <2>3 DEF CallOK, Idle
<1>4. ASSUME NEW c \in new PROVE CallOK(c)'
  <2>1. MakesCall(r, c) /\ RoundOK(r)'
    BY DEF Moved
  <2>2. c.n <= caller'[r].n
    BY <2>1, RoundsMoved DEF MakesCall
  <2>3. caller'[r].choice \in Chosen(r) /\ caller'[r].at \in 1..Len(CallsOf(r))
    BY <2>1, CallsInOrder DEF MakesCall, RoundOK
  <2>4. c.to = "decide" => r = Runtime
    <3>1. c.to = CallsOf(r)[caller'[r].at]
      BY <2>1 DEF MakesCall
    <3>2. PICK i \in 1..Len(CallsOf(r)) : c.to = CallsOf(r)[i]
      BY <2>3, <3>1
    <3>3. CallsOf(r)[i] = "decide" => r = Runtime
      BY CallsInOrder
    <3> QED BY <3>2, <3>3
  <2>5. /\ c.by = r /\ c.n = caller'[r].n /\ c.selected = caller'[r].choice
        /\ c.choice = c.selected /\ c.context = NoContext
    BY <2>1 DEF MakesCall
  <2> QED BY <2>2, <2>3, <2>4, <2>5 DEF CallOK
<1> QED BY <1>1, <1>2, <1>3, <1>4 DEF RunnersTyped, Moved

LEMMA KeysEqual ==
  ASSUME NEW c, NEW d
  PROVE  Key(c) = Key(d) <=> c.by = d.by /\ c.n = d.n /\ c.to = d.to
BY DEF Key

\* A call the caller waits for is the one its round is at.
LEMMA AwaitedKey ==
  ASSUME RunnersTyped, NEW c \in calls, Awaited(c)
  PROVE  /\ Key(c) = [by |-> c.by, n |-> caller[c.by].n, to |-> Calling(c.by)]
         /\ c.by \in Callers /\ caller[c.by].at \in 1..Len(CallsOf(c.by))
BY CallTyped DEF RunnersTyped, RoundOK, Awaited, Key, Idle

LEMMA AwaitedMoved ==
  ASSUME RunnersTyped, CallsAwaited, NEW r \in Callers, NEW left, NEW new, Moved(r, left, new)
  PROVE  CallsAwaited'
<1>0. late \subseteq late' /\ calls' = left \union new /\ left \subseteq calls
  BY DEF Moved
<1>1. ASSUME NEW c \in left, Key(c) \notin late', c.by # r
      PROVE  Awaited(c)'
  <2>1. Awaited(c) /\ c.by \in Callers
    BY <1>0, <1>1, CallTyped DEF CallsAwaited, RunnersTyped
  <2>2. caller'[c.by] = caller[c.by]
    BY <1>1, <2>1 DEF Moved
  <2> QED BY <2>1, <2>2 DEF Awaited, Idle, Calling
<1>2. ASSUME NEW c \in left, Key(c) \notin late', c.by = r
      PROVE  Stays(r) /\ new = {} /\ Awaited(c)'
  <2>1. Awaited(c) /\ c \in calls
    BY <1>0, <1>2 DEF CallsAwaited
  <2>2. Key(c) = [by |-> r, n |-> caller[r].n, to |-> Calling(r)] /\ ~Idle(r)
    BY <1>2, <2>1, AwaitedKey DEF Awaited
  <2>3. ~FirstCall(r) /\ ~Repeats(r)
    BY <1>2, <2>2 DEF FirstCall, Repeats
  <2>4. ~Proceeds(r, left)
    <3> SUFFICES ASSUME NEW d \in calls, Awaited(d), d.by = r, left = calls \ {d}
                 PROVE  FALSE
      BY <1>2, <2>2 DEF Proceeds
    <3>1. Key(d) = Key(c)
      BY <2>2, AwaitedKey
    <3>2. d = c
      BY <1>0, <1>2, <2>1, <3>1 DEF CallsAwaited
    <3> QED BY <1>2, <3>2
  <2>5. Stays(r) /\ new = {}
    BY <2>3, <2>4 DEF Moved
  <2> QED BY <1>2, <2>1, <2>5 DEF Awaited, Idle, Calling, Stays
<1>3. ASSUME NEW c \in new PROVE Awaited(c)' /\ c.by = r /\ \A d \in new : d = c
  BY DEF Moved, MakesCall, Awaited, Idle, Calling
<1>4. ASSUME NEW c \in calls', Key(c) \notin late', NEW d \in calls', Key(d) = Key(c)
      PROVE  d = c
  <2>1. CASE c \in left /\ d \in left
    BY <1>0, <1>4, <2>1 DEF CallsAwaited
  <2>2. CASE c \in new /\ d \in new
    BY <1>3, <2>2
  <2>3. CASE c \in new /\ d \in left
    BY <1>2, <1>3, <1>4, <2>3, KeysEqual
  <2>4. CASE c \in left /\ d \in new
    BY <1>2, <1>3, <1>4, <2>4, KeysEqual
  <2> QED BY <1>0, <2>1, <2>2, <2>3, <2>4
<1> QED BY <1>0, <1>1, <1>2, <1>3, <1>4 DEF CallsAwaited, Key

LEMMA ActedMoved ==
  ASSUME RunnersInv, NEW r \in Callers, NEW left, NEW new, Moved(r, left, new),
         \/ mtd' \subseteq mtd
         \/ \E c \in calls \ left : \E p :
              c.to = "action" /\ p.by = c.by /\ p.n = c.n /\ mtd' \subseteq mtd \union {p}
  PROVE  ActedOnce'
<1>0. /\ late \subseteq late' /\ calls' = left \union new /\ left \subseteq calls
      /\ RunnersTyped /\ ActedOnce /\ PoliciesOK /\ \A c \in new, d \in new : c = d
  BY DEF Moved, RunnersInv
<1>1. \A by, n : Sole(by, n)' => Sole(by, n)
  BY <1>0 DEF Sole
<1>2. ASSUME NEW c \in calls
      PROVE  c.by \in Callers /\ c.n \in Nat /\ c.n <= caller[c.by].n
  BY <1>0, CallTyped DEF RunnersTyped, CallOK
<1>3. \A p \in mtd : p.by \in Callers /\ p.n \in Nat /\ p.n <= caller[p.by].n
  BY <1>0 DEF PoliciesOK, PolicyOK
<1>4. \A c \in new : /\ c.by = r /\ c.n = caller'[r].n /\ c.to = CallsOf(r)[caller'[r].at]
                     /\ caller'[r].at \in 1..Len(CallsOf(r))
  BY CallsInOrder DEF Moved, MakesCall, RoundOK
\* A call to the controller that may count as the only one of its round is the first.
<1>5. ASSUME NEW c \in new, c.to = "action", Sole(r, c.n)'
      PROVE  /\ \A d \in calls : d.by = r /\ d.n = c.n => d.to # "action"
             /\ \A p \in mtd : p.by = r => p.n # c.n
  <2>1. caller'[r].at = Len(CallsOf(r)) /\ caller'[r].at > 1 /\ c.n = caller'[r].n
    BY <1>4, <1>5, CallsInOrder
  <2>2. Repeats(r) \/ Proceeds(r, left)
    <3>1. caller'[r].at # 1
      BY <2>1
    <3>2. new # {} /\ ~FirstCall(r)
      BY <1>5, <3>1 DEF FirstCall
    <3> QED BY <3>2 DEF Moved
  <2>3. ~Repeats(r)
    <3> SUFFICES ASSUME Repeats(r) PROVE FALSE
      OBVIOUS
    <3>1. Calling(r) = "action"
      BY <1>4, <1>5 DEF Repeats, Calling
    <3> QED BY <1>5, <2>1, <3>1 DEF Repeats, Sole
  <2>4. caller'[r].n = caller[r].n /\ caller'[r].at = caller[r].at + 1 /\ caller[r].at # 0
    BY <2>1, <2>2, <2>3 DEF Proceeds, Idle
  <2>5. caller[r].at \in 1..(Len(CallsOf(r)) - 1)
    BY <1>0, <2>1, <2>4, RoundsMoved, CallsInOrder
  <2> QED BY <1>0, <2>1, <2>4, <2>5 DEF ActedOnce
<1>6. ASSUME NEW c \in calls', NEW d \in calls', c.to = "action", d.to = "action",
             c.by = d.by, c.n = d.n, Sole(c.by, c.n)'
      PROVE  c = d
  <2>1. CASE c \in left /\ d \in left
    BY <1>0, <1>1, <1>6, <2>1 DEF ActedOnce
  <2>2. CASE c \in new \/ d \in new
    BY <1>0, <1>4, <1>5, <1>6, <2>2
  <2> QED BY <1>0, <2>1, <2>2
<1>7. ASSUME NEW p \in mtd, NEW c \in calls', c.to = "action", p.by = c.by, p.n = c.n, Sole(c.by, c.n)'
      PROVE  FALSE
  <2>1. CASE c \in left
    BY <1>0, <1>1, <1>7, <2>1 DEF ActedOnce
  <2>2. CASE c \in new
    BY <1>4, <1>5, <1>7, <2>2
  <2> QED BY <1>0, <2>1, <2>2
<1>8. ASSUME NEW x \in Callers, caller'[x].at \in 1..(Len(CallsOf(x)) - 1), NEW n, n = caller'[x].n
      PROVE  /\ \A c \in calls' : c.by = x /\ c.n = n => c.to # "action"
             /\ \A c \in calls : c.by = x /\ c.n = n => c.to # "action"
             /\ \A p \in mtd : p.by = x => p.n # n
  <2>1. \A c \in new : c.by = x => c.to # "action"
    BY <1>4, <1>8, CallsInOrder
  <2>2. CASE caller[x].n = n
    <3>1. caller[x].at \in 1..(Len(CallsOf(x)) - 1)
      BY <1>0, <1>8, <2>2, RoundsMoved, CallsInOrder
    <3> QED BY <1>0, <1>8, <2>1, <2>2, <3>1 DEF ActedOnce
  <2>3. CASE caller[x].n # n
    <3>1. caller[x].n < n
      BY <1>0, <1>8, <2>3, RoundsMoved
    <3>2. \A c \in calls : c.by = x => c.n # n
      BY <1>0, <1>2, <3>1, RoundsMoved
    <3>3. \A p \in mtd : p.by = x => p.n # n
      BY <1>0, <1>3, <3>1, RoundsMoved
    <3> QED BY <1>0, <2>1, <3>2, <3>3
  <2> QED BY <2>2, <2>3
<1>9. CASE mtd' \subseteq mtd
  <2>1. \A p \in mtd', q \in mtd' : p.by = q.by /\ p.n = q.n /\ Sole(p.by, p.n)' => p = q
    BY <1>0, <1>1, <1>9 DEF ActedOnce
  <2> QED BY <1>6, <1>7, <1>8, <1>9, <2>1 DEF ActedOnce
<1>10. ASSUME NEW c \in calls \ left, NEW p, c.to = "action", p.by = c.by, p.n = c.n,
              mtd' \subseteq mtd \union {p}
       PROVE  ActedOnce'
  <2>1. c.by \in Callers
    BY <1>2, <1>10
  <2>2. ASSUME NEW d \in calls', d.to = "action", d.by = c.by, d.n = c.n PROVE ~Sole(d.by, d.n)'
    <3> SUFFICES ASSUME Sole(d.by, d.n)' PROVE FALSE
      OBVIOUS
    <3>1. CASE d \in left
      <4>1. d = c
        BY <1>0, <1>1, <1>10, <2>2, <3>1 DEF ActedOnce
      <4> QED BY <1>10, <3>1, <4>1
    <3>2. CASE d \in new
      BY <1>4, <1>5, <1>10, <2>2, <3>2
    <3> QED BY <1>0, <3>1, <3>2
  <2>3. \A q \in mtd : q.by = c.by /\ q.n = c.n => ~Sole(c.by, c.n)'
    BY <1>0, <1>1, <1>10 DEF ActedOnce
  <2>4. \A q \in mtd', d \in calls' :
          d.to = "action" /\ q.by = d.by /\ q.n = d.n => ~Sole(d.by, d.n)'
    BY <1>7, <1>10, <2>2
  <2>5. \A q \in mtd', s \in mtd' : q.by = s.by /\ q.n = s.n /\ Sole(q.by, q.n)' => q = s
    BY <1>0, <1>1, <1>10, <2>3 DEF ActedOnce
  <2>6. ASSUME NEW x \in Callers, caller'[x].at \in 1..(Len(CallsOf(x)) - 1)
        PROVE  /\ \A d \in calls' : d.by = x /\ d.n = caller'[x].n => d.to # "action"
               /\ \A q \in mtd' : q.by = x => q.n # caller'[x].n
    BY <1>8, <1>10, <2>6
  <2> QED BY <1>6, <2>4, <2>5, <2>6 DEF ActedOnce
<1> QED BY <1>9, <1>10

LEMMA PostedMoved ==
  ASSUME RunnersInv, NEW r \in Callers, NEW left, NEW new, Moved(r, left, new), external' = external,
         ~Idle(r) /\ Calling(r) = "context" /\ r # Trial =>
           Stays(r) \/ [by |-> r, n |-> caller[r].n, to |-> "context"] \in late'
  PROVE  PostedLast'
<1>0. RunnersTyped /\ PostedLast /\ late \subseteq late' /\ RoundOK(r)'
  BY DEF RunnersInv, Moved
<1> SUFFICES ASSUME external # NoContext,
                    NEW post, post = external["strategy_layer"],
                    \A l \in late' : l.by = post.by => l.to # "context"
             PROVE  LET posting == caller'[post.by].at # 0
                                     /\ CallsOf(post.by)[caller'[post.by].at] = "context"
                    IN caller'[post.by].n = post.n + (IF posting THEN 1 ELSE 0)
  BY <1>0 DEF PostedLast, Idle, Calling
<1>1. PICK q \in Posts : external = [key \in Keys |-> q]
  BY <1>0 DEF PostedLast, Contexts
<1>2. post = q /\ post.by \in {Runtime, Eval} /\ post.n \in Nat
  BY <1>1, ContextRead DEF Posts
<1>3. post.by \in Callers /\ post.by # Trial
  BY <1>2, CloudPolicyAssumption DEF Callers
<1>4. caller[post.by].n =
        post.n + (IF caller[post.by].at # 0 /\ CallsOf(post.by)[caller[post.by].at] = "context"
                  THEN 1 ELSE 0)
  BY <1>0 DEF PostedLast, Idle, Calling
<1>5. CASE caller'[post.by] = caller[post.by]
  BY <1>4, <1>5
<1>6. CASE caller'[post.by] # caller[post.by]
  <2>1. post.by = r /\ ~Stays(r)
    BY <1>3, <1>6 DEF Moved, Stays
  <2>2. [by |-> r, n |-> caller[r].n, to |-> "context"] \notin late'
    BY <2>1
  <2>3. ~Idle(r) => Calling(r) # "context"
    BY <1>3, <2>1, <2>2
  <2>4. caller[r].n = post.n
    BY <1>4, <1>2, <2>1, <2>3 DEF Idle, Calling
  <2>5. CASE FirstCall(r)
    <3>1. CallsOf(r)[1] = "context"
      BY CallsInOrder
    <3> QED BY <2>1, <2>4, <2>5, <3>1 DEF FirstCall
  <2>6. CASE Repeats(r)
    BY <1>2, <2>1, <2>3, <2>4, <2>6 DEF Repeats, Calling
  <2>7. CASE Proceeds(r, left)
    <3>1. caller'[r].n = caller[r].n /\ (caller'[r].at # 0 => caller'[r].at = caller[r].at + 1)
          /\ caller[r].at # 0
      BY <2>7 DEF Proceeds, Idle
    <3>2. caller[r].at \in Nat /\ (caller'[r].at # 0 => caller'[r].at \in 1..Len(CallsOf(r)))
      BY <1>0, RoundsMoved, CallsInOrder DEF RoundOK
    <3>3. caller'[r].at # 0 => CallsOf(r)[caller'[r].at] # "context"
      <4> SUFFICES ASSUME NEW i \in 1..Len(CallsOf(r)), i = caller[r].at + 1
                   PROVE  CallsOf(r)[i] # "context"
        BY <3>1, <3>2
      <4>1. i # 1
        BY <3>1, <3>2
      <4> QED BY <4>1, CallsInOrder
    <3> QED BY <1>2, <2>1, <2>4, <3>1, <3>3
  <2> QED BY <2>1, <2>5, <2>6, <2>7 DEF Moved
<1> QED BY <1>5, <1>6

LEMMA GoneOn ==
  ASSUME RunnersTyped, NEW r \in Callers, NEW decided, NEW left, GoesOn(r, decided, left)
  PROVE  caller'[r].n = caller[r].n /\ caller'[r].at \in {0, caller[r].at + 1}
<1>1. caller \in [Callers -> RoundType] /\ caller[r] \in RoundType
  BY DEF RunnersTyped
<1>2. [NoRound EXCEPT !.n = caller[r].n].n = caller[r].n
      /\ [NoRound EXCEPT !.n = caller[r].n].at = 0
  BY DEF NoRound
<1> DEFINE round == [caller[r] EXCEPT !.at = @ + 1, !.try = 1, !.decided = decided]
<1>3. round.n = caller[r].n /\ round.at = caller[r].at + 1
  BY <1>1 DEF RoundType
<1>4. caller' = [caller EXCEPT ![r] = round]
      \/ caller' = [caller EXCEPT ![r] = [NoRound EXCEPT !.n = caller[r].n]]
  BY DEF GoesOn
<1> HIDE DEF round
<1> QED BY <1>1, <1>2, <1>3, <1>4

\* The context is served: from now on it is that of the call.
LEMMA PostedServed ==
  ASSUME RunnersInv, NEW c \in calls, ServeContext(c), c.by # Trial
  PROVE  PostedLast'
<1> DEFINE post == Post(c)
<1>0. RunnersTyped /\ CallsAwaited /\ PostedLast /\ c \in CallType /\ c.by \in Callers
  BY CallTyped DEF RunnersInv, RunnersTyped
<1>1. external' = [key \in Keys |-> post] /\ c.to = "context" /\ late' = late
      /\ Answer(c, NoChoice)
  BY <1>0, ContextsMerged DEF ServeContext, PostedLast, Post
<1>2. post \in Posts /\ post.by = c.by /\ post.n = c.n
  BY <1>0, CallTyped DEF Post, Posts, Callers
<1> HIDE DEF post
<1>3. external'["strategy_layer"] = post
  BY <1>1, ContextRead
<1>4. external' \in Contexts
  BY <1>1, <1>2 DEF Contexts
<1>5. ASSUME \A l \in late' : l.by = post.by => l.to # "context"
      PROVE  caller'[c.by].n = c.n
             /\ ~(caller'[c.by].at # 0 /\ CallsOf(c.by)[caller'[c.by].at] = "context")
  <2>1. Key(c) \notin late
    BY <1>1, <1>2, <1>5 DEF Key
  <2>2. Awaited(c)
    BY <1>0, <2>1 DEF CallsAwaited
  <2>3. caller[c.by].at \in 1..Len(CallsOf(c.by)) /\ CallsOf(c.by)[caller[c.by].at] = "context"
        /\ caller[c.by].n = c.n
    BY <1>0, <1>1, <2>2, AwaitedKey DEF Awaited, Calling
  <2>4. caller[c.by].at = 1
    BY <1>0, <2>3, CallsInOrder
  <2>5. caller'[c.by].n = c.n /\ caller'[c.by].at \in {0, 2}
    BY <1>0, <1>1, <2>2, <2>3, <2>4, GoneOn DEF Answer
  <2>6. CallsOf(c.by)[2] # "context"
    BY <1>0, CallsInOrder
  <2> QED BY <2>5, <2>6
<1>6. c.n \in Nat
  BY <1>0, CallTyped
<1> QED BY <1>2, <1>3, <1>4, <1>5, <1>6 DEF PostedLast, Idle, Calling

LEMMA PoliciesMoved ==
  ASSUME RunnersInv, NEW r \in Callers, NEW left, NEW new, Moved(r, left, new),
         \A p \in mtd' : p \in mtd \/ PolicyOK(p)
  PROVE  PoliciesOK'
BY RoundsMoved DEF RunnersInv, PoliciesOK, PolicyOK

\* A thread of the policy service has taken its snapshot.
LEMMA SnapshotKeeps ==
  ASSUME RunnersInv, NEW c \in calls, Snapshot(c)
  PROVE  RunnersInv'
<1> DEFINE context == MergedContext(external, ContextPayload(Post(c)))
           s == [c EXCEPT !.context = context]
<1>0. /\ RunnersTyped /\ CallsAwaited /\ ActedOnce /\ PostedLast /\ PoliciesOK
      /\ c \in CallType /\ CallOK(c)
  BY DEF RunnersInv, RunnersTyped
<1>1. c.to = "decide" /\ calls' = (calls \ {c}) \union {s}
      /\ external' = external /\ mtd' = mtd /\ caller' = caller /\ late' = late
  BY DEF Snapshot
<1>2. c.by = Runtime /\ c.by # Trial
  BY <1>0, <1>1, CloudPolicyAssumption DEF CallOK
<1>3. Post(c).by = c.by /\ Post(c) \in Posts /\ Post(c).choice = c.selected
  BY <1>0, <1>2, CallTyped DEF Post, Posts
<1>4. context = [key \in Keys |-> Post(c)]
  BY <1>0, <1>2, <1>3, ContextsMerged DEF PostedLast
<1>5. context \in Contexts /\ StrategyAction(context) = c.selected
  BY <1>3, <1>4, ContextRead DEF Contexts
<1> HIDE DEF context
<1>6. /\ s \in CallType /\ s.by = c.by /\ s.n = c.n /\ s.to = c.to /\ s.try = c.try
      /\ s.selected = c.selected /\ s.choice = c.choice /\ s.context = context
  BY <1>0, <1>5 DEF CallType
<1> HIDE DEF s
<1>7. RunnersTyped'
  <2>1. \A d \in calls' : CallOK(d)'
    BY <1>0, <1>1, <1>2, <1>5, <1>6 DEF RunnersTyped, CallOK, Idle
  <2> QED BY <1>0, <1>1, <1>6, <2>1 DEF RunnersTyped, RoundOK
<1>8. CallsAwaited'
  <2>1. \A d : Awaited(d)' <=> Awaited(d)
    BY <1>1 DEF Awaited, Idle, Calling
  <2>2. Key(s) = Key(c) /\ (Awaited(s) <=> Awaited(c))
    BY <1>6 DEF Key, Awaited
  <2>3. \A d \in calls : Key(d) = Key(c) /\ Key(d) \notin late => d = c
    BY <1>0 DEF CallsAwaited
  <2>4. \A d \in calls' : d = s \/ (d \in calls /\ d # c)
    BY <1>1
  <2>5. ASSUME NEW d \in calls', Key(d) \notin late
        PROVE  Awaited(d) /\ \A e \in calls' : Key(e) = Key(d) => e = d
    <3>1. CASE d = s
      BY <1>0, <2>2, <2>3, <2>4, <2>5, <3>1 DEF CallsAwaited
    <3>2. CASE d \in calls /\ d # c
      BY <1>0, <2>2, <2>3, <2>4, <2>5, <3>2 DEF CallsAwaited
    <3> QED BY <2>4, <3>1, <3>2
  <2> QED BY <1>1, <2>1, <2>5 DEF CallsAwaited, Key
<1>9. ActedOnce'
  <2>1. \A d \in calls' : d.to = "action" => d \in calls
    BY <1>1, <1>6
  <2>2. \A by, n : Sole(by, n)' <=> Sole(by, n)
    BY <1>1 DEF Sole
  <2> QED BY <1>0, <1>1, <2>1, <2>2 DEF ActedOnce
<1>10. PostedLast' /\ PoliciesOK'
  BY <1>0, <1>1 DEF PostedLast, PoliciesOK, PolicyOK, Idle, Calling
<1> QED BY <1>7, <1>8, <1>9, <1>10 DEF RunnersInv

-----------------------------------------------------------------------------
\* A policy the controller installs is one its caller chose ...
LEMMA InstallOK ==
  ASSUME RunnersInv, NEW c \in calls, c.choice.action \in Installs, c.choice.target # NoTarget
  PROVE  PolicyOK(Installed(c))
<1>0. RunnersTyped /\ c \in CallType /\ CallOK(c) /\ c.by \in Callers /\ c.n \in Nat
  BY CallTyped DEF RunnersInv, RunnersTyped
<1>1. c.choice = c.selected /\ c.selected \in Chosen(c.by) /\ c.n <= caller[c.by].n
  BY <1>0 DEF CallOK
<1> DEFINE p == Installed(c)
<1>2. /\ p.action = c.choice.action /\ p.target = c.choice.target /\ p.by = c.by /\ p.n = c.n
      /\ p.selected = c.selected
      /\ p.id = IF c.choice.id = NoId THEN <<c.by, c.n, c.try>> ELSE c.choice.id
  BY DEF Installed
<1> HIDE DEF p
<1>3. CASE c.by # Trial
  <2>0. c.choice = Choice(c.choice.action, c.choice.target)
    BY <1>1, <1>3, TrialRunnerAssumption DEF Chosen
  <2>1. c.choice.id = NoId
    BY <2>0 DEF Choice
  <2>2. p.id[1] = c.by /\ p.id[2] = c.n
    BY <1>2, <2>1
  <2> QED BY <1>0, <1>1, <1>2, <1>3, <2>0, <2>2 DEF PolicyOK, p
<1>4. CASE c.by = Trial
  <2>1. c.choice.named \/ Guarded(c.choice)
    BY <1>1, <1>4, RequestsGuarded DEF Chosen
  <2>2. c.choice.named \/ c.choice.target \in ScenarioNodes
    BY <2>1 DEF Guarded, Installs
  <2> QED BY <1>0, <1>1, <1>2, <1>4, <2>2 DEF PolicyOK, p
<1> QED BY <1>3, <1>4

\* ... and takes the place of a trial's at most, unless a trial names another's id.
LEMMA NoneReplaced ==
  ASSUME RunnersInv, NEW c \in calls, c.to = "action", ~(c.by = Trial /\ c.choice.named),
         NEW q \in mtd, q.id = Installed(c).id
  PROVE  q.target \in ScenarioNodes \/ q.selected.named
<1>0. RunnersTyped /\ ActedOnce /\ CallOK(c) /\ PolicyOK(q)
  BY DEF RunnersInv, RunnersTyped, PoliciesOK
<1>1. c.choice.id = NoId
  <2>1. c.choice \in Chosen(c.by)
    BY <1>0 DEF CallOK
  <2>2. CASE c.by # Trial
    BY <2>1, <2>2, TrialRunnerAssumption DEF Chosen, Choice
  <2>3. CASE c.by = Trial
    BY <2>1, <2>3, RequestsGuarded DEF Chosen, Guarded
  <2> QED BY <2>2, <2>3
<1>2. q.id = <<c.by, c.n, c.try>>
  BY <1>1 DEF Installed
<1>3. CASE q.by # Trial
  <2>1. q.by = c.by /\ q.n = c.n
    BY <1>0, <1>2, <1>3 DEF PolicyOK
  <2> QED BY <1>0, <1>3, <2>1 DEF ActedOnce, Sole
<1>4. CASE q.by = Trial
  BY <1>0, <1>4 DEF PolicyOK
<1> QED BY <1>3, <1>4

LEMMA ActionServed ==
  ASSUME RunnersInv, NEW c \in calls, ServeAction(c)
  PROVE  /\ \/ mtd' \subseteq mtd
            \/ \E p : PolicyOK(p) /\ p.by = c.by /\ p.n = c.n /\ mtd' \subseteq mtd \union {p}
         /\ \A q \in mtd \ mtd' :
              q.target \in ScenarioNodes \/ q.selected.named \/ (c.by = Trial /\ c.choice.named)
<1>0. RunnersTyped /\ CallOK(c) /\ c.to = "action" /\ mtd' \in Applied(c)
  BY DEF RunnersInv, RunnersTyped, ServeAction
<1>1. c.choice \in Chosen(c.by)
  BY <1>0 DEF CallOK
<1>2. \/ c.by = Trial /\ c.choice.named
      \/ c.by = Trial /\ Guarded(c.choice)
      \/ c.choice.action \in StageActions
  BY <1>1, RequestsGuarded, TrialRunnerAssumption DEF Chosen
<1>3. CASE c.choice.action = "clear_all_policies"
  <2>1. mtd' = {}
    BY <1>0, <1>3 DEF Applied, Releases, Installs
  <2>2. c.by = Trial /\ c.choice.named
    BY <1>2, <1>3 DEF Guarded, Supported, StageActions
  <2> QED BY <2>1, <2>2
<1>4. CASE c.choice.action \in Releases /\ c.choice.target # NoTarget
  <2>1. mtd' = {p \in mtd : p.target # c.choice.target}
    BY <1>0, <1>4 DEF Applied, Releases, Installs
  <2>2. (c.by = Trial /\ c.choice.named) \/ c.choice.target \in ScenarioNodes
    BY <1>2, <1>4 DEF Guarded, Releases, StageActions
  <2> QED BY <2>1, <2>2
<1>5. CASE c.choice.action \in Installs /\ c.choice.target # NoTarget
  <2>1. mtd' \in {mtd, {p \in mtd : p.id # Installed(c).id} \union {Installed(c)}}
    BY <1>0, <1>5 DEF Applied, Installs, Releases
  <2>2. PolicyOK(Installed(c)) /\ Installed(c).by = c.by /\ Installed(c).n = c.n
    BY <1>5, InstallOK DEF Installed
  <2>3. \A q \in mtd \ mtd' : q.id = Installed(c).id
    BY <2>1
  <2>4. \A q \in mtd \ mtd' :
          q.target \in ScenarioNodes \/ q.selected.named \/ (c.by = Trial /\ c.choice.named)
    BY <1>0, <2>3, NoneReplaced
  <2>5. mtd' \subseteq mtd \union {Installed(c)}
    BY <2>1
  <2> QED BY <2>2, <2>4, <2>5
<1>6. CASE /\ c.choice.action # "clear_all_policies"
           /\ ~(c.choice.action \in Releases /\ c.choice.target # NoTarget)
           /\ ~(c.choice.action \in Installs /\ c.choice.target # NoTarget)
  <2>1. mtd' = mtd
    BY <1>0, <1>6 DEF Applied
  <2> QED BY <2>1
<1> QED BY <1>3, <1>4, <1>5, <1>6

LEMMA MovedKeeps ==
  ASSUME RunnersInv, NEW r \in Callers, NEW left, NEW new, Moved(r, left, new), PostedLast',
         \/ mtd' \subseteq mtd
         \/ \E c \in calls \ left : \E p :
              /\ c.to = "action" /\ p.by = c.by /\ p.n = c.n
              /\ mtd' \subseteq mtd \union {p} /\ PolicyOK(p)
  PROVE  RunnersInv'
<1>1. RunnersTyped /\ CallsAwaited
  BY DEF RunnersInv
<1>2. RunnersTyped' /\ CallsAwaited' /\ ActedOnce'
  BY <1>1, TypedMoved, AwaitedMoved, ActedMoved
<1>3. PoliciesOK'
  BY PoliciesMoved
<1> QED BY <1>2, <1>3 DEF RunnersInv

LEMMA RunnersNext ==
  ASSUME RunnersInv, [Next]_vars
  PROVE  RunnersInv'
<1>0. RunnersTyped /\ PostedLast
  BY DEF RunnersInv
<1>1. ASSUME NEW r \in Callers, NEW choice \in Chosen(r), Begins(r, choice)
      PROVE  RunnersInv'
  <2>1. PICK new : Moved(r, calls, new)
    BY <1>0, <1>1, MovesFirst
  <2>2. external' = external /\ mtd' = mtd /\ Idle(r)
    BY <1>1 DEF Begins
  <2>3. PostedLast'
    BY <2>1, <2>2, PostedMoved
  <2> QED BY <2>1, <2>2, <2>3, MovedKeeps
<1>2. CASE BeginStage
  <2>1. Runtime \in Callers /\ Eval \in Callers /\ Chosen(Runtime) = Selections
        /\ Chosen(Eval) = Selections
    BY CloudPolicyAssumption DEF Callers, Chosen
  <2> QED BY <1>1, <1>2, <2>1 DEF BeginStage
<1>3. CASE BeginTrial
  <2>1. Trial \in Callers
    BY DEF Callers
  <2>2. Chosen(Trial) = Requests
    BY DEF Chosen
  <2> QED BY <1>1, <1>3, <2>1, <2>2 DEF BeginTrial
<1>4. ASSUME NEW r \in Callers, GiveUp(r) PROVE RunnersInv'
  <2>1. PICK left \in SUBSET calls, new \in SUBSET calls' : Moved(r, left, new)
    BY <1>0, <1>4, MovesGivenUp
  <2>2. external' = external /\ mtd' = mtd
        /\ [by |-> r, n |-> caller[r].n, to |-> Calling(r)] \in late'
    BY <1>4 DEF GiveUp, Late
  <2>3. PostedLast'
    BY <2>1, <2>2, PostedMoved
  <2> QED BY <2>1, <2>2, <2>3, MovedKeeps
<1>5. ASSUME NEW c \in calls PROVE c.by \in Callers /\ CallOK(c) /\ c \in CallType
  BY <1>0, CallTyped DEF RunnersTyped
\* An answer that is not one to a stage's post.
<1>6. ASSUME NEW c \in calls, NEW decided, Answer(c, decided), late' = late,
             c.to # "context" \/ c.by = Trial, external' = external,
             Awaited(c) => decided \in {NoChoice, caller[c.by].choice}
      PROVE  PostedLast' /\ \E new : Moved(c.by, calls \ {c}, new)
  <2>1. PICK new : Moved(c.by, calls \ {c}, new)
    BY <1>0, <1>6, MovesAnswered
  <2>2. ~Idle(c.by) /\ Calling(c.by) = "context" /\ c.by # Trial => Stays(c.by)
    BY <1>6 DEF Answer, Awaited, Stays
  <2>3. PostedLast'
    BY <1>5, <1>6, <2>1, <2>2, PostedMoved
  <2> QED BY <2>1, <2>3
<1>7. ASSUME NEW c \in calls, ServeContext(c) PROVE RunnersInv'
  <2>1. Answer(c, NoChoice) /\ late' = late /\ mtd' = mtd /\ c.to = "context"
    BY <1>7 DEF ServeContext
  <2>2. PICK new : Moved(c.by, calls \ {c}, new)
    BY <1>0, <2>1, MovesAnswered
  <2>3. CASE c.by # Trial
    BY <1>5, <1>7, <2>1, <2>2, <2>3, PostedServed, MovedKeeps
  <2>4. CASE c.by = Trial
    <3>1. external' = external
      BY <1>0, <1>7, <2>4, ContextsMerged DEF ServeContext, PostedLast, Post
    <3>2. PostedLast'
      BY <1>6, <2>1, <2>4, <3>1
    <3> QED BY <1>5, <2>1, <2>2, <3>2, MovedKeeps
  <2> QED BY <2>3, <2>4
<1>8. ASSUME NEW c \in calls, Decide(c) PROVE RunnersInv'
  <2>1. /\ Answer(c, StrategyAction(c.context)) /\ late' = late /\ mtd' = mtd /\ c.to = "decide"
        /\ external' = external /\ c.context # NoContext
    BY <1>8 DEF Decide
  <2>2. StrategyAction(c.context) = c.selected
    BY <1>5, <2>1 DEF CallOK
  <2>3. Awaited(c) => c.selected = caller[c.by].choice
    BY <1>5 DEF Awaited, CallOK
  <2>4. PostedLast' /\ \E new : Moved(c.by, calls \ {c}, new)
    BY <1>6, <2>1, <2>2, <2>3
  <2> QED BY <1>5, <2>1, <2>4, MovedKeeps
<1>9. ASSUME NEW c \in calls, ServeAction(c) PROVE RunnersInv'
  <2>1. Answer(c, NoChoice) /\ late' = late /\ c.to = "action" /\ external' = external
    BY <1>9 DEF ServeAction
  <2>2. PostedLast' /\ \E new : Moved(c.by, calls \ {c}, new)
    BY <1>6, <2>1
  <2>3. \/ mtd' \subseteq mtd
        \/ \E p : PolicyOK(p) /\ p.by = c.by /\ p.n = c.n /\ mtd' \subseteq mtd \union {p}
    BY <1>9, ActionServed
  <2> QED BY <1>5, <2>1, <2>2, <2>3, MovedKeeps
<1>10. CASE UNCHANGED vars
  BY <1>10 DEF vars, RunnersInv, RunnersTyped, RoundOK, CallOK, CallsAwaited, Awaited, Idle, Calling,
               ActedOnce, Sole, PostedLast, PoliciesOK, PolicyOK
<1> QED BY <1>2, <1>3, <1>4, <1>7, <1>8, <1>9, <1>10, SnapshotKeeps DEF Next, Serve

LEMMA RunnersInvHolds == Spec => []RunnersInv
<1>1. Init => RunnersInv
  <2> SUFFICES ASSUME Init PROVE RunnersInv
    OBVIOUS
  <2>1. /\ external = NoContext /\ mtd = {} /\ calls = {} /\ late = {}
        /\ caller = [r \in Callers |-> NoRound]
    BY DEF Init
  <2>2. NoRound \in RoundType /\ NoRound.at = 0
    BY DEF NoRound, RoundType, Choices
  <2>3. RunnersTyped
    BY <2>1, <2>2, CallsInOrder DEF RunnersTyped, RoundOK
  <2>4. PostedLast
    BY <2>1 DEF PostedLast, Contexts
  <2>5. CallsAwaited /\ PoliciesOK
    BY <2>1 DEF CallsAwaited, PoliciesOK
  <2>6. ActedOnce
    BY <2>1, <2>2 DEF ActedOnce
  <2> QED BY <2>3, <2>4, <2>5, <2>6 DEF RunnersInv
<1>2. RunnersInv /\ [Next]_vars => RunnersInv'
  BY RunnersNext
<1> QED BY <1>1, <1>2, PTL DEF Spec
-----------------------------------------------------------------------------
(* What it says.                                                              *)

\* Nobody's late call makes a stage install what another one selected: the context a
\* decision is taken by is covered by the request's own.
THEOREM SelectionIsOwn == Spec => []OwnSelection
<1>1. RunnersInv => OwnSelection
  BY DEF RunnersInv, PoliciesOK, PolicyOK, OwnSelection
<1> QED BY <1>1, RunnersInvHolds, PTL

\* The policy service's context never mixes two posts, and never falls behind a stage
\* runner that always waited for the answer to its post.
THEOREM ContextIsOfLatest == Spec => []ContextIsLatest
<1>1. ASSUME RunnersInv, NoContext # external PROVE ContextIsLatest
  <2>1. PostedLast
    BY <1>1 DEF RunnersInv
  <2>2. PICK post \in Posts : external = [key \in Keys |-> post]
    BY <1>1, <2>1 DEF PostedLast, Contexts
  <2>3. external["strategy_layer"] = post /\ external["selected_defender_strategy"] = post
    BY <2>2, ContextRead
  <2> QED BY <1>1, <2>1, <2>3 DEF PostedLast, ContextIsLatest
<1>2. RunnersInv => ContextIsLatest
  BY <1>1 DEF ContextIsLatest
<1> QED BY <1>2, RunnersInvHolds, PTL

\* Only a trial that gave up its call to the controller and made it again may have
\* installed the same defence twice.
THEOREM InstallsOnce == Spec => []InstalledOnce
<1>1. ASSUME RunnersInv, NEW p \in mtd, Sole(p.by, p.n)
      PROVE  Cardinality({q \in mtd : q.by = p.by /\ q.n = p.n}) = 1
  <2>1. \A q \in mtd : q.by = p.by /\ q.n = p.n => q = p
    BY <1>1 DEF RunnersInv, ActedOnce
  <2>2. {q \in mtd : q.by = p.by /\ q.n = p.n} = {p}
    BY <2>1
  <2> QED BY <2>2, FS_Singleton
<1>2. RunnersInv => InstalledOnce
  <2> SUFFICES ASSUME RunnersInv, NEW p \in mtd,
                      Cardinality({q \in mtd : q.by = p.by /\ q.n = p.n}) > 1
               PROVE  p.by = Trial /\ [by |-> Trial, n |-> p.n, to |-> "action"] \in late
    BY DEF InstalledOnce
  <2>1. ~Sole(p.by, p.n)
    BY <1>1
  <2> QED BY <2>1 DEF Sole
<1> QED BY <1>2, RunnersInvHolds, PTL

\* The controller is called last in a round: once it is served, the call is gone.
LEMMA ActionAnswered ==
  ASSUME RunnersInv, NEW c \in calls, ServeAction(c)
  PROVE  c \notin calls'
<1>0. RunnersTyped /\ c.to = "action" /\ Answer(c, NoChoice)
  BY DEF RunnersInv, ServeAction
<1>1. CASE ~Awaited(c)
  BY <1>0, <1>1 DEF Answer
<1>2. CASE Awaited(c)
  <2> DEFINE r == c.by
             round == [caller[r] EXCEPT !.at = @ + 1, !.try = 1, !.decided = NoChoice]
  <2>1. /\ r \in Callers /\ caller[r].at \in 1..Len(CallsOf(r)) /\ caller[r] \in RoundType
        /\ CallsOf(r)[caller[r].at] = "action"
    BY <1>0, <1>2, AwaitedKey DEF RunnersTyped, Awaited, Calling
  <2>2. caller[r].at = Len(CallsOf(r)) /\ Len(CallsOf(r)) \in 2..3
    BY <2>1, CallsInOrder
  <2>3. round.at = caller[r].at + 1
    BY <2>1 DEF RoundType
  <2>4. GoesOn(r, NoChoice, calls \ {c})
    BY <1>0, <1>2 DEF Answer
  <2>5. Over(r, round)
    <3> HIDE DEF round
    <3> QED BY <2>2, <2>3 DEF Over
  <2>6. calls' = calls \ {c}
    BY <2>4, <2>5 DEF GoesOn
  <2> QED BY <2>6
<1> QED BY <1>1, <1>2

\* The guard and the adapter stand between the model's answer and the controller in
\* every step: no trial installs or releases anything outside its scenario, unless the
\* answer's parameters name an action, a target or an id past them.
THEOREM TargetIsGuarded == Spec => GuardedTarget
<1> DEFINE A == \A p \in (mtd \ mtd') \union (mtd' \ mtd) :
                  p.target \notin ScenarioNodes =>
                    \/ p \in mtd' /\ p.by # Trial
                    \/ p.selected.named
                    \/ \E c \in calls \ calls' : c.by = Trial /\ c.to = "action" /\ c.choice.named
<1>1. ASSUME RunnersInv, [Next]_vars PROVE A
  <2>1. CASE \E c \in calls : ServeAction(c)
    <3>1. PICK c \in calls : ServeAction(c)
      BY <2>1
    <3>2. c \in calls \ calls' /\ c.to = "action"
      BY <1>1, <3>1, ActionAnswered DEF ServeAction
    <3> DEFINE Named == \E x \in calls \ calls' : x.by = Trial /\ x.to = "action" /\ x.choice.named
    <3>3. \A q \in mtd \ mtd' : q.target \notin ScenarioNodes => q.selected.named \/ Named
      BY <1>1, <3>1, <3>2, ActionServed
    <3>4. \A q \in mtd' \ mtd : PolicyOK(q)
      BY <1>1, <3>1, ActionServed
    <3>5. \A q \in mtd' \ mtd : q.target \notin ScenarioNodes => q.by # Trial \/ q.selected.named
      BY <3>4 DEF PolicyOK
    <3> QED BY <3>3, <3>5
  <2>2. CASE ~\E c \in calls : ServeAction(c)
    <3>1. mtd' = mtd
      BY <1>1, <2>2 DEF Next, BeginStage, BeginTrial, Begins, GiveUp, Serve, ServeContext, Snapshot,
                        Decide, vars
    <3> QED BY <3>1
  <2> QED BY <2>1, <2>2
<1>2. RunnersInv /\ [Next]_vars => [A]_vars
  BY <1>1
<1> HIDE DEF A
<1>3. Spec => [][A]_vars
  BY <1>2, RunnersInvHolds, PTL DEF Spec
<1> QED BY <1>3 DEF GuardedTarget, A
=============================================================================
