----------------------- MODULE DefenderSelectorProofs -----------------------
(* Proofs about DefenderSelector for any strategies, targets, costs, retries  *)
(* and lengths of a ranking: the defence is always an active strategy, the    *)
(* model is obeyed as far as the constraint allows, and a decision is         *)
(* recorded as the model's exactly when the model made it.                    *)
EXTENDS DefenderSelector, WellFoundedInduction, TLAPS

-----------------------------------------------------------------------------
(* The order of the fallback has a least element in every nonempty set.       *)

LEMMA LeastNatural ==
  ASSUME NEW T, T \subseteq Nat, T # {}
  PROVE  \E x \in T : \A y \in T : x <= y
<1>1. PICK x \in T : \A y \in T : ~(<<y, x>> \in OpToRel(<, Nat))
  BY NatLessThanWellFounded, WFMin
<1>2. \A y \in T : ~(y < x)
  BY <1>1 DEF OpToRel
<1> QED BY <1>2

\* Min of FiniteSetsExt picks such an element.
LEMMA MinIsLeast ==
  ASSUME NEW T, T \subseteq Nat, T # {}
  PROVE  Min(T) \in T /\ \A y \in T : Min(T) <= y
BY LeastNatural DEF Min

LEMMA StrategiesTyped ==
  /\ Strategies = 1..Len(ActionOf) /\ Len(ActionOf) \in Nat
  /\ \A d \in Strategies : ActionOf[d] \in Actions /\ CostOf[d] \in Nat
  /\ NoStrategy \notin Strategies /\ Strategies \subseteq Ids /\ Ids \subseteq Nat
BY ActionAssumption DEF Strategies, NoStrategy, Ids, Unknown

\* The least strategy of a set by rank, then cost, then id.
LEMMA FallbackExists ==
  ASSUME NEW set, set \subseteq Strategies, set # {}
  PROVE  \E d \in set : \A e \in set \ {d} : Before(d, e)
<1>0. /\ \A d \in set : d \in Nat /\ CostOf[d] \in Nat /\ Rank(d) \in Nat
      /\ set \subseteq Nat
  BY StrategiesTyped DEF Rank
<1>1. PICK r \in {Rank(d) : d \in set} : \A x \in {Rank(d) : d \in set} : r <= x
  <2>1. {Rank(d) : d \in set} \subseteq Nat /\ {Rank(d) : d \in set} # {}
    BY <1>0
  <2> QED BY <2>1, LeastNatural
<1> DEFINE First == {d \in set : Rank(d) = r}
<1>2. First # {} /\ \A d \in set \ First : r < Rank(d)
  BY <1>0, <1>1
<1>3. PICK c \in {CostOf[d] : d \in First} : \A x \in {CostOf[d] : d \in First} : c <= x
  <2>1. {CostOf[d] : d \in First} \subseteq Nat /\ {CostOf[d] : d \in First} # {}
    BY <1>0, <1>2
  <2> HIDE DEF First
  <2> QED BY <2>1, LeastNatural
<1> DEFINE Cheapest == {d \in First : CostOf[d] = c}
<1>4. Cheapest # {} /\ Cheapest \subseteq Nat /\ \A d \in First \ Cheapest : c < CostOf[d]
  BY <1>0, <1>3
<1>5. PICK d \in Cheapest : \A x \in Cheapest : d <= x
  BY <1>4, LeastNatural
<1>6. ASSUME NEW e \in set \ {d} PROVE Before(d, e)
  <2>1. Rank(d) = r /\ CostOf[d] = c /\ d \in Nat /\ e \in Nat
    BY <1>0, <1>5
  <2>2. CASE e \notin First
    BY <1>2, <2>1, <2>2 DEF Before
  <2>3. CASE e \in First /\ e \notin Cheapest
    BY <1>4, <2>1, <2>3 DEF Before, Cheaper
  <2>4. CASE e \in Cheapest
    BY <1>5, <2>1, <2>4 DEF Before, Cheaper
  <2> QED BY <2>2, <2>3, <2>4
<1> QED BY <1>5, <1>6

-----------------------------------------------------------------------------
(* The invariant.                                                             *)

\* What a stage starts the selection with.
Given ==
  /\ active \subseteq Strategies /\ baseline \in active
  /\ \A d \in Strategies : ActionOf[d] = "observe" => d \in active

\* An answer selects by its own id, or is empty.
ReplyKnown ==
  /\ reply \in Answers \union {EmptyReply("garbage"), EmptyReply("none")}
  /\ Asking => reply = EmptyReply("none")

Answering == reply.form \in {"json", "text"}

\* Nothing is chosen but by an answer.
ChoiceKnown ==
  /\ step \in {"full", "compact", "parse"} => choice = NoStrategy
  /\ ~Answering => choice = NoStrategy

\* The decision is one of the three.
DecisionKnown ==
  step \in {"record", "done"} =>
    \/ choice \notin active /\ decision = Selection(baseline, "system_fallback", TRUE)
    \/ /\ choice \in active /\ Disallowed(choice)
       /\ decision = Selection(FallbackStrategy, "constraint_fallback", TRUE)
    \/ /\ choice \in active /\ ~Disallowed(choice)
       /\ decision = Selection(choice, "llm_defender", reply.form = "text")

LabelKnown ==
  step = "done" =>
    label = IF decision.fallback /\ decision.strategy # choice
            THEN "constraint_fallback" ELSE decision.source

SelectorInv ==
  /\ Given /\ ReplyKnown /\ ChoiceKnown /\ DecisionKnown /\ LabelKnown
  /\ step \in {"full", "compact", "parse", "resolve", "decide", "record", "done"}

\* An empty answer names no action any strategy has.
LEMMA EmptyChoosesNothing ==
  ASSUME NEW form
  PROVE  /\ active \subseteq Strategies =>
              StrategyFromAction(EmptyReply(form).action, EmptyReply(form).target) = NoStrategy
         /\ EmptyReply(form).id = NoStrategy /\ EmptyReply(form).form = form
         /\ EmptyReply(form).ranked = <<>>
<1>1. active \subseteq Strategies => WithAction({""}) = {}
  BY StrategiesTyped DEF WithAction, Actions, Isolation, Limiting
<1> QED BY <1>1 DEF EmptyReply, StrategyFromAction, FirstOf

LEMMA SelectorInvInit == SelectorInit => SelectorInv
BY DEF SelectorInit, SelectorInv, Given, ReplyKnown, Asking, Answering, ChoiceKnown,
       DecisionKnown, LabelKnown, EmptyReply

LEMMA AnswersAnswer == \A r \in Answers : r.form \in {"json", "text"}
BY DEF Answers, Replies

\* Every step keeps the invariant.
LEMMA SelectorInvNext == SelectorInv /\ [SelectorNext]_selectorVars => SelectorInv'
<1> SUFFICES ASSUME SelectorInv, [SelectorNext]_selectorVars PROVE SelectorInv'
  OBVIOUS
<1> USE DEF SelectorInv
<1>0. /\ active \subseteq Strategies
      /\ reply \notin Answers => \E form \in {"garbage", "none"} : reply = EmptyReply(form)
  BY DEF Given, ReplyKnown
<1>1. CASE Answered
  <2>1. Given' /\ step' = "parse" /\ choice' = choice
    BY <1>1 DEF Answered, Given
  <2>2. ReplyKnown' /\ choice = NoStrategy
    BY <1>1, <2>1 DEF Answered, ReplyKnown, ChoiceKnown, Asking
  <2> QED BY <2>1, <2>2 DEF ChoiceKnown, DecisionKnown, LabelKnown
<1>2. CASE Failed
  <2>1. /\ Given' /\ reply' = EmptyReply("none") /\ choice' = NoStrategy
        /\ step' \in {"full", "compact", "resolve"}
    BY <1>2 DEF Failed, Given, ReplyKnown, ChoiceKnown, Asking
  <2> QED BY <2>1, EmptyChoosesNothing
          DEF ReplyKnown, ChoiceKnown, DecisionKnown, LabelKnown
<1>3. CASE Parse
  <2>1. Given' /\ reply' = reply /\ step' = "resolve"
    BY <1>3 DEF Parse, Given
  <2>2. ~Answering => choice' = NoStrategy
    BY <1>0, <1>3, EmptyChoosesNothing, AnswersAnswer DEF Parse, Answering
  <2> QED BY <2>1, <2>2
          DEF ReplyKnown, Asking, ChoiceKnown, Answering, DecisionKnown, LabelKnown
<1>4. CASE Resolve
  <2>1. Given' /\ reply' = reply /\ step' = "decide" /\ choice' = Mapped(choice)
    BY <1>4 DEF Resolve, Given
  <2>2. ~Answering => Mapped(NoStrategy) = NoStrategy
    BY <1>0, EmptyChoosesNothing, AnswersAnswer DEF Answering, Mapped, RankedChoice
  <2> QED BY <2>1, <2>2
          DEF ReplyKnown, Asking, ChoiceKnown, Answering, DecisionKnown, LabelKnown
<1>5. CASE Decide
  <2>1. /\ Given' /\ reply' = reply /\ step' = "record" /\ choice' = choice
        /\ UNCHANGED <<active, baseline, urgent>>
    BY <1>5 DEF Decide, Given
  <2>2. Disallowed(choice)' = Disallowed(choice) /\ FallbackStrategy' = FallbackStrategy
    BY <2>1 DEF Disallowed, FallbackStrategy
  <2>3. DecisionKnown'
    BY <1>5, <2>1, <2>2
       DEF Decide, SystemFallback, ConstraintFallback, Accepted, DecisionKnown
  <2> QED BY <2>1, <2>3 DEF ReplyKnown, Asking, ChoiceKnown, Answering, LabelKnown
<1>6. CASE Record
  <2>1. /\ Given' /\ reply' = reply /\ step' = "done" /\ step = "record" /\ choice' = choice
        /\ UNCHANGED <<active, baseline, urgent, decision>> /\ LabelKnown'
    BY <1>6 DEF Record, Given, LabelKnown
  <2>2. Disallowed(choice)' = Disallowed(choice) /\ FallbackStrategy' = FallbackStrategy
    BY <2>1 DEF Disallowed, FallbackStrategy
  <2>3. DecisionKnown'
    BY <2>1, <2>2 DEF DecisionKnown
  <2> QED BY <2>1, <2>3 DEF ReplyKnown, Asking, ChoiceKnown, Answering
<1>7. CASE UNCHANGED selectorVars
  BY <1>7 DEF selectorVars, Given, ReplyKnown, Asking, ChoiceKnown, Answering, DecisionKnown,
              LabelKnown, Disallowed, FallbackStrategy
<1> QED BY <1>1, <1>2, <1>3, <1>4, <1>5, <1>6, <1>7 DEF SelectorNext

LEMMA SelectorInvHolds == SelectorSpec => []SelectorInv
BY SelectorInvInit, SelectorInvNext, PTL DEF SelectorSpec

-----------------------------------------------------------------------------
(* The theorems.                                                              *)

\* Whatever the model answers and however often it fails, the defence decided on
\* is an active strategy of the stage: the fallback finds one among the active
\* strategies whenever it is asked (select_defender_strategy).
THEOREM DefenceIsActive == SelectorSpec => []AlwaysAllowed
<1>1. SelectorInv => AlwaysAllowed
  <2> SUFFICES ASSUME SelectorInv, step \in {"record", "done"} PROVE decision.strategy \in active
    BY DEF AlwaysAllowed
  <2>1. choice \in active => FallbackStrategy \in active
    BY FallbackExists DEF SelectorInv, Given, FallbackStrategy
  <2> QED BY <2>1 DEF SelectorInv, Given, DecisionKnown, Selection
<1> QED BY <1>1, SelectorInvHolds, PTL

\* A choice that is active and allowed is carried out; instead of observing an
\* advanced attack an active isolation is taken, or else an active limit
\* (_choose_fallback_strategy).
THEOREM ModelIsObeyed == SelectorSpec => []ModelObeyed
<1>1. SelectorInv => ModelObeyed
  <2> SUFFICES ASSUME SelectorInv, step \in {"record", "done"}, choice \in active,
                      Disallowed(choice),
                      NEW actions \in {Isolation, Isolation \union Limiting},
                      NEW d \in WithAction(actions)
               PROVE  ActionOf[decision.strategy] \in actions
    BY DEF SelectorInv, ModelObeyed, DecisionKnown, Selection
  <2> DEFINE f == decision.strategy
  <2>1. f = FallbackStrategy
    BY DEF SelectorInv, DecisionKnown, Selection
  <2>2. f \in active /\ \A e \in active \ {f} : Before(f, e)
    BY <2>1, FallbackExists DEF SelectorInv, Given, FallbackStrategy
  <2>3. d \in active /\ ActionOf[d] \in actions /\ active \subseteq Strategies
    BY DEF WithAction, SelectorInv, Given
  <2>4. f = d \/ Rank(f) < Rank(d) \/ Rank(f) = Rank(d)
    BY <2>2, <2>3 DEF Before
  <2>5. ActionOf[f] \in Actions /\ ActionOf[d] # "observe"
    BY <2>2, <2>3, StrategiesTyped DEF Isolation, Limiting
  <2> HIDE DEF f
  <2>6. CASE actions = Isolation
    <3>1. Rank(d) = 0 /\ Rank(f) \in {0, 1, 2}
      BY <2>3, <2>6 DEF Rank
    <3>2. Rank(f) = 0
      BY <2>4, <3>1
    <3> QED BY <2>6, <3>2 DEF Rank, f
  <2>7. CASE actions = Isolation \union Limiting
    <3>1. Rank(d) \in {0, 1} /\ Rank(f) \in {0, 1, 2}
      BY <2>5 DEF Rank
    <3>2. Rank(f) # 2
      BY <2>4, <3>1
    <3>3. ActionOf[f] # "observe"
      BY <3>2 DEF Rank, Isolation
    <3> QED BY <2>5, <2>7, <3>3 DEF Actions, f
  <2> QED BY <2>6, <2>7 DEF f
<1> QED BY <1>1, SelectorInvHolds, PTL

\* executed_decision_source says llm_defender exactly when the model answered, its
\* answer led to the strategy and no constraint stood against it: no chain of
\* timeouts, recoveries and fallbacks ends in a wrong label (run_stage).
THEOREM LabelIsRight == SelectorSpec => []RightlyAttributed
<1>1. SelectorInv => RightlyAttributed
  <2> SUFFICES ASSUME SelectorInv, step = "done"
               PROVE  label = "llm_defender" <=>
                        /\ reply.form \in {"json", "text"}
                        /\ decision.strategy = choice /\ ~Disallowed(choice)
    BY DEF RightlyAttributed
  <2>1. NoStrategy \notin active /\ baseline \in active
    BY StrategiesTyped DEF SelectorInv, Given
  <2>2. choice \in active => reply.form \in {"json", "text"}
    BY <2>1 DEF SelectorInv, ChoiceKnown, Answering
  <2> QED BY <2>1, <2>2 DEF SelectorInv, DecisionKnown, LabelKnown, Selection
<1> QED BY <1>1, SelectorInvHolds, PTL
=============================================================================
