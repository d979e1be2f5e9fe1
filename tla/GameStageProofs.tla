-------------------------- MODULE GameStageProofs ---------------------------
(* Proofs about GameStage for any scenarios and any number of stages, stages  *)
(* that run at once and stages that are killed: what the files say of the     *)
(* stages, that no learning is lost and that a stage meets no policy but its  *)
(* own, each with the exceptions the code leaves.                             *)
EXTENDS GameStage, FiniteSetTheorems, WellFoundedInduction, TLAPS

-----------------------------------------------------------------------------
(* The course of a stage.                                                     *)

Ends == {"done", "failed", "crashed"}

StageType ==
  [kind : Kinds, scenario : Scenarios \union {NoScenario}, reset : {"done", "failed", "none"},
   pc : Steps \union Ends, basis : Nat, attack : BOOLEAN, executed : BOOLEAN,
   learns : BOOLEAN, logs : BOOLEAN, warmup : BOOLEAN, id : Nat, count : Nat,
   strays : SUBSET Nat, cleared : BOOLEAN, with : SUBSET Nat, reached : Logs \union {"write", "none"}]
RowType == [stage : Nat, id : Nat, whole : BOOLEAN, ended : BOOLEAN]

Place(step) == CHOOSE i \in DOMAIN Order : Order[i] = step

LEMMA Places ==
  /\ DOMAIN Order = 1..10
  /\ Place("load") = 1 /\ Place("defend") = 2 /\ Place("count") = 3 /\ Place("truncate") = 4
  /\ Place("write") = 5 /\ Place("number") = 6 /\ Place("stage") = 7 /\ Place("trace") = 8
  /\ Place("summary") = 9 /\ Place("reset") = 10
  /\ Steps = {"load", "defend", "count", "truncate", "write", "number", "stage", "trace",
              "summary", "reset"}
<1>1. /\ DOMAIN Order = 1..10
      /\ Order[1] = "load" /\ Order[2] = "defend" /\ Order[3] = "count" /\ Order[4] = "truncate"
      /\ Order[5] = "write" /\ Order[6] = "number" /\ Order[7] = "stage" /\ Order[8] = "trace"
      /\ Order[9] = "summary" /\ Order[10] = "reset"
  BY DEF Order
<1>2. ASSUME NEW i \in 1..10 PROVE Place(Order[i]) = i
  <2>1. \A j \in 1..10 : Order[j] = Order[i] => j = i
    BY <1>1
  <2> QED BY <1>1, <2>1 DEF Place
<1>3. Steps = {Order[i] : i \in 1..10}
  BY <1>1 DEF Steps
<1>4. \A i \in 1..10 : i \in {1, 2, 3, 4, 5, 6, 7, 8, 9, 10}
  OBVIOUS
<1>5. Steps = {"load", "defend", "count", "truncate", "write", "number", "stage", "trace",
               "summary", "reset"}
  BY <1>1, <1>3, <1>4
<1> QED BY <1>1, <1>2, <1>5

LEMMA LeastOf ==
  ASSUME NEW S \in SUBSET Nat, S # {}
  PROVE  Min(S) \in S /\ \A y \in S : Min(S) <= y
<1>1. PICK x \in S : \A y \in S : <<y, x>> \notin OpToRel(<, Nat)
  BY NatLessThanWellFounded, WFMin, Zenon
<1>2. ASSUME NEW y \in S, y < x PROVE FALSE
  <2>1. y \in Nat /\ x \in Nat
    OBVIOUS
  <2>2. <<y, x>> \in Nat \X Nat /\ <<y, x>>[1] = y /\ <<y, x>>[2] = x
    BY <2>1
  <2>3. <<y, x>>[1] < <<y, x>>[2]
    BY <1>2, <2>2
  <2>4. <<y, x>> \in OpToRel(<, Nat)
    BY <2>2, <2>3, Zenon DEF OpToRel
  <2> QED BY <1>1, <2>4, Zenon
<1>3. \A y \in S : x <= y
  BY <1>2
<1> QED BY <1>3 DEF Min

\* A set of numbers up to n has a greatest one.
LEMMA GreatestOf ==
  ASSUME NEW n \in Nat, NEW S \in SUBSET (0..n), S # {}
  PROVE  Max(S) \in S /\ \A y \in S : Max(S) >= y
<1> DEFINE T == {i \in 0..n : n - i \in S}
<1>1. T \in SUBSET Nat
  OBVIOUS
<1>2. T # {}
  <2>1. PICK x \in S : TRUE
    OBVIOUS
  <2>2. n - x \in 0..n /\ n - (n - x) = x
    OBVIOUS
  <2> QED BY <2>2
<1>3. Min(T) \in T /\ \A y \in T : Min(T) <= y
  BY <1>1, <1>2, LeastOf
<1>4. ASSUME NEW y \in S PROVE y <= n - Min(T)
  <2>1. n - y \in T
    <3>1. n - y \in 0..n /\ n - (n - y) = y
      OBVIOUS
    <3> QED BY <3>1
  <2> QED BY <1>3, <2>1
<1>5. n - Min(T) \in S
  BY <1>3
<1> QED BY <1>4, <1>5 DEF Max

\* The next step is the first one behind that is taken.
LEMMA AfterPlaced ==
  ASSUME NEW s, NEW step \in Steps
  PROVE  \/ /\ After(s, step) = "done"
            /\ \A x \in Steps : Place(x) > Place(step) => ~Takes(s, x)
         \/ /\ After(s, step) \in Steps /\ Takes(s, After(s, step))
            /\ Place(After(s, step)) > Place(step)
            /\ \A x \in Steps :
                 Place(x) > Place(step) /\ Place(x) < Place(After(s, step)) => ~Takes(s, x)
<1> DEFINE ahead == {i \in DOMAIN Order : i > Place(step) /\ Takes(s, Order[i])}
<1>1. /\ \A x \in Steps : Place(x) \in 1..10 /\ Order[Place(x)] = x
      /\ \A i \in 1..10 : Order[i] \in Steps /\ Place(Order[i]) = i
  <2>1. ASSUME NEW x \in Steps PROVE Place(x) \in 1..10 /\ Order[Place(x)] = x
    <3>1. \E i \in 1..10 : Order[i] = x
      BY Places DEF Steps
    <3> QED BY <3>1, Places DEF Place
  <2>2. ASSUME NEW i \in 1..10 PROVE Order[i] \in Steps /\ Place(Order[i]) = i
    <3>1. Order[i] \in Steps
      BY Places DEF Steps
    <3>2. i \in {1, 2, 3, 4, 5, 6, 7, 8, 9, 10}
      OBVIOUS
    <3> QED BY <3>1, <3>2, Places DEF Order
  <2> QED BY <2>1, <2>2
<1>2. After(s, step) = IF ahead = {} THEN "done" ELSE Order[Min(ahead)]
  BY DEF After, Place
<1>3. ahead \subseteq 1..10
  BY Places
<1>4. \A x \in Steps : Place(x) > Place(step) /\ Takes(s, x) <=> Place(x) \in ahead
  BY <1>1, Places
<1>5. CASE ahead = {}
  BY <1>2, <1>4, <1>5
<1>6. CASE ahead # {}
  <2>1. Min(ahead) \in ahead /\ \A y \in ahead : Min(ahead) <= y
    BY <1>3, <1>6, LeastOf
  <2>2. After(s, step) = Order[Min(ahead)] /\ Min(ahead) \in 1..10
    BY <1>2, <1>3, <1>6, <2>1
  <2>3. After(s, step) \in Steps /\ Place(After(s, step)) = Min(ahead)
    BY <1>1, <2>2
  <2> HIDE DEF ahead
  <2>4. \A x \in Steps : Place(x) > Place(step) /\ Place(x) < Place(After(s, step)) => ~Takes(s, x)
    BY <1>1, <1>3, <1>4, <2>1, <2>3
  <2> QED BY <1>4, <2>1, <2>3, <2>4
<1> QED BY <1>5, <1>6

\* What a stage does after it has written, and after it has learned.
Closing(s) == IF s.kind = "eval" /\ s.executed THEN "reset" ELSE "done"
Logging(s) ==
  IF s.logs THEN IF s.kind = "runtime" THEN "number" ELSE "stage" ELSE Closing(s)

LEMMA AfterIs ==
  ASSUME NEW s, s.kind \in Kinds
  PROVE  /\ After(s, "load") = "defend" /\ After(s, "defend") = "count"
         /\ After(s, "count") = IF s.learns THEN "truncate" ELSE Logging(s)
         /\ After(s, "truncate") = IF s.learns THEN "write" ELSE Logging(s)
         /\ After(s, "write") = Logging(s)
         /\ After(s, "number") = IF s.logs THEN "stage" ELSE Closing(s)
         /\ After(s, "stage") = IF s.logs THEN "trace" ELSE Closing(s)
         /\ After(s, "trace") = IF s.logs /\ s.kind = "eval" THEN "summary" ELSE Closing(s)
         /\ After(s, "summary") = Closing(s)
         /\ After(s, "reset") = "done"
<1>1. /\ Takes(s, "defend") /\ Takes(s, "count")
      /\ Takes(s, "truncate") <=> s.learns
      /\ Takes(s, "write") <=> s.learns
      /\ Takes(s, "number") <=> s.logs /\ s.kind = "runtime"
      /\ Takes(s, "stage") <=> s.logs
      /\ Takes(s, "trace") <=> s.logs
      /\ Takes(s, "summary") <=> s.logs /\ s.kind = "eval"
      /\ Takes(s, "reset") <=> s.kind = "eval" /\ s.executed
  BY DEF Takes
<1> QED BY <1>1, AfterPlaced, Places DEF Logging, Closing, Kinds

-----------------------------------------------------------------------------
(* The invariant.                                                             *)

FilesTyped ==
  /\ stage \in Seq(StageType) /\ Len(stage) <= MaxStages
  /\ inForce \subseteq DOMAIN stage /\ underWay \subseteq DOMAIN stage
  /\ population \in [Kinds -> Nat]
  /\ log \in [Kinds -> [Logs -> Seq(RowType)]]

\* A stage met the earlier ones that were not over.
MetInOrder ==
  /\ \A n \in DOMAIN stage : stage[n].with \subseteq 1..(n - 1)
  /\ \A m, n \in Running : m < n => m \in stage[n].with

\* A stage is where its outcome takes it, and clears its policy with its last step.
CourseOK(s) ==
  /\ s.learns => s.logs
  /\ s.pc \in {"load", "defend", "count"} => ~s.learns
  /\ s.pc \in {"truncate", "write"} => s.learns
  /\ s.pc \in {"number", "stage", "trace", "summary"} => s.logs
  /\ s.pc = "number" => s.kind = "runtime"
  /\ s.pc \in {"summary", "reset"} => s.kind = "eval"
  /\ s.pc = "reset" => s.executed
  /\ s.cleared => s.pc = "done"
  /\ s.reached # "none" => s.pc = "crashed"

OnCourse == \A n \in DOMAIN stage : CourseOK(stage[n])

\* Where a stage is that has written its line to a log.
Beyond(l) ==
  {"reset", "done"} \union (IF l = "stage" THEN {"trace", "summary"}
                            ELSE IF l = "trace" THEN {"summary"} ELSE {})

\* A line is one of a stage of its kind that came so far or was killed, and has its
\* id; no id is larger than the number of its line.
RowOK(k, l, i) ==
  LET row == log[k][l][i] IN
  /\ row.stage \in DOMAIN stage
  /\ stage[row.stage].kind = k
  /\ stage[row.stage].pc \in Beyond(l) \union {"crashed"}
  /\ row.id = stage[row.stage].id
  /\ l = "stage" => row.id <= i

RowsOK == \A k \in Kinds, l \in Logs : \A i \in DOMAIN log[k][l] : RowOK(k, l, i)

\* A stage that has its id and is yet to write its line: lines with an id as large are
\* those of stages it met.
HasId(s) == s.pc = "stage" \/ (s.kind = "eval" /\ s.pc \in {"truncate", "write"})

Numbered ==
  \A n \in DOMAIN stage : HasId(stage[n]) =>
    LET lines == log[stage[n].kind]["stage"] IN
    /\ stage[n].id <= Len(lines) + 1
    /\ \A i \in DOMAIN lines : lines[i].id < stage[n].id \/ Overlap(lines[i].stage, n)

IdsInv == RowsOK /\ Numbered /\ IdsIncrease

\* Another stage of this kind that ran together with n and learned.
Rival(n) ==
  \E m \in DOMAIN stage : m # n /\ Overlap(m, n) /\ stage[m].kind = stage[n].kind
                         /\ stage[m].learns

\* What a stage may learn from is still there.
WillLearn(s) ==
  s.pc = "truncate" \/ (s.pc \in {"defend", "count"} /\ (s.kind = "eval" \/ s.attack))

BasisStays ==
  \A n \in DOMAIN stage :
    WillLearn(stage[n]) => population[stage[n].kind] = stage[n].basis \/ Rival(n)

\* What a stage is about to write to was emptied by it and nobody else wrote there.
EmptyStays ==
  \A n \in DOMAIN stage :
    stage[n].pc = "write" => population[stage[n].kind] = Empty \/ Rival(n)

PopulationInv == BasisStays /\ EmptyStays /\ PopulationReadable

\* No policy that is in force, or under way, was cleared by its stage, which takes one
\* under way for failed; a stage that has not observed yet reset all others' policies,
\* failed to, or did not try, and the installs under way were so when it began, or are
\* those of stages it met.
Early == {"load", "defend", "count"}

PoliciesInv ==
  /\ \A m \in inForce \union underWay : ~stage[m].cleared
  /\ \A m \in underWay : ~stage[m].executed /\ stage[m].pc \notin {"load", "defend"}
  /\ \A n \in DOMAIN stage : stage[n].pc \in Early =>
       /\ \A m \in inForce \ {n} :
            Overlap(m, n) \/ stage[n].reset \in {"failed", "none"} \/ m \in stage[n].strays
       /\ \A m \in underWay \ {n} : Overlap(m, n) \/ m \in stage[n].strays

\* The stages of a kind that came past a log without a line that can be read, ...
Lost(k, l) ==
  {n \in DOMAIN stage : /\ stage[n].kind = k /\ stage[n].logs /\ (l = "summary" => k = "eval")
                        /\ stage[n].pc \in Beyond(l)} \ Readable(k, l)

\* ... the killed ones that may have left half a line, and whether there is one.
Cut(k, l) == {n \in Crashed : stage[n].kind = k /\ stage[n].reached = l}
Open(lines) == IF lines # <<>> /\ ~lines[Len(lines)].ended THEN 1 ELSE 0

LossInv ==
  \A k \in Kinds, l \in Logs :
    Cardinality(Lost(k, l)) + Open(log[k][l]) <= Cardinality(Cut(k, l))

\* The warm-ups of a scenario up to line i.
Trailing(scenario, lines, i) ==
  {j \in RowsOf(scenario, lines) :
     j <= i /\ \A h \in RowsOf(scenario, lines) : h >= j /\ h <= i => stage[lines[h].stage].warmup}

Apart == \A m, n \in {n \in DOMAIN stage : stage[n].kind = "eval"} : ~Overlap(m, n)

Counted(s) == s.kind = "eval" /\ s.pc \in {"truncate", "write", "stage", "trace", "summary"}

CountOK(n, scenario) ==
  Counted(stage[n]) /\ stage[n].scenario = scenario =>
    stage[n].count = IF stage[n].warmup
                     THEN WarmupsOf(scenario, log["eval"]["summary"]) + 1 ELSE 0

SummaryOK(i, scenario) ==
  LET row == log["eval"]["summary"][i]
      s == stage[row.stage]
  IN row.whole /\ s.scenario = scenario =>
       s.count = IF s.warmup
                 THEN Cardinality(Trailing(scenario, log["eval"]["summary"], i)) ELSE 0

WarmupsInv ==
  Apart =>
    \A scenario \in Scenarios \union {NoScenario} :
      /\ \A n \in DOMAIN stage : CountOK(n, scenario)
      /\ \A i \in DOMAIN log["eval"]["summary"] : SummaryOK(i, scenario)

-----------------------------------------------------------------------------
(* How a step changes the state.                                              *)

\* A stage goes from s to t.
Closes(t) == t.pc = "done" \/ (t.pc = "reset" /\ t.kind = "eval" /\ t.executed)

Follows(s, t) ==
  \/ s.pc = "load" /\ t.pc = "defend"
  \/ s.pc = "defend" /\ t.pc = "count"
  \/ s.pc = "count" /\ t.learns /\ t.pc = "truncate"
  \/ s.pc = "count" /\ ~t.learns /\ t.logs /\ t.pc = (IF t.kind = "runtime" THEN "number" ELSE "stage")
  \/ s.pc = "count" /\ ~t.learns /\ ~t.logs /\ Closes(t)
  \/ s.pc = "truncate" /\ t.pc = "write"
  \/ s.pc = "write" /\ t.pc = (IF t.kind = "runtime" THEN "number" ELSE "stage")
  \/ s.pc = "number" /\ t.pc = "stage"
  \/ s.pc = "stage" /\ t.pc = "trace"
  \/ s.pc = "trace" /\ t.kind = "eval" /\ t.pc = "summary"
  \/ s.pc = "trace" /\ t.kind = "runtime" /\ t.pc = "done"
  \/ s.pc = "summary" /\ Closes(t)
  \/ s.pc = "reset" /\ t.pc = "done"

Breaks(s, t) == s.pc = "load" /\ t.pc = "failed"
Dies(s, t) == t.pc = "crashed" /\ (s.pc \in {"write"} \union Logs => t.reached = s.pc)

Goes(s, t) ==
  /\ t \in StageType /\ t.kind = s.kind /\ t.scenario = s.scenario /\ t.with = s.with
  /\ s.pc # "count" \/ t.pc = "crashed" =>
       t.learns = s.learns /\ t.logs = s.logs /\ t.warmup = s.warmup /\ t.count = s.count
  /\ s.pc \notin {"count", "number"} \/ t.pc = "crashed" => t.id = s.id
  /\ t.learns => t.logs
  /\ t.cleared => t.pc = "done"
  /\ (Follows(s, t) /\ t.reached = s.reached) \/ (Breaks(s, t) /\ t.reached = s.reached) \/ Dies(s, t)
  /\ t.executed => s.executed \/ s.pc = "defend"
  /\ t.cleared => s.cleared \/ s.pc = "reset"
  /\ t.pc = "defend" \/ t.pc = "count" => t.reset = s.reset /\ t.strays = s.strays
  /\ t.pc = "count" => t.basis = s.basis /\ t.attack = s.attack
  /\ t.pc = "truncate" => t.basis = s.basis /\ (s.kind = "eval" \/ s.attack)

Moves(n) ==
  /\ n \in Running /\ stage' \in Seq(StageType)
  /\ DOMAIN stage' = DOMAIN stage /\ Len(stage') = Len(stage)
  /\ \A m \in DOMAIN stage : m # n => stage'[m] = stage[m]
  /\ Goes(stage[n], stage'[n])

\* What it does to the files and the policies.
LineOf(row, n) == row \in RowType /\ row.stage = n /\ row.id = stage[n].id /\ (row.whole <=> row.ended)

Writes(n, row) ==
  /\ stage[n].pc \in Logs /\ LineOf(row, n)
  /\ row.whole <=> stage'[n].pc # "crashed"
  /\ log'[stage[n].kind][stage[n].pc] = Appended(log[stage[n].kind][stage[n].pc], row)
  /\ log' \in [Kinds -> [Logs -> Seq(RowType)]]
  /\ \A k \in Kinds, l \in Logs : k # stage[n].kind \/ l # stage[n].pc => log'[k][l] = log[k][l]

WritesNot(n) ==
  /\ stage[n].pc \in Logs => stage'[n].pc = "crashed"
  /\ log' = log

Saves(n, content) ==
  /\ stage'[n].pc # "crashed"
  /\ \/ stage[n].pc = "truncate" /\ content = Empty
     \/ stage[n].pc = "write" /\ (content = n \/ (population[stage[n].kind] # Empty /\ content = Mixed))
  /\ population' = [population EXCEPT ![stage[n].kind] = content]

SavesNot(n) ==
  /\ population' = population
  /\ stage[n].pc \in {"truncate", "write"} => stage'[n].pc = "crashed"

TakesBasis(n) ==
  stage[n].pc = "load" /\ stage'[n].pc = "defend"
    /\ (stage'[n].kind = "eval" \/ stage'[n].attack) =>
      population[stage[n].kind] = stage'[n].basis

Ids(n) ==
  /\ stage'[n].pc = "stage" /\ stage[n].pc = "number" =>
       stage'[n].id = NextStageId(stage[n].kind)
  /\ stage[n].kind = "eval" /\ stage[n].pc = "count" /\ stage'[n].pc # "crashed" =>
       stage'[n].id = NextStageId("eval")

Counts(n) ==
  stage[n].kind = "eval" /\ stage[n].pc = "count" /\ stage'[n].pc # "crashed" =>
    stage'[n].count = IF stage'[n].warmup
                      THEN WarmupsOf(stage[n].scenario, log["eval"]["summary"]) + 1 ELSE 0

Enforces(n) ==
  /\ inForce' \subseteq inForce \union {n}
  /\ n \in inForce' => n \in inForce \/ (stage[n].pc = "defend" /\ stage'[n].pc # "crashed")
  /\ underWay' \subseteq underWay \union {n}
  /\ n \in underWay' =>
       n \in underWay \/ (stage[n].pc = "defend" /\ stage'[n].pc # "crashed" /\ ~stage'[n].executed)
  /\ stage'[n].cleared /\ ~stage[n].cleared => inForce' = {}

Stepped(n) ==
  /\ Moves(n) /\ TakesBasis(n) /\ Ids(n) /\ Counts(n) /\ Enforces(n)
  /\ (\E content \in Nat : Saves(n, content)) \/ SavesNot(n)
  /\ (\E row : Writes(n, row)) \/ WritesNot(n)

\* A stage has begun.
Begun(s) ==
  /\ s \in StageType /\ s.pc = "load" /\ s.with = Running /\ ~s.learns /\ ~s.cleared
  /\ s.reached = "none"
  /\ Len(stage) < MaxStages /\ stage' = Append(stage, s)
  /\ inForce' \subseteq inForce /\ (s.reset = "done" => inForce' = {})
  /\ underWay' = underWay /\ s.strays = underWay
  /\ population' = population /\ log' = log

\* Nothing but the policies has changed, if at all.
Stays ==
  /\ UNCHANGED <<stage, population, log>>
  /\ UNCHANGED <<inForce, underWay>> \/ \E n : RegisterLate(n)

Moving == (\E s : Begun(s)) \/ (\E n \in DOMAIN stage : Stepped(n))

-----------------------------------------------------------------------------
LEMMA StageTyped ==
  ASSUME NEW s \in StageType
  PROVE  /\ s.kind \in Kinds /\ s.pc \in Steps \union Ends /\ s.basis \in Nat /\ s.id \in Nat
         /\ s.count \in Nat /\ s.with \subseteq Nat
         /\ s.learns \in BOOLEAN /\ s.logs \in BOOLEAN /\ s.warmup \in BOOLEAN
         /\ s.attack \in BOOLEAN /\ s.executed \in BOOLEAN /\ s.cleared \in BOOLEAN
BY DEF StageType

LEMMA EndedIs ==
  ASSUME NEW s \in StageType, NEW end \in Steps \union Ends
  PROVE  LET t == Ended(s, end) IN
         /\ t \in StageType /\ t.pc = end /\ t.kind = s.kind /\ t.scenario = s.scenario
         /\ t.with = s.with /\ t.learns = s.learns /\ t.logs = s.logs /\ t.warmup = s.warmup
         /\ t.id = s.id /\ t.count = s.count /\ t.cleared = s.cleared /\ t.reached = s.reached
         /\ ~t.executed
BY DEF Ended, StageType, NoFile

LEMMA OnwardsIs ==
  ASSUME NEW s \in StageType, s.pc \in Steps
  PROVE  LET t == Onwards(s) IN
         /\ t \in StageType /\ t.pc = After(s, s.pc) /\ t.kind = s.kind /\ t.scenario = s.scenario
         /\ t.with = s.with /\ t.learns = s.learns /\ t.logs = s.logs /\ t.warmup = s.warmup
         /\ t.id = s.id /\ t.count = s.count /\ t.cleared = s.cleared /\ t.reached = s.reached
         /\ t.pc # "done" => /\ t.reset = s.reset /\ t.strays = s.strays /\ t.basis = s.basis
                             /\ t.attack = s.attack /\ t.executed = s.executed
         /\ t.executed => s.executed
<1>1. After(s, s.pc) \in Steps \union {"done"}
  BY AfterPlaced
<1>2. CASE After(s, s.pc) = "done"
  BY <1>2, EndedIs DEF Onwards, Ends
<1>3. CASE After(s, s.pc) # "done"
  <2> DEFINE next == After(s, s.pc)
  <2>1. Onwards(s) = [s EXCEPT !.pc = next] /\ next \in Steps \union Ends
    BY <1>1, <1>3 DEF Onwards
  <2> HIDE DEF next
  <2>2. LET t == [s EXCEPT !.pc = next] IN
        /\ t \in StageType /\ t.pc = next /\ t.kind = s.kind /\ t.scenario = s.scenario
        /\ t.with = s.with /\ t.learns = s.learns /\ t.logs = s.logs /\ t.warmup = s.warmup
        /\ t.id = s.id /\ t.count = s.count /\ t.cleared = s.cleared /\ t.reached = s.reached
        /\ t.reset = s.reset /\ t.basis = s.basis /\ t.attack = s.attack
        /\ t.strays = s.strays /\ t.executed = s.executed
    BY <2>1 DEF StageType
  <2> QED BY <2>1, <2>2 DEF next
<1> QED BY <1>2, <1>3

LEMMA Updated ==
  ASSUME stage \in Seq(StageType), NEW n \in DOMAIN stage, NEW t \in StageType,
         stage' = [stage EXCEPT ![n] = t]
  PROVE  /\ stage' \in Seq(StageType) /\ DOMAIN stage' = DOMAIN stage
      /\ Len(stage') = Len(stage) /\ stage'[n] = t
         /\ \A m \in DOMAIN stage : m # n => stage'[m] = stage[m]
OBVIOUS

\* A line is added, or what it says is lost in the rest of a line that was cut off.
Continues(lines) == lines # <<>> /\ ~lines[Len(lines)].ended

LEMMA AppendedIs ==
  ASSUME NEW lines \in Seq(RowType), NEW row \in RowType
  PROVE  LET new == Appended(lines, row) IN
         /\ new \in Seq(RowType)
         /\ \A i \in DOMAIN lines : /\ i \in DOMAIN new
                                   /\ new[i].stage = lines[i].stage /\ new[i].id = lines[i].id
                                   /\ new[i].whole = lines[i].whole
         /\ Continues(lines) => Len(new) = Len(lines) /\ new[Len(lines)].ended = row.ended
         /\ ~Continues(lines) => Len(new) = Len(lines) + 1 /\ new[Len(new)] = row
         /\ new # <<>> /\ (Continues(new) <=> ~row.ended)
<1>1. CASE Continues(lines)
  <2> DEFINE last == [lines[Len(lines)] EXCEPT !.ended = row.ended]
             new == [lines EXCEPT ![Len(lines)] = last]
  <2>1. Appended(lines, row) = new
    BY <1>1 DEF Appended, Continues
  <2>2. Len(lines) \in DOMAIN lines /\ lines[Len(lines)] \in RowType
    BY <1>1 DEF Continues
  <2>3. /\ last \in RowType /\ last.stage = lines[Len(lines)].stage /\ last.id = lines[Len(lines)].id
        /\ last.whole = lines[Len(lines)].whole /\ last.ended = row.ended
    BY <2>2 DEF RowType
  <2> HIDE DEF last
  <2>4. /\ new \in Seq(RowType) /\ Len(new) = Len(lines) /\ new[Len(lines)] = last
        /\ \A i \in DOMAIN lines : i # Len(lines) => new[i] = lines[i]
    BY <2>2, <2>3
  <2> HIDE DEF new
  <2>5. new # <<>> /\ \A i \in DOMAIN lines : i \in DOMAIN new
    BY <2>2, <2>4
  <2>6. \A i \in DOMAIN lines : new[i].stage = lines[i].stage /\ new[i].id = lines[i].id
                             /\ new[i].whole = lines[i].whole
    BY <2>3, <2>4
  <2> QED BY <1>1, <2>1, <2>2, <2>3, <2>4, <2>5, <2>6 DEF Continues
<1>2. CASE ~Continues(lines)
  <2>1. Appended(lines, row) = Append(lines, row)
    BY <1>2 DEF Appended, Continues
  <2> QED BY <1>2, <2>1 DEF Continues
<1> QED BY <1>1, <1>2

LEMMA StageOf ==
  ASSUME FilesTyped, OnCourse, NEW n \in DOMAIN stage
  PROVE  stage[n] \in StageType /\ CourseOK(stage[n]) /\ stage[n].kind \in Kinds
         /\ (stage[n].pc \in Steps => n \in Running)
<1>1. stage[n] \in StageType
  BY DEF FilesTyped
<1> QED BY <1>1, StageTyped DEF OnCourse, Running

LEMMA PcsDiffer ==
  /\ Steps \intersect Ends = {}
  /\ Logs \subseteq Steps /\ Logs = {"stage", "trace", "summary"}
BY Places DEF Ends, Logs

LEMMA LoadStepped ==
  ASSUME FilesTyped, OnCourse, NEW n \in DOMAIN stage, Load(n)
  PROVE  Stepped(n)
<1> DEFINE s == stage[n]
<1>0. s \in StageType /\ CourseOK(s) /\ s.pc = "load" /\ n \in Running /\ s.kind \in Kinds
  BY StageOf, Places DEF Load
<1>1. PICK attack \in BOOLEAN :
        /\ s.kind = "eval" => attack
        /\ stage' = [stage EXCEPT ![n] =
             IF Loads(n, attack)
             THEN Onwards([stage[n] EXCEPT !.attack = attack, !.basis = Loaded(n, attack)])
             ELSE Ended(stage[n], "failed")]
  BY DEF Load
<1>2. inForce' = inForce /\ underWay' = underWay /\ population' = population /\ log' = log
  BY DEF Load
<1>3. Loaded(n, attack) \in Nat /\ (attack => Loaded(n, attack) = population[s.kind])
  BY <1>0 DEF Loaded, FilesTyped, NoFile
<1> DEFINE basis == Loaded(n, attack)
           u == [stage[n] EXCEPT !.attack = attack, !.basis = basis]
           t == IF Loads(n, attack) THEN Onwards(u) ELSE Ended(stage[n], "failed")
<1>4. basis \in Nat /\ (attack => basis = population[s.kind])
  BY <1>3
<1> HIDE DEF basis
<1>5. /\ u \in StageType /\ u.attack = attack /\ u.basis = basis /\ u.kind = s.kind /\ u.pc = s.pc
      /\ u.scenario = s.scenario /\ u.with = s.with /\ u.learns = s.learns /\ u.logs = s.logs
      /\ u.warmup = s.warmup /\ u.id = s.id /\ u.count = s.count /\ u.cleared = s.cleared
      /\ u.reached = s.reached /\ u.reset = s.reset /\ u.strays = s.strays
      /\ u.executed = s.executed
  BY <1>0, <1>4 DEF StageType
<1> HIDE DEF u
<1>6. After(u, u.pc) = "defend"
  BY <1>0, <1>5, AfterIs
<1> HIDE DEF s
<1>7. /\ t \in StageType /\ t.kind = s.kind /\ t.scenario = s.scenario /\ t.with = s.with
      /\ t.learns = s.learns /\ t.logs = s.logs /\ t.warmup = s.warmup /\ t.id = s.id
      /\ t.count = s.count /\ t.cleared = s.cleared /\ t.reached = s.reached
      /\ t.pc = "defend" => /\ t.reset = s.reset /\ t.strays = s.strays
                             /\ t.attack = attack /\ t.basis = basis
      /\ t.executed => s.executed
      /\ t.pc \in {"defend", "failed"}
  <2>1. CASE Loads(n, attack)
    BY <1>0, <1>5, <1>6, <2>1, OnwardsIs, Places
  <2>2. CASE ~Loads(n, attack)
    BY <1>0, <2>2, EndedIs DEF s, Ends
  <2> QED BY <2>1, <2>2
<1>8. stage' = [stage EXCEPT ![n] = t]
  BY <1>1 DEF u, basis
<1> HIDE DEF t
<1>9. /\ stage' \in Seq(StageType) /\ DOMAIN stage' = DOMAIN stage
      /\ Len(stage') = Len(stage) /\ stage'[n] = t
      /\ \A m \in DOMAIN stage : m # n => stage'[m] = stage[m]
  BY <1>7, <1>8, Updated DEF FilesTyped
<1>10. Goes(s, t)
  BY <1>0, <1>7 DEF Goes, Follows, Breaks, CourseOK
<1>11. Moves(n)
  BY <1>0, <1>9, <1>10 DEF Moves, s
<1>12. TakesBasis(n) /\ Ids(n) /\ Counts(n) /\ Enforces(n)
  BY <1>0, <1>1, <1>2, <1>4, <1>7, <1>9 DEF TakesBasis, Ids, Counts, Enforces, s
<1>13. SavesNot(n) /\ WritesNot(n)
  BY <1>0, <1>2, PcsDiffer DEF SavesNot, WritesNot, s
<1> QED BY <1>11, <1>12, <1>13 DEF Stepped

\* A stage that stays as it is, but for what the step assigns.
Alike(s, u) ==
  /\ u \in StageType /\ u.pc = s.pc /\ u.kind = s.kind /\ u.scenario = s.scenario
  /\ u.with = s.with /\ u.learns = s.learns /\ u.logs = s.logs /\ u.warmup = s.warmup
  /\ u.count = s.count /\ u.reached = s.reached
  /\ s.pc # "number" => u.id = s.id
  /\ s.pc # "reset" => u.cleared = s.cleared
  /\ s.pc # "defend" => u.executed = s.executed
  /\ s.pc = "defend" => u.reset = s.reset /\ u.strays = s.strays /\ u.basis = s.basis /\ u.attack = s.attack

LEMMA OnwardMoves ==
  ASSUME FilesTyped, OnCourse, NEW n \in DOMAIN stage,
         stage[n].pc \in Steps \ {"load", "count"},
         NEW u, Alike(stage[n], u), stage' = [stage EXCEPT ![n] = Onwards(u)]
  PROVE  /\ Moves(n) /\ stage'[n].id = u.id /\ stage'[n].cleared = u.cleared
         /\ stage'[n].pc # "crashed" /\ stage'[n].pc # stage[n].pc
         /\ stage'[n].executed => u.executed
         /\ stage[n].pc = "number" => stage'[n].pc = "stage"
<1> DEFINE s == stage[n]
           t == Onwards(u)
<1>0. s \in StageType /\ CourseOK(s) /\ n \in Running /\ s.kind \in Kinds
  BY StageOf
<1>1. u \in StageType /\ u.pc = s.pc /\ u.pc \in Steps
  BY DEF Alike
<1>2. /\ t \in StageType /\ t.pc = After(u, u.pc) /\ t.kind = u.kind /\ t.scenario = u.scenario
      /\ t.with = u.with /\ t.learns = u.learns /\ t.logs = u.logs /\ t.warmup = u.warmup
      /\ t.id = u.id /\ t.count = u.count /\ t.cleared = u.cleared /\ t.reached = u.reached
      /\ t.pc # "done" => /\ t.reset = u.reset /\ t.strays = u.strays /\ t.basis = u.basis
                          /\ t.attack = u.attack /\ t.executed = u.executed
      /\ t.executed => u.executed
  BY <1>1, OnwardsIs
<1>3. /\ stage' \in Seq(StageType) /\ DOMAIN stage' = DOMAIN stage
      /\ Len(stage') = Len(stage) /\ stage'[n] = t
      /\ \A m \in DOMAIN stage : m # n => stage'[m] = stage[m]
  BY <1>2, Updated DEF FilesTyped
<1> HIDE DEF t
<1>4. u.kind \in Kinds
  BY <1>1, StageTyped
<1>5. Alike(s, u) /\ s.pc \in Steps \ {"load", "count"}
  OBVIOUS
<1> HIDE DEF s
<1>6. \/ s.pc = "defend" /\ t.pc = "count"
      \/ s.pc = "truncate" /\ t.pc = "write"
      \/ s.pc = "write" /\ t.pc = (IF s.kind = "runtime" THEN "number" ELSE "stage")
      \/ s.pc = "number" /\ t.pc = "stage"
      \/ s.pc = "stage" /\ t.pc = "trace"
      \/ s.pc = "trace" /\ s.kind = "eval" /\ t.pc = "summary"
      \/ s.pc = "trace" /\ s.kind = "runtime" /\ t.pc = "done"
      \/ s.pc = "summary" /\ Closes(t)
      \/ s.pc = "reset" /\ t.pc = "done"
  <2>1. /\ t.pc = After(u, s.pc) /\ t.kind = u.kind /\ u.kind = s.kind
        /\ u.learns = s.learns /\ u.logs = s.logs
        /\ s.pc \in {"defend", "truncate", "write", "number", "stage", "trace", "summary", "reset"}
    BY <1>1, <1>2, <1>5, Places DEF Alike
  <2>2. /\ s.learns => s.logs
        /\ s.pc \in {"truncate", "write"} => s.learns
        /\ s.pc \in {"number", "stage", "trace", "summary"} => s.logs
    BY <1>0 DEF CourseOK
  <2>3. /\ After(u, "defend") = "count"
        /\ After(u, "truncate") = IF u.learns THEN "write" ELSE Logging(u)
        /\ After(u, "write") = Logging(u)
        /\ After(u, "number") = IF u.logs THEN "stage" ELSE Closing(u)
        /\ After(u, "stage") = IF u.logs THEN "trace" ELSE Closing(u)
        /\ After(u, "trace") = IF u.logs /\ u.kind = "eval" THEN "summary" ELSE Closing(u)
        /\ After(u, "summary") = Closing(u) /\ After(u, "reset") = "done"
    BY <1>4, AfterIs
  <2>4. s.kind = "eval" \/ s.kind = "runtime"
    BY <1>0 DEF Kinds
  <2>5. t.pc = Closing(u) => Closes(t) /\ (s.kind = "runtime" => t.pc = "done")
    BY <1>2, <2>1 DEF Closes, Closing
  <2>6. CASE s.pc \in {"defend", "truncate", "write"}
    BY <2>1, <2>2, <2>3, <2>4, <2>6 DEF Logging
  <2>7. CASE s.pc \in {"number", "stage", "trace"}
    BY <2>1, <2>2, <2>3, <2>4, <2>5, <2>7
  <2>8. CASE s.pc \in {"summary", "reset"}
    BY <2>1, <2>3, <2>5, <2>8
  <2> QED BY <2>1, <2>6, <2>7, <2>8
<1>7. Follows(s, t) /\ t.reached = s.reached /\ t.pc # s.pc /\ t.pc # "crashed"
  BY <1>0, <1>2, <1>5, <1>6, Places DEF Follows, Alike, CourseOK, Closes
<1>8. Goes(s, t)
  BY <1>0, <1>2, <1>5, <1>6, <1>7 DEF Goes, Alike, CourseOK, Closes
<1> QED BY <1>0, <1>2, <1>3, <1>5, <1>6, <1>7, <1>8 DEF Moves, s

LEMMA DefendStepped ==
  ASSUME FilesTyped, OnCourse, NEW n \in DOMAIN stage, Defend(n)
  PROVE  Stepped(n)
<1>0. stage[n] \in StageType /\ stage[n].pc = "defend" /\ CourseOK(stage[n])
  BY StageOf DEF Defend
<1>1. PICK executed \in BOOLEAN, givenUp \in BOOLEAN :
        /\ ~(executed /\ givenUp)
        /\ inForce' = IF executed THEN inForce \union {n} ELSE inForce
        /\ underWay' = IF givenUp THEN underWay \union {n} ELSE underWay
        /\ stage' = [stage EXCEPT ![n] = Onwards([stage[n] EXCEPT !.executed = executed])]
  BY DEF Defend
<1> DEFINE u == [stage[n] EXCEPT !.executed = executed]
<1>2. /\ Alike(stage[n], u) /\ u.id = stage[n].id /\ u.cleared = stage[n].cleared
      /\ u.executed = executed
  BY <1>0 DEF Alike, StageType
<1> HIDE DEF u
<1>3. stage' = [stage EXCEPT ![n] = Onwards(u)]
  BY <1>1 DEF u
<1>4. /\ Moves(n) /\ stage'[n].cleared = u.cleared /\ stage'[n].pc # "crashed"
      /\ stage'[n].executed => u.executed
  BY <1>0, <1>2, <1>3, OnwardMoves, Places, ZenonT(60)
<1>5. TakesBasis(n) /\ Ids(n) /\ Counts(n)
  BY <1>0 DEF TakesBasis, Ids, Counts
<1>6. Enforces(n)
  BY <1>0, <1>1, <1>2, <1>4 DEF Enforces, CourseOK
<1>7. SavesNot(n) /\ WritesNot(n)
  BY <1>0, PcsDiffer DEF SavesNot, WritesNot, Defend
<1> QED BY <1>4, <1>5, <1>6, <1>7 DEF Stepped

LEMMA TruncateStepped ==
  ASSUME FilesTyped, OnCourse, NEW n \in DOMAIN stage, Truncate(n)
  PROVE  Stepped(n)
<1>0. stage[n] \in StageType /\ stage[n].pc = "truncate" /\ CourseOK(stage[n])
  BY StageOf DEF Truncate
<1> DEFINE u == [stage[n] EXCEPT !.basis = NoFile]
<1>2. Alike(stage[n], u) /\ u.id = stage[n].id /\ u.cleared = stage[n].cleared
  BY <1>0 DEF Alike, StageType, NoFile
<1> HIDE DEF u
<1>3. stage' = [stage EXCEPT ![n] = Onwards(u)]
  BY DEF u, Truncate
<1>4. /\ Moves(n) /\ stage'[n].cleared = u.cleared /\ stage'[n].pc # "crashed"
  BY <1>0, <1>2, <1>3, OnwardMoves, Places
<1>5. TakesBasis(n) /\ Ids(n) /\ Counts(n)
  BY <1>0 DEF TakesBasis, Ids, Counts
<1>6. Enforces(n)
  BY <1>0, <1>2, <1>4 DEF Enforces, Truncate
<1>7. Saves(n, Empty) /\ WritesNot(n) /\ Empty \in Nat
  BY <1>0, <1>4, PcsDiffer, GameStageAssumption DEF Saves, WritesNot, Truncate, Empty
<1> QED BY <1>4, <1>5, <1>6, <1>7 DEF Stepped

LEMMA WriteStepped ==
  ASSUME FilesTyped, OnCourse, NEW n \in DOMAIN stage, Write(n)
  PROVE  Stepped(n)
<1>0. stage[n] \in StageType /\ stage[n].pc = "write" /\ CourseOK(stage[n])
  BY StageOf DEF Write
<1>2. Alike(stage[n], stage[n])
  BY <1>0 DEF Alike
<1>3. stage' = [stage EXCEPT ![n] = Onwards(stage[n])]
  BY DEF Write
<1>4. /\ Moves(n) /\ stage'[n].cleared = stage[n].cleared /\ stage'[n].pc # "crashed"
  BY <1>0, <1>2, <1>3, OnwardMoves, Places
<1>5. TakesBasis(n) /\ Ids(n) /\ Counts(n)
  BY <1>0 DEF TakesBasis, Ids, Counts
<1>6. Enforces(n)
  BY <1>0, <1>2, <1>4 DEF Enforces, Write
<1>7. \E content \in Nat : Saves(n, content)
  <2>1. PICK content \in IF population[stage[n].kind] = Empty THEN {n} ELSE {n, Mixed} :
          population' = [population EXCEPT ![stage[n].kind] = content]
    BY DEF Write
  <2>2. content \in Nat
    BY GameStageAssumption DEF Mixed, FilesTyped
  <2>3. content = n \/ (population[stage[n].kind] # Empty /\ content = Mixed)
    BY <2>1
  <2>4. Saves(n, content)
    BY <1>0, <1>4, <2>1, <2>3 DEF Saves
  <2> QED BY <2>2, <2>4
<1>8. WritesNot(n)
  BY <1>0, PcsDiffer DEF WritesNot, Write
<1> QED BY <1>4, <1>5, <1>6, <1>7, <1>8 DEF Stepped

LEMMA NumberStepped ==
  ASSUME FilesTyped, OnCourse, NEW n \in DOMAIN stage, Number(n)
  PROVE  Stepped(n)
<1>0. stage[n] \in StageType /\ stage[n].pc = "number" /\ CourseOK(stage[n]) /\ stage[n].kind \in Kinds
  BY StageOf DEF Number
<1> DEFINE id == NextStageId(stage[n].kind)
           u == [stage[n] EXCEPT !.id = id]
<1>1. id \in Nat
  BY <1>0 DEF NextStageId, FilesTyped, Logs
<1> HIDE DEF id
<1>2. Alike(stage[n], u) /\ u.id = id /\ u.cleared = stage[n].cleared
  BY <1>0, <1>1 DEF Alike, StageType
<1> HIDE DEF u
<1>3. stage' = [stage EXCEPT ![n] = Onwards(u)]
  BY DEF u, id, Number
<1>4. /\ Moves(n) /\ stage'[n].cleared = u.cleared /\ stage'[n].pc # "crashed" /\ stage'[n].id = u.id
  BY <1>0, <1>2, <1>3, OnwardMoves, Places, ZenonT(60)
<1>5. TakesBasis(n) /\ Ids(n) /\ Counts(n)
  BY <1>0, <1>2, <1>4 DEF TakesBasis, Ids, Counts, id
<1>6. Enforces(n)
  BY <1>0, <1>2, <1>4 DEF Enforces, Number
<1>7. SavesNot(n) /\ WritesNot(n)
  BY <1>0, PcsDiffer DEF SavesNot, WritesNot, Number
<1> QED BY <1>4, <1>5, <1>6, <1>7 DEF Stepped

LEMMA AppendRowStepped ==
  ASSUME FilesTyped, OnCourse, NEW n \in DOMAIN stage, AppendRow(n)
  PROVE  Stepped(n)
<1>0. /\ stage[n] \in StageType /\ stage[n].pc \in Logs /\ CourseOK(stage[n])
      /\ stage[n].kind \in Kinds /\ n \in Nat /\ stage[n].id \in Nat
  BY StageOf, StageTyped DEF AppendRow, FilesTyped
<1>2. Alike(stage[n], stage[n]) /\ stage[n].pc \in Steps \ {"load", "count"}
  BY <1>0, Places DEF Alike, Logs
<1>3. stage' = [stage EXCEPT ![n] = Onwards(stage[n])]
  BY DEF AppendRow
<1>4. /\ Moves(n) /\ stage'[n].cleared = stage[n].cleared /\ stage'[n].pc # "crashed"
  BY <1>0, <1>2, <1>3, OnwardMoves
<1>5. TakesBasis(n) /\ Ids(n) /\ Counts(n)
  BY <1>0 DEF TakesBasis, Ids, Counts, Logs
<1>6. Enforces(n)
  BY <1>0, <1>2, <1>4 DEF Enforces, AppendRow
<1>7. SavesNot(n)
  BY <1>0 DEF SavesNot, AppendRow, Logs
<1>8. LineOf(Row(n), n) /\ Row(n).whole
  BY <1>0 DEF LineOf, Row, RowType
<1>9. Writes(n, Row(n))
  <2> DEFINE k == stage[n].kind
             l == stage[n].pc
             lines == Appended(log[k][l], Row(n))
  <2>1. log' = [log EXCEPT ![k][l] = lines]
    BY DEF AppendRow
  <2> HIDE DEF lines
  <2>2. log[k][l] \in Seq(RowType) /\ Row(n) \in RowType
    BY <1>0, <1>8 DEF FilesTyped, LineOf
  <2>3. lines \in Seq(RowType)
    BY <2>2, AppendedIs DEF lines
  <2>4. /\ log' \in [Kinds -> [Logs -> Seq(RowType)]]
        /\ log'[k][l] = lines
        /\ \A x \in Kinds, y \in Logs : x # k \/ y # l => log'[x][y] = log[x][y]
    BY <1>0, <2>1, <2>3 DEF FilesTyped
  <2> QED BY <1>0, <1>4, <1>8, <2>4 DEF Writes, lines
<1> QED BY <1>4, <1>5, <1>6, <1>7, <1>9 DEF Stepped

LEMMA ResetAfterStepped ==
  ASSUME FilesTyped, OnCourse, NEW n \in DOMAIN stage, ResetAfter(n)
  PROVE  Stepped(n)
<1>0. stage[n] \in StageType /\ stage[n].pc = "reset" /\ CourseOK(stage[n])
  BY StageOf DEF ResetAfter
<1>1. PICK result \in {"done", "failed"} :
        /\ Reset(result)
        /\ stage' = [stage EXCEPT ![n] = Onwards([stage[n] EXCEPT !.cleared = (result = "done")])]
  BY DEF ResetAfter
<1> DEFINE cleared == (result = "done")
           u == [stage[n] EXCEPT !.cleared = cleared]
<1>2. cleared \in BOOLEAN
  OBVIOUS
<1> HIDE DEF cleared
<1>3. Alike(stage[n], u) /\ u.id = stage[n].id /\ u.cleared = cleared
  BY <1>0, <1>2 DEF Alike, StageType
<1> HIDE DEF u
<1>4. stage' = [stage EXCEPT ![n] = Onwards(u)]
  BY <1>1 DEF u, cleared
<1>5. /\ Moves(n) /\ stage'[n].cleared = u.cleared /\ stage'[n].pc # "crashed"
  BY <1>0, <1>3, <1>4, OnwardMoves, Places, ZenonT(60)
<1>6. TakesBasis(n) /\ Ids(n) /\ Counts(n)
  BY <1>0 DEF TakesBasis, Ids, Counts
<1>7. inForce' \subseteq inForce /\ underWay' = underWay /\ (cleared => inForce' = {})
  BY <1>1 DEF Reset, cleared, ResetAfter
<1>8. Enforces(n)
  BY <1>0, <1>3, <1>5, <1>7 DEF Enforces
<1>9. SavesNot(n) /\ WritesNot(n)
  BY <1>0, PcsDiffer DEF SavesNot, WritesNot, ResetAfter
<1> QED BY <1>5, <1>6, <1>8, <1>9 DEF Stepped

LEMMA WarmupsTyped ==
  ASSUME NEW scenario, NEW lines \in Seq(RowType)
  PROVE  /\ WarmupsOf(scenario, lines) \in Nat
         /\ IsFiniteSet(RowsOf(scenario, lines)) /\ RowsOf(scenario, lines) \subseteq 1..Len(lines)
<1>1. RowsOf(scenario, lines) \subseteq 1..Len(lines)
  BY DEF RowsOf
<1>2. IsFiniteSet(1..Len(lines))
  BY FS_Interval
<1>3. IsFiniteSet(RowsOf(scenario, lines))
  BY <1>1, <1>2, FS_Subset
<1> DEFINE rows == RowsOf(scenario, lines)
           trailing == {i \in rows : \A j \in rows : j >= i => stage[lines[j].stage].warmup}
<1>4. IsFiniteSet(trailing) /\ Cardinality(trailing) \in Nat
  BY <1>3, FS_Subset, FS_CardinalityType
<1> QED BY <1>1, <1>3, <1>4 DEF WarmupsOf

LEMMA CountStepped ==
  ASSUME FilesTyped, OnCourse, NEW n \in DOMAIN stage, Count(n)
  PROVE  Stepped(n)
<1>0. /\ stage[n] \in StageType /\ stage[n].pc = "count" /\ CourseOK(stage[n])
      /\ stage[n].kind \in Kinds /\ n \in Running
  BY StageOf, Places DEF Count
<1>1. PICK outcome \in Outcomes(stage[n]) :
        stage' = [stage EXCEPT ![n] = Onwards([stage[n] EXCEPT
         !.reset = "none", !.strays = {}, !.attack = FALSE,
         !.learns = outcome.learns, !.logs = outcome.logs, !.warmup = outcome.warmup,
         !.count = IF outcome.warmup
                   THEN WarmupsOf(stage[n].scenario, log["eval"]["summary"]) + 1 ELSE 0,
         !.id = IF stage[n].kind = "eval" THEN NextStageId("eval") ELSE 0])]
  BY DEF Count
<1>2. /\ outcome.learns \in BOOLEAN /\ outcome.logs \in BOOLEAN /\ outcome.warmup \in BOOLEAN
      /\ outcome.learns => outcome.logs /\ (stage[n].kind = "eval" \/ stage[n].attack)
  <2>1. CASE outcome = [learns |-> FALSE, logs |-> FALSE, warmup |-> FALSE]
    BY <2>1
  <2>2. CASE outcome = [learns |-> stage[n].attack, logs |-> TRUE, warmup |-> FALSE]
    <3> DEFINE attack == stage[n].attack
    <3>1. attack \in BOOLEAN /\ outcome = [learns |-> attack, logs |-> TRUE, warmup |-> FALSE]
      BY <1>0, <2>2, StageTyped
    <3>2. outcome.learns = attack
      <4> HIDE DEF attack
      <4> QED BY <3>1
    <3>3. outcome.learns \in BOOLEAN /\ outcome.logs = TRUE /\ outcome.warmup = FALSE
      BY <2>2, <3>1, <3>2
    <3>4. outcome.learns => stage[n].attack
      BY <3>2
    <3> QED BY <3>3, <3>4
  <2>3. CASE /\ stage[n].kind = "eval"
             /\ \E comparable \in BOOLEAN, valid \in BOOLEAN, effective \in BOOLEAN :
                  outcome = [learns |-> comparable /\ valid /\ stage[n].executed /\ effective,
                             logs |-> TRUE, warmup |-> ~comparable]
    <3>1. PICK comparable \in BOOLEAN, valid \in BOOLEAN, effective \in BOOLEAN :
            outcome = [learns |-> comparable /\ valid /\ stage[n].executed /\ effective,
                       logs |-> TRUE, warmup |-> ~comparable]
      BY <2>3
    <3> DEFINE learns == comparable /\ valid /\ stage[n].executed /\ effective
               warmup == ~comparable
    <3>2. outcome = [learns |-> learns, logs |-> TRUE, warmup |-> warmup]
      BY <3>1
    <3>3. learns \in BOOLEAN /\ warmup \in BOOLEAN
      OBVIOUS
    <3> HIDE DEF learns, warmup
    <3> QED BY <2>3, <3>2, <3>3
  <2> QED BY <1>0, <2>1, <2>2, <2>3 DEF Outcomes, Kinds
<1> DEFINE count == IF outcome.warmup
                    THEN WarmupsOf(stage[n].scenario, log["eval"]["summary"]) + 1 ELSE 0
           id == IF stage[n].kind = "eval" THEN NextStageId("eval") ELSE 0
           learns == outcome.learns
           logs == outcome.logs
           warmup == outcome.warmup
           s == stage[n]
           u == [s EXCEPT !.reset = "none", !.strays = {}, !.attack = FALSE, !.learns = learns, !.logs = logs,
                          !.warmup = warmup, !.count = count, !.id = id]
           t == Onwards(u)
<1>3. log["eval"]["summary"] \in Seq(RowType) /\ log["eval"]["stage"] \in Seq(RowType)
  BY DEF FilesTyped, Kinds, Logs
<1>4. count \in Nat /\ id \in Nat
  BY <1>3, WarmupsTyped DEF NextStageId
<1>5. learns \in BOOLEAN /\ logs \in BOOLEAN /\ warmup \in BOOLEAN /\ s \in StageType /\ s.pc = "count"
  BY <1>0, <1>2
<1>6. stage' = [stage EXCEPT ![n] = t]
  BY <1>1
<1>7. /\ s.kind = "eval" => id = NextStageId("eval")
      /\ count = IF warmup THEN WarmupsOf(s.scenario, log["eval"]["summary"]) + 1 ELSE 0
      /\ learns => logs /\ (s.kind = "eval" \/ s.attack)
      /\ s.kind \in Kinds /\ CourseOK(s) /\ n \in Running
  BY <1>0, <1>2
<1> HIDE DEF count, id, learns, logs, warmup, s
<1>8. /\ u \in StageType /\ u.kind = s.kind /\ u.scenario = s.scenario /\ u.with = s.with
      /\ u.learns = learns /\ u.logs = logs /\ u.warmup = warmup /\ u.count = count /\ u.id = id
      /\ u.cleared = s.cleared /\ u.reached = s.reached /\ u.pc = "count" /\ u.basis = s.basis
      /\ u.executed = s.executed
  <2>1. u \in StageType
    BY <1>4, <1>5 DEF StageType
  <2>2. DOMAIN s = {"kind", "scenario", "reset", "strays", "pc", "basis", "attack", "executed", "learns", "logs",
                    "warmup", "id", "count", "cleared", "with", "reached"}
    BY <1>5 DEF StageType
  <2> QED BY <1>5, <2>1, <2>2
<1> HIDE DEF u
<1>9. /\ t \in StageType /\ t.pc = After(u, "count") /\ t.kind = s.kind /\ t.scenario = s.scenario
      /\ t.with = s.with /\ t.learns = learns /\ t.logs = logs /\ t.warmup = warmup
      /\ t.id = id /\ t.count = count /\ t.cleared = s.cleared /\ t.reached = s.reached
      /\ t.pc # "done" => t.basis = s.basis /\ t.executed = u.executed
      /\ t.executed => s.executed
  BY <1>8, OnwardsIs, Places
<1> HIDE DEF t
<1>10. /\ stage' \in Seq(StageType) /\ DOMAIN stage' = DOMAIN stage
       /\ Len(stage') = Len(stage) /\ stage'[n] = t
       /\ \A m \in DOMAIN stage : m # n => stage'[m] = stage[m]
  BY <1>6, <1>9, Updated DEF FilesTyped
<1>11. /\ After(u, "count") = IF u.learns THEN "truncate" ELSE Logging(u)
       /\ t.kind = u.kind
  BY <1>7, <1>8, <1>9, AfterIs
<1>12. /\ Follows(s, t) /\ t.pc \in {"truncate", "number", "stage", "reset", "done"}
       /\ t.pc = "truncate" => learns
  <2>1. CASE learns
    BY <1>5, <1>8, <1>9, <1>11, <2>1 DEF Follows
  <2>2. CASE ~learns
    <3>1. t.pc = Logging(u) /\ ~t.learns
      BY <1>8, <1>9, <1>11, <2>2
    <3>2. CASE logs
      BY <1>5, <1>8, <1>9, <3>1, <3>2 DEF Logging, Follows
    <3>3. CASE ~logs
      <4>1. Closes(t)
        BY <1>8, <1>9, <1>11, <3>1, <3>3 DEF Logging, Closing, Closes
      <4> QED BY <1>5, <1>9, <3>1, <3>3, <4>1 DEF Follows, Closes
    <3> QED BY <3>2, <3>3
  <2> QED BY <2>1, <2>2
<1>13. Goes(s, t)
  BY <1>5, <1>7, <1>9, <1>12 DEF Goes, CourseOK
<1>14. Moves(n)
  BY <1>7, <1>10, <1>13 DEF Moves, s
<1>15. TakesBasis(n) /\ Ids(n) /\ Counts(n)
  BY <1>5, <1>7, <1>9, <1>10 DEF TakesBasis, Ids, Counts, s
<1>16. Enforces(n)
  BY <1>9, <1>10 DEF Enforces, Count, s
<1>17. SavesNot(n) /\ WritesNot(n)
  BY <1>0, PcsDiffer DEF SavesNot, WritesNot, Count
<1> QED BY <1>14, <1>15, <1>16, <1>17 DEF Stepped

LEMMA CrashStepped ==
  ASSUME FilesTyped, OnCourse, NEW n \in DOMAIN stage, Crash(n)
  PROVE  Stepped(n)
<1> DEFINE s == stage[n]
           reached == IF s.pc \in {"write"} \union Logs THEN s.pc ELSE "none"
           u == [s EXCEPT !.reached = reached]
           t == Ended(u, "crashed")
<1>0. s \in StageType /\ n \in Running /\ CourseOK(s) /\ s.kind \in Kinds
      /\ s.pc \in Steps /\ n \in Nat /\ s.id \in Nat
  BY StageOf, StageTyped DEF Crash, Running, FilesTyped
<1>1. /\ stage' = [stage EXCEPT ![n] = t] /\ inForce' = inForce /\ underWay' = underWay
      /\ population' = population
  BY DEF Crash
<1>2. reached \in Logs \union {"write", "none"} /\ (s.pc \in {"write"} \union Logs => reached = s.pc)
  OBVIOUS
<1> HIDE DEF reached, s
<1>3. /\ u \in StageType /\ u.kind = s.kind /\ u.scenario = s.scenario /\ u.with = s.with
      /\ u.learns = s.learns /\ u.logs = s.logs /\ u.warmup = s.warmup /\ u.count = s.count
      /\ u.id = s.id /\ u.cleared = s.cleared /\ u.reached = reached
  BY <1>0, <1>2 DEF StageType
<1> HIDE DEF u
<1>4. /\ t \in StageType /\ t.kind = s.kind /\ t.scenario = s.scenario /\ t.with = s.with
      /\ t.learns = s.learns /\ t.logs = s.logs /\ t.warmup = s.warmup /\ t.count = s.count
      /\ t.id = s.id /\ t.cleared = s.cleared /\ t.reached = reached /\ t.pc = "crashed"
      /\ ~t.executed
  BY <1>3, EndedIs DEF Ends
<1> HIDE DEF t
<1>5. /\ stage' \in Seq(StageType) /\ DOMAIN stage' = DOMAIN stage
      /\ Len(stage') = Len(stage) /\ stage'[n] = t
      /\ \A m \in DOMAIN stage : m # n => stage'[m] = stage[m]
  BY <1>1, <1>4, Updated DEF FilesTyped
<1>6. Goes(s, t)
  BY <1>0, <1>2, <1>4, PcsDiffer DEF Goes, Dies, CourseOK, Ends
<1>7. Moves(n) /\ TakesBasis(n) /\ Ids(n) /\ Counts(n) /\ Enforces(n) /\ SavesNot(n)
  BY <1>0, <1>1, <1>4, <1>5, <1>6
     DEF Moves, TakesBasis, Ids, Counts, Enforces, SavesNot, s
<1>8. CASE log' = log
  BY <1>4, <1>5, <1>7, <1>8 DEF Stepped, WritesNot
<1>9. CASE log' # log
  <2> DEFINE k == stage[n].kind
             l == stage[n].pc
             row == [Row(n) EXCEPT !.whole = FALSE, !.ended = FALSE]
             lines == Appended(log[k][l], row)
  <2>1. l \in Logs /\ log' = [log EXCEPT ![k][l] = lines] /\ k \in Kinds
    BY <1>0, <1>9 DEF Crash, s
  <2>2. LineOf(row, n) /\ ~row.whole
    BY <1>0 DEF LineOf, Row, RowType, s
  <2> HIDE DEF row
  <2>3. log[k][l] \in Seq(RowType) /\ row \in RowType
    BY <2>1, <2>2 DEF FilesTyped, LineOf
  <2>4. lines \in Seq(RowType)
    BY <2>3, AppendedIs
  <2> HIDE DEF lines
  <2>5. /\ log' \in [Kinds -> [Logs -> Seq(RowType)]]
        /\ log'[k][l] = lines
        /\ \A x \in Kinds, y \in Logs : x # k \/ y # l => log'[x][y] = log[x][y]
    BY <2>1, <2>4 DEF FilesTyped
  <2>6. Writes(n, row)
    BY <1>4, <1>5, <2>1, <2>2, <2>5 DEF Writes, lines
  <2> QED BY <1>7, <2>6 DEF Stepped
<1> QED BY <1>8, <1>9

LEMMA BeginBegun ==
  ASSUME FilesTyped, OnCourse, NEW kind \in Kinds, NEW scenario \in Scenarios \union {NoScenario},
         NEW reset \in {"done", "failed", "none"}, Begin(kind, scenario, reset)
  PROVE  \E s : Begun(s)
<1> DEFINE s == [kind |-> kind, scenario |-> scenario, reset |-> reset, strays |-> underWay,
                 pc |-> "load", basis |-> NoFile, attack |-> TRUE, executed |-> FALSE,
                 learns |-> FALSE, logs |-> FALSE, warmup |-> FALSE, id |-> 0, count |-> 0,
                 cleared |-> FALSE, with |-> Running, reached |-> "none"]
<1>1. stage' = Append(stage, s) /\ Len(stage) < MaxStages /\ population' = population /\ log' = log
  BY DEF Begin
<1>2. /\ inForce' \subseteq inForce /\ (reset = "done" => inForce' = {})
      /\ underWay' = underWay
  BY DEF Begin, Reset
<1>3. Running \subseteq Nat /\ underWay \subseteq Nat
  BY DEF Running, FilesTyped
<1>4. s \in StageType
  BY <1>3, Places DEF StageType, NoFile
<1> QED BY <1>1, <1>2, <1>4 DEF Begun

LEMMA StepsOf ==
  ASSUME FilesTyped, OnCourse, [Next]_vars
  PROVE  Moving \/ Stays
<1>1. ASSUME NEW n \in DOMAIN stage, StageStep(n) \/ Crash(n)
      PROVE  Stepped(n)
  BY <1>1, LoadStepped, DefendStepped, CountStepped, TruncateStepped, WriteStepped, NumberStepped,
     AppendRowStepped, ResetAfterStepped, CrashStepped DEF StageStep
<1>2. ASSUME NEW n \in underWay, RegisterLate(n) PROVE Stays
  BY <1>2 DEF Stays, RegisterLate
<1>3. UNCHANGED vars => Stays
  BY DEF vars, Stays
<1> QED BY <1>1, <1>2, <1>3, BeginBegun DEF Next, Moving

-----------------------------------------------------------------------------
(* The stages: their order, and whom they met.                                *)

Base == FilesTyped /\ MetInOrder /\ OnCourse

LEMMA MovedBase ==
  ASSUME Base, NEW n \in DOMAIN stage, Stepped(n)
  PROVE  /\ Base'
         /\ \A l, m \in DOMAIN stage : Overlap(l, m)' <=> Overlap(l, m)
         /\ \A m \in Running : m # n => Overlap(m, n) /\ Overlap(n, m)
         /\ \A m \in DOMAIN stage : stage'[m].kind = stage[m].kind
                                   /\ (stage[m].learns => stage'[m].learns)
<1> DEFINE s == stage[n]
           t == stage'[n]
<1>0. /\ Moves(n) /\ Goes(s, t) /\ n \in Running /\ s.pc \in Steps /\ CourseOK(s) /\ s \in StageType
  BY DEF Base, Stepped, Moves, OnCourse, Running, FilesTyped
<1>1. /\ t.kind = s.kind /\ t.with = s.with /\ t \in StageType
      /\ s.learns => t.learns
  BY <1>0, StageTyped DEF Goes, CourseOK
<1>2. \A m \in DOMAIN stage : stage'[m].kind = stage[m].kind /\ stage'[m].with = stage[m].with
                             /\ (stage[m].learns => stage'[m].learns)
  BY <1>0, <1>1 DEF Moves
<1>3. \A l, m \in DOMAIN stage : Overlap(l, m)' <=> Overlap(l, m)
  BY <1>2 DEF Overlap
<1>4. ASSUME NEW m \in Running, m # n PROVE Overlap(m, n) /\ Overlap(n, m)
  <2>1. m \in Nat /\ n \in Nat
    BY DEF Running, Base, FilesTyped
  <2>2. m < n \/ n < m
    BY <1>4, <2>1
  <2> QED BY <1>0, <2>2 DEF Base, MetInOrder, Overlap
<1>5. MetInOrder'
  <2>1. Running' \subseteq Running
    BY <1>0 DEF Moves, Running
  <2> QED BY <1>0, <1>2, <2>1 DEF Base, MetInOrder, Moves, Running
<1>6. CourseOK(t)
  <2>1. /\ t.learns => t.logs
        /\ t.cleared => t.pc = "done"
        /\ Follows(s, t) \/ Breaks(s, t) \/ Dies(s, t)
        /\ s.pc # "count" => t.learns = s.learns /\ t.logs = s.logs
        /\ t.kind = s.kind /\ t.kind \in Kinds
        /\ Follows(s, t) \/ Breaks(s, t) => t.reached = "none" \/ t.pc = "crashed"
    BY <1>0, <1>1, StageTyped, PcsDiffer DEF Goes, CourseOK, Dies, Ends
  <2>2. CASE Follows(s, t)
    <3>1. /\ s.pc \in {"load", "defend"} => ~s.learns
          /\ s.pc \in {"truncate", "write"} => s.learns
          /\ s.learns => s.logs
          /\ s.pc \in {"number", "stage", "trace", "summary"} => s.logs
      BY <1>0 DEF CourseOK
    <3>2. t.kind = "eval" \/ t.kind = "runtime"
      BY <2>1 DEF Kinds
    <3>3. CASE s.pc = "count"
      BY <2>1, <2>2, <3>2, <3>3 DEF Follows, CourseOK, Closes
    <3>4. CASE s.pc # "count"
      BY <2>1, <2>2, <3>1, <3>2, <3>4 DEF Follows, CourseOK, Closes
    <3> QED BY <3>3, <3>4
  <2>3. CASE Breaks(s, t)
    BY <2>1, <2>3 DEF Breaks, CourseOK
  <2>4. CASE Dies(s, t)
    BY <2>1, <2>4 DEF Dies, CourseOK
  <2> QED BY <2>1, <2>2, <2>3, <2>4
<1>7. OnCourse'
  <2>1. \A m \in DOMAIN stage' : m = n \/ (m \in DOMAIN stage /\ stage'[m] = stage[m])
    BY <1>0 DEF Moves
  <2> QED BY <1>6, <2>1 DEF Base, OnCourse, CourseOK
<1>8. FilesTyped'
  <2>1. stage' \in Seq(StageType) /\ Len(stage') <= MaxStages /\ DOMAIN stage' = DOMAIN stage
    BY <1>0 DEF Moves, Base, FilesTyped
  <2>2. inForce' \subseteq DOMAIN stage' /\ underWay' \subseteq DOMAIN stage'
    BY <2>1 DEF Stepped, Enforces, Base, FilesTyped
  <2>3. population' \in [Kinds -> Nat]
    BY DEF Stepped, Saves, SavesNot, Base, FilesTyped
  <2>4. log' \in [Kinds -> [Logs -> Seq(RowType)]]
    BY DEF Stepped, Writes, WritesNot, Base, FilesTyped
  <2> QED BY <2>1, <2>2, <2>3, <2>4 DEF FilesTyped
<1> QED BY <1>2, <1>3, <1>4, <1>5, <1>7, <1>8 DEF Base

LEMMA BegunBase ==
  ASSUME Base, NEW s, Begun(s)
  PROVE  /\ Base'
         /\ DOMAIN stage' = DOMAIN stage \union {Len(stage) + 1} /\ Len(stage) + 1 \notin DOMAIN stage
         /\ stage'[Len(stage) + 1] = s /\ \A m \in DOMAIN stage : stage'[m] = stage[m]
         /\ \A l, m \in DOMAIN stage : Overlap(l, m)' <=> Overlap(l, m)
<1> DEFINE new == Len(stage) + 1
<1>1. /\ stage \in Seq(StageType) /\ s \in StageType /\ stage' = Append(stage, s)
      /\ s.pc = "load" /\ s.with = Running
  BY DEF Begun, Base, FilesTyped
<1>2. /\ DOMAIN stage' = DOMAIN stage \union {new} /\ new \notin DOMAIN stage
      /\ stage'[new] = s /\ \A m \in DOMAIN stage : stage'[m] = stage[m]
      /\ Len(stage') = new /\ stage' \in Seq(StageType) /\ new \in Nat /\ DOMAIN stage = 1..(new - 1)
  BY <1>1
<1>3. FilesTyped'
  <2>1. Len(stage') <= MaxStages
    BY <1>2, GameStageAssumption DEF Begun
  <2> QED BY <1>2, <2>1 DEF Begun, Base, FilesTyped
<1> HIDE DEF new
<1>4. MetInOrder'
  <2>1. Running' \subseteq Running \union {new} /\ Running \subseteq DOMAIN stage
    BY <1>2 DEF Running
  <2>2. \A n \in DOMAIN stage' : stage'[n].with \subseteq 1..(n - 1)
    BY <1>1, <1>2, <2>1 DEF Base, MetInOrder
  <2>3. ASSUME NEW m \in Running', NEW n \in Running', m < n PROVE m \in stage'[n].with
    <3>1. m # new
      BY <1>2, <2>1, <2>3
    <3>2. m \in Running
      BY <2>1, <3>1
    <3>3. CASE n = new
      BY <1>1, <1>2, <3>2, <3>3
    <3>4. CASE n # new
      BY <1>2, <2>1, <2>3, <3>2, <3>4 DEF Base, MetInOrder
    <3> QED BY <3>3, <3>4
  <2> QED BY <2>2, <2>3 DEF MetInOrder
<1>5. OnCourse'
  BY <1>1, <1>2 DEF Begun, Base, OnCourse, CourseOK
<1>6. \A l, m \in DOMAIN stage : Overlap(l, m)' <=> Overlap(l, m)
  BY <1>2 DEF Overlap
<1> QED BY <1>2, <1>3, <1>4, <1>5, <1>6 DEF Base, new

-----------------------------------------------------------------------------
(* The lines of the logs and their ids.                                       *)

LEMMA NewLine ==
  ASSUME NEW a \in Nat, NEW b \in Nat, b = a \/ b = a + 1, NEW i, i \in 1..b, i \notin 1..a
  PROVE  b = a + 1 /\ i = b
OBVIOUS

LEMMA LinesAre ==
  ASSUME Base, NEW n \in DOMAIN stage, Stepped(n), NEW k \in Kinds, NEW l \in Logs
  PROVE  /\ \A i \in DOMAIN log[k][l] :
              /\ i \in DOMAIN log'[k][l]
              /\ log'[k][l][i].stage = log[k][l][i].stage /\ log'[k][l][i].id = log[k][l][i].id
              /\ log'[k][l][i].whole = log[k][l][i].whole
         /\ \A i \in DOMAIN log'[k][l] :
              \/ i \in DOMAIN log[k][l]
              \/ /\ k = stage[n].kind /\ l = stage[n].pc /\ i = Len(log[k][l]) + 1
                 /\ log'[k][l][i].stage = n /\ log'[k][l][i].id = stage[n].id
                 /\ log'[k][l][i].whole <=> stage'[n].pc # "crashed"
         /\ Len(log[k][l]) \in Nat /\ Len(log[k][l]) <= Len(log'[k][l])
         /\ DOMAIN log[k][l] = 1..Len(log[k][l]) /\ DOMAIN log'[k][l] = 1..Len(log'[k][l])
<1>1. log[k][l] \in Seq(RowType)
  BY DEF Base, FilesTyped
<1>2. CASE log'[k][l] = log[k][l]
  BY <1>1, <1>2
<1>3. CASE log'[k][l] # log[k][l]
  <2>1. PICK row : Writes(n, row)
    BY <1>3 DEF Stepped, WritesNot
  <2>2. /\ k = stage[n].kind /\ l = stage[n].pc /\ log'[k][l] = Appended(log[k][l], row)
        /\ row \in RowType /\ row.stage = n /\ row.id = stage[n].id
        /\ row.whole <=> stage'[n].pc # "crashed"
    BY <1>3, <2>1 DEF Writes, LineOf
  <2> DEFINE old == log[k][l]
             new == log'[k][l]
  <2>6. old \in Seq(RowType) /\ row \in RowType /\ new = Appended(old, row)
    BY <1>1, <2>2
  <2> HIDE DEF old, new
  <2>3. /\ old \in Seq(RowType) /\ new \in Seq(RowType)
        /\ \A i \in DOMAIN old : /\ i \in DOMAIN new /\ new[i].stage = old[i].stage
                                 /\ new[i].id = old[i].id /\ new[i].whole = old[i].whole
        /\ Len(new) = Len(old) \/ (Len(new) = Len(old) + 1 /\ new[Len(new)] = row)
    BY <2>6, AppendedIs, ZenonT(60)
  <2>4. /\ Len(old) \in Nat /\ Len(new) \in Nat /\ Len(old) <= Len(new)
        /\ DOMAIN old = 1..Len(old) /\ DOMAIN new = 1..Len(new)
    BY <2>3
  <2>5. \A i \in DOMAIN new : i \in DOMAIN old \/ (i = Len(old) + 1 /\ new[i] = row)
    <3>1. Len(new) = Len(old) \/ (Len(new) = Len(old) + 1 /\ new[Len(new)] = row)
      BY <2>3
    <3>2. ASSUME NEW i \in DOMAIN new, i \notin DOMAIN old PROVE i = Len(old) + 1 /\ new[i] = row
      <4>1. i \in 1..Len(new) /\ i \notin 1..Len(old)
        BY <2>4, <3>2
      <4>2. Len(new) = Len(old) + 1 /\ i = Len(new)
        <5>1. Len(old) \in Nat /\ Len(new) \in Nat
          BY <2>4
        <5> QED BY <3>1, <4>1, <5>1, NewLine
      <4> QED BY <3>1, <4>2
    <3> QED BY <3>2
  <2>7. \A i \in DOMAIN old : /\ i \in DOMAIN new /\ new[i].stage = old[i].stage
                           /\ new[i].id = old[i].id /\ new[i].whole = old[i].whole
    BY <2>3
  <2>8. \A i \in DOMAIN new :
          \/ i \in DOMAIN old
          \/ /\ i = Len(old) + 1
             /\ new[i].stage = n /\ new[i].id = stage[n].id
             /\ new[i].whole <=> stage'[n].pc # "crashed"
    BY <2>2, <2>5
  <2>9. /\ \A i \in DOMAIN log[k][l] :
              /\ i \in DOMAIN log'[k][l]
              /\ log'[k][l][i].stage = log[k][l][i].stage /\ log'[k][l][i].id = log[k][l][i].id
              /\ log'[k][l][i].whole = log[k][l][i].whole
        /\ Len(log[k][l]) \in Nat /\ Len(log[k][l]) <= Len(log'[k][l])
        /\ DOMAIN log[k][l] = 1..Len(log[k][l]) /\ DOMAIN log'[k][l] = 1..Len(log'[k][l])
    BY <2>4, <2>7, Zenon DEF old, new
  <2>10. \A i \in DOMAIN log'[k][l] :
              \/ i \in DOMAIN log[k][l]
              \/ /\ i = Len(log[k][l]) + 1
                 /\ log'[k][l][i].stage = n /\ log'[k][l][i].id = stage[n].id
                 /\ log'[k][l][i].whole <=> stage'[n].pc # "crashed"
    BY <2>8, Zenon DEF old, new
  <2>11. k = stage[n].kind /\ l = stage[n].pc
    BY <2>2
  <2> QED BY <2>9, <2>10, <2>11, Zenon
<1> QED BY <1>2, <1>3

LEMMA Beyonds ==
  /\ Beyond("stage") = {"reset", "done", "trace", "summary"}
  /\ Beyond("trace") = {"reset", "done", "summary"}
  /\ Beyond("summary") = {"reset", "done"}
BY DEF Beyond

LEMMA RowsMoved ==
  ASSUME Base, RowsOK, Numbered, NEW n \in DOMAIN stage, Stepped(n)
  PROVE  RowsOK'
<1> DEFINE s == stage[n]
           t == stage'[n]
<1>0. /\ Goes(s, t) /\ n \in Running /\ s.pc \in Steps /\ t.kind = s.kind
      /\ DOMAIN stage' = DOMAIN stage
      /\ \A m \in DOMAIN stage : m # n => stage'[m] = stage[m]
  BY DEF Stepped, Moves, Running, Goes
\* The stage that moves stays behind the lines it has written.
<1>1. ASSUME NEW l \in Logs, s.pc \in Beyond(l) \/ s.pc = l
      PROVE  t.pc \in Beyond(l) \union {"crashed"} /\ t.id = s.id
  <2>1. s.pc \in {"stage", "trace", "summary", "reset"} /\ l \in {"stage", "trace", "summary"}
    BY <1>0, <1>1, Places DEF Beyond, Logs
  <2>2. t.id = s.id
    BY <1>0, <2>1 DEF Goes
  <2>3. Follows(s, t) \/ t.pc = "crashed"
    BY <1>0, <2>1 DEF Goes, Breaks, Dies
  <2>4. CASE Follows(s, t)
    <3>1. \/ s.pc = "stage" /\ t.pc = "trace"
          \/ s.pc = "trace" /\ t.pc \in {"summary", "done"}
          \/ s.pc \in {"summary", "reset"} /\ t.pc \in {"reset", "done"}
      BY <2>1, <2>4 DEF Follows, Closes
    <3>2. CASE l = "stage"
      BY <1>1, <2>2, <3>1, <3>2, Beyonds
    <3>3. CASE l = "trace"
      BY <1>1, <2>2, <3>1, <3>3, Beyonds
    <3>4. CASE l = "summary"
      BY <1>1, <2>2, <3>1, <3>4, Beyonds
    <3> QED BY <2>1, <3>2, <3>3, <3>4
  <2> QED BY <2>2, <2>3, <2>4
<1>2. ASSUME NEW k \in Kinds, NEW l \in Logs, NEW i \in DOMAIN log'[k][l]
      PROVE  RowOK(k, l, i)'
  <2> DEFINE row == log[k][l][i]
             row1 == log'[k][l][i]
  <2>1. CASE i \in DOMAIN log[k][l]
    <3>1. row1.stage = row.stage /\ row1.id = row.id
      BY <2>1, LinesAre
    <3>2. /\ row.stage \in DOMAIN stage /\ stage[row.stage].kind = k
          /\ stage[row.stage].pc \in Beyond(l) \union {"crashed"}
          /\ row.id = stage[row.stage].id /\ (l = "stage" => row.id <= i)
      BY <2>1 DEF RowsOK, RowOK
    <3> HIDE DEF row, row1
    <3>3. CASE row.stage = n
      <4>1. s.pc \in Beyond(l)
        BY <1>0, <3>2, <3>3, PcsDiffer DEF Ends
      <4>2. row1.stage \in DOMAIN stage' /\ stage'[row1.stage].kind = k
            /\ stage'[row1.stage].pc \in Beyond(l) \union {"crashed"}
            /\ row1.id = stage'[row1.stage].id /\ (l = "stage" => row1.id <= i)
        BY <1>0, <1>1, <3>1, <3>2, <3>3, <4>1
      <4> QED BY <4>2 DEF RowOK, row1, Beyond
    <3>4. CASE row.stage # n
      <4>1. row1.stage \in DOMAIN stage' /\ stage'[row1.stage].kind = k
            /\ stage'[row1.stage].pc \in Beyond(l) \union {"crashed"}
            /\ row1.id = stage'[row1.stage].id /\ (l = "stage" => row1.id <= i)
        BY <1>0, <3>1, <3>2, <3>4
      <4> QED BY <4>1 DEF RowOK, row1, Beyond
    <3> QED BY <3>3, <3>4
  <2>2. CASE i \notin DOMAIN log[k][l]
    <3>1. /\ k = s.kind /\ l = s.pc /\ i = Len(log[k][l]) + 1 /\ row1.stage = n /\ row1.id = s.id
      BY <2>2, LinesAre
    <3>2. l = "stage" => s.id <= i
      BY <3>1 DEF Numbered, HasId
    <3> HIDE DEF row1
    <3>3. row1.stage \in DOMAIN stage' /\ stage'[row1.stage].kind = k
          /\ stage'[row1.stage].pc \in Beyond(l) \union {"crashed"}
          /\ row1.id = stage'[row1.stage].id /\ (l = "stage" => row1.id <= i)
      BY <1>0, <1>1, <3>1, <3>2
    <3> QED BY <3>3 DEF RowOK, row1, Beyond
  <2> QED BY <2>1, <2>2
<1> QED BY <1>2 DEF RowsOK

LEMMA NumberedMoved ==
  ASSUME Base, RowsOK, RowsOK', Numbered, NEW n \in DOMAIN stage, Stepped(n)
  PROVE  Numbered'
<1> DEFINE s == stage[n]
           t == stage'[n]
<1>0. /\ Goes(s, t) /\ n \in Running /\ s.pc \in Steps /\ t.kind = s.kind /\ s.kind \in Kinds
      /\ DOMAIN stage' = DOMAIN stage /\ n \in Nat
      /\ \A m \in DOMAIN stage : m # n => stage'[m] = stage[m]
  BY StageTyped DEF Stepped, Moves, Running, Goes, Base, FilesTyped
<1>1. \A m \in DOMAIN stage : stage[m].id \in Nat /\ stage[m].kind \in Kinds
  BY StageTyped DEF Base, FilesTyped
<1>2. "stage" \in Logs /\ \A k \in Kinds : log[k]["stage"] \in Seq(RowType)
  BY DEF Base, FilesTyped, Logs
<1>5. \A k \in Kinds : Len(log'[k]["stage"]) \in Nat
  BY <1>2, MovedBase DEF Base, FilesTyped
<1>3. ASSUME NEW m \in DOMAIN stage, m # n, HasId(stage[m])
      PROVE  LET lines == log'[stage[m].kind]["stage"] IN
             /\ stage[m].id <= Len(lines) + 1
             /\ \A i \in DOMAIN lines : lines[i].id < stage[m].id \/ Overlap(lines[i].stage, m)
  <2> DEFINE k == stage[m].kind
             lines == log[k]["stage"]
             new == log'[k]["stage"]
  <2>1. m \in Running
    BY <1>3, Places DEF HasId, Running
  <2>2. Overlap(n, m)
    BY <1>3, <2>1, MovedBase
  <2>3. /\ stage[m].id <= Len(lines) + 1
        /\ \A i \in DOMAIN lines : lines[i].id < stage[m].id \/ Overlap(lines[i].stage, m)
    BY <1>3 DEF Numbered
  <2>5. /\ \A i \in DOMAIN new : (i \in DOMAIN lines /\ new[i].stage = lines[i].stage /\ new[i].id = lines[i].id)
                                \/ new[i].stage = n
        /\ Len(lines) \in Nat /\ Len(lines) <= Len(new) /\ Len(new) \in Nat
    BY <1>1, <1>2, <1>5, LinesAre
  <2> HIDE DEF lines, new
  <2>6. stage[m].id <= Len(new) + 1
    BY <1>1, <2>3, <2>5
  <2>7. \A i \in DOMAIN new : new[i].id < stage[m].id \/ Overlap(new[i].stage, m)
    BY <2>2, <2>3, <2>5
  <2> QED BY <2>6, <2>7 DEF new
<1>4. ASSUME HasId(t)
      PROVE  LET lines == log'[t.kind]["stage"] IN
             /\ t.id <= Len(lines) + 1
             /\ \A i \in DOMAIN lines : lines[i].id < t.id \/ Overlap(lines[i].stage, n)
  <2> DEFINE k == s.kind
             lines == log[k]["stage"]
  <2>1. /\ Follows(s, t) /\ s.pc \notin Logs
    BY <1>0, <1>4, Places DEF Goes, HasId, Follows, Breaks, Dies, Closes, Logs
  <2>2. log' = log
    BY <2>1 DEF Stepped, Writes, WritesNot
  <2>3. /\ \A i \in DOMAIN lines : lines[i].id <= i /\ lines[i].id \in Nat
                                   /\ lines[i].stage \in DOMAIN stage
        /\ DOMAIN lines = 1..Len(lines) /\ Len(lines) \in Nat
    <3>1. lines \in Seq(RowType)
      BY <1>0, <1>2
    <3>2. \A i \in DOMAIN lines : lines[i].id = stage[lines[i].stage].id /\ lines[i].id <= i
                                  /\ lines[i].stage \in DOMAIN stage
      BY <1>0, <1>2 DEF RowsOK, RowOK
    <3> QED BY <1>1, <3>1, <3>2, SMTT(60)
  <2>4. CASE t.id = NextStageId(k)
    <3>1. t.id = Len(lines) + 1
      BY <2>4 DEF NextStageId
    <3> HIDE DEF lines
    <3>2. \A i \in DOMAIN lines : lines[i].id < t.id
      BY <2>3, <3>1
    <3> QED BY <1>0, <2>2, <2>3, <3>1, <3>2 DEF lines
  <2>5. CASE HasId(s) /\ t.id = s.id
    <3>1. /\ s.id <= Len(lines) + 1
          /\ \A i \in DOMAIN lines : lines[i].id < s.id \/ Overlap(lines[i].stage, n)
      BY <2>5 DEF Numbered
    <3> QED BY <1>0, <2>2, <2>5, <3>1
  <2>6. HasId(s) \/ s.pc \in {"count", "number"}
    <3>1. t.pc = "stage" \/ (s.kind = "eval" /\ t.pc \in {"truncate", "write"})
      BY <1>0, <1>4 DEF HasId
    <3>2. CASE t.pc \in {"truncate", "write"}
      BY <2>1, <3>1, <3>2 DEF HasId, Follows, Closes
    <3>3. CASE t.pc = "stage"
      <4>1. s.pc \in {"count", "number"} \/ (s.pc = "write" /\ t.kind # "runtime")
        BY <2>1, <3>3 DEF Follows, Closes
      <4> QED BY <1>0, <4>1 DEF HasId, Kinds
    <3> QED BY <3>1, <3>2, <3>3
  <2>7. s.pc = "number" => t.pc = "stage"
    BY <2>1 DEF Follows, Closes
  <2>8. s.pc = "count" => s.kind = "eval" /\ t.pc # "crashed"
    BY <1>0, <1>4, <2>1 DEF HasId, Follows, Closes, Kinds
  <2>9. HasId(s) => t.id = s.id
    BY <1>0, Places DEF Goes, HasId
  <2>10. s.pc \in {"count", "number"} => t.id = NextStageId(k)
    BY <2>7, <2>8 DEF Stepped, Ids
  <2> QED BY <2>4, <2>5, <2>6, <2>9, <2>10
<1>6. ASSUME NEW m \in DOMAIN stage', HasId(stage'[m])
      PROVE  LET lines == log'[stage'[m].kind]["stage"] IN
             /\ stage'[m].id <= Len(lines) + 1
             /\ \A i \in DOMAIN lines : lines[i].id < stage'[m].id \/ Overlap(lines[i].stage, m)
  BY <1>0, <1>3, <1>4, <1>6
<1>7. \A m \in DOMAIN stage' : stage'[m].kind \in Kinds
  BY <1>0, <1>1
<1>8. \A k \in Kinds : \A i \in DOMAIN log'[k]["stage"] : log'[k]["stage"][i].stage \in DOMAIN stage
  BY <1>0, <1>2 DEF RowsOK, RowOK
<1>9. \A l, m \in DOMAIN stage : Overlap(l, m)' <=> Overlap(l, m)
  BY MovedBase
<1>10. ASSUME NEW m \in DOMAIN stage', HasId(stage[m])'
       PROVE  LET lines == log'[stage'[m].kind]["stage"] IN
              /\ stage'[m].id <= Len(lines) + 1
              /\ \A i \in DOMAIN lines :
                   \A x : x = lines[i].stage => lines[i].id < stage'[m].id \/ Overlap(x, m)'
  BY <1>0, <1>6, <1>7, <1>8, <1>9, <1>10 DEF HasId
<1> QED BY <1>10 DEF Numbered

LEMMA IncreaseMoved ==
  ASSUME Base, RowsOK, RowsOK', Numbered, IdsIncrease, NEW n \in DOMAIN stage, Stepped(n)
  PROVE  IdsIncrease'
<1>1. "stage" \in Logs /\ \A k \in Kinds : Len(log'[k]["stage"]) \in Nat
  BY MovedBase DEF Base, FilesTyped, Logs
<1>2. ASSUME NEW k \in Kinds, NEW i \in DOMAIN log'[k]["stage"], NEW j \in DOMAIN log'[k]["stage"],
             i < j, log'[k]["stage"][i].whole, log'[k]["stage"][j].whole
      PROVE  log'[k]["stage"][i].id < log'[k]["stage"][j].id
             \/ Overlap(log'[k]["stage"][i].stage, log'[k]["stage"][j].stage)
  <2> DEFINE old == log[k]["stage"]
             new == log'[k]["stage"]
  <2>1. /\ \A x \in DOMAIN old : /\ x \in DOMAIN new /\ new[x].stage = old[x].stage
                                 /\ new[x].id = old[x].id /\ new[x].whole = old[x].whole
        /\ \A x \in DOMAIN new :
             \/ x \in DOMAIN old
             \/ /\ k = stage[n].kind /\ stage[n].pc = "stage" /\ x = Len(old) + 1
                /\ new[x].stage = n /\ new[x].id = stage[n].id
        /\ DOMAIN old = 1..Len(old) /\ DOMAIN new = 1..Len(new)
        /\ Len(old) \in Nat /\ Len(old) <= Len(new) /\ Len(new) \in Nat
    BY <1>1, LinesAre
  <2>2. \A x, y \in DOMAIN old : x < y /\ old[x].whole /\ old[y].whole =>
          old[x].id < old[y].id \/ Overlap(old[x].stage, old[y].stage)
    BY DEF IdsIncrease
  <2>3. k = stage[n].kind /\ stage[n].pc = "stage" =>
          \A x \in DOMAIN old : old[x].id < stage[n].id \/ Overlap(old[x].stage, n)
    BY DEF Numbered, HasId
  <2>4. i \in DOMAIN new /\ j \in DOMAIN new /\ new[i].whole /\ new[j].whole
    BY <1>2
  <2> HIDE DEF old, new
  <2>5. CASE j \in DOMAIN old
    <3>1. i \in 1..Len(old)
      BY <1>2, <2>1, <2>4, <2>5
    <3>2. new[i].id < new[j].id \/ Overlap(new[i].stage, new[j].stage)
      BY <1>2, <2>1, <2>2, <2>4, <2>5, <3>1
    <3> QED BY <3>2 DEF new
  <2>6. CASE j \notin DOMAIN old
    <3>1. k = stage[n].kind /\ stage[n].pc = "stage" /\ j = Len(old) + 1
          /\ new[j].stage = n /\ new[j].id = stage[n].id
      BY <2>1, <2>4, <2>6
    <3>2. i \in DOMAIN old
      BY <1>2, <2>1, <2>4, <3>1
    <3>3. new[i].id < new[j].id \/ Overlap(new[i].stage, new[j].stage)
      BY <2>1, <2>3, <3>1, <3>2
    <3> QED BY <3>3 DEF new
  <2> QED BY <2>5, <2>6
<1>3. \A k \in Kinds : \A i \in DOMAIN log'[k]["stage"] : log'[k]["stage"][i].stage \in DOMAIN stage
  BY <1>1 DEF RowsOK, RowOK, Stepped, Moves
<1>4. \A l, m \in DOMAIN stage : Overlap(l, m)' <=> Overlap(l, m)
  BY MovedBase
<1>5. \A k \in Kinds : \A i, j \in DOMAIN log'[k]["stage"] :
        i < j /\ log'[k]["stage"][i].whole /\ log'[k]["stage"][j].whole =>
          \A x, y : x = log'[k]["stage"][i].stage /\ y = log'[k]["stage"][j].stage =>
            log'[k]["stage"][i].id < log'[k]["stage"][j].id \/ Overlap(x, y)'
  BY <1>2, <1>3, <1>4
<1> QED BY <1>5 DEF IdsIncrease

LEMMA IdsBegun ==
  ASSUME Base, IdsInv, NEW s, Begun(s)
  PROVE  IdsInv'
<1>0. /\ DOMAIN stage' = DOMAIN stage \union {Len(stage) + 1}
      /\ stage'[Len(stage) + 1] = s /\ s.pc = "load"
      /\ \A m \in DOMAIN stage : stage'[m] = stage[m]
      /\ \A l, m \in DOMAIN stage : Overlap(l, m)' <=> Overlap(l, m)
      /\ log' = log
  BY BegunBase DEF Begun
<1>1. \A k \in Kinds, l \in Logs : \A i \in DOMAIN log[k][l] : log[k][l][i].stage \in DOMAIN stage
  BY DEF IdsInv, RowsOK, RowOK
<1>2. "stage" \in Logs /\ \A m \in DOMAIN stage : stage[m].kind \in Kinds
  BY StageTyped DEF Logs, Base, FilesTyped
<1>3. RowsOK'
  BY <1>0, <1>1 DEF IdsInv, RowsOK, RowOK, Beyond
<1>4. Numbered'
  BY <1>0, <1>1, <1>2 DEF IdsInv, Numbered, HasId
<1>5. IdsIncrease'
  BY <1>0, <1>1, <1>2 DEF IdsInv, IdsIncrease
<1> QED BY <1>3, <1>4, <1>5 DEF IdsInv

-----------------------------------------------------------------------------
LEMMA BaseHolds == Spec => []Base
<1>1. Init => Base
  BY GameStageAssumption DEF Init, Base, FilesTyped, MetInOrder, OnCourse, Running, NoFile
<1>2. ASSUME Base, [Next]_vars PROVE Base'
  <2>1. CASE Moving
    BY <1>2, <2>1, MovedBase, BegunBase DEF Moving
  <2>2. CASE Stays
    BY <1>2, <2>2 DEF Stays, RegisterLate, Base, FilesTyped, MetInOrder, OnCourse, Running
  <2> QED BY <1>2, <2>1, <2>2, StepsOf DEF Base
<1> QED BY <1>1, <1>2, PTL DEF Spec

LEMMA IdsInvHolds == Spec => []IdsInv
<1>1. Init => IdsInv
  BY DEF Init, IdsInv, RowsOK, Numbered, IdsIncrease, Logs
<1>2. ASSUME Base, IdsInv, [Next]_vars PROVE IdsInv'
  <2>1. CASE Moving
    <3>1. ASSUME NEW n \in DOMAIN stage, Stepped(n) PROVE IdsInv'
      BY <1>2, <3>1, RowsMoved, NumberedMoved, IncreaseMoved DEF IdsInv
    <3> QED BY <1>2, <2>1, <3>1, IdsBegun DEF Moving
  <2>2. CASE Stays
    <3>1. UNCHANGED <<stage, log>>
      BY <2>2 DEF Stays
    <3>2. RowsOK'
      BY <1>2, <3>1 DEF IdsInv, RowsOK, RowOK
    <3>3. Numbered'
      BY <1>2, <3>1 DEF IdsInv, Numbered, Overlap
    <3>4. IdsIncrease'
      BY <1>2, <3>1 DEF IdsInv, IdsIncrease, Overlap
    <3> QED BY <3>2, <3>3, <3>4 DEF IdsInv
  <2> QED BY <1>2, <2>1, <2>2, StepsOf DEF Base
<1> QED BY <1>1, <1>2, BaseHolds, PTL DEF Spec

\* The id of a line of the stage log that can be read is larger than those before it,
\* unless its stage was running while the other one was (_next_stage_id, append_record).
THEOREM IdsAreIncreasing == Spec => []IdsIncrease
BY IdsInvHolds, PTL DEF IdsInv

\* A stage has one id in all logs of its kind, whatever lines were lost between.
THEOREM TracesAreAgreed == Spec => []TracesAgree
<1>1. IdsInv => TracesAgree
  <2>1. "stage" \in Logs
    BY DEF Logs
  <2> QED BY <2>1 DEF IdsInv, RowsOK, RowOK, TracesAgree
<1> QED BY <1>1, IdsInvHolds, PTL

-----------------------------------------------------------------------------
(* The population.                                                            *)

LEMMA MovedParts ==
  ASSUME Base, NEW n \in DOMAIN stage, Stepped(n)
  PROVE  /\ Goes(stage[n], stage'[n]) /\ n \in Running /\ stage[n].pc \in Steps
         /\ stage'[n].kind = stage[n].kind /\ stage[n].kind \in Kinds
         /\ DOMAIN stage' = DOMAIN stage /\ n \in Nat /\ n <= MaxStages
         /\ CourseOK(stage[n]) /\ CourseOK(stage'[n])
         /\ \A m \in DOMAIN stage : m # n => stage'[m] = stage[m]
         /\ population \in [Kinds -> Nat]
<1>1. Moves(n) /\ Base'
  BY MovedBase DEF Stepped
<1>2. /\ Goes(stage[n], stage'[n]) /\ n \in Running /\ stage[n].pc \in Steps
      /\ stage'[n].kind = stage[n].kind /\ DOMAIN stage' = DOMAIN stage
      /\ \A m \in DOMAIN stage : m # n => stage'[m] = stage[m]
  BY <1>1 DEF Moves, Goes, Running
<1>3. CourseOK(stage[n])
  BY DEF Base, OnCourse
<1>4. CourseOK(stage'[n])
  BY <1>1, <1>2 DEF Base, OnCourse, CourseOK
<1>5. stage \in Seq(StageType) /\ Len(stage) <= MaxStages /\ population \in [Kinds -> Nat]
  BY DEF Base, FilesTyped
<1>6. stage[n] \in StageType /\ n \in Nat /\ n <= MaxStages
  BY <1>5, GameStageAssumption
<1>7. stage[n].kind \in Kinds
  BY <1>6, StageTyped
<1> QED BY <1>2, <1>3, <1>4, <1>5, <1>6, <1>7

LEMMA RivalStays ==
  ASSUME NEW m \in DOMAIN stage, Rival(m), DOMAIN stage \subseteq DOMAIN stage',
         \A l \in DOMAIN stage : (Overlap(l, m)' <=> Overlap(l, m)) /\ stage'[l].kind = stage[l].kind
                                 /\ (stage[l].learns => stage'[l].learns)
  PROVE  Rival(m)'
<1>1. PICK l \in DOMAIN stage : /\ l # m /\ Overlap(l, m) /\ stage[l].kind = stage[m].kind
                                /\ stage[l].learns
  BY DEF Rival
<1>2. l \in DOMAIN stage' /\ Overlap(l, m)' /\ stage'[l].kind = stage'[m].kind /\ stage'[l].learns
  BY <1>1
<1> QED BY <1>1, <1>2 DEF Rival

LEMMA PopulationMoved ==
  ASSUME Base, PopulationInv, NEW n \in DOMAIN stage, Stepped(n)
  PROVE  PopulationInv'
<1> DEFINE s == stage[n]
           t == stage'[n]
           k == s.kind
<1>0. /\ Goes(s, t) /\ n \in Running /\ s.pc \in Steps /\ t.kind = s.kind /\ s.kind \in Kinds
      /\ DOMAIN stage' = DOMAIN stage /\ n \in Nat /\ n <= MaxStages /\ CourseOK(s) /\ CourseOK(t)
      /\ \A m \in DOMAIN stage : m # n => stage'[m] = stage[m]
      /\ population \in [Kinds -> Nat]
  BY MovedParts
<1>1. \A m \in DOMAIN stage :
        /\ stage[m].kind \in Kinds /\ stage'[m].kind = stage[m].kind
        /\ stage[m].learns => stage'[m].learns
        /\ Rival(m) => Rival(m)'
  <2>1. \A m \in DOMAIN stage : stage[m].kind \in Kinds
    BY StageTyped DEF Base, FilesTyped
  <2> QED BY <1>0, <2>1, MovedBase, RivalStays
<1>2. \/ population' = population /\ SavesNot(n)
      \/ \E content \in Nat : /\ Saves(n, content) /\ population'[k] = content
                              /\ \A x \in Kinds : x # k => population'[x] = population[x]
  BY <1>0 DEF Stepped, Saves, SavesNot
\* Whoever is behind in saving has a rival now.
<1>3. ASSUME NEW m \in DOMAIN stage, m # n, stage[m].pc \in Steps,
             population'[stage[m].kind] # population[stage[m].kind]
      PROVE  Rival(m)'
  <2>1. k = stage[m].kind /\ s.learns
    BY <1>0, <1>1, <1>2, <1>3 DEF Saves, CourseOK
  <2>2. Overlap(n, m)
    BY <1>3, MovedBase DEF Running
  <2>3. Rival(m)
    BY <1>3, <2>1, <2>2 DEF Rival
  <2> QED BY <1>1, <2>3
<1>4. BasisStays'
  <2>1. ASSUME NEW m \in DOMAIN stage, WillLearn(stage'[m])
        PROVE  population'[stage'[m].kind] = stage'[m].basis \/ Rival(m)'
    <3>1. CASE m # n
      <4>1. stage'[m] = stage[m] /\ stage[m].pc \in Steps
        BY <1>0, <2>1, <3>1, Places DEF WillLearn
      <4>2. population[stage[m].kind] = stage[m].basis \/ Rival(m)
        BY <2>1, <4>1 DEF PopulationInv, BasisStays
      <4> QED BY <1>1, <1>3, <3>1, <4>1, <4>2
    <3>2. CASE m = n
      <4>1. t.pc \in {"truncate", "defend", "count"} /\ Follows(s, t)
        BY <1>0, <2>1, <3>2 DEF WillLearn, Goes, Breaks, Dies
      <4>2. s.pc \in {"load", "defend", "count"}
        BY <4>1 DEF Follows, Closes
      <4>3. population' = population
        BY <1>2, <4>2 DEF Saves
      <4>4. CASE s.pc = "load"
        <5>1. t.pc = "defend"
          BY <4>1, <4>4 DEF Follows
        <5>2. t.kind = "eval" \/ t.attack
          BY <2>1, <3>2, <5>1 DEF WillLearn
        <5> QED BY <1>0, <3>2, <4>3, <4>4, <5>1, <5>2 DEF Stepped, TakesBasis
      <4>5. CASE s.pc \in {"defend", "count"}
        <5>1. WillLearn(s) /\ t.basis = s.basis
          <6>1. CASE s.pc = "defend"
            <7>1. t.pc = "count"
              BY <4>1, <6>1 DEF Follows
            <7>2. t.basis = s.basis /\ t.attack = s.attack
              BY <1>0, <7>1 DEF Goes
            <7>3. t.kind = "eval" \/ t.attack
              BY <2>1, <3>2, <7>1 DEF WillLearn
            <7> QED BY <1>0, <6>1, <7>2, <7>3 DEF WillLearn
          <6>2. CASE s.pc = "count"
            <7>1. t.pc = "truncate"
              BY <4>1, <6>2 DEF Follows, Closes
            <7> QED BY <1>0, <6>2, <7>1 DEF Goes, WillLearn
          <6> QED BY <4>5, <6>1, <6>2
        <5>2. population[s.kind] = s.basis \/ Rival(n)
          BY <5>1 DEF PopulationInv, BasisStays
        <5> QED BY <1>0, <1>1, <3>2, <4>3, <5>1, <5>2
      <4> QED BY <4>2, <4>4, <4>5
    <3> QED BY <3>1, <3>2
  <2> QED BY <1>0, <2>1 DEF BasisStays, WillLearn
<1>5. EmptyStays'
  <2>1. ASSUME NEW m \in DOMAIN stage, stage'[m].pc = "write"
        PROVE  population'[stage'[m].kind] = Empty \/ Rival(m)'
    <3>1. CASE m # n
      <4>1. stage'[m] = stage[m] /\ stage[m].pc \in Steps
        BY <1>0, <2>1, <3>1, Places
      <4>2. population[stage[m].kind] = Empty \/ Rival(m)
        BY <2>1, <4>1 DEF PopulationInv, EmptyStays
      <4> QED BY <1>1, <1>3, <3>1, <4>1, <4>2
    <3>2. CASE m = n
      <4>1. s.pc = "truncate"
        BY <1>0, <2>1, <3>2 DEF Goes, Follows, Closes, Breaks, Dies
      <4> QED BY <1>0, <1>2, <2>1, <3>2, <4>1 DEF Saves, SavesNot
    <3> QED BY <3>1, <3>2
  <2> QED BY <1>0, <2>1 DEF EmptyStays, Empty
<1>6. PopulationReadable'
  <2> DEFINE Witness(x, i) ==
        /\ stage'[i].kind = x /\ stage'[i].learns
        /\ \/ stage'[i].pc = "write" \/ stage'[i].reached = "write"
           \/ \E m \in DOMAIN stage : m # i /\ Overlap(m, i) /\ stage'[m].learns
  <2>1. ASSUME NEW x \in Kinds, population'[x] \in Unreadable
        PROVE  \E i \in DOMAIN stage : Witness(x, i)
    <3>1. CASE population'[x] = population[x] /\ (x # k \/ SavesNot(n))
      <4>1. PICK i \in DOMAIN stage :
              /\ stage[i].kind = x /\ stage[i].learns
              /\ \/ stage[i].pc = "write" \/ stage[i].reached = "write"
                 \/ \E m \in DOMAIN stage : m # i /\ Overlap(m, i) /\ stage[m].learns
        BY <2>1, <3>1 DEF PopulationInv, PopulationReadable
      <4>2. stage'[i].kind = x /\ stage'[i].learns
        BY <1>1, <4>1
      <4>3. CASE i # n
        BY <1>0, <1>1, <4>1, <4>2, <4>3
      <4>4. CASE i = n
        <5>1. SavesNot(n) /\ s.reached = "none"
          BY <1>0, <3>1, <4>1, <4>4, PcsDiffer DEF CourseOK, Ends
        <5>2. s.pc = "write" => t.reached = "write"
          BY <1>0, <5>1 DEF SavesNot, Goes, Follows, Closes, Breaks, Dies
        <5> QED BY <1>1, <4>1, <4>2, <4>4, <5>1, <5>2
      <4> QED BY <4>3, <4>4
    <3>2. CASE x = k /\ \E content \in Nat : Saves(n, content) /\ population'[k] = content
      <4>1. PICK content \in Nat : Saves(n, content) /\ population'[k] = content
        BY <3>2
      <4>2. t.learns
        BY <1>0, <1>1, <4>1 DEF Saves, CourseOK
      <4>3. CASE s.pc = "truncate"
        <5>1. t.pc = "write"
          BY <1>0, <4>1, <4>3 DEF Saves, Goes, Follows, Breaks, Dies
        <5> QED BY <1>0, <3>2, <4>2, <5>1
      <4>4. CASE s.pc = "write"
        <5>1. content # n
          BY <1>0, <2>1, <3>2, <4>1, GameStageAssumption DEF Unreadable, Empty, Mixed
        <5>2. population[k] # Empty
          BY <4>1, <4>4, <5>1 DEF Saves
        <5>3. Rival(n)
          BY <1>0, <4>4, <5>2 DEF PopulationInv, EmptyStays
        <5>4. \E m \in DOMAIN stage : m # n /\ Overlap(m, n) /\ stage'[m].learns
          BY <1>1, <5>3 DEF Rival
        <5> QED BY <1>0, <3>2, <4>2, <5>4
      <4> QED BY <4>1, <4>3, <4>4 DEF Saves
    <3> QED BY <1>2, <2>1, <3>1, <3>2
  <2>2. \A i \in DOMAIN stage, m \in DOMAIN stage : Overlap(m, i)' <=> Overlap(m, i)
    BY MovedBase
  <2>3. \A x \in Kinds : population'[x] \in Unreadable =>
          \E i \in DOMAIN stage' :
            /\ stage'[i].kind = x /\ stage'[i].learns
            /\ \/ stage'[i].pc = "write" \/ stage'[i].reached = "write"
               \/ \E m \in DOMAIN stage' : m # i /\ Overlap(m, i)' /\ stage'[m].learns
    BY <1>0, <2>1, <2>2
  <2> QED BY <2>3 DEF PopulationReadable, Unreadable, Empty, Mixed
<1> QED BY <1>4, <1>5, <1>6 DEF PopulationInv

LEMMA PopulationBegun ==
  ASSUME Base, PopulationInv, NEW s, Begun(s)
  PROVE  PopulationInv'
<1>0. /\ DOMAIN stage' = DOMAIN stage \union {Len(stage) + 1}
      /\ stage'[Len(stage) + 1] = s /\ s.pc = "load"
      /\ \A m \in DOMAIN stage : stage'[m] = stage[m]
      /\ \A l, m \in DOMAIN stage : Overlap(l, m)' <=> Overlap(l, m)
      /\ population' = population
  BY BegunBase DEF Begun
<1>1. \A m \in DOMAIN stage : Rival(m) => Rival(m)'
  BY <1>0, RivalStays
<1>2. BasisStays'
  BY <1>0, <1>1 DEF PopulationInv, BasisStays, WillLearn
<1>3. EmptyStays'
  BY <1>0, <1>1 DEF PopulationInv, EmptyStays, Empty
<1>4. PopulationReadable'
  BY <1>0 DEF PopulationInv, PopulationReadable, Unreadable, Empty, Mixed
<1> QED BY <1>2, <1>3, <1>4 DEF PopulationInv

LEMMA PopulationInvHolds == Spec => []PopulationInv
<1>1. Init => PopulationInv
  BY GameStageAssumption DEF Init, PopulationInv, BasisStays, EmptyStays, PopulationReadable,
     Unreadable, Empty, Mixed, NoFile
<1>2. ASSUME Base, PopulationInv, [Next]_vars PROVE PopulationInv'
  <2>1. CASE Moving
    BY <1>2, <2>1, PopulationMoved, PopulationBegun DEF Moving
  <2>2. CASE Stays
    BY <1>2, <2>2 DEF Stays, PopulationInv, BasisStays, EmptyStays, PopulationReadable, Rival,
       WillLearn, Overlap, Unreadable, Empty, Mixed
  <2> QED BY <1>2, <2>1, <2>2, StepsOf DEF Base
<1> QED BY <1>1, <1>2, BaseHolds, PTL DEF Spec

\* What a stage is about to overwrite is what it learned from, unless another stage
\* that learned ran at the same time (load_population, save_population).
THEOREM LearningIsKept == Spec => []NothingUnlearned
<1>1. PopulationInv => NothingUnlearned
  BY DEF PopulationInv, BasisStays, WillLearn, Rival, NothingUnlearned
<1> QED BY <1>1, PopulationInvHolds, PTL

\* The population file fails to load only while a stage writes it, or after one was
\* killed doing so or two wrote it at once.
THEOREM PopulationIsReadable == Spec => []PopulationReadable
BY PopulationInvHolds, PTL DEF PopulationInv


-----------------------------------------------------------------------------
(* The policies in force.                                                     *)

LEMMA PoliciesMoved ==
  ASSUME Base, PoliciesInv, NEW n \in DOMAIN stage, Stepped(n)
  PROVE  PoliciesInv'
<1> DEFINE s == stage[n]
           t == stage'[n]
<1>0. /\ Goes(s, t) /\ n \in Running /\ s.pc \in Steps
      /\ DOMAIN stage' = DOMAIN stage /\ CourseOK(s) /\ CourseOK(t)
      /\ \A m \in DOMAIN stage : m # n => stage'[m] = stage[m]
  BY MovedParts
<1>1. /\ inForce \subseteq DOMAIN stage /\ inForce' \subseteq inForce \union {n}
      /\ underWay \subseteq DOMAIN stage /\ underWay' \subseteq underWay \union {n}
  BY DEF Base, FilesTyped, Stepped, Enforces
<1>2. ASSUME NEW m \in underWay' PROVE ~stage'[m].executed /\ stage'[m].pc \notin {"load", "defend"}
  <2>1. CASE m # n
    BY <1>0, <1>1, <1>2, <2>1 DEF PoliciesInv
  <2>2. CASE m = n /\ n \in underWay
    <3>1. ~s.executed /\ s.pc \notin {"load", "defend"}
      BY <2>2 DEF PoliciesInv
    <3>2. ~t.executed
      BY <1>0, <3>1 DEF Goes
    <3>3. t.pc \notin {"load", "defend"}
      BY <1>0, <3>1 DEF Goes, Follows, Breaks, Dies, Closes
    <3> QED BY <2>2, <3>2, <3>3
  <2>3. CASE m = n /\ n \notin underWay
    <3>1. s.pc = "defend" /\ t.pc # "crashed" /\ ~t.executed
      BY <1>2, <2>3 DEF Stepped, Enforces
    <3>2. t.pc \notin {"load", "defend"}
      BY <1>0, <3>1 DEF Goes, Follows, Breaks, Dies, Closes
    <3> QED BY <2>3, <3>1, <3>2
  <2> QED BY <2>1, <2>2, <2>3
<1>3. ASSUME NEW m \in inForce' \union underWay' PROVE ~stage'[m].cleared
  <2>1. CASE m # n
    BY <1>0, <1>1, <1>3, <2>1 DEF PoliciesInv
  <2>2. CASE m = n
    <3>1. ~s.cleared
      BY <1>0, PcsDiffer DEF CourseOK, Ends
    <3>2. n \in inForce' => ~t.cleared
      BY <3>1 DEF Stepped, Enforces
    <3>3. ASSUME n \in underWay', t.cleared PROVE FALSE
      <4>1. s.pc = "reset" /\ s.executed
        BY <1>0, <3>1, <3>3 DEF Goes, CourseOK
      <4>2. n \in underWay
        BY <3>3, <4>1 DEF Stepped, Enforces
      <4> QED BY <4>1, <4>2 DEF PoliciesInv
    <3> QED BY <1>3, <2>2, <3>2, <3>3
  <2> QED BY <2>1, <2>2
<1>4. ASSUME NEW p \in DOMAIN stage, stage'[p].pc \in Early
      PROVE  /\ \A m \in inForce' \ {p} :
                  Overlap(m, p) \/ stage'[p].reset \in {"failed", "none"} \/ m \in stage'[p].strays
             /\ \A m \in underWay' \ {p} : Overlap(m, p) \/ m \in stage'[p].strays
  <2>1. CASE p # n
    <3>1. stage'[p] = stage[p] /\ p \in Running
      BY <1>0, <1>4, <2>1, Places DEF Running, Early
    <3>2. Overlap(n, p)
      BY <2>1, <3>1, MovedBase
    <3>3. stage[p].pc \in Early
      BY <1>4, <3>1
    <3> QED BY <1>1, <3>1, <3>2, <3>3 DEF PoliciesInv
  <2>2. CASE p = n
    <3>1. Follows(s, t) /\ t.pc \in {"defend", "count"}
      <4>1. Follows(s, t)
        BY <1>0, <1>4, <2>2 DEF Goes, Breaks, Dies, Early
      <4> QED BY <1>4, <2>2, <4>1 DEF Follows, Closes, Early
    <3>2. s.pc \in Early /\ t.reset = s.reset /\ t.strays = s.strays
      BY <1>0, <3>1 DEF Goes, Follows, Closes, Early
    <3> QED BY <1>1, <2>2, <3>2 DEF PoliciesInv
  <2> QED BY <2>1, <2>2
<1>5. \A p \in DOMAIN stage', m \in inForce' \union underWay' : Overlap(m, p)' <=> Overlap(m, p)
  BY <1>0, <1>1, MovedBase
<1> QED BY <1>0, <1>2, <1>3, <1>4, <1>5 DEF PoliciesInv

LEMMA PoliciesBegun ==
  ASSUME Base, PoliciesInv, NEW s, Begun(s)
  PROVE  PoliciesInv'
<1> DEFINE new == Len(stage) + 1
<1>0. /\ DOMAIN stage' = DOMAIN stage \union {new} /\ new \notin DOMAIN stage
      /\ stage'[new] = s /\ \A m \in DOMAIN stage : stage'[m] = stage[m]
      /\ \A l, m \in DOMAIN stage : Overlap(l, m)' <=> Overlap(l, m)
  BY BegunBase
<1> HIDE DEF new
<1>1. /\ inForce \subseteq DOMAIN stage /\ inForce' \subseteq inForce
      /\ s.reset = "done" => inForce' = {}
      /\ underWay \subseteq DOMAIN stage /\ underWay' = underWay /\ s.strays = underWay
  BY DEF Begun, Base, FilesTyped
<1>2. s.reset \in {"done", "failed", "none"}
  BY DEF Begun, StageType
<1>3. \A m \in inForce' \union underWay' : ~stage'[m].cleared
  BY <1>0, <1>1 DEF PoliciesInv
<1>4. \A m \in underWay' : ~stage'[m].executed /\ stage'[m].pc \notin {"load", "defend"}
  BY <1>0, <1>1 DEF PoliciesInv
<1>5. ASSUME NEW p \in DOMAIN stage', stage'[p].pc \in Early
      PROVE  /\ \A m \in inForce' \ {p} :
                  Overlap(m, p)' \/ stage'[p].reset \in {"failed", "none"} \/ m \in stage'[p].strays
             /\ \A m \in underWay' \ {p} : Overlap(m, p)' \/ m \in stage'[p].strays
  <2>1. CASE p = new
    BY <1>0, <1>1, <1>2, <2>1
  <2>2. CASE p # new
    <3>1. p \in DOMAIN stage /\ stage'[p] = stage[p] /\ stage[p].pc \in Early
      BY <1>0, <1>5, <2>2
    <3>2. \A m \in inForce' \union underWay' : m \in DOMAIN stage
      BY <1>1
    <3> QED BY <1>0, <1>1, <3>1, <3>2 DEF PoliciesInv
  <2> QED BY <2>1, <2>2
<1> QED BY <1>3, <1>4, <1>5 DEF PoliciesInv

\* An install that is registered late was under way before.
LEMMA PoliciesStay ==
  ASSUME Base, PoliciesInv, Stays
  PROVE  PoliciesInv'
<1>1. /\ stage' = stage /\ underWay' \subseteq underWay
      /\ inForce' \subseteq inForce \union underWay
  BY DEF Stays, RegisterLate
<1>2. \A p, m : Overlap(m, p)' <=> Overlap(m, p)
  BY <1>1 DEF Overlap
<1>3. ASSUME NEW p \in DOMAIN stage, stage[p].pc \in Early
      PROVE  /\ \A m \in inForce' \ {p} :
                  Overlap(m, p) \/ stage[p].reset \in {"failed", "none"} \/ m \in stage[p].strays
             /\ \A m \in underWay' \ {p} : Overlap(m, p) \/ m \in stage[p].strays
  BY <1>1, <1>3 DEF PoliciesInv
<1>4. /\ \A m \in inForce' \union underWay' : ~stage[m].cleared
      /\ \A m \in underWay' : ~stage[m].executed /\ stage[m].pc \notin {"load", "defend"}
  BY <1>1 DEF PoliciesInv
<1> QED BY <1>1, <1>2, <1>3, <1>4 DEF PoliciesInv

LEMMA PoliciesInvHolds == Spec => []PoliciesInv
<1>1. Init => PoliciesInv
  BY DEF Init, PoliciesInv
<1>2. ASSUME Base, PoliciesInv, [Next]_vars PROVE PoliciesInv'
  <2>1. CASE Moving
    BY <1>2, <2>1, PoliciesMoved, PoliciesBegun DEF Moving
  <2>2. CASE Stays
    BY <1>2, <2>2, PoliciesStay
  <2> QED BY <1>2, <2>1, <2>2, StepsOf DEF Base
<1> QED BY <1>1, <1>2, BaseHolds, PTL DEF Spec

\* A stage observes another one's policy only if the two ran together, its reset failed,
\* it made none and the other stage did not clear its policy, or the other stage had
\* given up an install that was still under way at the reset (stage_teardown, do_action).
THEOREM DefenceIsOwn == Spec => []OwnDefence
<1>1. Base /\ PoliciesInv => OwnDefence
  BY DEF Base, FilesTyped, PoliciesInv, OwnDefence, Early
<1> QED BY <1>1, BaseHolds, PoliciesInvHolds, PTL


-----------------------------------------------------------------------------
(* What is lost of the logs.                                                  *)

LEMMA AtMostOneMore ==
  ASSUME NEW S, IsFiniteSet(S), NEW x, NEW T, T \subseteq S \union {x}
  PROVE  IsFiniteSet(T) /\ Cardinality(T) \in Nat /\ Cardinality(S) \in Nat
         /\ Cardinality(T) <= Cardinality(S) + 1
<1>1. IsFiniteSet(S \union {x}) /\ Cardinality(S \union {x}) <= Cardinality(S) + 1
      /\ Cardinality(S) \in Nat /\ Cardinality(S \union {x}) \in Nat
  BY FS_AddElement, FS_CardinalityType
<1>2. IsFiniteSet(T) /\ Cardinality(T) <= Cardinality(S \union {x}) /\ Cardinality(T) \in Nat
  BY <1>1, FS_Subset, FS_CardinalityType
<1> QED BY <1>1, <1>2

LEMMA StagesFinite ==
  ASSUME Base
  PROVE  \A S \in SUBSET (DOMAIN stage) : IsFiniteSet(S) /\ Cardinality(S) \in Nat
<1>1. DOMAIN stage = 1..Len(stage) /\ Len(stage) \in Nat
  BY DEF Base, FilesTyped
<1>2. IsFiniteSet(DOMAIN stage)
  BY <1>1, FS_Interval
<1> QED BY <1>2, FS_Subset, FS_CardinalityType

LEMMA LossAreStages ==
  \A k, l : Lost(k, l) \subseteq DOMAIN stage /\ Cut(k, l) \subseteq DOMAIN stage
BY DEF Lost, Cut, Crashed

\* Only with its line a stage comes past a log.
LEMMA PassesWriting ==
  ASSUME Base, NEW n \in DOMAIN stage, Stepped(n), NEW l \in Logs,
         l = "summary" => stage[n].kind = "eval",
         stage'[n].logs, stage'[n].pc \in Beyond(l), stage[n].pc \notin Beyond(l)
  PROVE  stage[n].pc = l
<1> DEFINE s == stage[n]
           t == stage'[n]
<1>0. Goes(s, t) /\ t.kind = s.kind /\ CourseOK(s) /\ s.pc \in Steps /\ s.kind \in Kinds
  BY MovedParts
<1>1. l \in {"stage", "trace", "summary"} /\ t.pc \in {"reset", "done", "trace", "summary"}
  BY PcsDiffer, Beyonds
<1>2. Follows(s, t)
  BY <1>0, <1>1 DEF Goes, Breaks, Dies
<1>3. \/ s.pc = "stage" /\ t.pc = "trace"
      \/ s.pc = "trace" /\ t.kind = "eval" /\ t.pc = "summary"
      \/ s.pc = "trace" /\ t.kind = "runtime"
      \/ s.pc = "summary"
      \/ s.pc = "reset"
  <2>1. t.pc \notin {"defend", "count", "truncate", "write", "number", "stage"}
    BY <1>1
  <2> QED BY <1>0, <1>2, <2>1 DEF Follows, Closes
<1>4. CASE l = "stage"
  BY <1>3, <1>4, Beyonds
<1>5. CASE l = "trace"
  BY <1>3, <1>5, Beyonds
<1>6. CASE l = "summary"
  BY <1>0, <1>3, <1>6, Beyonds
<1> QED BY <1>1, <1>4, <1>5, <1>6

LEMMA OpenIs ==
  ASSUME NEW lines
  PROVE  Open(lines) = IF Continues(lines) THEN 1 ELSE 0
BY DEF Open, Continues

LEMMA LossMoved ==
  ASSUME Base, LossInv, NEW n \in DOMAIN stage, Stepped(n), NEW k \in Kinds, NEW l \in Logs
  PROVE  Cardinality(Lost(k, l)') + Open(log'[k][l]) <= Cardinality(Cut(k, l)')
<1> DEFINE s == stage[n]
           t == stage'[n]
           old == log[k][l]
           new == log'[k][l]
<1>0. /\ Goes(s, t) /\ n \in Running /\ s.pc \in Steps /\ t.kind = s.kind
      /\ DOMAIN stage' = DOMAIN stage /\ CourseOK(s) /\ CourseOK(t)
      /\ \A m \in DOMAIN stage : m # n => stage'[m] = stage[m]
  BY MovedParts
<1>1. Readable(k, l) \subseteq Readable(k, l)'
  <2>1. \A i \in DOMAIN old : i \in DOMAIN new /\ new[i].stage = old[i].stage /\ new[i].whole = old[i].whole
    BY LinesAre
  <2> QED BY <2>1 DEF Readable
<1>2. \A m \in Lost(k, l)' : m # n => m \in Lost(k, l)
  BY <1>0, <1>1 DEF Lost
<1>3. Cut(k, l) \subseteq Cut(k, l)' /\ n \notin Cut(k, l)
  <2>1. \A m \in Crashed : m # n
    BY <1>0, PcsDiffer DEF Crashed, Ends
  <2> QED BY <1>0, <2>1 DEF Cut, Crashed
<1>4. /\ IsFiniteSet(Lost(k, l)) /\ IsFiniteSet(Lost(k, l)')
      /\ IsFiniteSet(Cut(k, l)) /\ IsFiniteSet(Cut(k, l)')
      /\ Cardinality(Lost(k, l)) \in Nat /\ Cardinality(Lost(k, l)') \in Nat
      /\ Cardinality(Cut(k, l)) \in Nat /\ Cardinality(Cut(k, l)') \in Nat
  <2>1. Lost(k, l)' \subseteq DOMAIN stage /\ Cut(k, l)' \subseteq DOMAIN stage
    BY <1>0 DEF Lost, Cut, Crashed
  <2> QED BY <2>1, LossAreStages, StagesFinite
<1>5. Cardinality(Lost(k, l)) + Open(old) <= Cardinality(Cut(k, l))
  BY DEF LossInv
<1>6. Cardinality(Cut(k, l)) <= Cardinality(Cut(k, l)')
  BY <1>3, <1>4, FS_Subset
<1>7. ASSUME n \notin Lost(k, l)' \ Lost(k, l)
      PROVE  Cardinality(Lost(k, l)') <= Cardinality(Lost(k, l))
  <2>1. Lost(k, l)' \subseteq Lost(k, l)
    BY <1>2, <1>7
  <2> QED BY <1>4, <2>1, FS_Subset
<1>8. old \in Seq(RowType)
  BY DEF Base, FilesTyped
<1>9. CASE new = old /\ (k = s.kind /\ l = s.pc => t.pc = "crashed")
  <2>1. ASSUME n \in Lost(k, l)', n \notin Lost(k, l) PROVE FALSE
    <3>1. /\ t.kind = k /\ t.logs /\ (l = "summary" => k = "eval") /\ t.pc \in Beyond(l)
          /\ n \notin Readable(k, l)
      BY <1>1, <2>1 DEF Lost
    <3>2. s.pc \in Beyond(l) => s.logs
      <4>1. s.pc \in Beyond(l) => s.pc # "count"
        BY PcsDiffer, Beyonds
      <4> QED BY <1>0, <3>1, <4>1 DEF Goes
    <3>3. s.pc \notin Beyond(l)
      BY <1>0, <2>1, <3>1, <3>2 DEF Lost
    <3>4. s.pc = l
      BY <1>0, <3>1, <3>3, PassesWriting
    <3>5. t.pc = "crashed"
      BY <1>0, <1>9, <3>1, <3>4
    <3> QED BY <3>1, <3>5, PcsDiffer, Beyonds
  <2>2. Cardinality(Lost(k, l)') <= Cardinality(Lost(k, l))
    BY <1>7, <2>1
  <2>3. Open(new) = Open(old) /\ Open(old) \in Nat
    BY <1>9, OpenIs
  <2> QED BY <1>4, <1>5, <1>6, <2>2, <2>3
<1>10. CASE ~(new = old /\ (k = s.kind /\ l = s.pc => t.pc = "crashed"))
  <2>1. PICK row : Writes(n, row)
    BY <1>10 DEF Stepped, WritesNot
  <2>2. /\ k = s.kind /\ l = s.pc /\ new = Appended(old, row) /\ row \in RowType
        /\ row.stage = n /\ (row.whole <=> row.ended) /\ (row.whole <=> t.pc # "crashed")
    BY <1>0, <1>10, <2>1 DEF Writes, LineOf
  <2>3. /\ Continues(new) <=> ~row.ended
        /\ ~Continues(old) => Len(new) = Len(old) + 1 /\ new[Len(new)] = row
        /\ new \in Seq(RowType)
    <3>1. /\ old \in Seq(RowType) /\ row \in RowType /\ new = Appended(old, row)
      BY <1>8, <2>2
    <3> HIDE DEF old, new
    <3> QED BY <3>1, AppendedIs
  <2>4. CASE t.pc = "crashed"
    <3>1. n \in Cut(k, l)'
      <4>1. t.reached = l
        BY <1>0, <2>2, <2>4 DEF Goes, Follows, Closes, Breaks, Dies
      <4> QED BY <1>0, <2>2, <2>4, <4>1 DEF Cut, Crashed
    <3>2. Cardinality(Cut(k, l)) + 1 <= Cardinality(Cut(k, l)')
      <4>1. Cardinality(Cut(k, l) \union {n}) = Cardinality(Cut(k, l)) + 1
        BY <1>3, <1>4, FS_AddElement
      <4>2. Cut(k, l) \union {n} \subseteq Cut(k, l)'
        BY <1>3, <3>1
      <4> QED BY <1>4, <4>1, <4>2, FS_Subset
    <3>3. n \notin Lost(k, l)'
      BY <2>4, PcsDiffer, Beyonds DEF Lost
    <3>4. Open(new) = 1 /\ Open(old) \in Nat
      BY <2>2, <2>3, <2>4, OpenIs
    <3> QED BY <1>4, <1>5, <1>7, <3>2, <3>3, <3>4
  <2>5. CASE t.pc # "crashed" /\ ~Continues(old)
    <3>1. n \in Readable(k, l)'
      <4>1. Len(new) \in DOMAIN new /\ new[Len(new)].whole /\ new[Len(new)].stage = n
        <5>1. Len(old) \in Nat /\ Len(new) = Len(old) + 1 /\ DOMAIN new = 1..Len(new)
          BY <1>8, <2>3, <2>5
        <5>2. Len(new) \in 1..Len(new)
          BY <5>1
        <5> QED BY <2>2, <2>3, <2>5, <5>1, <5>2
      <4> QED BY <4>1 DEF Readable
    <3>2. n \notin Lost(k, l)'
      BY <3>1 DEF Lost
    <3>3. Open(new) = 0 /\ Open(old) = 0
      BY <2>2, <2>3, <2>5, OpenIs
    <3> QED BY <1>4, <1>5, <1>6, <1>7, <3>2, <3>3
  <2>6. CASE t.pc # "crashed" /\ Continues(old)
    <3>1. Lost(k, l)' \subseteq Lost(k, l) \union {n}
      BY <1>2
    <3>2. Cardinality(Lost(k, l)') <= Cardinality(Lost(k, l)) + 1
      BY <1>4, <3>1, AtMostOneMore
    <3>3. Open(new) = 0 /\ Open(old) = 1
      BY <2>2, <2>3, <2>6, OpenIs
    <3> QED BY <1>4, <1>5, <1>6, <3>2, <3>3
  <2> QED BY <2>4, <2>5, <2>6
<1> QED BY <1>9, <1>10

LEMMA LossBegun ==
  ASSUME Base, LossInv, NEW s, Begun(s)
  PROVE  LossInv'
<1>0. /\ DOMAIN stage' = DOMAIN stage \union {Len(stage) + 1}
      /\ stage'[Len(stage) + 1] = s /\ s.pc = "load"
      /\ \A m \in DOMAIN stage : stage'[m] = stage[m]
      /\ log' = log
  BY BegunBase DEF Begun
<1>1. ASSUME NEW k \in Kinds, NEW l \in Logs
      PROVE  Lost(k, l)' = Lost(k, l) /\ Cut(k, l)' = Cut(k, l)
  <2>1. Readable(k, l)' = Readable(k, l)
    BY <1>0 DEF Readable
  <2>2. s.pc \notin Beyond(l)
    BY <1>0, PcsDiffer, Beyonds
  <2> QED BY <1>0, <2>1, <2>2 DEF Lost, Cut, Crashed
<1> QED BY <1>0, <1>1 DEF LossInv

LEMMA LossInvHolds == Spec => []LossInv
<1>1. Init => LossInv
  <2>1. ASSUME Init, NEW k \in Kinds, NEW l \in Logs
        PROVE  Lost(k, l) = {} /\ Cut(k, l) = {} /\ Open(log[k][l]) = 0
    BY <2>1 DEF Init, Lost, Cut, Crashed, Open
  <2> QED BY <2>1, FS_EmptySet DEF LossInv
<1>2. ASSUME Base, LossInv, [Next]_vars PROVE LossInv'
  <2>1. CASE Moving
    <3>1. ASSUME NEW n \in DOMAIN stage, Stepped(n) PROVE LossInv'
      BY <1>2, <3>1, LossMoved DEF LossInv
    <3> QED BY <1>2, <2>1, <3>1, LossBegun DEF Moving
  <2>2. CASE Stays
    BY <1>2, <2>2 DEF Stays, LossInv, Lost, Cut, Crashed, Readable
  <2> QED BY <1>2, <2>1, <2>2, StepsOf DEF Base
<1> QED BY <1>1, <1>2, BaseHolds, PTL DEF Spec

\* A log lacks no more of the stages that came to their end than were killed while they
\* wrote to it: half a line costs one other stage (append_record, _append_line).
THEOREM LossesAreBounded == Spec => []LossIsBounded
<1>1. ASSUME Base, LossInv, NEW k \in Kinds, NEW l \in Logs
      PROVE  Cardinality(Owed(k, l) \ Readable(k, l)) <=
               Cardinality({n \in Crashed : stage[n].kind = k /\ stage[n].reached = l})
  <2>1. Owed(k, l) \ Readable(k, l) \subseteq Lost(k, l)
    <3>1. \A n \in DOMAIN stage : stage[n].learns => stage[n].logs
      BY <1>1 DEF Base, OnCourse, CourseOK
    <3>2. "done" \in Beyond(l)
      BY DEF Beyond
    <3> QED BY <3>1, <3>2 DEF Owed, Lost
  <2>2. /\ IsFiniteSet(Lost(k, l)) /\ Cardinality(Lost(k, l)) \in Nat
        /\ Cardinality(Cut(k, l)) \in Nat
    BY <1>1, LossAreStages, StagesFinite
  <2>3. /\ Cardinality(Owed(k, l) \ Readable(k, l)) <= Cardinality(Lost(k, l))
        /\ Cardinality(Owed(k, l) \ Readable(k, l)) \in Nat
    BY <2>1, <2>2, FS_Subset, FS_CardinalityType
  <2>4. Cardinality(Lost(k, l)) + Open(log[k][l]) <= Cardinality(Cut(k, l)) /\ Open(log[k][l]) \in Nat
    BY <1>1, OpenIs DEF LossInv
  <2> HIDE DEF LossInv
  <2>5. Cardinality(Owed(k, l) \ Readable(k, l)) <= Cardinality(Cut(k, l))
    BY <2>2, <2>3, <2>4
  <2> QED BY <2>5 DEF Cut
<1>2. Base /\ LossInv => LossIsBounded
  BY <1>1 DEF LossIsBounded
<1> QED BY <1>2, BaseHolds, LossInvHolds, PTL


-----------------------------------------------------------------------------
(* The warm-ups.                                                              *)

\* The lines stay, and what their stages came to.
LEMMA SummariesStay ==
  ASSUME Base, RowsOK, NEW n \in DOMAIN stage, Stepped(n)
  PROVE  LET old == log["eval"]["summary"]
             new == log'["eval"]["summary"]
         IN \A i \in DOMAIN old :
              /\ i \in DOMAIN new /\ new[i].stage = old[i].stage /\ new[i].whole = old[i].whole
              /\ old[i].stage \in DOMAIN stage
              /\ stage'[new[i].stage].scenario = stage[old[i].stage].scenario
              /\ stage'[new[i].stage].warmup = stage[old[i].stage].warmup
              /\ stage'[new[i].stage].count = stage[old[i].stage].count
<1> DEFINE old == log["eval"]["summary"]
           new == log'["eval"]["summary"]
<1>1. "eval" \in Kinds /\ "summary" \in Logs
  BY DEF Kinds, Logs
<1>2. \A i \in DOMAIN old : i \in DOMAIN new /\ new[i].stage = old[i].stage /\ new[i].whole = old[i].whole
  BY <1>1, LinesAre
<1>3. \A i \in DOMAIN old : /\ old[i].stage \in DOMAIN stage
                            /\ stage[old[i].stage].pc \in {"reset", "done", "crashed"}
  BY <1>1, Beyonds DEF RowsOK, RowOK
<1>4. /\ Goes(stage[n], stage'[n])
      /\ \A m \in DOMAIN stage : m # n => stage'[m] = stage[m]
  BY MovedParts
<1>5. ASSUME NEW i \in DOMAIN old
      PROVE  LET m == old[i].stage IN
             /\ stage'[m].scenario = stage[m].scenario
             /\ stage'[m].warmup = stage[m].warmup /\ stage'[m].count = stage[m].count
  <2>1. CASE old[i].stage # n
    BY <1>3, <1>4, <2>1
  <2>2. CASE old[i].stage = n
    BY <1>3, <1>4, <2>2 DEF Goes
  <2> QED BY <2>1, <2>2
<1> QED BY <1>2, <1>3, <1>5

\* The warm-ups up to an old line do not change.
LEMMA TrailingStays ==
  ASSUME Base, RowsOK, NEW n \in DOMAIN stage, Stepped(n), NEW scenario,
         NEW i \in DOMAIN log["eval"]["summary"]
  PROVE  Trailing(scenario, log["eval"]["summary"], i)'
           = Trailing(scenario, log["eval"]["summary"], i)
<1> DEFINE old == log["eval"]["summary"]
           new == log'["eval"]["summary"]
           Rows == {j \in DOMAIN new : new[j].whole /\ stage'[new[j].stage].scenario = scenario}
           Still == {j \in Rows : j <= i /\ \A h \in Rows : h >= j /\ h <= i => stage'[new[h].stage].warmup}
<1>1. Trailing(scenario, log["eval"]["summary"], i)' = Still
  BY DEF Trailing, RowsOf
<1>2. /\ \A j \in DOMAIN old :
           /\ j \in DOMAIN new /\ new[j].whole = old[j].whole
           /\ stage'[new[j].stage].scenario = stage[old[j].stage].scenario
           /\ stage'[new[j].stage].warmup = stage[old[j].stage].warmup
  BY SummariesStay
<1>3. \A j \in DOMAIN new : j <= i => j \in DOMAIN old
  <2>1. "eval" \in Kinds /\ "summary" \in Logs
    BY DEF Kinds, Logs
  <2>2. /\ Len(old) \in Nat /\ Len(new) \in Nat
        /\ DOMAIN old = 1..Len(old) /\ DOMAIN new = 1..Len(new)
    <3>1. new \in Seq(RowType)
      BY <2>1, MovedBase DEF Base, FilesTyped
    <3> QED BY <2>1, <3>1, LinesAre
  <2> HIDE DEF old, new
  <2>3. i \in 1..Len(old)
    BY <2>2 DEF old
  <2> QED BY <2>2, <2>3
<1>4. \A j \in DOMAIN new : j <= i => (j \in Rows <=> j \in RowsOf(scenario, old))
  BY <1>2, <1>3 DEF RowsOf
<1>5. \A j \in RowsOf(scenario, old) : j \in DOMAIN old /\ j \in DOMAIN new
  BY <1>2 DEF RowsOf
<1>6. \A j : j \in Still <=> j \in Trailing(scenario, old, i)
  <2>1. ASSUME NEW h \in DOMAIN new, h <= i
        PROVE  /\ h \in Rows <=> h \in RowsOf(scenario, old)
               /\ stage'[new[h].stage].warmup = stage[old[h].stage].warmup
    BY <1>2, <1>3, <1>4, <2>1
  <2> HIDE DEF old, new
  <2>2. \A h \in Rows : h \in DOMAIN new
    OBVIOUS
  <2> HIDE DEF Rows
  <2> QED BY <1>5, <2>1, <2>2 DEF Trailing
<1> QED BY <1>1, <1>6

\* Where no line is written, a scenario's warm-ups stay the same ones.
LEMMA WarmupsStay ==
  ASSUME Base, RowsOK, NEW n \in DOMAIN stage, Stepped(n), NEW scenario,
         log'["eval"]["summary"] = log["eval"]["summary"]
  PROVE  WarmupsOf(scenario, log["eval"]["summary"])' = WarmupsOf(scenario, log["eval"]["summary"])
<1> DEFINE old == log["eval"]["summary"]
           Rows == {j \in DOMAIN old : old[j].whole /\ stage'[old[j].stage].scenario = scenario}
<1>1. \A j \in DOMAIN old : /\ stage'[old[j].stage].scenario = stage[old[j].stage].scenario
                            /\ stage'[old[j].stage].warmup = stage[old[j].stage].warmup
  BY SummariesStay
<1>2. Rows = RowsOf(scenario, old)
  BY <1>1 DEF RowsOf
<1>3. WarmupsOf(scenario, log["eval"]["summary"])'
        = Cardinality({i \in Rows : \A j \in Rows : j >= i => stage'[old[j].stage].warmup})
  BY DEF WarmupsOf, RowsOf
<1>4. \A j \in Rows : j \in DOMAIN old
  OBVIOUS
<1>5. {i \in Rows : \A j \in Rows : j >= i => stage'[old[j].stage].warmup}
        = {i \in Rows : \A j \in Rows : j >= i => stage[old[j].stage].warmup}
  BY <1>1, <1>4
<1> QED BY <1>2, <1>3, <1>5 DEF WarmupsOf

\* A line added for a warm-up is the last of one more.
LEMMA TrailingGrows ==
  ASSUME Base, RowsOK, NEW n \in DOMAIN stage, Stepped(n),
         NEW i \in DOMAIN log'["eval"]["summary"], i \notin DOMAIN log["eval"]["summary"],
         log'["eval"]["summary"][i].whole, stage'[n].warmup,
         NEW scenario, scenario = stage'[n].scenario
  PROVE  /\ log'["eval"]["summary"][i].stage = n
         /\ Cardinality(Trailing(scenario, log["eval"]["summary"], i)')
              = WarmupsOf(scenario, log["eval"]["summary"]) + 1
<1> DEFINE old == log["eval"]["summary"]
           new == log'["eval"]["summary"]
           Rows == {j \in DOMAIN new : new[j].whole /\ stage'[new[j].stage].scenario = scenario}
           Grown == {j \in Rows : j <= i /\ \A h \in Rows : h >= j /\ h <= i => stage'[new[h].stage].warmup}
           All == {j \in RowsOf(scenario, old) :
                     \A h \in RowsOf(scenario, old) : h >= j => stage[old[h].stage].warmup}
<1>1. "eval" \in Kinds /\ "summary" \in Logs
  BY DEF Kinds, Logs
<1>2. /\ new[i].stage = n /\ i = Len(old) + 1
      /\ \A j \in DOMAIN new : j \in DOMAIN old \/ j = Len(old) + 1
      /\ Len(old) \in Nat /\ DOMAIN old = 1..Len(old)
  BY <1>1, LinesAre
<1>3. \A j \in DOMAIN old :
        /\ j \in DOMAIN new /\ new[j].whole = old[j].whole /\ j <= i /\ j # i
        /\ stage'[new[j].stage].scenario = stage[old[j].stage].scenario
        /\ stage'[new[j].stage].warmup = stage[old[j].stage].warmup
  <2>1. \A j \in DOMAIN old : j <= i /\ j # i
    <3> HIDE DEF old
    <3> QED BY <1>2
  <2> QED BY <2>1, SummariesStay
<1>4. Trailing(scenario, log["eval"]["summary"], i)' = Grown
  BY DEF Trailing, RowsOf
<1>5. WarmupsOf(scenario, log["eval"]["summary"]) = Cardinality(All)
  BY DEF WarmupsOf
<1>6. i \in Rows /\ stage'[new[i].stage].warmup /\ \A j \in Rows : j \in DOMAIN old \/ j = i
  BY <1>2
<1>7. \A j \in DOMAIN old : j \in Rows <=> j \in RowsOf(scenario, old)
  BY <1>3 DEF RowsOf
<1>8. \A j \in RowsOf(scenario, old) : j \in DOMAIN old
  BY DEF RowsOf
<1>9. i \in Nat /\ \A j \in DOMAIN old : j \in Nat /\ j < i
  <2> HIDE DEF old
  <2> QED BY <1>2
<1> DEFINE Warm(j) == stage'[new[j].stage].warmup
           Was(j) == stage[old[j].stage].warmup
<1>10. (\A j \in DOMAIN old : Warm(j) <=> Was(j)) /\ Warm(i)
  BY <1>3, <1>6
<1>11. /\ Grown = {j \in Rows : j <= i /\ \A h \in Rows : h >= j /\ h <= i => Warm(h)}
       /\ All = {j \in RowsOf(scenario, old) : \A h \in RowsOf(scenario, old) : h >= j => Was(h)}
  OBVIOUS
<1> HIDE DEF Rows, Grown, All, Warm, Was
<1>12. Grown = All \union {i} /\ i \notin All
  <2>1. i \notin All
    BY <1>3, <1>8, <1>11
  <2>2. i \in Grown
    <3>1. ASSUME NEW h \in Rows, h >= i PROVE h = i
      <4>1. h \in DOMAIN old \/ h = i
        BY <1>6
      <4>2. h \in DOMAIN old => h \in Nat /\ h < i
        BY <1>9
      <4>3. i \in Nat
        BY <1>9
      <4> QED
        <5> HIDE DEF old
        <5> QED BY <3>1, <4>1, <4>2, <4>3
    <3>2. i \in Rows /\ i <= i /\ Warm(i)
      BY <1>6, <1>9, <1>10
    <3>3. \A h \in Rows : h >= i /\ h <= i => Warm(h)
      BY <3>1, <3>2, Zenon
    <3> QED BY <1>11, <3>2, <3>3, Zenon
  <2>3. ASSUME NEW j \in DOMAIN old PROVE j \in Grown <=> j \in All
    <3>1. j \in Grown => j \in All
      BY <1>7, <1>8, <1>9, <1>10, <1>11, <2>3
    <3>2. j \in All => j \in Grown
      BY <1>6, <1>7, <1>8, <1>9, <1>10, <1>11, <2>3
    <3> QED BY <3>1, <3>2
  <2>4. \A j \in Grown : j \in DOMAIN old \/ j = i
    BY <1>6, <1>11
  <2>5. \A j \in All : j \in DOMAIN old
    BY <1>8, <1>11
  <2> QED BY <2>1, <2>2, <2>3, <2>4, <2>5
<1>13. IsFiniteSet(All)
  <2>1. All \subseteq 1..Len(old)
    BY <1>2, <1>8, <1>11
  <2>2. Len(old) \in Nat /\ IsFiniteSet(1..Len(old))
    <3> DEFINE length == Len(old)
    <3>1. length \in Int /\ 1 \in Int /\ length \in Nat
      BY <1>2
    <3> HIDE DEF length
    <3>2. IsFiniteSet(1..length)
      BY <3>1, FS_Interval
    <3> QED BY <3>1, <3>2 DEF length
  <2> QED BY <2>1, <2>2, FS_Subset
<1>14. Cardinality(Grown) = Cardinality(All) + 1
  BY <1>12, <1>13, FS_AddElement
<1> QED BY <1>2, <1>4, <1>5, <1>14

LEMMA ApartStays ==
  ASSUME Base, NEW n \in DOMAIN stage, Stepped(n), Apart'
  PROVE  Apart
<1>1. /\ DOMAIN stage' = DOMAIN stage /\ \A m \in DOMAIN stage : stage'[m].kind = stage[m].kind
      /\ \A l, m \in DOMAIN stage : Overlap(l, m)' <=> Overlap(l, m)
  BY MovedBase, MovedParts
<1> QED BY <1>1 DEF Apart

LEMMA CountsMoved ==
  ASSUME Base, RowsOK, WarmupsInv, Apart, NEW n \in DOMAIN stage, Stepped(n),
         NEW scenario \in Scenarios \union {NoScenario}, NEW m \in DOMAIN stage
  PROVE  CountOK(m, scenario)'
<1> DEFINE s == stage[n]
           t == stage'[n]
           new == log'["eval"]["summary"]
<1>0. /\ Goes(s, t) /\ n \in Running /\ s.pc \in Steps /\ t.kind = s.kind
      /\ \A x \in DOMAIN stage : x # n => stage'[x] = stage[x]
  BY MovedParts
<1>1. CountOK(m, scenario)
  BY DEF WarmupsInv
<1>2. CASE new = log["eval"]["summary"]
  <2>1. WarmupsOf(scenario, log["eval"]["summary"])' = WarmupsOf(scenario, log["eval"]["summary"])
    BY <1>2, WarmupsStay
  <2>2. CASE m # n
    BY <1>0, <1>1, <2>1, <2>2 DEF CountOK, Counted
  <2>3. CASE m = n
    <3>1. ASSUME Counted(t), t.scenario = scenario
          PROVE  t.count = IF t.warmup THEN WarmupsOf(scenario, log["eval"]["summary"]) + 1 ELSE 0
      <4>1. /\ t.kind = "eval" /\ s.scenario = scenario
            /\ t.pc \in {"truncate", "write", "stage", "trace", "summary"} /\ Follows(s, t)
        BY <1>0, <3>1 DEF Counted, Goes, Breaks, Dies
      <4>2. s.pc \in {"count", "truncate", "write", "number", "stage", "trace", "summary"}
        BY <4>1 DEF Follows, Closes
      <4>3. CASE s.pc = "count"
        BY <1>0, <4>1, <4>3 DEF Stepped, Counts
      <4>4. CASE s.pc # "count"
        <5>1. s.pc # "number"
          BY <1>0, <4>1, MovedParts DEF CourseOK
        <5>2. Counted(s)
          BY <1>0, <4>1, <4>2, <4>4, <5>1 DEF Counted
        <5>3. t.warmup = s.warmup /\ t.count = s.count
          BY <1>0, <4>4 DEF Goes
        <5> QED BY <1>1, <2>3, <4>1, <5>2, <5>3 DEF CountOK
      <4> QED BY <4>3, <4>4
    <3> QED BY <2>1, <2>3, <3>1 DEF CountOK, Counted
  <2> QED BY <2>2, <2>3
<1>3. CASE new # log["eval"]["summary"]
  <2>1. PICK row : Writes(n, row)
    BY <1>3 DEF Stepped, WritesNot
  <2>2. s.kind = "eval" /\ s.pc = "summary"
    BY <1>3, <2>1 DEF Writes, Kinds, Logs
  <2>3. ~Counted(stage'[m])
    <3>1. CASE m = n
      <4>1. t.pc \in {"reset", "done", "crashed"}
        BY <1>0, <2>2 DEF Goes, Follows, Closes, Breaks, Dies
      <4> QED BY <3>1, <4>1 DEF Counted
    <3>2. CASE m # n
      <4>1. ASSUME Counted(stage[m]) PROVE FALSE
        <5>1. m \in Running /\ stage[m].kind = "eval"
          BY <4>1, Places DEF Counted, Running
        <5>2. Overlap(m, n)
          BY <3>2, <5>1, MovedBase
        <5> QED BY <2>2, <5>1, <5>2 DEF Apart
      <4> QED BY <1>0, <3>2, <4>1
    <3> QED BY <3>1, <3>2
  <2> QED BY <2>3 DEF CountOK, Counted
<1> QED BY <1>2, <1>3

LEMMA SummaryMoved ==
  ASSUME Base, RowsOK, WarmupsInv, Apart, NEW n \in DOMAIN stage, Stepped(n),
         NEW scenario \in Scenarios \union {NoScenario}, NEW i \in DOMAIN log'["eval"]["summary"]
  PROVE  SummaryOK(i, scenario)'
<1> DEFINE s == stage[n]
           t == stage'[n]
           old == log["eval"]["summary"]
           new == log'["eval"]["summary"]
<1>1. CASE i \in DOMAIN old
  <2>1. SummaryOK(i, scenario)
    BY <1>1 DEF WarmupsInv
  <2>2. Trailing(scenario, log["eval"]["summary"], i)' = Trailing(scenario, log["eval"]["summary"], i)
    BY <1>1, TrailingStays
  <2>3. /\ new[i].whole = old[i].whole
        /\ stage'[new[i].stage].scenario = stage[old[i].stage].scenario
        /\ stage'[new[i].stage].warmup = stage[old[i].stage].warmup
        /\ stage'[new[i].stage].count = stage[old[i].stage].count
    BY <1>1, SummariesStay
  <2> QED BY <2>1, <2>2, <2>3 DEF SummaryOK
<1>2. CASE i \notin DOMAIN old
  <2>1. "eval" \in Kinds /\ "summary" \in Logs
    BY DEF Kinds, Logs
  <2>2. s.kind = "eval" /\ s.pc = "summary" /\ new[i].stage = n
    BY <1>2, <2>1, LinesAre
  <2>3. t.scenario = s.scenario /\ t.warmup = s.warmup /\ t.count = s.count
    BY <2>2, MovedParts DEF Goes
  <2>4. ASSUME new[i].whole, t.scenario = scenario
        PROVE  t.count = IF t.warmup
                         THEN Cardinality(Trailing(scenario, log["eval"]["summary"], i)') ELSE 0
    <3>1. CountOK(n, scenario) /\ Counted(s)
      BY <2>2 DEF WarmupsInv, Counted
    <3>2. t.count = IF t.warmup THEN WarmupsOf(scenario, log["eval"]["summary"]) + 1 ELSE 0
      BY <2>3, <2>4, <3>1 DEF CountOK
    <3>3. t.warmup => Cardinality(Trailing(scenario, log["eval"]["summary"], i)')
                        = WarmupsOf(scenario, log["eval"]["summary"]) + 1
      BY <1>2, <2>4, TrailingGrows
    <3> QED BY <3>2, <3>3
  <2> QED BY <2>2, <2>4 DEF SummaryOK
<1> QED BY <1>1, <1>2

LEMMA WarmupsBegun ==
  ASSUME Base, RowsOK, WarmupsInv, NEW s, Begun(s)
  PROVE  WarmupsInv'
<1> DEFINE old == log["eval"]["summary"]
<1>0. /\ DOMAIN stage' = DOMAIN stage \union {Len(stage) + 1}
      /\ stage'[Len(stage) + 1] = s /\ s.pc = "load"
      /\ \A m \in DOMAIN stage : stage'[m] = stage[m]
      /\ \A l, m \in DOMAIN stage : Overlap(l, m)' <=> Overlap(l, m)
      /\ log' = log
  BY BegunBase DEF Begun
<1>1. \A i \in DOMAIN old : stage'[old[i].stage] = stage[old[i].stage]
  <2>1. "eval" \in Kinds /\ "summary" \in Logs
    BY DEF Kinds, Logs
  <2> QED BY <1>0, <2>1 DEF RowsOK, RowOK
<1>2. Apart' => Apart
  BY <1>0 DEF Apart
<1>3. ASSUME NEW scenario
      PROVE  WarmupsOf(scenario, log["eval"]["summary"])' = WarmupsOf(scenario, log["eval"]["summary"])
             /\ \A i : Trailing(scenario, log["eval"]["summary"], i)'
                         = Trailing(scenario, log["eval"]["summary"], i)
  <2>1. RowsOf(scenario, log["eval"]["summary"])' = RowsOf(scenario, old)
    BY <1>0, <1>1 DEF RowsOf
  <2>2. \A i \in RowsOf(scenario, old) : i \in DOMAIN old
    BY DEF RowsOf
  <2>3. WarmupsOf(scenario, log["eval"]["summary"])' = WarmupsOf(scenario, log["eval"]["summary"])
    BY <1>0, <1>1, <2>1, <2>2 DEF WarmupsOf
  <2>4. ASSUME NEW i PROVE Trailing(scenario, log["eval"]["summary"], i)'
                             = Trailing(scenario, log["eval"]["summary"], i)
    BY <1>0, <1>1, <2>1, <2>2 DEF Trailing
  <2> QED BY <2>3, <2>4
<1>4. ASSUME Apart', NEW scenario \in Scenarios \union {NoScenario}, NEW n \in DOMAIN stage'
      PROVE  CountOK(n, scenario)'
  BY <1>0, <1>2, <1>3, <1>4 DEF WarmupsInv, CountOK, Counted
<1>5. ASSUME Apart', NEW scenario \in Scenarios \union {NoScenario}, NEW i \in DOMAIN old
      PROVE  SummaryOK(i, scenario)'
  <2>1. SummaryOK(i, scenario)
    BY <1>2, <1>5 DEF WarmupsInv
  <2>2. Trailing(scenario, log["eval"]["summary"], i)' = Trailing(scenario, log["eval"]["summary"], i)
    BY <1>3
  <2> QED BY <1>0, <1>1, <1>5, <2>1, <2>2 DEF SummaryOK
<1>6. DOMAIN log'["eval"]["summary"] = DOMAIN old
  BY <1>0
<1> QED BY <1>4, <1>5, <1>6, Zenon DEF WarmupsInv

LEMMA WarmupsInvHolds == Spec => []WarmupsInv
<1>1. Init => WarmupsInv
  BY DEF Init, WarmupsInv, Kinds, Logs
<1>2. ASSUME Base, RowsOK, WarmupsInv, [Next]_vars PROVE WarmupsInv'
  <2>1. CASE Moving
    <3>1. ASSUME NEW n \in DOMAIN stage, Stepped(n) PROVE WarmupsInv'
      <4>1. DOMAIN stage' = DOMAIN stage
        BY <1>2, <3>1, MovedParts
      <4>2. ASSUME Apart', NEW scenario \in Scenarios \union {NoScenario}
            PROVE  /\ \A m \in DOMAIN stage' : CountOK(m, scenario)'
                   /\ \A i \in DOMAIN log'["eval"]["summary"] : SummaryOK(i, scenario)'
        <5>1. Apart
          BY <1>2, <3>1, <4>2, ApartStays
        <5> QED BY <1>2, <3>1, <4>1, <4>2, <5>1, CountsMoved, SummaryMoved
      <4> QED BY <4>2 DEF WarmupsInv
    <3> QED BY <1>2, <2>1, <3>1, WarmupsBegun DEF Moving
  <2>2. CASE Stays
    <3>1. stage' = stage /\ log' = log
      BY <2>2 DEF Stays
    <3>2. Apart' => Apart
      BY <3>1 DEF Apart, Overlap
    <3>3. ASSUME NEW scenario, NEW n, CountOK(n, scenario) PROVE CountOK(n, scenario)'
      BY <3>1, <3>3 DEF CountOK, Counted, WarmupsOf, RowsOf
    <3>4. ASSUME NEW scenario, NEW i, SummaryOK(i, scenario) PROVE SummaryOK(i, scenario)'
      BY <3>1, <3>4 DEF SummaryOK, Trailing, RowsOf
    <3>5. DOMAIN stage' = DOMAIN stage /\ DOMAIN log'["eval"]["summary"] = DOMAIN log["eval"]["summary"]
      BY <3>1
    <3> QED BY <1>2, <3>2, <3>3, <3>4, <3>5, Zenon DEF WarmupsInv
  <2> QED BY <1>2, <2>1, <2>2, StepsOf DEF Base
<1>3. IdsInv => RowsOK
  BY DEF IdsInv
<1> QED BY <1>1, <1>2, <1>3, BaseHolds, IdsInvHolds, PTL DEF Spec

\* The warm-ups up to a line are one more than those up to the one before it.
Earlier(scenario, lines, i) == {j \in 1..(i - 1) : j \in RowsOf(scenario, lines)}

LEMMA TrailingIsNext ==
  ASSUME NEW lines \in Seq(RowType), NEW scenario, NEW i \in DOMAIN lines,
         i \in RowsOf(scenario, lines), stage[lines[i].stage].warmup
  PROVE  LET before == Earlier(scenario, lines, i) IN
         /\ before = {} => Trailing(scenario, lines, i) = {i}
         /\ before # {} =>
              /\ Max(before) \in before
              /\ stage[lines[Max(before)].stage].warmup =>
                   Trailing(scenario, lines, i) = Trailing(scenario, lines, Max(before)) \union {i}
              /\ ~stage[lines[Max(before)].stage].warmup => Trailing(scenario, lines, i) = {i}
<1> DEFINE Warm(j) == stage[lines[j].stage].warmup
           Rows == RowsOf(scenario, lines)
           before == Earlier(scenario, lines, i)
           greatest == Max(before)
<1>1. /\ i \in Nat \ {0} /\ i \in Rows /\ Warm(i)
      /\ \A j \in Rows : j \in Nat \ {0}
  BY DEF RowsOf
<1>2. \A h : Trailing(scenario, lines, h)
               = {j \in Rows : j <= h /\ \A x \in Rows : x >= j /\ x <= h => Warm(x)}
  BY DEF Trailing
<1> HIDE DEF Warm, Rows
<1>3. before = {j \in Rows : j < i}
  BY <1>1 DEF Rows, Earlier
<1>4. CASE before = {}
  <2>1. \A j \in Rows : j <= i => j = i
    BY <1>1, <1>3, <1>4
  <2> QED BY <1>1, <1>2, <1>4, <2>1
<1>5. CASE before # {}
  <2>1. greatest \in before /\ \A j \in before : greatest >= j
    <3>1. before \in SUBSET (0..i)
      BY <1>1, <1>3
    <3> QED BY <1>1, <1>5, <3>1, GreatestOf
  <2> HIDE DEF greatest
  <2>2. greatest \in Rows /\ greatest < i /\ greatest \in Nat
    BY <1>1, <1>3, <2>1
  <2>3. \A j \in Rows : j < i => j <= greatest
    BY <1>1, <1>3, <2>1, <2>2
  <2>4. CASE Warm(greatest)
    <3>1. ASSUME NEW j \in Rows, j # i
          PROVE  j \in Trailing(scenario, lines, i) <=> j \in Trailing(scenario, lines, greatest)
      <4>1. \A x \in Rows : x <= i <=> x <= greatest \/ x = i
        BY <1>1, <2>2, <2>3
      <4> QED BY <1>1, <1>2, <2>2, <3>1, <4>1
    <3>2. i \in Trailing(scenario, lines, i)
      BY <1>1, <1>2
    <3>3. i \notin Trailing(scenario, lines, greatest)
      BY <1>1, <1>2, <2>2
    <3>4. Trailing(scenario, lines, i) = Trailing(scenario, lines, greatest) \union {i}
      BY <1>2, <3>1, <3>2, <3>3
    <3> QED BY <1>5, <2>1, <2>4, <3>4 DEF greatest, Warm
  <2>5. CASE ~Warm(greatest)
    <3>1. \A j \in Rows : j # i => j \notin Trailing(scenario, lines, i)
      BY <1>1, <1>2, <2>2, <2>3, <2>5
    <3>2. i \in Trailing(scenario, lines, i)
      BY <1>1, <1>2
    <3>3. Trailing(scenario, lines, i) = {i}
      BY <1>2, <3>1, <3>2
    <3> QED BY <1>5, <2>1, <2>5, <3>3 DEF greatest, Warm
  <2> QED BY <2>4, <2>5
<1> QED BY <1>4, <1>5

\* While no two stages of eval run at once, a summary's number of warm-ups continues
\* that of the one before it in its scenario, whatever line was cut off in between
\* (consecutive_stage_kind_count).
THEOREM WarmupsAreCounted == Spec => []WarmupsCounted
<1> DEFINE lines == log["eval"]["summary"]
           Before(i) == {j \in 1..(i - 1) :
                           /\ lines[j].whole
                           /\ stage[lines[j].stage].scenario = stage[lines[i].stage].scenario}
           Previous(i) == IF Before(i) = {} THEN 0 ELSE stage[lines[Max(Before(i))].stage].count
<1>1. ASSUME Base, RowsOK, WarmupsInv, Apart, NEW i \in DOMAIN lines, lines[i].whole
      PROVE  stage[lines[i].stage].count =
               IF stage[lines[i].stage].warmup THEN Previous(i) + 1 ELSE 0
  <2> DEFINE s == stage[lines[i].stage]
             scenario == s.scenario
             before == Earlier(scenario, lines, i)
  <2>1. lines \in Seq(RowType) /\ DOMAIN lines = 1..Len(lines) /\ Len(lines) \in Nat
    <3>1. "eval" \in Kinds /\ "summary" \in Logs
      BY DEF Kinds, Logs
    <3> QED BY <1>1, <3>1 DEF Base, FilesTyped
  <2>2. \A j \in DOMAIN lines : stage[lines[j].stage] \in StageType
    <3>1. "eval" \in Kinds /\ "summary" \in Logs
      BY DEF Kinds, Logs
    <3> QED BY <1>1, <3>1 DEF RowsOK, RowOK, Base, FilesTyped
  <2>3. \A j \in DOMAIN lines : SummaryOK(j, scenario)
    BY <1>1, <2>2 DEF WarmupsInv, StageType
  <2>4. before = Before(i)
    <3>1. \A j \in 1..(i - 1) : j \in DOMAIN lines
      <4> HIDE DEF lines
      <4> QED BY <1>1, <2>1
    <3> QED BY <3>1 DEF RowsOf, Earlier
  <2>5. i \in RowsOf(scenario, lines)
    BY <1>1 DEF RowsOf
  <2>6. s.count = IF s.warmup THEN Cardinality(Trailing(scenario, lines, i)) ELSE 0
    BY <1>1, <2>3 DEF SummaryOK
  <2>7. CASE ~s.warmup
    BY <2>6, <2>7
  <2>8. CASE s.warmup /\ before = {}
    <3>1. Trailing(scenario, lines, i) = {i}
      <4>1. i \in RowsOf(scenario, lines) /\ stage[lines[i].stage].warmup
        BY <2>5, <2>8
      <4>2. i \in DOMAIN lines
        BY <1>1
      <4> HIDE DEF lines, scenario, s
      <4> QED BY <2>1, <2>8, <4>1, <4>2, TrailingIsNext
    <3>2. s.count = 1
      BY <2>6, <2>8, <3>1, FS_Singleton
    <3>3. Previous(i) = 0
      BY <2>4, <2>8
    <3> HIDE DEF s, before, Previous
    <3> QED BY <2>8, <3>2, <3>3 DEF s
  <2>9. CASE s.warmup /\ before # {}
    <3> DEFINE j == Max(before)
               u == stage[lines[j].stage]
    <3>1. /\ j \in before
          /\ u.warmup => Trailing(scenario, lines, i) = Trailing(scenario, lines, j) \union {i}
          /\ ~u.warmup => Trailing(scenario, lines, i) = {i}
      <4>1. i \in RowsOf(scenario, lines) /\ stage[lines[i].stage].warmup
        BY <2>5, <2>9
      <4>2. i \in DOMAIN lines
        BY <1>1
      <4> HIDE DEF lines, scenario, s
      <4>3. /\ Max(before) \in before
            /\ stage[lines[Max(before)].stage].warmup =>
                 Trailing(scenario, lines, i) = Trailing(scenario, lines, Max(before)) \union {i}
            /\ ~stage[lines[Max(before)].stage].warmup => Trailing(scenario, lines, i) = {i}
        BY <2>1, <2>9, <4>1, <4>2, TrailingIsNext
      <4> QED BY <4>3, Zenon
    <3> HIDE DEF j
    <3>2. /\ j \in DOMAIN lines /\ lines[j].whole /\ u.scenario = scenario /\ j < i /\ i \in Nat
          /\ j \in Nat
      <4>1. j \in 1..(i - 1) /\ j \in RowsOf(scenario, lines)
        BY <3>1 DEF Earlier
      <4>2. j \in DOMAIN lines /\ lines[j].whole /\ u.scenario = scenario
        BY <4>1 DEF RowsOf
      <4>3. i \in Nat /\ j < i /\ j \in Nat
        <5> HIDE DEF lines
        <5> QED BY <1>1, <2>1, <4>1
      <4> QED BY <4>2, <4>3
    <3>3. u.count = IF u.warmup THEN Cardinality(Trailing(scenario, lines, j)) ELSE 0
      BY <2>3, <3>2 DEF SummaryOK
    <3>4. Previous(i) = u.count
      BY <2>4, <2>9 DEF j
    <3>5. s.count = u.count + 1
      <4>1. CASE u.warmup
        <5>1. i \notin Trailing(scenario, lines, j)
          BY <3>2 DEF Trailing
        <5>2. IsFiniteSet(Trailing(scenario, lines, j))
          <6>1. Trailing(scenario, lines, j) \subseteq DOMAIN lines
            BY DEF Trailing, RowsOf
          <6> DEFINE length == Len(lines)
          <6>2. length \in Int /\ 1 \in Int /\ DOMAIN lines = 1..length
            BY <2>1
          <6> HIDE DEF length
          <6>3. IsFiniteSet(1..length)
            BY <6>2, FS_Interval
          <6> QED BY <6>1, <6>2, <6>3, FS_Subset
        <5>3. Cardinality(Trailing(scenario, lines, j) \union {i})
                = Cardinality(Trailing(scenario, lines, j)) + 1
          BY <5>1, <5>2, FS_AddElement
        <5>4. Trailing(scenario, lines, i) = Trailing(scenario, lines, j) \union {i}
          BY <3>1, <4>1
        <5> QED BY <2>6, <2>9, <3>3, <4>1, <5>3, <5>4
      <4>2. CASE ~u.warmup
        <5>1. Trailing(scenario, lines, i) = {i}
          BY <3>1, <4>2
        <5>2. s.count = 1 /\ u.count = 0
          BY <2>6, <2>9, <3>3, <4>2, <5>1, FS_Singleton
        <5> HIDE DEF s, u
        <5> QED BY <5>2
      <4> QED BY <4>1, <4>2
    <3> QED BY <2>9, <3>4, <3>5
  <2> QED BY <2>7, <2>8, <2>9
<1>2. Base /\ RowsOK /\ WarmupsInv => WarmupsCounted
  BY <1>1 DEF WarmupsCounted, Apart
<1>3. IdsInv => RowsOK
  BY DEF IdsInv
<1> QED BY <1>2, <1>3, BaseHolds, IdsInvHolds, WarmupsInvHolds, PTL
=============================================================================
