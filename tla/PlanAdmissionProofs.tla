------------------------ MODULE PlanAdmissionProofs ------------------------
(***************************************************************************)
(* What the webhook accepts, the controller plans: for every set of names, *)
(* every dependency list, every stage list and every order in which        *)
(* exceptions disable targets.                                             *)
(*                                                                         *)
(* The invariant says what validateDAG has computed: the names it has      *)
(* visited are those of degree 0 outside the queue, and the degree of a    *)
(* name counts its dependents that are not visited.  No member of a cycle  *)
(* is ever visited, whichever way the cycle is followed, so counting the   *)
(* visited names decides for both directions of the Planner.               *)
(*                                                                         *)
(* The Planner comes first: PlanDAG is correct for every set of targets    *)
(* and every dependency list.  Its inductive invariant (IInv) says what    *)
(* the map of in-degrees means: for each target not placed yet it counts   *)
(* the dependencies on targets that are not placed either.  With it a      *)
(* target of in-degree 0 has all its dependencies in earlier stages, one   *)
(* that just dropped to 0 has one in the stage before, and no member of a  *)
(* cycle ever drops to 0.                                                  *)
(***************************************************************************)
EXTENDS PlanAdmission, SequenceTheorems, FiniteSetTheorems, TLAPS

-----------------------------------------------------------------------------
(* The Planner: its specification is Spec, with IInv *)

\* The phase of the algorithm in which the map of in-degrees is meaningful.
Counted == outcome \in {"level", "ok", "cycle"}

Unplaced == DOMAIN inDegree

\* What the in-degrees count.
DegreesCount ==
  Counted => Known /\ \A t \in Unplaced : inDegree[t] = Cardinality(Into(t, Unplaced))

\* Before the first round nothing is placed.
NothingPlaced == ~Counted => levels = <<>> /\ Unplaced = {}

\* The placed targets are those not in the map.
PlacedIsRest ==
  Counted => \A t \in targets : t \notin Unplaced <=> \E k \in 1 .. Len(levels) : t \in levels[k]

Disjoint == \A j, k \in 1 .. Len(levels) : j # k => levels[j] \cap levels[k] = {}

\* A target ready for the next round has a dependency in the last stage.
JustReleased ==
  levels # <<>> => \A t \in Ready : Into(t, levels[Len(levels)]) # {}

\* The members of a cycle are never placed.
KnotsUnplaced == Counted => \A S \in SUBSET targets : Knotted(S) => S \subseteq Unplaced

Verdicts ==
  /\ outcome = "ok" => Unplaced = {}
  /\ outcome = "cycle" => Unplaced # {} /\ Ready = {}

IInv ==
  /\ TypeOK /\ DegreesCount /\ NothingPlaced /\ PlacedIsRest /\ Disjoint
  /\ DependenciesFirst /\ NoIdleStage /\ JustReleased /\ KnotsUnplaced /\ Verdicts

-----------------------------------------------------------------------------

\* The dependencies of a target on a set are finitely many.
LEMMA IntoFinite ==
  ASSUME TypeOK, NEW t, NEW S
  PROVE  IsFiniteSet(Into(t, S)) /\ Cardinality(Into(t, S)) \in Nat
<1>1. Len(deps) \in Nat
  BY DEF TypeOK
<1>2. IsFiniteSet(1 .. Len(deps))
  BY <1>1, FS_Interval
<1>3. Into(t, S) \in SUBSET (1 .. Len(deps))
  BY DEF Into
<1>4. IsFiniteSet(Into(t, S))
  BY <1>2, <1>3, FS_Subset
<1> QED
  BY <1>4, FS_CardinalityType

\* Taking a subset of the sources away takes its dependencies away.
LEMMA IntoDifference ==
  ASSUME TypeOK, NEW t, NEW S, NEW R \in SUBSET S
  PROVE  Cardinality(Into(t, S \ R)) = Cardinality(Into(t, S)) - Cardinality(Into(t, R))
<1>1. Into(t, S \ R) = Into(t, S) \ Into(t, R)
  BY DEF Into
<1>2. Into(t, S) \cap Into(t, R) = Into(t, R)
  BY DEF Into
<1>3. IsFiniteSet(Into(t, S))
  BY IntoFinite
<1> DEFINE A == Into(t, S)
           B == Into(t, R)
<1>4. IsFiniteSet(A) /\ Into(t, S \ R) = A \ B /\ A \cap B = B
  BY <1>1, <1>2, <1>3
<1> HIDE DEF A, B
<1>5. Cardinality(A \ B) = Cardinality(A) - Cardinality(A \cap B)
  BY <1>4, FS_Difference
<1> QED
  BY <1>4, <1>5 DEF A, B

\* In-degree 0 means no dependency on an unplaced target.
LEMMA ReadyIsFree ==
  ASSUME TypeOK, DegreesCount, Counted, NEW t \in Unplaced
  PROVE  inDegree[t] = 0 <=> Into(t, Unplaced) = {}
<1>1. inDegree[t] = Cardinality(Into(t, Unplaced))
  BY DEF DegreesCount
<1> QED
  BY <1>1, IntoFinite, FS_EmptySet

\* The state after validation and counting, before the first round of Kahn's loop.
LEMMA InitIInv == Init => IInv
<1> SUFFICES ASSUME Init PROVE IInv
  OBVIOUS
<1>1. deps \in Seq(Dependency)
  <2>1. PICK n \in 0 .. MaxDeps : deps \in [1 .. n -> Dependency]
    BY DEF Init, DependencyLists
  <2> QED
    BY <2>1, NamesAssumption
<1>2. TypeOK
  BY <1>1 DEF Init, TypeOK
<1>3. levels = <<>> /\ Len(levels) = 0 /\ Unplaced = {} /\ ~Counted
  BY DEF Init, Unplaced, Counted
<1>4. DependenciesFirst /\ NoIdleStage /\ Disjoint
  BY <1>3 DEF DependenciesFirst, NoIdleStage, Disjoint
<1> QED
  BY <1>2, <1>3, <1>4
  DEF Init, IInv, DegreesCount, NothingPlaced, PlacedIsRest, JustReleased, KnotsUnplaced, Verdicts

\* One round keeps the invariant.
LEMMA NextLevelIInv ==
  ASSUME IInv, NextLevel
  PROVE  IInv'
<1> DEFINE R == Ready
<1> DEFINE n == Len(levels)
<1>0. /\ outcome = "level" /\ outcome' = "level"
      /\ targets' = targets /\ deps' = deps
      /\ levels' = Append(levels, R)
      /\ inDegree' = [t \in Unplaced \ R |-> inDegree[t] - Cardinality(Into(t, R))]
  BY DEF NextLevel, Reduced, Unplaced, input
<1>1. TypeOK /\ Counted /\ Counted' /\ Known /\ DegreesCount
  BY <1>0 DEF IInv, Counted, DegreesCount
<1>2. R \subseteq Unplaced /\ Unplaced \subseteq targets /\ Unplaced' = Unplaced \ R
  BY <1>0, <1>1 DEF Ready, Unplaced, TypeOK
<1>3. \A t, S : Into(t, S)' = Into(t, S)
  BY <1>0 DEF Into
<1>4. \A t \in Unplaced \ R : /\ inDegree'[t] = inDegree[t] - Cardinality(Into(t, R))
                            /\ inDegree'[t] = Cardinality(Into(t, Unplaced \ R))
                            /\ inDegree'[t] \in Nat
  <2> SUFFICES ASSUME NEW t \in Unplaced \ R
               PROVE  /\ inDegree'[t] = inDegree[t] - Cardinality(Into(t, R))
                      /\ inDegree'[t] = Cardinality(Into(t, Unplaced \ R))
                      /\ inDegree'[t] \in Nat
    OBVIOUS
  <2>1. inDegree'[t] = inDegree[t] - Cardinality(Into(t, R))
    BY <1>0
  <2>2. inDegree[t] = Cardinality(Into(t, Unplaced))
    BY <1>1 DEF DegreesCount
  <2>3. Cardinality(Into(t, Unplaced \ R))
          = Cardinality(Into(t, Unplaced)) - Cardinality(Into(t, R))
    BY <1>1, <1>2, IntoDifference
  <2>4. Cardinality(Into(t, Unplaced \ R)) \in Nat
    BY <1>1, IntoFinite
  <2> QED
    BY <2>1, <2>2, <2>3, <2>4
<1>5. /\ n \in Nat /\ Len(levels') = n + 1 /\ levels'[n + 1] = R
      /\ \A k \in 1 .. n : levels'[k] = levels[k]
      /\ levels' \in Seq(SUBSET targets)
  BY <1>0, <1>1, <1>2 DEF TypeOK
<1>6. \A t \in R : Into(t, Unplaced) = {}
  BY <1>1, ReadyIsFree DEF Ready, Unplaced
<1> HIDE DEF R, n
<1>7. TypeOK'
  BY <1>0, <1>1, <1>2, <1>4, <1>5 DEF TypeOK, Unplaced
<1>8. DegreesCount'
  BY <1>0, <1>1, <1>2, <1>3, <1>4 DEF DegreesCount, Known
<1>9. NothingPlaced' /\ Verdicts'
  BY <1>0, <1>1 DEF NothingPlaced, Verdicts
<1>10. PlacedIsRest'
  <2> SUFFICES ASSUME NEW t \in targets
               PROVE  t \notin Unplaced \ R <=> \E k \in 1 .. n + 1 : t \in levels'[k]
    BY <1>0, <1>2, <1>5 DEF PlacedIsRest
  <2>1. t \notin Unplaced <=> \E k \in 1 .. n : t \in levels[k]
    BY <1>1 DEF IInv, PlacedIsRest, n
  <2> QED
    BY <2>1, <1>2, <1>5
<1>11. Disjoint'
  <2>1. \A k \in 1 .. n : levels[k] \cap R = {}
    BY <1>1, <1>2, <1>5 DEF IInv, PlacedIsRest, TypeOK, n
  <2>2. \A j, k \in 1 .. n : j # k => levels[j] \cap levels[k] = {}
    BY DEF IInv, Disjoint, n
  <2> QED
    BY <2>1, <2>2, <1>5 DEF Disjoint
<1>12. DependenciesFirst'
  <2> SUFFICES ASSUME NEW k \in 1 .. n + 1, NEW i \in 1 .. Len(deps), deps[i].to \in levels'[k]
               PROVE  \E j \in 1 .. k - 1 : deps[i].from \in levels'[j]
    BY <1>0, <1>5 DEF DependenciesFirst
  <2>1. CASE k \in 1 .. n
    <3>1. \E j \in 1 .. k - 1 : deps[i].from \in levels[j]
      BY <2>1, <1>5 DEF IInv, DependenciesFirst, n
    <3> QED
      BY <3>1, <2>1, <1>5
  <2>2. CASE k = n + 1
    <3>1. i \notin Into(deps[i].to, Unplaced)
      BY <2>2, <1>5, <1>6
    <3>2. deps[i].from \in targets \ Unplaced
      BY <3>1, <1>1 DEF Into, Known
    <3>3. \E j \in 1 .. n : deps[i].from \in levels[j]
      BY <3>2, <1>1 DEF IInv, PlacedIsRest, n
    <3> QED
      BY <3>3, <2>2, <1>5
  <2> QED
    BY <2>1, <2>2, <1>5
<1>13. NoIdleStage'
  <2> SUFFICES ASSUME NEW k \in 2 .. n + 1, NEW t \in levels'[k]
               PROVE  \E i \in 1 .. Len(deps) : deps[i].to = t /\ deps[i].from \in levels'[k - 1]
    BY <1>0, <1>5 DEF NoIdleStage
  <2>1. CASE k \in 2 .. n
    BY <2>1, <1>5 DEF IInv, NoIdleStage, n
  <2>2. CASE k = n + 1
    <3>1. levels # <<>> /\ t \in Ready
      BY <2>2, <1>5 DEF R, n
    <3>2. Into(t, levels[n]) # {}
      BY <3>1 DEF IInv, JustReleased, n
    <3> QED
      BY <3>2, <2>2, <1>5 DEF Into
  <2> QED
    BY <2>1, <2>2, <1>5
<1>14. JustReleased'
  <2> SUFFICES ASSUME NEW t \in Unplaced \ R, inDegree'[t] = 0
               PROVE  Into(t, R) # {}
    BY <1>2, <1>3, <1>5 DEF JustReleased, Ready, Unplaced
  <2>1. inDegree[t] # 0
    BY DEF R, Ready, Unplaced
  <2>2. inDegree[t] \in Nat
    BY <1>1 DEF TypeOK, Unplaced
  <2>3. Cardinality(Into(t, R)) # 0
    BY <2>1, <2>2, <1>1, <1>4, IntoFinite
  <2> QED
    BY <2>3, FS_EmptySet
<1>15. KnotsUnplaced'
  <2> SUFFICES ASSUME NEW S \in SUBSET targets, Knotted(S), NEW t \in S
               PROVE  t \in Unplaced \ R
    BY <1>0, <1>1, <1>2, <1>3 DEF KnotsUnplaced, Knotted
  <2>1. S \subseteq Unplaced
    BY <1>1 DEF IInv, KnotsUnplaced
  <2>2. Into(t, S) # {} /\ Into(t, S) \subseteq Into(t, Unplaced)
    BY <2>1 DEF Knotted, Into
  <2> QED
    BY <2>1, <2>2, <1>6
<1> QED
  BY <1>7, <1>8, <1>9, <1>10, <1>11, <1>12, <1>13, <1>14, <1>15 DEF IInv

\* A step that only decides the outcome keeps everything but the verdicts.
LEMMA DecisionIInv ==
  ASSUME IInv, UNCHANGED <<input, inDegree, levels>>,
         outcome' \in {"start", "level", "ok", "notFound", "cycle"},
         Counted' <=> Counted, Verdicts'
  PROVE  IInv'
<1>1. /\ targets' = targets /\ deps' = deps /\ levels' = levels /\ inDegree' = inDegree
      /\ Unplaced' = Unplaced /\ Ready' = Ready
  BY DEF input, Unplaced, Ready
<1>2. \A t, S : Into(t, S)' = Into(t, S)
  BY <1>1 DEF Into
<1>3. \A S : Knotted(S)' <=> Knotted(S)
  BY <1>2 DEF Knotted
<1>4. TypeOK' /\ NothingPlaced' /\ PlacedIsRest' /\ Disjoint' /\ DependenciesFirst' /\ NoIdleStage'
  BY <1>1 DEF IInv, TypeOK, NothingPlaced, PlacedIsRest, Disjoint, DependenciesFirst, NoIdleStage
<1>5. DegreesCount' /\ JustReleased'
  BY <1>1, <1>2 DEF IInv, DegreesCount, Known, JustReleased
<1>6. KnotsUnplaced'
  BY <1>1, <1>3 DEF IInv, KnotsUnplaced
<1> QED
  BY <1>4, <1>5, <1>6 DEF IInv

\* Every step of PlanDAG keeps the invariant.
LEMMA NextIInv == IInv /\ [Next]_vars => IInv'
<1> SUFFICES ASSUME IInv, [Next]_vars PROVE IInv'
  OBVIOUS
<1>1. CASE UnknownTarget
  BY <1>1, DecisionIInv DEF UnknownTarget, Counted, Verdicts, IInv
<1>2. CASE CountInDegrees
  <2>0. /\ targets' = targets /\ deps' = deps /\ levels' = <<>> /\ levels = <<>>
        /\ outcome' = "level" /\ Known
        /\ inDegree' = [t \in targets |-> Cardinality(Into(t, targets))]
        /\ Unplaced' = targets
    BY <1>2 DEF CountInDegrees, NothingPlaced, input, Unplaced, IInv, Counted
  <2>1. \A t, S : Into(t, S)' = Into(t, S)
    BY <2>0 DEF Into
  <2>2. \A t \in targets : Cardinality(Into(t, targets)) \in Nat
    BY IntoFinite DEF IInv
  <2>3. TypeOK'
    BY <2>0, <2>2 DEF Unplaced, IInv, TypeOK
  <2>4. DegreesCount' /\ NothingPlaced' /\ Verdicts' /\ JustReleased'
    BY <2>0, <2>1 DEF DegreesCount, NothingPlaced, Verdicts, JustReleased, Known, Counted
  <2>5. PlacedIsRest' /\ Disjoint' /\ DependenciesFirst' /\ NoIdleStage' /\ KnotsUnplaced'
    BY <2>0 DEF PlacedIsRest, Disjoint, DependenciesFirst, NoIdleStage, KnotsUnplaced
  <2> QED
    BY <2>3, <2>4, <2>5 DEF IInv
<1>3. CASE NextLevel
  BY <1>3, NextLevelIInv
<1>4. CASE CycleDetected
  <2>1. Verdicts'
    BY <1>4 DEF CycleDetected, Verdicts, Unplaced, Ready
  <2> QED
    BY <1>4, <2>1, DecisionIInv DEF CycleDetected, Counted
<1>5. CASE Finish
  <2>1. Verdicts'
    BY <1>5 DEF Finish, Verdicts, Unplaced
  <2> QED
    BY <1>5, <2>1, DecisionIInv DEF Finish, Counted
<1>6. CASE UNCHANGED vars
  <2>1. UNCHANGED <<input, inDegree, levels>> /\ outcome' = outcome
    BY <1>6 DEF vars
  <2>2. Verdicts'
    BY <2>1 DEF IInv, Verdicts, Unplaced, Ready
  <2> QED
    BY <2>1, <2>2, DecisionIInv DEF Counted, IInv, TypeOK
<1> QED
  BY <1>1, <1>2, <1>3, <1>4, <1>5, <1>6 DEF Next

\* The inductive invariant of PlanDAG.
THEOREM Inductive == Spec => []IInv
BY InitIInv, NextIInv, PTL DEF Spec

\* PlanDAG never loses the meaning of its counters: none goes negative, whatever
\* dependencies are repeated.
THEOREM TypeCorrect == Spec => []TypeOK
<1>1. IInv => TypeOK
  BY DEF IInv
<1> QED
  BY <1>1, Inductive, PTL

\* In every execution plan PlanDAG builds, and in every prefix of one, the stages
\* before a target's stage hold everything it depends on.
THEOREM DependenciesFirstHolds == Spec => []DependenciesFirst
<1>1. IInv => DependenciesFirst
  BY DEF IInv
<1> QED
  BY <1>1, Inductive, PTL

\* No target is placed twice or forgotten.
THEOREM PlacedOnceHolds == Spec => []PlacedOnce
<1>1. ASSUME IInv PROVE PlacedOnce
  <2>1. Disjoint
    BY <1>1 DEF IInv
  <2>2. ASSUME Counted PROVE UNION Elements(levels) = targets \ Unplaced
    <3>1. \A t : t \in UNION Elements(levels) <=> \E k \in 1 .. Len(levels) : t \in levels[k]
      BY DEF Elements
    <3>2. \A k \in 1 .. Len(levels) : levels[k] \subseteq targets
      BY <1>1 DEF IInv, TypeOK
    <3> QED
      BY <1>1, <2>2, <3>1, <3>2 DEF IInv, PlacedIsRest
  <2> QED
    BY <2>1, <2>2 DEF PlacedOnce, Disjoint, Counted, Unplaced
<1> QED
  BY <1>1, Inductive, PTL

\* The stages are as early as the dependencies allow.
THEOREM NoIdleStageHolds == Spec => []NoIdleStage
<1>1. IInv => NoIdleStage
  BY DEF IInv
<1> QED
  BY <1>1, Inductive, PTL

\* ErrCycleDetected is neither missed nor raised for a plan without a cycle.
THEOREM CycleIffKnottedHolds == Spec => []CycleIffKnotted
<1>1. ASSUME IInv PROVE CycleIffKnotted
  <2>1. ASSUME outcome = "cycle" PROVE \E S \in SUBSET targets : Knotted(S)
    <3>1. Counted /\ TypeOK /\ DegreesCount /\ Unplaced # {} /\ Ready = {}
      BY <1>1, <2>1 DEF IInv, Verdicts, Counted
    <3>2. \A t \in Unplaced : inDegree[t] # 0
      BY <3>1 DEF Ready, Unplaced
    <3>3. \A t \in Unplaced : Into(t, Unplaced) # {}
      BY <3>1, <3>2, ReadyIsFree
    <3>4. Unplaced \in SUBSET targets
      BY <3>1 DEF TypeOK, Unplaced
    <3> QED
      BY <3>1, <3>3, <3>4 DEF Knotted
  <2>2. ASSUME outcome = "ok", NEW S \in SUBSET targets PROVE ~Knotted(S)
    BY <1>1, <2>2 DEF IInv, KnotsUnplaced, Verdicts, Knotted, Counted
  <2> QED
    BY <2>1, <2>2 DEF CycleIffKnotted
<1> QED
  BY <1>1, Inductive, PTL

-----------------------------------------------------------------------------
(* The webhook and the execution plan: their specification is PASpec, with PAInv *)

Injective(s) == \A i, j \in 1 .. Len(s) : i # j => s[i] # s[j]

\* The shape of an applied plan; a plan that was never applied has none.
SpecOK ==
  /\ spec.type \in {"", "Sequential", "Parallel", "DAG", "Staged"}
  /\ spec.type = "" <=> step = "unchecked"
  /\ spec.targets \in Seq(Names) /\ Injective(spec.targets)
  /\ spec.deps \in DependencyLists /\ (spec.type # "DAG" => spec.deps = <<>>)
  /\ spec.stages \in Seq(StageSpecs)
  /\ spec.max \in {0, 1} /\ reverse \in BOOLEAN
  /\ step \in {"webhook", "rejected", "accepted", "build", "unchecked"}

\* The names validateDAG has taken from its queue.
Visited == {t \in DOMAIN degree : degree[t] = 0} \ queue

\* A set every member of which has a dependent in it.
OutKnot(S) == S # {} /\ \A t \in S : OutOf(t, S) # {}

\* A set every member of which depends on a member.
InKnot(S) ==
  S # {} /\ \A t \in S : \E i \in 1 .. Len(spec.deps) :
                           spec.deps[i].to = t /\ spec.deps[i].from \in S

\* Before validateDAG has counted, and for the other strategies.
KahnIdle == degree = [t \in {} |-> 0] /\ queue = {} /\ visited = 0

\* What the degrees and the queue of validateDAG mean.
KahnRuns ==
  /\ spec.type = "DAG" /\ ~DagErrors
  /\ degree \in [Declared -> Nat] /\ queue \subseteq Declared
  /\ \A t \in Declared : degree[t] = Cardinality(OutOf(t, Declared \ Visited))
  /\ \A t \in queue : degree[t] = 0
  /\ visited = Cardinality(Visited)
  /\ \A S \in SUBSET Declared : OutKnot(S) => S \cap Visited = {}
  /\ \A S \in SUBSET Declared : InKnot(S) => S \ Visited # {}

KahnInv == KahnIdle \/ KahnRuns

\* What the webhook's answer says of the plan.
AcceptedDAG == ~DagErrors /\ \A S \in SUBSET Declared : ~OutKnot(S) /\ ~InKnot(S)

RejectedDAG == DagErrors \/ \E S \in SUBSET Declared : OutKnot(S)

VerdictExact ==
  /\ step \in {"accepted", "build"} /\ spec.type = "DAG" => AcceptedDAG
  /\ step = "rejected" /\ spec.type = "DAG" => RejectedDAG
  /\ step \in {"accepted", "build"} /\ spec.type = "Staged" => ~StagedErrors

\* The effective plan lists the targets that are not disabled, in order, and has the
\* plan's own strategy or the one an exception carries.
EffectiveInv ==
  /\ effective \in Seq(Names) /\ Injective(effective)
  /\ EffectiveSet = Declared \ disabled
  /\ strategy = Own \/ strategy \in Replacements
  /\ \A i \in 1 .. Len(spec.deps) : spec.deps[i].from \notin disabled

\* The Planner has not been called.
Fresh ==
  /\ targets = {} /\ deps = <<>> /\ inDegree = [t \in {} |-> 0]
  /\ levels = <<>> /\ outcome = "start"

\* What the Planner has been called with, and what it answers.
BuildInv ==
  /\ step \in {"webhook", "accepted", "rejected"} => Fresh
  /\ step = "build" /\ strategy.type # "DAG" => outcome = "ok"
  /\ step = "build" /\ strategy.type = "DAG" =>
       /\ targets = EffectiveSet /\ deps = Directed(reverse)
       /\ IInv
       /\ \A k \in 1 .. Len(levels) : levels[k] # {}
       /\ outcome = "notFound" => ~Known

PAInv == SpecOK /\ KahnInv /\ VerdictExact /\ EffectiveInv /\ BuildInv

-----------------------------------------------------------------------------
(* Operators *)

\* A list of dependencies is a sequence of them.
LEMMA DependencyListIsSeq ==
  ASSUME NEW d \in DependencyLists
  PROVE  d \in Seq(Dependency) /\ Len(d) \in 0 .. MaxDeps
<1>1. PICK n \in 0 .. MaxDeps : d \in [1 .. n -> Dependency]
  BY DEF DependencyLists
<1> QED
  BY <1>1, NamesAssumption

\* The declared names are finitely many.
LEMMA DeclaredFinite ==
  ASSUME SpecOK
  PROVE  /\ Declared \subseteq Names /\ IsFiniteSet(Declared)
         /\ \A S \in SUBSET Declared : IsFiniteSet(S) /\ Cardinality(S) \in Nat
<1>0. spec.targets \in Seq(Names)
  BY DEF SpecOK
<1>1. Declared \subseteq Names
  BY <1>0 DEF Declared
<1>2. \A S \in SUBSET Declared : IsFiniteSet(S)
  BY <1>1, NamesAssumption, FS_Subset
<1> QED
  BY <1>1, <1>2, FS_CardinalityType

\* The dependents of a name in a set are finitely many.
LEMMA OutOfFinite ==
  ASSUME SpecOK, NEW t, NEW S
  PROVE  IsFiniteSet(OutOf(t, S)) /\ Cardinality(OutOf(t, S)) \in Nat
<1>0. spec.deps \in DependencyLists
  BY DEF SpecOK
<1>1. Len(spec.deps) \in Nat
  BY <1>0, DependencyListIsSeq
<1>2. IsFiniteSet(1 .. Len(spec.deps))
  BY <1>1, FS_Interval
<1>3. OutOf(t, S) \in SUBSET (1 .. Len(spec.deps))
  BY DEF OutOf
<1>4. IsFiniteSet(OutOf(t, S))
  BY <1>2, <1>3, FS_Subset
<1> QED
  BY <1>4, FS_CardinalityType

\* Taking a name out of the set takes the dependencies of that name out.
LEMMA OutOfDifference ==
  ASSUME SpecOK, NEW t, NEW S, NEW node \in S
  PROVE  Cardinality(OutOf(t, S \ {node})) = Cardinality(OutOf(t, S)) - Cardinality(OutOf(t, {node}))
<1>1. OutOf(t, S \ {node}) = OutOf(t, S) \ OutOf(t, {node})
  BY DEF OutOf
<1>2. OutOf(t, S) \cap OutOf(t, {node}) = OutOf(t, {node})
  BY DEF OutOf
<1>3. IsFiniteSet(OutOf(t, S))
  BY OutOfFinite
<1>4. Cardinality(OutOf(t, S) \ OutOf(t, {node}))
        = Cardinality(OutOf(t, S)) - Cardinality(OutOf(t, S) \cap OutOf(t, {node}))
  BY <1>3, FS_Difference
<1> QED
  BY <1>1, <1>2, <1>4

\* Degree 0 means no dependent in the set.
LEMMA OutOfEmpty ==
  ASSUME SpecOK, NEW t, NEW S
  PROVE  Cardinality(OutOf(t, S)) = 0 <=> OutOf(t, S) = {}
BY OutOfFinite, FS_EmptySet

-----------------------------------------------------------------------------
(* The webhook *)

\* validateDAG starts with nothing visited.
LEMMA StartKahnKeeps ==
  ASSUME SpecOK, KahnInv, StartKahn
  PROVE  KahnInv'
<1>0. /\ spec' = spec /\ visited' = visited
      /\ spec.type = "DAG" /\ ~DagErrors
      /\ degree' = [t \in Declared |-> Cardinality(OutOf(t, Declared))]
      /\ queue' = {t \in Declared : degree'[t] = 0}
  BY DEF StartKahn
<1>1. CASE DOMAIN degree # {}
  BY <1>1 DEF StartKahn
<1>2. CASE Declared = {} /\ DOMAIN degree = {}
  <2>1. degree' = [t \in {} |-> 0] /\ queue' = {}
    BY <1>0, <1>2
  <2>2. visited = 0
    <3>1. CASE KahnIdle
      BY <3>1 DEF KahnIdle
    <3>2. CASE KahnRuns
      <4>1. Visited = {} /\ visited = Cardinality(Visited)
        BY <3>2, <1>2 DEF KahnRuns, Visited
      <4> QED
        BY <4>1, FS_EmptySet
    <3> QED
      BY <3>1, <3>2 DEF KahnInv
  <2> QED
    BY <2>1, <2>2, <1>0 DEF KahnInv, KahnIdle
<1>3. CASE Declared # {} /\ DOMAIN degree = {}
  <2>1. visited = 0
    BY <1>3 DEF KahnInv, KahnIdle, KahnRuns
  <2>2. /\ Declared' = Declared /\ DagErrors' = DagErrors
        /\ \A t, S : OutOf(t, S)' = OutOf(t, S)
    BY <1>0 DEF Declared, DagErrors, OutOf
  <2>3. \A t \in Declared : Cardinality(OutOf(t, Declared)) \in Nat
    BY OutOfFinite
  <2>4. Visited' = {}
    BY <1>0 DEF Visited
  <2>5. \A S : OutKnot(S)' <=> OutKnot(S)
    BY <2>2 DEF OutKnot
  <2>6. \A S : InKnot(S)' <=> InKnot(S)
    BY <1>0 DEF InKnot
  <2>7. \A S \in SUBSET Declared : InKnot(S) => S # {}
    BY DEF InKnot
  <2>8. Cardinality(Visited') = 0
    BY <2>4, FS_EmptySet
  <2>9. KahnRuns'
    BY <1>0, <2>1, <2>2, <2>3, <2>4, <2>6, <2>7, <2>8 DEF KahnRuns
  <2> QED
    BY <2>9 DEF KahnInv
<1> QED
  BY <1>1, <1>2, <1>3

\* Visiting a name adds it to the visited ones and keeps what the degrees mean.
LEMMA VisitNodeKeeps ==
  ASSUME SpecOK, KahnInv, VisitNode
  PROVE  KahnInv'
<1>1. PICK node \in queue :
        /\ degree' = Lowered(node)
        /\ queue' = (queue \ {node}) \cup
                    {t \in Declared : OutOf(t, {node}) # {} /\ Lowered(node)[t] = 0}
  BY DEF VisitNode
<1>2. spec' = spec /\ visited' = visited + 1
  BY DEF VisitNode
<1>3. KahnRuns
  BY <1>1 DEF KahnInv, KahnIdle
<1> DEFINE D == Declared
           U == Declared \ Visited
<1>4. /\ degree \in [D -> Nat] /\ queue \subseteq D /\ ~DagErrors /\ spec.type = "DAG"
      /\ \A t \in D : degree[t] = Cardinality(OutOf(t, U))
      /\ \A t \in queue : degree[t] = 0
      /\ visited = Cardinality(Visited)
  BY <1>3 DEF KahnRuns
<1>5. node \in U /\ node \in D /\ Visited \subseteq D /\ node \notin Visited
  BY <1>1, <1>4 DEF Visited
<1>6. \A t \in D : degree'[t] = degree[t] - Cardinality(OutOf(t, {node}))
  BY <1>1 DEF Lowered
<1>7. DOMAIN degree' = D
  BY <1>1 DEF Lowered
<1>8. \A t \in D : degree[t] = 0 => OutOf(t, U) = {} /\ OutOf(t, {node}) = {}
  <2> SUFFICES ASSUME NEW t \in D, degree[t] = 0
               PROVE  OutOf(t, U) = {} /\ OutOf(t, {node}) = {}
    OBVIOUS
  <2>1. OutOf(t, U) = {}
    BY <1>4, OutOfEmpty
  <2>2. OutOf(t, {node}) \subseteq OutOf(t, U)
    BY <1>5 DEF OutOf
  <2> QED
    BY <2>1, <2>2
<1>9. \A t \in D : OutOf(t, {node}) = {} => degree'[t] = degree[t]
  <2> SUFFICES ASSUME NEW t \in D, OutOf(t, {node}) = {}
               PROVE  degree'[t] = degree[t]
    OBVIOUS
  <2>1. Cardinality(OutOf(t, {node})) = 0
    BY FS_EmptySet
  <2>2. degree[t] \in Nat
    BY <1>4
  <2>3. degree'[t] = degree[t] - Cardinality(OutOf(t, {node}))
    BY <1>6
  <2> QED
    BY <2>1, <2>2, <2>3
<1>10. \A t \in D : t \in queue' <=>
                      \/ t \in queue /\ t # node
                      \/ OutOf(t, {node}) # {} /\ degree'[t] = 0
  BY <1>1
<1>11. queue' \subseteq D
  BY <1>1, <1>4
<1>12. \A t \in D : t \in Visited <=> degree[t] = 0 /\ t \notin queue
  BY <1>4 DEF Visited
<1>13. \A t : t \in Visited' <=> t \in D /\ degree'[t] = 0 /\ t \notin queue'
  BY <1>7 DEF Visited
<1>14. Visited' = Visited \cup {node}
  <2>1. ASSUME NEW t \in D PROVE t \in Visited' <=> t \in Visited \/ t = node
    <3>1. CASE OutOf(t, {node}) = {}
      BY <3>1, <1>1, <1>4, <1>9, <1>10, <1>12, <1>13
    <3>2. CASE OutOf(t, {node}) # {}
      BY <3>2, <1>1, <1>4, <1>8, <1>10, <1>12, <1>13
    <3> QED
      BY <3>1, <3>2
  <2> QED
    BY <2>1, <1>5, <1>13
<1>15. \A t \in D : degree'[t] = Cardinality(OutOf(t, U \ {node})) /\ degree'[t] \in Nat
  <2> SUFFICES ASSUME NEW t \in D
               PROVE  degree'[t] = Cardinality(OutOf(t, U \ {node})) /\ degree'[t] \in Nat
    OBVIOUS
  <2> HIDE DEF U, D
  <2>1. Cardinality(OutOf(t, U \ {node})) = Cardinality(OutOf(t, U)) - Cardinality(OutOf(t, {node}))
    BY <1>5, OutOfDifference
  <2>2. Cardinality(OutOf(t, U \ {node})) \in Nat
    BY OutOfFinite
  <2> QED
    BY <2>1, <2>2, <1>4, <1>6
<1>16. \A t \in queue' : degree'[t] = 0
  BY <1>1, <1>4, <1>8, <1>9, <1>10, <1>11
<1>17. visited' = Cardinality(Visited')
  <2>1. IsFiniteSet(Visited)
    BY <1>5, DeclaredFinite
  <2> QED
    BY <2>1, <1>2, <1>4, <1>5, <1>14, FS_AddElement
<1>18. /\ Declared' = D /\ DagErrors' = DagErrors
       /\ \A t, S : OutOf(t, S)' = OutOf(t, S)
  BY <1>2 DEF Declared, DagErrors, OutOf
<1>19. \A S : (OutKnot(S)' <=> OutKnot(S)) /\ (InKnot(S)' <=> InKnot(S))
  BY <1>2, <1>18 DEF OutKnot, InKnot
<1>20. ASSUME NEW S \in SUBSET D, OutKnot(S) PROVE S \cap Visited' = {}
  <2>1. S \cap Visited = {}
    BY <1>3, <1>20 DEF KahnRuns
  <2>2. node \in S => OutOf(node, U) # {}
    BY <1>20, <2>1 DEF OutKnot, OutOf
  <2> QED
    BY <2>1, <2>2, <1>1, <1>4, <1>5, <1>8, <1>14
<1>21. ASSUME NEW S \in SUBSET D, InKnot(S) PROVE S \ Visited' # {}
  <2>1. PICK x \in S : x \notin Visited
    BY <1>3, <1>21 DEF KahnRuns
  <2>2. CASE x = node
    <3>1. PICK i \in 1 .. Len(spec.deps) : spec.deps[i].to = node /\ spec.deps[i].from \in S
      BY <1>21, <2>2 DEF InKnot
    <3> DEFINE p == spec.deps[i].from
    <3>2. i \in OutOf(p, {node}) /\ p \in D
      BY <3>1 DEF OutOf
    <3>3. degree[p] # 0
      BY <3>2, <1>8
    <3>4. p \notin Visited /\ p # node
      BY <3>2, <3>3, <1>1, <1>4, <1>12
    <3> QED
      BY <3>1, <3>4, <1>14
  <2>3. CASE x # node
    BY <2>1, <2>3, <1>14
  <2> QED
    BY <2>2, <2>3
<1>22. Declared' \ Visited' = U \ {node}
  BY <1>14, <1>18
<1>23. degree' \in [Declared' -> Nat]
  <2>1. degree' = [t \in D |-> degree'[t]]
    BY <1>1 DEF Lowered
  <2> QED
    BY <2>1, <1>15, <1>18
<1> HIDE DEF D, U
<1>24. \A t \in Declared' : degree'[t] = Cardinality(OutOf(t, Declared \ Visited))'
  <2>1. \A t : OutOf(t, Declared \ Visited)' = OutOf(t, U \ {node})
    BY <1>2, <1>22 DEF OutOf
  <2> QED
    BY <2>1, <1>15, <1>18
<1>25. KahnRuns'
  BY <1>2, <1>4, <1>11, <1>16, <1>17, <1>18, <1>19, <1>20, <1>21, <1>23, <1>24 DEF KahnRuns
<1> QED
  BY <1>25 DEF KahnInv

\* When the queue is empty, counting the visited names decides exactly.
LEMMA VerdictDecides ==
  ASSUME SpecOK, KahnRuns, queue = {}
  PROVE  /\ visited = Cardinality(Declared) => AcceptedDAG
         /\ visited # Cardinality(Declared) => RejectedDAG
<1>0. Visited \subseteq Declared /\ IsFiniteSet(Declared)
  BY DeclaredFinite DEF KahnRuns, Visited
<1>1. ASSUME visited = Cardinality(Declared) PROVE AcceptedDAG
  <2>1. Visited = Declared
    BY <1>0, <1>1, FS_Subset DEF KahnRuns
  <2>2. \A S \in SUBSET Declared : ~OutKnot(S)
    BY <2>1 DEF KahnRuns, OutKnot
  <2>3. \A S \in SUBSET Declared : ~InKnot(S)
    BY <2>1 DEF KahnRuns
  <2> QED
    BY <2>2, <2>3 DEF AcceptedDAG, KahnRuns
<1>2. ASSUME visited # Cardinality(Declared) PROVE RejectedDAG
  <2> DEFINE U == Declared \ Visited
  <2>1. U # {}
    BY <1>0, <1>2 DEF KahnRuns
  <2>2. \A t \in U : degree[t] # 0
    BY DEF KahnRuns, Visited
  <2>3. \A t \in U : OutOf(t, U) # {}
    BY <2>2, OutOfEmpty DEF KahnRuns
  <2> QED
    BY <2>1, <2>3 DEF RejectedDAG, OutKnot
<1> QED
  BY <1>1, <1>2

-----------------------------------------------------------------------------
(* The exception and the controller *)

\* Filtering one name out keeps the order and leaves the other names.
LEMMA WithoutOne ==
  ASSUME NEW s \in Seq(Names), Injective(s), NEW t \in Elements(s)
  PROVE  /\ Without(s, t) \in Seq(Names) /\ Injective(Without(s, t))
         /\ Elements(Without(s, t)) = Elements(s) \ {t}
<1> DEFINE n == Len(s)
           p == CHOOSE i \in 1 .. Len(s) : s[i] = t
           w == Without(s, t)
<1>1. n \in Nat /\ p \in 1 .. n /\ s[p] = t /\ \A i \in 1 .. n : s[i] \in Names
  BY DEF Elements
<1>2. w = [i \in 1 .. n - 1 |-> IF i < p THEN s[i] ELSE s[i + 1]]
  BY DEF Without
<1>3. \A i, j \in 1 .. n : i # j => s[i] # s[j]
  BY DEF Injective
<1>4. Elements(s) = {s[i] : i \in 1 .. n}
  BY DEF Elements
<1> HIDE DEF n, p, w
<1>5. w \in Seq(Names) /\ Len(w) = n - 1
  BY <1>1, <1>2
<1>6. \A i \in 1 .. n - 1 : w[i] = IF i < p THEN s[i] ELSE s[i + 1]
  BY <1>2
<1>7. Injective(w)
  BY <1>1, <1>3, <1>5, <1>6 DEF Injective
<1>8. ASSUME NEW u PROVE u \in Elements(w) <=> u \in Elements(s) /\ u # t
  <2>1. ASSUME u \in Elements(w) PROVE u \in Elements(s) /\ u # t
    <3>1. PICK i \in 1 .. n - 1 : u = w[i]
      BY <2>1, <1>5 DEF Elements
    <3> QED
      BY <3>1, <1>1, <1>3, <1>4, <1>6
  <2>2. ASSUME u \in Elements(s), u # t PROVE u \in Elements(w)
    <3>1. PICK i \in 1 .. n : u = s[i]
      BY <2>2, <1>4
    <3>2. i # p
      BY <3>1, <2>2, <1>1
    <3>3. CASE i < p
      <4>1. i \in 1 .. n - 1 /\ w[i] = u
        BY <3>1, <3>3, <1>1, <1>6
      <4> QED
        BY <4>1, <1>5 DEF Elements
    <3>4. CASE i > p
      <4>1. i - 1 \in 1 .. n - 1 /\ w[i - 1] = s[i - 1 + 1] /\ i - 1 + 1 = i
        BY <3>1, <3>4, <1>1, <1>6
      <4> QED
        BY <4>1, <3>1, <1>5 DEF Elements
    <3> QED
      BY <3>2, <3>3, <3>4, <1>1
  <2> QED
    BY <2>1, <2>2
<1> QED
  BY <1>5, <1>7, <1>8 DEF w

\* The initial state of PlanDAG has the invariant of PlanDAG, in the step that
\* calls it too.
LEMMA CalledIInv == Init' => IInv'
BY InitIInv, PTL

\* The strategy in force has the shape of one.
LEMMA StrategyHas ==
  ASSUME SpecOK, EffectiveInv
  PROVE  /\ strategy.deps \in DependencyLists /\ strategy.max \in Nat
         /\ step # "unchecked" => strategy.type \in StrategyTypes
<1>1. CASE strategy = Own
  <2>1. strategy.type = spec.type /\ strategy.deps = spec.deps /\ strategy.max = spec.max
    BY <1>1 DEF Own
  <2>2. /\ spec.deps \in DependencyLists /\ spec.max \in {0, 1}
        /\ spec.type \in {"", "Sequential", "Parallel", "DAG", "Staged"}
        /\ spec.type = "" => step = "unchecked"
    BY DEF SpecOK
  <2>3. spec.max \in Nat
    <3>1. {0, 1} \subseteq Nat
      OBVIOUS
    <3> QED
      BY <2>2, <3>1, Zenon
  <2>4. ASSUME step # "unchecked" PROVE spec.type \in StrategyTypes
    BY <2>2, <2>4 DEF StrategyTypes
  <2> QED
    BY <2>1, <2>2, <2>3, <2>4
<1>2. CASE strategy \in Replacements
  BY <1>2, AdmissionAssumption
<1> QED
  BY <1>1, <1>2 DEF EffectiveInv

\* The dependencies in either direction are dependencies.
LEMMA DirectedIsList ==
  ASSUME SpecOK, EffectiveInv, NEW r \in BOOLEAN
  PROVE  /\ Directed(r) \in DependencyLists /\ Len(Directed(r)) = Len(strategy.deps)
         /\ \A i \in 1 .. Len(strategy.deps) :
              /\ Directed(r)[i].from = IF r THEN strategy.deps[i].to ELSE strategy.deps[i].from
              /\ Directed(r)[i].to = IF r THEN strategy.deps[i].from ELSE strategy.deps[i].to
<1>0. strategy.deps \in DependencyLists
  BY StrategyHas
<1>1. PICK n \in 0 .. MaxDeps : strategy.deps \in [1 .. n -> Dependency]
  BY <1>0 DEF DependencyLists
<1>2. Len(strategy.deps) = n
  BY <1>1, NamesAssumption
<1>3. \A i \in 1 .. n : strategy.deps[i] \in Dependency
  BY <1>1
<1>4. Directed(r) \in [1 .. n -> Dependency]
  BY <1>2, <1>3 DEF Directed, Dependency
<1>5. Len(Directed(r)) = n
  BY <1>4, NamesAssumption
<1>6. \A i \in 1 .. n : Directed(r)[i] =
        IF r THEN [from |-> strategy.deps[i].to, to |-> strategy.deps[i].from] ELSE strategy.deps[i]
  BY <1>2 DEF Directed
<1> QED
  BY <1>1, <1>2, <1>4, <1>5, <1>6 DEF DependencyLists

\* What the actions of the webhook and the controller leave of the definitions
\* that depend on the plan alone.
LEMMA SpecUnchanged ==
  ASSUME spec' = spec
  PROVE  /\ Declared' = Declared /\ DagErrors' = DagErrors /\ StagedErrors' = StagedErrors
         /\ AcceptedDAG' = AcceptedDAG /\ RejectedDAG' = RejectedDAG
<1>1. /\ Declared' = Declared /\ DagErrors' = DagErrors
      /\ \A t, S : OutOf(t, S)' = OutOf(t, S)
  BY DEF Declared, DagErrors, OutOf
<1>2. StagedErrors' = StagedErrors
  BY <1>1 DEF StagedErrors, AssignedTwice, StageNames
<1>3. \A S : (OutKnot(S)' <=> OutKnot(S)) /\ (InKnot(S)' <=> InKnot(S))
  BY <1>1 DEF OutKnot, InKnot
<1> QED
  BY <1>1, <1>2, <1>3 DEF AcceptedDAG, RejectedDAG

\* A step that leaves the plan and validateDAG's variables alone.
LEMMA KahnUnchanged ==
  ASSUME KahnInv, spec' = spec, UNCHANGED kahnVars
  PROVE  KahnInv'
<1>1. degree' = degree /\ queue' = queue /\ visited' = visited
  BY DEF kahnVars
<1>2. Declared' = Declared /\ DagErrors' = DagErrors /\ Visited' = Visited
  BY <1>1 DEF Declared, DagErrors, Visited
<1>3. \A t : OutOf(t, Declared \ Visited)' = OutOf(t, Declared \ Visited)
  BY <1>2 DEF OutOf
<1>4. \A S : (OutKnot(S)' <=> OutKnot(S)) /\ (InKnot(S)' <=> InKnot(S))
  BY DEF OutKnot, InKnot, OutOf
<1>5. KahnIdle' <=> KahnIdle
  BY <1>1 DEF KahnIdle
<1>6. KahnRuns => KahnRuns'
  BY <1>1, <1>2, <1>3, <1>4 DEF KahnRuns
<1> QED
  BY <1>5, <1>6 DEF KahnInv

\* A step that leaves the plan and the exceptions alone.
LEMMA EffectiveUnchanged ==
  ASSUME EffectiveInv, spec' = spec, UNCHANGED exceptionVars
  PROVE  EffectiveInv' /\ EffectiveSet' = EffectiveSet
BY DEF EffectiveInv, exceptionVars, EffectiveSet, Declared, Injective, Elements, Own

\* A plan as it is applied, and a plan that was never applied.
LEMMA InitPAInv == PAInit => PAInv
<1> SUFFICES ASSUME PAInit PROVE PAInv
  OBVIOUS
<1>0. KahnInv /\ disabled = {} /\ effective = spec.targets /\ strategy = Own /\ reverse = FALSE
  BY DEF PAInit, KahnInv, KahnIdle
<1>1. /\ SpecOK /\ step \in {"webhook", "unchecked"}
      /\ step = "webhook" => Fresh
  <2>1. ASSUME NEW s \in Strategies, spec \in SpecsOf(s), step = "webhook" PROVE SpecOK
    <3>1. /\ spec.type = s /\ spec.targets \in TargetLists /\ spec.max \in {0, 1}
          /\ spec.deps \in IF s = "DAG" THEN UNION {[1 .. n -> Dependency] : n \in 0 .. MaxListed} ELSE {<<>>}
          /\ spec.stages \in IF s = "Staged" THEN StageLists ELSE {<<>>}
      BY <2>1 DEF SpecsOf
    <3>2. s \in {"Sequential", "Parallel", "DAG", "Staged"}
      BY AdmissionAssumption DEF StrategyTypes
    <3>3. spec.targets \in Seq(Names) /\ Injective(spec.targets)
      <4>1. PICK n \in 1 .. Cardinality(Names) : spec.targets \in [1 .. n -> Names]
        BY <3>1 DEF TargetLists
      <4>2. Cardinality(Names) \in Nat
        BY NamesAssumption, FS_CardinalityType
      <4> QED
        BY <3>1, <4>1, <4>2 DEF TargetLists, Injective
    <3>4. <<>> \in DependencyLists
      BY NamesAssumption DEF DependencyLists
    <3>5. spec.deps \in DependencyLists /\ (s # "DAG" => spec.deps = <<>>)
      <4>1. CASE s = "DAG"
        <5>1. PICK n \in 0 .. MaxListed : spec.deps \in [1 .. n -> Dependency]
          BY <3>1, <4>1
        <5>2. n \in 0 .. MaxDeps
          BY AdmissionAssumption, NamesAssumption
        <5> QED
          BY <5>1, <5>2, <4>1 DEF DependencyLists
      <4> QED
        BY <3>1, <3>4, <4>1
    <3>6. spec.stages \in Seq(StageSpecs)
      <4>1. CASE s = "Staged"
        <5>1. PICK n \in 0 .. MaxStages : spec.stages \in [1 .. n -> StageSpecs]
          BY <3>1, <4>1 DEF StageLists
        <5> QED
          BY <5>1, AdmissionAssumption
      <4>2. CASE s # "Staged"
        <5>1. spec.stages = <<>>
          BY <3>1, <4>2
        <5> QED
          BY <5>1, EmptySeq
      <4> QED
        BY <4>1, <4>2
    <3> QED
      BY <3>1, <3>2, <3>3, <3>5, <3>6, <1>0, <2>1 DEF SpecOK
  <2>2. ASSUME spec = NoSpec, step = "unchecked" PROVE SpecOK
    <3>1. <<>> \in DependencyLists
      BY NamesAssumption DEF DependencyLists
    <3>2. Injective(<<>>)
      BY DEF Injective
    <3>3. /\ spec.type = "" /\ spec.targets = <<>> /\ spec.deps = <<>>
          /\ spec.stages = <<>> /\ spec.max = 0
      BY <2>2 DEF NoSpec
    <3>4. <<>> \in Seq(Names) /\ <<>> \in Seq(StageSpecs)
      BY EmptySeq
    <3> QED
      BY <2>2, <3>1, <3>2, <3>3, <3>4, <1>0 DEF SpecOK
  <2> QED
    BY <2>1, <2>2 DEF PAInit, Fresh
<1>2. VerdictExact
  BY <1>1 DEF VerdictExact
<1>3. EffectiveInv
  BY <1>0, <1>1 DEF EffectiveInv, SpecOK, EffectiveSet, Declared, Elements
<1>4. BuildInv
  BY <1>1 DEF BuildInv
<1> QED
  BY <1>0, <1>1, <1>2, <1>3, <1>4 DEF PAInv

\* The webhook's answer.
LEMMA WebhookPAInv ==
  ASSUME PAInv, ValidateStrategy \/ StartKahn \/ VisitNode \/ EndKahn
  PROVE  PAInv'
<1>0. /\ spec' = spec /\ reverse' = reverse /\ UNCHANGED exceptionVars /\ UNCHANGED vars
      /\ step = "webhook" /\ step' \in {"webhook", "accepted", "rejected"}
  BY DEF ValidateStrategy, StartKahn, VisitNode, EndKahn, Verdict
<1>1. SpecOK'
  BY <1>0 DEF PAInv, SpecOK, Injective
<1>2. KahnInv'
  <2>1. CASE ValidateStrategy \/ EndKahn
    BY <2>1, <1>0, KahnUnchanged DEF ValidateStrategy, EndKahn, PAInv
  <2> QED
    BY <2>1, StartKahnKeeps, VisitNodeKeeps DEF PAInv
<1>3. EffectiveInv'
  BY <1>0, EffectiveUnchanged DEF PAInv
<1>4. BuildInv'
  <2>1. Fresh'
    BY <1>0 DEF PAInv, BuildInv, Fresh, vars, input
  <2> QED
    BY <1>0, <2>1 DEF BuildInv
<1>5. VerdictExact'
  <2>1. CASE ValidateStrategy
    <3>1. spec.type = "DAG" => step' = "rejected" /\ DagErrors
      BY <2>1 DEF ValidateStrategy
    <3>2. spec.type = "Staged" => step' = IF StagedErrors THEN "rejected" ELSE "accepted"
      BY <2>1 DEF ValidateStrategy
    <3> QED
      BY <3>1, <3>2, <1>0, SpecUnchanged DEF VerdictExact, RejectedDAG
  <2>2. CASE StartKahn \/ VisitNode
    BY <2>2, <1>0 DEF StartKahn, VisitNode, VerdictExact
  <2>3. CASE EndKahn
    <3>1. KahnRuns /\ queue = {} /\ step' = Verdict
      BY <2>3 DEF EndKahn, PAInv, KahnInv, KahnIdle
    <3>2. step' = "accepted" => visited = Cardinality(Declared)
      BY <3>1 DEF Verdict
    <3>3. step' = "rejected" => visited # Cardinality(Declared)
      BY <3>1 DEF Verdict
    <3>4. spec.type = "DAG"
      BY <3>1 DEF KahnRuns
    <3> QED
      BY <3>1, <3>2, <3>3, <3>4, <1>0, VerdictDecides, SpecUnchanged DEF VerdictExact, PAInv
  <2> QED
    BY <2>1, <2>2, <2>3
<1> QED
  BY <1>1, <1>2, <1>3, <1>4, <1>5 DEF PAInv

\* An exception disables a target.
LEMMA DisableTargetPAInv ==
  ASSUME PAInv, DisableTarget
  PROVE  PAInv'
<1>0. /\ spec' = spec /\ step' = step /\ step = "accepted" /\ reverse' = reverse
      /\ UNCHANGED kahnVars /\ UNCHANGED vars /\ strategy' = strategy /\ Own' = Own
  BY DEF DisableTarget, Own
<1>1. PICK t \in Declared \ disabled :
        ~HasDependencyOn(t) /\ disabled' = disabled \cup {t} /\ effective' = Without(effective, t)
  BY DEF DisableTarget
<1>2. effective \in Seq(Names) /\ Injective(effective) /\ Elements(effective) = Declared \ disabled
  BY DEF PAInv, EffectiveInv, EffectiveSet
<1>3. /\ effective' \in Seq(Names) /\ Injective(effective)'
      /\ Elements(effective)' = Elements(effective) \ {t}
  <2>1. /\ effective' \in Seq(Names) /\ Injective(effective')
        /\ Elements(effective') = Elements(effective) \ {t}
    BY <1>1, <1>2, WithoutOne
  <2> QED
    BY <2>1 DEF Injective, Elements
<1>4. \A i \in 1 .. Len(spec.deps) : spec.deps[i].from # t
  <2>1. CASE spec.type = "DAG"
    BY <2>1, <1>1 DEF HasDependencyOn
  <2>2. CASE spec.type # "DAG"
    <3>1. spec.deps = <<>>
      BY <2>2 DEF PAInv, SpecOK
    <3> QED
      BY <3>1
  <2> QED
    BY <2>1, <2>2
<1>5. Declared' = Declared
  BY <1>0 DEF Declared
<1>6. EffectiveInv'
  BY <1>0, <1>1, <1>2, <1>3, <1>4, <1>5 DEF EffectiveInv, EffectiveSet, PAInv
<1>7. SpecOK' /\ KahnInv'
  BY <1>0, KahnUnchanged DEF PAInv, SpecOK, Injective
<1>8. VerdictExact'
  BY <1>0, SpecUnchanged DEF PAInv, VerdictExact
<1>9. BuildInv'
  BY <1>0 DEF PAInv, BuildInv, Fresh, vars, input
<1> QED
  BY <1>6, <1>7, <1>8, <1>9 DEF PAInv

\* An exception replaces the strategy.
LEMMA ReplaceStrategyPAInv ==
  ASSUME PAInv, ReplaceStrategy
  PROVE  PAInv'
<1>0. /\ spec' = spec /\ step' = step /\ step = "accepted" /\ reverse' = reverse
      /\ UNCHANGED kahnVars /\ UNCHANGED vars /\ UNCHANGED <<disabled, effective>>
      /\ strategy' \in Replacements
  BY DEF ReplaceStrategy
<1>1. SpecOK' /\ KahnInv'
  BY <1>0, KahnUnchanged DEF PAInv, SpecOK, Injective
<1>2. VerdictExact'
  BY <1>0, SpecUnchanged DEF PAInv, VerdictExact
<1>3. EffectiveInv'
  BY <1>0 DEF PAInv, EffectiveInv, EffectiveSet, Declared, Injective, Elements
<1>4. BuildInv'
  BY <1>0 DEF PAInv, BuildInv, Fresh, vars, input
<1> QED
  BY <1>1, <1>2, <1>3, <1>4 DEF PAInv

\* buildExecutionPlan calls the Planner with the effective targets and the
\* dependencies in the direction asked for.
LEMMA BuildPAInv ==
  ASSUME PAInv, BuildExecutionPlan
  PROVE  PAInv'
<1>0. /\ spec' = spec /\ step = "accepted" /\ step' = "build" /\ reverse' \in BOOLEAN
      /\ UNCHANGED kahnVars /\ UNCHANGED exceptionVars /\ UNCHANGED <<inDegree, levels>>
      /\ effective' = effective /\ strategy' = strategy
  BY DEF BuildExecutionPlan, exceptionVars
<1>1. SpecOK' /\ KahnInv' /\ EffectiveInv' /\ EffectiveSet' = EffectiveSet
  BY <1>0, KahnUnchanged, EffectiveUnchanged DEF PAInv, SpecOK, Injective
<1>2. VerdictExact'
  BY <1>0, SpecUnchanged DEF PAInv, VerdictExact
<1>3. Fresh
  BY <1>0 DEF PAInv, BuildInv
<1>4. ASSUME strategy.type = "DAG"
      PROVE  /\ targets' = EffectiveSet' /\ deps' = Directed(reverse)'
             /\ IInv' /\ levels' = <<>> /\ outcome' = "start"
  <2>1. targets' = EffectiveSet /\ deps' = Directed(reverse') /\ outcome' = "start"
    BY <1>3, <1>4 DEF BuildExecutionPlan, Fresh
  <2>2. Directed(reverse)' = Directed(reverse')
    BY <1>0 DEF Directed
  <2>3. deps' \in DependencyLists
    BY <2>1, <1>0, DirectedIsList DEF PAInv
  <2>4. targets' \in SUBSET Names
    <3>1. effective \in Seq(Names)
      BY DEF PAInv, EffectiveInv
    <3> QED
      BY <2>1, <3>1 DEF EffectiveSet, Elements
  <2>5. inDegree' = [t \in {} |-> 0] /\ levels' = <<>>
    BY <1>0, <1>3 DEF Fresh
  <2>6. Init'
    BY <2>1, <2>3, <2>4, <2>5 DEF Init
  <2> QED
    BY <2>1, <2>2, <2>5, <2>6, <1>1, CalledIInv
<1>5. ASSUME strategy.type # "DAG" PROVE outcome' = "ok"
  BY <1>5 DEF BuildExecutionPlan
<1>6. BuildInv'
  BY <1>0, <1>4, <1>5 DEF BuildInv
<1> QED
  BY <1>1, <1>2, <1>6 DEF PAInv

\* A step of the Planner.
LEMMA PlanDAGPAInv ==
  ASSUME PAInv, PlanDAG
  PROVE  PAInv'
<1>0. /\ spec' = spec /\ step' = step /\ reverse' = reverse
      /\ UNCHANGED kahnVars /\ UNCHANGED exceptionVars /\ effective' = effective
      /\ step \in {"build", "unchecked"} /\ (step = "build" => strategy.type = "DAG") /\ Next
      /\ strategy' = strategy
  BY DEF PlanDAG, exceptionVars
<1>1. SpecOK' /\ KahnInv' /\ EffectiveInv' /\ EffectiveSet' = EffectiveSet
  BY <1>0, KahnUnchanged, EffectiveUnchanged DEF PAInv, SpecOK, Injective
<1>2. VerdictExact'
  BY <1>0, SpecUnchanged DEF PAInv, VerdictExact
<1>3. ASSUME step = "build"
      PROVE  /\ targets' = EffectiveSet' /\ deps' = Directed(reverse)'
             /\ IInv' /\ (outcome' = "notFound" => ~Known')
             /\ \A k \in 1 .. Len(levels') : levels'[k] # {}
  <2>1. /\ targets = EffectiveSet /\ deps = Directed(reverse) /\ IInv
        /\ \A k \in 1 .. Len(levels) : levels[k] # {}
        /\ outcome = "notFound" => ~Known
    BY <1>0, <1>3 DEF PAInv, BuildInv
  <2>2. targets' = targets /\ deps' = deps
    BY <1>0 DEF Next, UnknownTarget, CountInDegrees, NextLevel, CycleDetected, Finish, input
  <2>3. IInv'
    BY <1>0, <2>1, NextIInv
  <2>4. outcome' = "notFound" => ~Known'
    BY <1>0, <2>1, <2>2 DEF Next, UnknownTarget, CountInDegrees, NextLevel, CycleDetected, Finish, Known
  <2>5. \A k \in 1 .. Len(levels') : levels'[k] # {}
    <3>1. CASE NextLevel
      <4>1. levels' = Append(levels, Ready) /\ Ready # {}
        BY <3>1 DEF NextLevel
      <4>2. levels \in Seq(SUBSET targets)
        BY <2>1 DEF IInv, TypeOK
      <4>3. /\ Len(levels) \in Nat /\ Len(levels') = Len(levels) + 1
            /\ levels'[Len(levels) + 1] = Ready
            /\ \A k \in 1 .. Len(levels) : levels'[k] = levels[k]
        BY <4>1, <4>2
      <4> QED
        BY <4>1, <4>3, <2>1
    <3>2. CASE ~NextLevel
      <4>1. levels' = levels
        BY <3>2, <1>0 DEF Next, UnknownTarget, CountInDegrees, CycleDetected, Finish
      <4> QED
        BY <4>1, <2>1
    <3> QED
      BY <3>1, <3>2
  <2>6. Directed(reverse)' = Directed(reverse)
    BY <1>0 DEF Directed
  <2> QED
    BY <2>1, <2>2, <2>3, <2>4, <2>5, <2>6, <1>1
<1>4. BuildInv'
  BY <1>0, <1>3 DEF BuildInv, PAInv
<1> QED
  BY <1>1, <1>2, <1>4 DEF PAInv

\* Every step, and a step that changes nothing.
LEMMA NextPAInv == PAInv /\ [PANext]_paVars => PAInv'
<1> SUFFICES ASSUME PAInv, [PANext]_paVars PROVE PAInv'
  OBVIOUS
<1>1. CASE UNCHANGED paVars
  <2>1. /\ spec' = spec /\ step' = step /\ reverse' = reverse /\ UNCHANGED kahnVars
        /\ UNCHANGED exceptionVars /\ effective' = effective /\ UNCHANGED vars
        /\ strategy' = strategy
    BY <1>1 DEF paVars, exceptionVars
  <2>2. SpecOK' /\ KahnInv' /\ EffectiveInv' /\ EffectiveSet' = EffectiveSet
    BY <2>1, KahnUnchanged, EffectiveUnchanged DEF PAInv, SpecOK, Injective
  <2>3. VerdictExact'
    BY <2>1, SpecUnchanged DEF PAInv, VerdictExact
  <2>4. /\ targets' = targets /\ deps' = deps /\ inDegree' = inDegree /\ levels' = levels
        /\ outcome' = outcome /\ Directed(reverse)' = Directed(reverse) /\ Known' = Known
    BY <2>1 DEF vars, input, Directed, Known
  <2>5. IInv => IInv'
    BY <2>1, NextIInv
  <2>6. BuildInv'
    BY <2>1, <2>2, <2>4, <2>5 DEF PAInv, BuildInv, Fresh
  <2> QED
    BY <2>2, <2>3, <2>6 DEF PAInv
<1> QED
  BY <1>1, WebhookPAInv, DisableTargetPAInv, ReplaceStrategyPAInv, BuildPAInv, PlanDAGPAInv DEF PANext

\* The inductive invariant of the admission of a plan.
THEOREM AdmissionInvariant == PASpec => []PAInv
BY InitPAInv, NextPAInv, PTL DEF PASpec

\* The webhook's own Kahn algorithm decides exactly: an accepted DAG has known
\* names and no cycle in either direction, a rejected one has a bad name or a
\* cycle, and accepted stages assign every target once.
THEOREM WebhookIsExact == PASpec => []VerdictExact
<1>1. PAInv => VerdictExact
  BY DEF PAInv
<1> QED
  BY <1>1, AdmissionInvariant, PTL

\* buildExecutionPlan fails for no accepted plan with its own strategy, shutdown or
\* wakeup, but exactly for those of which an exception disabled a target that depends
\* on another.
THEOREM AcceptedIsPlannableHolds == PASpec => []AcceptedIsPlannable
<1>1. ASSUME PAInv PROVE AcceptedIsPlannable
  <2> SUFFICES ASSUME step = "build", strategy = Own
               PROVE  /\ outcome # "cycle"
                      /\ outcome = "notFound" => Dangling
                      /\ outcome = "ok" => ~Dangling
    BY DEF AcceptedIsPlannable
  <2>0. /\ SpecOK /\ EffectiveInv /\ strategy.type = spec.type /\ strategy.deps = spec.deps
        /\ \A i \in 1 .. Len(spec.deps) : spec.deps[i].from \notin disabled
    BY <1>1 DEF PAInv, EffectiveInv, Own
  <2>1. CASE spec.type # "DAG"
    <3>1. outcome = "ok"
      BY <1>1, <2>0, <2>1 DEF PAInv, BuildInv
    <3>2. spec.deps = <<>>
      BY <2>0, <2>1 DEF SpecOK
    <3>3. ~Dangling
      BY <3>2 DEF Dangling
    <3> QED
      BY <3>1, <3>3
  <2>2. CASE spec.type = "DAG"
    <3>1. /\ targets = EffectiveSet /\ deps = Directed(reverse) /\ IInv
          /\ outcome = "notFound" => ~Known
      BY <1>1, <2>0, <2>2 DEF PAInv, BuildInv
    <3>2. AcceptedDAG /\ ~DagErrors /\ EffectiveSet = Declared \ disabled
      BY <1>1, <2>2 DEF PAInv, VerdictExact, EffectiveInv, AcceptedDAG
    <3>3. /\ reverse \in BOOLEAN /\ Len(deps) = Len(spec.deps)
          /\ \A i \in 1 .. Len(spec.deps) :
               /\ deps[i].from = IF reverse THEN spec.deps[i].to ELSE spec.deps[i].from
               /\ deps[i].to = IF reverse THEN spec.deps[i].from ELSE spec.deps[i].to
      <4>1. reverse \in BOOLEAN
        BY <2>0 DEF SpecOK
      <4> QED
        BY <4>1, <2>0, <3>1, DirectedIsList
    <3>4. Known <=> ~Dangling
      <4>1. ASSUME Known, NEW i \in 1 .. Len(spec.deps) PROVE spec.deps[i].to \notin disabled
        <5>1. deps[i].from \in targets /\ deps[i].to \in targets
          BY <3>3, <4>1 DEF Known
        <5> QED
          BY <3>1, <3>2, <3>3, <5>1
      <4>2. ASSUME ~Dangling PROVE Known
        <5>1. \A i \in 1 .. Len(spec.deps) :
                spec.deps[i].from \in Declared \ disabled /\ spec.deps[i].to \in Declared \ disabled
          BY <2>0, <3>2, <4>2 DEF DagErrors, Dangling
        <5> QED
          BY <5>1, <3>1, <3>2, <3>3 DEF Known
      <4> QED
        BY <4>1, <4>2 DEF Dangling
    <3>5. outcome = "ok" => Known
      BY <3>1 DEF IInv, DegreesCount, Counted
    <3>6. ASSUME outcome = "cycle" PROVE FALSE
      <4>1. Counted
        BY <3>6 DEF Counted
      <4>2. /\ Unplaced # {} /\ Unplaced \subseteq targets
            /\ \A t \in Unplaced : Into(t, Unplaced) # {}
        <5>1. TypeOK /\ DegreesCount /\ Unplaced # {} /\ Ready = {}
          BY <3>1, <3>6 DEF IInv, Verdicts
        <5>2. \A t \in Unplaced : inDegree[t] # 0
          BY <5>1 DEF Ready, Unplaced
        <5> QED
          BY <4>1, <5>1, <5>2, ReadyIsFree DEF TypeOK, Unplaced
      <4>3. Unplaced \in SUBSET Declared
        BY <3>1, <3>2, <4>2
      <4>4. CASE reverse
        <5>1. \A t \in Unplaced : OutOf(t, Unplaced) # {}
          BY <3>3, <4>2, <4>4 DEF Into, OutOf
        <5> QED
          BY <3>2, <4>2, <4>3, <5>1 DEF AcceptedDAG, OutKnot
      <4>5. CASE ~reverse
        <5>1. InKnot(Unplaced)
          BY <3>3, <4>2, <4>5 DEF Into, InKnot
        <5> QED
          BY <3>2, <4>3, <5>1 DEF AcceptedDAG
      <4> QED
        BY <4>4, <4>5
    <3> QED
      BY <3>1, <3>4, <3>5, <3>6
  <2> QED
    BY <2>1, <2>2
<1> QED
  BY <1>1, AdmissionInvariant, PTL

-----------------------------------------------------------------------------
(* What is built *)

\* The position of an element in a list that is reversed when r holds.
Mirror(r, n, i) == IF r THEN n + 1 - i ELSE i

\* Reversing twice is the identity.
LEMMA MirrorFacts ==
  ASSUME NEW r \in BOOLEAN, NEW n \in Nat
  PROVE  \A i \in 1 .. n : Mirror(r, n, i) \in 1 .. n /\ Mirror(r, n, Mirror(r, n, i)) = i
BY DEF Mirror

\* What a reversed list holds.
LEMMA ReverseIfAt ==
  ASSUME NEW X, NEW s \in Seq(X), NEW r \in BOOLEAN
  PROVE  /\ Len(ReverseIf(r, s)) = Len(s) /\ Len(s) \in Nat
         /\ \A i \in 1 .. Len(s) : ReverseIf(r, s)[i] = s[Mirror(r, Len(s), i)]
BY DEF ReverseIf, Mirror

\* A stage that holds a target is the target's stage.
LEMMA StageIsUnique ==
  ASSUME StagesPartitionTargets, Built, strategy.type = "Staged" => strategy = Own,
         NEW k \in 1 .. Len(ExecPlan), NEW t \in ExecPlan[k].targets
  PROVE  StageOf(t) = k
<1>1. \A j \in 1 .. Len(ExecPlan) : t \in ExecPlan[j].targets => j = k
  BY DEF StagesPartitionTargets
<1> QED
  BY <1>1 DEF StageOf

\* The stages of a Sequential plan.
LEMMA SequentialStages ==
  ASSUME PAInv, Built, strategy.type = "Sequential"
  PROVE  /\ Len(ExecPlan) = Len(effective) /\ Len(effective) \in Nat
         /\ \A k \in 1 .. Len(effective) :
              /\ ExecPlan[k].targets = {effective[Mirror(reverse, Len(effective), k)]}
              /\ ExecPlan[k].max = 1
<1>1. effective \in Seq(Names) /\ reverse \in BOOLEAN
  BY DEF PAInv, EffectiveInv, SpecOK
<1> DEFINE ts == ReverseIf(reverse, effective)
<1>2. /\ Len(ts) = Len(effective) /\ Len(effective) \in Nat
      /\ \A i \in 1 .. Len(effective) : ts[i] = effective[Mirror(reverse, Len(effective), i)]
  BY <1>1, ReverseIfAt
<1>3. ExecPlan = [i \in 1 .. Len(ts) |-> [targets |-> {ts[i]}, max |-> 1]]
  BY DEF ExecPlan, PlanSequential
<1> HIDE DEF ts
<1> QED
  BY <1>2, <1>3

\* The stage of a Parallel plan.
LEMMA ParallelStages ==
  ASSUME PAInv, Built, strategy.type = "Parallel"
  PROVE  /\ Len(ExecPlan) = 1 /\ ExecPlan[1].targets = EffectiveSet
         /\ effective # <<>> => ExecPlan[1].targets # {} /\ ExecPlan[1].max > 0
<1>1. effective \in Seq(Names) /\ reverse \in BOOLEAN /\ strategy.max \in Nat
  BY StrategyHas DEF PAInv, EffectiveInv, SpecOK
<1> DEFINE ts == ReverseIf(reverse, effective)
           n == Len(effective)
<1>2. /\ Len(ts) = n /\ n \in Nat
      /\ \A i \in 1 .. n : ts[i] = effective[Mirror(reverse, n, i)]
  BY <1>1, ReverseIfAt
<1>3. effective # <<>> => n # 0
  BY <1>1, EmptySeq
<1>4. ExecPlan = <<[targets |-> Elements(ts), max |-> OrElse(strategy.max, Len(ts))]>>
  BY DEF ExecPlan, PlanParallel
<1> HIDE DEF ts
<1>5. Elements(ts) = Elements(effective)
  <2>1. \A i \in 1 .. n : Mirror(reverse, n, i) \in 1 .. n /\ Mirror(reverse, n, Mirror(reverse, n, i)) = i
    BY <1>1, <1>2, MirrorFacts
  <2>2. Elements(ts) = {ts[i] : i \in 1 .. n} /\ Elements(effective) = {effective[i] : i \in 1 .. n}
    BY <1>2 DEF Elements
  <2> HIDE DEF n
  <2>3. \A i \in 1 .. n : effective[i] = ts[Mirror(reverse, n, i)]
    BY <2>1, <1>2
  <2> QED
    BY <2>1, <2>2, <2>3, <1>2
<1>6. effective # <<>> => effective[1] \in Elements(effective)
  BY <1>2, <1>3 DEF Elements
<1>7. effective # <<>> => OrElse(strategy.max, Len(ts)) > 0
  BY <1>1, <1>2, <1>3 DEF OrElse
<1> QED
  BY <1>4, <1>5, <1>6, <1>7 DEF EffectiveSet

\* The stages of a Staged plan.
LEMMA StagedStages ==
  ASSUME PAInv, Built, strategy.type = "Staged", strategy = Own
  PROVE  /\ Len(ExecPlan) = Len(spec.stages) /\ Len(spec.stages) \in Nat
         /\ \A k \in 1 .. Len(spec.stages) :
              /\ ExecPlan[k].targets = StageNames(Mirror(reverse, Len(spec.stages), k))
              /\ ExecPlan[k].targets # {} /\ ExecPlan[k].max > 0
<1>1. /\ spec.stages \in Seq(StageSpecs) /\ reverse \in BOOLEAN /\ spec.max \in {0, 1}
      /\ ~StagedErrors /\ strategy.stages = spec.stages /\ strategy.max = spec.max
  BY DEF PAInv, SpecOK, VerdictExact, Built, Own
<1> DEFINE ss == ReverseIf(reverse, spec.stages)
           n == Len(spec.stages)
<1>2. /\ Len(ss) = n /\ n \in Nat
      /\ \A i \in 1 .. n : ss[i] = spec.stages[Mirror(reverse, n, i)]
  BY <1>1, ReverseIfAt
<1>3. ExecPlan = [i \in 1 .. Len(ss) |->
        [targets |-> Elements(ss[i].targets),
         max |-> OrElse(ss[i].max,
                        IF ss[i].parallel THEN OrElse(spec.max, Len(ss[i].targets)) ELSE 1)]]
  BY <1>1 DEF ExecPlan, PlanStaged
<1> HIDE DEF ss
<1>4. ASSUME NEW k \in 1 .. n
      PROVE  /\ ExecPlan[k].targets = StageNames(Mirror(reverse, n, k))
             /\ ExecPlan[k].targets # {} /\ ExecPlan[k].max > 0
  <2> DEFINE m == Mirror(reverse, n, k)
             st == spec.stages[m]
  <2>1. m \in 1 .. n
    BY <1>1, <1>2, MirrorFacts
  <2>2. st \in StageSpecs /\ st.targets # <<>> /\ ss[k] = st
    BY <1>1, <1>2, <2>1 DEF StagedErrors
  <2>3. st.max \in {0, 2} /\ st.parallel \in BOOLEAN
        /\ \E c \in 0 .. 2 : st.targets \in [1 .. c -> Names]
    BY <2>2 DEF StageSpecs
  <2>4. st.targets \in Seq(Names)
    BY <2>3
  <2>5. Len(st.targets) \in Nat \ {0}
    BY <2>2, <2>4, EmptySeq
  <2>6. StageNames(m) = Elements(st.targets) /\ st.targets[1] \in Elements(st.targets)
    BY <2>5 DEF StageNames, Elements
  <2>7. /\ ExecPlan[k].targets = Elements(st.targets)
        /\ ExecPlan[k].max = OrElse(st.max, IF st.parallel THEN OrElse(spec.max, Len(st.targets)) ELSE 1)
    BY <1>2, <1>3, <2>2
  <2> HIDE DEF m, st
  <2>8. OrElse(st.max, IF st.parallel THEN OrElse(spec.max, Len(st.targets)) ELSE 1) > 0
    BY <1>1, <2>3, <2>5 DEF OrElse
  <2> QED
    BY <2>6, <2>7, <2>8 DEF m
<1>5. Len(ExecPlan) = Len(ss)
  BY <1>2, <1>3
<1> QED
  BY <1>2, <1>4, <1>5

\* The stages of a DAG plan are the levels of PlanDAG; all targets are placed.
LEMMA DAGStages ==
  ASSUME PAInv, Built, strategy.type = "DAG"
  PROVE  /\ Len(ExecPlan) = Len(levels) /\ Len(levels) \in Nat
         /\ \A k \in 1 .. Len(levels) : /\ ExecPlan[k].targets = levels[k]
                                         /\ levels[k] \subseteq EffectiveSet
                                         /\ levels[k] # {} /\ ExecPlan[k].max > 0
         /\ \A t \in EffectiveSet : \E k \in 1 .. Len(levels) : t \in levels[k]
         /\ Disjoint /\ DependenciesFirst /\ Known /\ targets = EffectiveSet
         /\ deps = Directed(reverse)
<1>1. /\ targets = EffectiveSet /\ IInv /\ outcome = "ok" /\ deps = Directed(reverse)
      /\ strategy.max \in Nat /\ \A k \in 1 .. Len(levels) : levels[k] # {}
  BY StrategyHas DEF PAInv, BuildInv, Built
<1>2. Counted /\ Unplaced = {} /\ TypeOK
  BY <1>1 DEF Counted, IInv, Verdicts
<1>3. Len(levels) \in Nat /\ \A k \in 1 .. Len(levels) : levels[k] \subseteq targets
  BY <1>2 DEF TypeOK
<1>4. ExecPlan = [k \in 1 .. Len(levels) |->
        [targets |-> levels[k], max |-> OrElse(strategy.max, Cardinality(levels[k]))]]
  BY DEF ExecPlan
<1>5. ASSUME NEW k \in 1 .. Len(levels) PROVE OrElse(strategy.max, Cardinality(levels[k])) > 0
  <2>1. levels[k] \subseteq Names
    BY <1>2, <1>3 DEF TypeOK
  <2>2. IsFiniteSet(levels[k])
    BY <2>1, NamesAssumption, FS_Subset
  <2>3. Cardinality(levels[k]) \in Nat /\ Cardinality(levels[k]) # 0
    BY <2>2, <1>1, FS_CardinalityType, FS_EmptySet
  <2> QED
    BY <2>3, <1>1 DEF OrElse
<1>6. \A k \in 1 .. Len(levels) : ExecPlan[k].targets = levels[k] /\ ExecPlan[k].max > 0
  BY <1>4, <1>5
<1>7. Len(ExecPlan) = Len(levels)
  BY <1>3, <1>4
<1>8. \A t \in targets : \E k \in 1 .. Len(levels) : t \in levels[k]
  BY <1>1, <1>2 DEF IInv, PlacedIsRest
<1>9. Disjoint /\ DependenciesFirst /\ Known
  BY <1>1, <1>2 DEF IInv, DegreesCount
<1> QED
  BY <1>1, <1>3, <1>6, <1>7, <1>8, <1>9

\* The stages partition the effective targets.
LEMMA Partition ==
  ASSUME PAInv
  PROVE  StagesPartitionTargets
<1> DEFINE Kept == IF strategy.type = "Staged" THEN Declared ELSE EffectiveSet
<1> SUFFICES ASSUME Built, strategy.type = "Staged" => strategy = Own
             PROVE  /\ UNION {ExecPlan[k].targets : k \in 1 .. Len(ExecPlan)} = Kept
                    /\ \A j, k \in 1 .. Len(ExecPlan) :
                         j # k => ExecPlan[j].targets \cap ExecPlan[k].targets = {}
                    /\ \A k \in 1 .. Len(ExecPlan) :
                         \/ ExecPlan[k].targets # {} /\ ExecPlan[k].max > 0
                         \/ strategy.type = "Parallel" /\ effective = <<>>
  BY DEF StagesPartitionTargets
<1>0. /\ strategy.type \in {"Sequential", "Parallel", "DAG", "Staged"} /\ reverse \in BOOLEAN
      /\ effective \in Seq(Names) /\ Injective(effective)
  BY StrategyHas DEF PAInv, SpecOK, Built, EffectiveInv, StrategyTypes
<1>1. CASE strategy.type = "Sequential"
  <2> DEFINE n == Len(effective)
  <2>1. /\ Len(ExecPlan) = n /\ n \in Nat
        /\ \A k \in 1 .. n : /\ ExecPlan[k].targets = {effective[Mirror(reverse, n, k)]}
                             /\ ExecPlan[k].max = 1
    BY <1>1, SequentialStages
  <2>2. \A i, j \in 1 .. n : i # j => effective[i] # effective[j]
    BY <1>0 DEF Injective
  <2>3. EffectiveSet = {effective[i] : i \in 1 .. n}
    BY DEF EffectiveSet, Elements
  <2>4. /\ \A i \in 1 .. n : Mirror(reverse, n, i) \in 1 .. n /\ Mirror(reverse, n, Mirror(reverse, n, i)) = i
        /\ \A i, j \in 1 .. n : i # j => Mirror(reverse, n, i) # Mirror(reverse, n, j)
    <3>1. n \in Nat /\ reverse \in BOOLEAN
      BY <1>0, <2>1
    <3> HIDE DEF n
    <3> QED
      BY <3>1 DEF Mirror
  <2> HIDE DEF n
  <2>5. ASSUME NEW t PROVE t \in EffectiveSet <=> \E k \in 1 .. n : t \in ExecPlan[k].targets
    <3>1. ASSUME t \in EffectiveSet PROVE \E k \in 1 .. n : t \in ExecPlan[k].targets
      <4>1. PICK i \in 1 .. n : t = effective[i]
        BY <3>1, <2>3
      <4>2. t \in ExecPlan[Mirror(reverse, n, i)].targets
        BY <4>1, <2>1, <2>4
      <4> QED
        BY <4>2, <2>4
    <3>2. ASSUME NEW k \in 1 .. n, t \in ExecPlan[k].targets PROVE t \in EffectiveSet
      BY <3>2, <2>1, <2>3, <2>4
    <3> QED
      BY <3>1, <3>2
  <2>6. \A j, k \in 1 .. n : j # k => ExecPlan[j].targets \cap ExecPlan[k].targets = {}
    <3> SUFFICES ASSUME NEW j \in 1 .. n, NEW k \in 1 .. n, j # k
                 PROVE  ExecPlan[j].targets \cap ExecPlan[k].targets = {}
      OBVIOUS
    <3>1. effective[Mirror(reverse, n, j)] # effective[Mirror(reverse, n, k)]
      BY <2>2, <2>4
    <3> QED
      BY <3>1, <2>1
  <2>7. UNION {ExecPlan[k].targets : k \in 1 .. n} = EffectiveSet
    BY <2>5
  <2>8. \A k \in 1 .. n : ExecPlan[k].targets # {} /\ ExecPlan[k].max > 0
    <3> SUFFICES ASSUME NEW k \in 1 .. n PROVE ExecPlan[k].targets # {} /\ ExecPlan[k].max > 0
      OBVIOUS
    <3>1. ExecPlan[k].targets = {effective[Mirror(reverse, n, k)]} /\ ExecPlan[k].max = 1
      BY <2>1
    <3> QED
      BY <3>1
  <2> QED
    BY <1>1, <2>1, <2>6, <2>7, <2>8
<1>2. CASE strategy.type = "Parallel"
  <2>1. /\ Len(ExecPlan) = 1 /\ ExecPlan[1].targets = EffectiveSet
        /\ effective # <<>> => ExecPlan[1].targets # {} /\ ExecPlan[1].max > 0
    BY <1>2, ParallelStages
  <2>2. 1 .. Len(ExecPlan) = {1}
    BY <2>1
  <2> QED
    BY <1>2, <2>1, <2>2
<1>3. CASE strategy.type = "Staged"
  <2> DEFINE n == Len(spec.stages)
  <2>1. /\ Len(ExecPlan) = n /\ n \in Nat
        /\ \A k \in 1 .. n : /\ ExecPlan[k].targets = StageNames(Mirror(reverse, n, k))
                             /\ ExecPlan[k].targets # {} /\ ExecPlan[k].max > 0
    BY <1>3, StagedStages
  <2>2. ~StagedErrors
    BY <1>3 DEF PAInv, VerdictExact, Built, Own
  <2>3. /\ \A i, k \in 1 .. n : i # k => StageNames(i) \cap StageNames(k) = {}
        /\ \A i \in 1 .. n : StageNames(i) \subseteq Declared
        /\ \A t \in Declared : \E i \in 1 .. n : t \in StageNames(i)
    BY <2>2 DEF StagedErrors, AssignedTwice
  <2>4. /\ \A i \in 1 .. n : Mirror(reverse, n, i) \in 1 .. n /\ Mirror(reverse, n, Mirror(reverse, n, i)) = i
        /\ \A i, j \in 1 .. n : i # j => Mirror(reverse, n, i) # Mirror(reverse, n, j)
    <3>1. n \in Nat /\ reverse \in BOOLEAN
      BY <1>0, <2>1
    <3> HIDE DEF n
    <3> QED
      BY <3>1 DEF Mirror
  <2> HIDE DEF n
  <2>5. ASSUME NEW t PROVE t \in Declared <=> \E k \in 1 .. n : t \in ExecPlan[k].targets
    <3>1. ASSUME t \in Declared PROVE \E k \in 1 .. n : t \in ExecPlan[k].targets
      <4>1. PICK i \in 1 .. n : t \in StageNames(i)
        BY <3>1, <2>3
      <4>2. t \in ExecPlan[Mirror(reverse, n, i)].targets
        BY <4>1, <2>1, <2>4
      <4> QED
        BY <4>2, <2>4
    <3>2. ASSUME NEW k \in 1 .. n, t \in ExecPlan[k].targets PROVE t \in Declared
      BY <3>2, <2>1, <2>3, <2>4
    <3> QED
      BY <3>1, <3>2
  <2>6. \A j, k \in 1 .. n : j # k => ExecPlan[j].targets \cap ExecPlan[k].targets = {}
    <3> SUFFICES ASSUME NEW j \in 1 .. n, NEW k \in 1 .. n, j # k
                 PROVE  ExecPlan[j].targets \cap ExecPlan[k].targets = {}
      OBVIOUS
    <3>1. StageNames(Mirror(reverse, n, j)) \cap StageNames(Mirror(reverse, n, k)) = {}
      BY <2>3, <2>4
    <3> QED
      BY <3>1, <2>1
  <2>7. UNION {ExecPlan[k].targets : k \in 1 .. n} = Declared
    BY <2>5
  <2>8. \A k \in 1 .. n : ExecPlan[k].targets # {} /\ ExecPlan[k].max > 0
    BY <2>1
  <2> QED
    BY <1>3, <2>1, <2>6, <2>7, <2>8
<1>4. CASE strategy.type = "DAG"
  <2> DEFINE n == Len(levels)
  <2>1. /\ Len(ExecPlan) = n /\ n \in Nat
        /\ \A k \in 1 .. n : /\ ExecPlan[k].targets = levels[k] /\ levels[k] \subseteq EffectiveSet
                             /\ levels[k] # {} /\ ExecPlan[k].max > 0
        /\ \A t \in EffectiveSet : \E k \in 1 .. n : t \in levels[k]
        /\ \A j, k \in 1 .. n : j # k => levels[j] \cap levels[k] = {}
    BY <1>4, DAGStages DEF Disjoint
  <2> HIDE DEF n
  <2>2. UNION {ExecPlan[k].targets : k \in 1 .. n} = EffectiveSet
    <3>1. \A t : t \in EffectiveSet <=> \E k \in 1 .. n : t \in ExecPlan[k].targets
      BY <2>1
    <3> QED
      BY <3>1
  <2>3. /\ \A j, k \in 1 .. n : j # k => ExecPlan[j].targets \cap ExecPlan[k].targets = {}
        /\ \A k \in 1 .. n : ExecPlan[k].targets # {} /\ ExecPlan[k].max > 0
    BY <2>1
  <2> QED
    BY <1>4, <2>1, <2>2, <2>3
<1> QED
  BY <1>0, <1>1, <1>2, <1>3, <1>4

\* The stages of every execution plan hold each target of the effective plan
\* exactly once, with a positive limit; the plan's own stages each declared target,
\* since PlanStaged does not read the target list; a Parallel plan without targets
\* has an empty stage.
THEOREM StagesPartitionTargetsHolds == PASpec => []StagesPartitionTargets
<1>1. PAInv => StagesPartitionTargets
  BY Partition
<1> QED
  BY <1>1, AdmissionInvariant, PTL

\* A wakeup runs the targets in the opposite order of the shutdown.
THEOREM WakeupReversesHolds == PASpec => []WakeupReverses
<1>1. ASSUME PAInv PROVE WakeupReverses
  <2> SUFFICES ASSUME Built PROVE WakeupReverses
    BY DEF WakeupReverses
  <2>0. /\ StagesPartitionTargets /\ reverse \in BOOLEAN /\ effective \in Seq(Names)
        /\ Len(effective) \in Nat /\ SpecOK /\ EffectiveInv
    <3>1. StagesPartitionTargets
      BY <1>1, Partition
    <3>2. effective \in Seq(Names) /\ reverse \in BOOLEAN /\ SpecOK /\ EffectiveInv
      BY <1>1 DEF PAInv, SpecOK, EffectiveInv
    <3> QED
      BY <3>1, <3>2
  <2>1. ASSUME strategy.type = "Sequential", NEW i \in 1 .. Len(effective),
               NEW j \in 1 .. Len(effective), i < j
        PROVE  StageOf(effective[i]) < StageOf(effective[j]) <=> ~reverse
    <3> DEFINE n == Len(effective)
    <3>1. /\ Len(ExecPlan) = n
          /\ \A k \in 1 .. n : ExecPlan[k].targets = {effective[Mirror(reverse, n, k)]}
      BY <1>1, <2>0, <2>1, SequentialStages
    <3>2. /\ \A k \in 1 .. n : Mirror(reverse, n, k) \in 1 .. n /\ Mirror(reverse, n, Mirror(reverse, n, k)) = k
          /\ \A x, y \in 1 .. n : x < y => (Mirror(reverse, n, x) < Mirror(reverse, n, y) <=> ~reverse)
      <4>1. n \in Nat /\ reverse \in BOOLEAN
        BY <2>0
      <4> HIDE DEF n
      <4> QED
        BY <4>1 DEF Mirror
    <3>4. Mirror(reverse, n, i) < Mirror(reverse, n, j) <=> ~reverse
      BY <2>1, <3>2
    <3>3. \A k \in 1 .. n : StageOf(effective[k]) = Mirror(reverse, n, k)
      <4> SUFFICES ASSUME NEW k \in 1 .. n PROVE StageOf(effective[k]) = Mirror(reverse, n, k)
        OBVIOUS
      <4>1. effective[k] \in ExecPlan[Mirror(reverse, n, k)].targets
        BY <3>1, <3>2
      <4> QED
        BY <4>1, <3>1, <3>2, <2>0, <2>1, StageIsUnique
    <3> QED
      BY <3>3, <3>4
  <2>2. ASSUME strategy.type = "Staged", strategy = Own, NEW i \in 1 .. Len(spec.stages),
               NEW j \in 1 .. Len(spec.stages), i < j, NEW t \in StageNames(i), NEW u \in StageNames(j)
        PROVE  StageOf(t) < StageOf(u) <=> ~reverse
    <3> DEFINE n == Len(spec.stages)
    <3>1. /\ Len(ExecPlan) = n /\ n \in Nat
          /\ \A k \in 1 .. n : ExecPlan[k].targets = StageNames(Mirror(reverse, n, k))
      BY <1>1, <2>2, StagedStages
    <3>2. /\ \A k \in 1 .. n : Mirror(reverse, n, k) \in 1 .. n /\ Mirror(reverse, n, Mirror(reverse, n, k)) = k
          /\ \A x, y \in 1 .. n : x < y => (Mirror(reverse, n, x) < Mirror(reverse, n, y) <=> ~reverse)
      <4>1. n \in Nat /\ reverse \in BOOLEAN
        BY <2>0, <3>1
      <4> HIDE DEF n
      <4> QED
        BY <4>1 DEF Mirror
    <3>4. Mirror(reverse, n, i) < Mirror(reverse, n, j) <=> ~reverse
      BY <2>2, <3>2
    <3>3. \A k \in 1 .. n : \A x \in StageNames(k) : StageOf(x) = Mirror(reverse, n, k)
      <4> SUFFICES ASSUME NEW k \in 1 .. n, NEW x \in StageNames(k)
                   PROVE  StageOf(x) = Mirror(reverse, n, k)
        OBVIOUS
      <4>1. x \in ExecPlan[Mirror(reverse, n, k)].targets
        BY <3>1, <3>2
      <4> QED
        BY <4>1, <3>1, <3>2, <2>0, <2>2, StageIsUnique
    <3> QED
      BY <3>3, <3>4
  <2>3. ASSUME strategy.type = "DAG", NEW i \in 1 .. Len(strategy.deps)
        PROVE  StageOf(strategy.deps[i].from) < StageOf(strategy.deps[i].to) <=> ~reverse
    <3>2. /\ Len(ExecPlan) = Len(levels) /\ Len(levels) \in Nat
          /\ \A k \in 1 .. Len(levels) : ExecPlan[k].targets = levels[k]
          /\ \A x \in targets : \E k \in 1 .. Len(levels) : x \in levels[k]
          /\ DependenciesFirst /\ Known /\ deps = Directed(reverse)
      BY <1>1, <2>3, DAGStages
    <3>3. /\ Len(deps) = Len(strategy.deps)
          /\ deps[i].from = IF reverse THEN strategy.deps[i].to ELSE strategy.deps[i].from
          /\ deps[i].to = IF reverse THEN strategy.deps[i].from ELSE strategy.deps[i].to
      BY <2>0, <2>3, <3>2, DirectedIsList
    <3>4. PICK k \in 1 .. Len(levels) : deps[i].to \in levels[k]
      BY <2>3, <3>2, <3>3 DEF Known
    <3>5. PICK j \in 1 .. k - 1 : deps[i].from \in levels[j]
      BY <2>3, <3>2, <3>3, <3>4 DEF DependenciesFirst
    <3>6. j \in 1 .. Len(levels) /\ j < k
      BY <3>2, <3>4, <3>5
    <3>7. StageOf(deps[i].to) = k /\ StageOf(deps[i].from) = j
      BY <3>2, <3>4, <3>5, <3>6, <2>0, <2>3, StageIsUnique
    <3>8. CASE reverse
      BY <3>3, <3>6, <3>7, <3>8
    <3>9. CASE ~reverse
      BY <3>3, <3>6, <3>7, <3>9
    <3> QED
      BY <3>8, <3>9
  <2> QED
    BY <2>1, <2>2, <2>3 DEF WakeupReverses
<1> QED
  BY <1>1, AdmissionInvariant, PTL

=============================================================================
