--------------------------- MODULE PlanAdmission ---------------------------
(***************************************************************************)
(* From an applied HibernatePlan to the execution plan the controller      *)
(* runs: the validating webhook (validateStrategy with validateDAG and     *)
(* validateStaged), a ScheduleException that disables targets or replaces  *)
(* the strategy (hasDependencyOn and the check of the strategy's type in   *)
(* its webhook, buildEffectivePlan in the controller), and                 *)
(* buildExecutionPlan with the Planner, in both directions.                *)
(*                                                                         *)
(* The webhook has an implementation of Kahn's algorithm of its own, on    *)
(* the reversed edges and with a queue; the Planner is given what that one *)
(* accepted.  A plan stored before the webhook was installed reaches the   *)
(* Planner unchecked (step "unchecked").                                   *)
(***************************************************************************)
EXTENDS Planner

CONSTANTS
  MaxListed,      \* dependencies a plan that the webhook sees lists at most
  MaxStages,      \* stages a Staged strategy lists at most
  Strategies,     \* the strategy types plans are written with
  MaxExcepted,    \* dependencies a plan with an exception lists at most
  Replacements    \* the strategies an exception's executionOverride may carry

StrategyTypes == {"Sequential", "Parallel", "DAG", "Staged"}

\* An entry of a Staged strategy's stages.
StageSpecs == [targets : UNION {[1 .. n -> Names] : n \in 0 .. 2}, parallel : BOOLEAN,
               max : {0, 2}]

\* The exception webhook looks at the type of a strategy and at nothing else of it.
ASSUME AdmissionAssumption ==
  /\ MaxListed \in 0 .. MaxDeps /\ MaxStages \in Nat /\ MaxExcepted \in Nat
  /\ Strategies \subseteq StrategyTypes
  /\ \A s \in Replacements : /\ s.type \in StrategyTypes /\ s.deps \in DependencyLists
                              /\ Len(s.stages) \in Nat /\ s.max \in Nat

VARIABLES
  spec,       \* the plan's strategy, targets (in order), dependencies and stages
  step,       \* "webhook", "rejected", "accepted", "build", "unchecked"
  degree,     \* validateDAG: in-degree over the reversed edges
  queue,      \* validateDAG: names whose degree is 0, not visited yet
  visited,    \* validateDAG: how many names left the queue
  disabled,   \* targets an accepted exception disables
  effective,  \* the targets of the effective plan, in order
  strategy,   \* the strategy of the effective plan
  reverse     \* the direction buildExecutionPlan is called for

kahnVars == <<degree, queue, visited>>
exceptionVars == <<disabled, effective, strategy>>
paVars == <<spec, step, kahnVars, exceptionVars, reverse, vars>>

\* The strategy the plan was applied with.
Own == [type |-> spec.type, deps |-> spec.deps, stages |-> spec.stages, max |-> spec.max]

Declared == {spec.targets[i] : i \in 1 .. Len(spec.targets)}

\* buildEffectivePlan filters the name of one disabled target out of the copy's
\* spec.targets after the other; the strategy is not searched for it.
Without(s, t) ==
  LET p == CHOOSE i \in 1 .. Len(s) : s[i] = t
  IN [i \in 1 .. Len(s) - 1 |-> IF i < p THEN s[i] ELSE s[i + 1]]

ReverseIf(r, s) == IF r THEN [i \in 1 .. Len(s) |-> s[Len(s) + 1 - i]] ELSE s

EffectiveSet == Elements(effective)

Directed(r) ==
  [i \in 1 .. Len(strategy.deps) |->
     IF r THEN [from |-> strategy.deps[i].to, to |-> strategy.deps[i].from] ELSE strategy.deps[i]]

-----------------------------------------------------------------------------
(* The webhook *)

TargetLists == {s \in UNION {[1 .. n -> Names] : n \in 1 .. Cardinality(Names)} :
                  \A i, j \in 1 .. Len(s) : i # j => s[i] # s[j]}

StageLists == UNION {[1 .. n -> StageSpecs] : n \in 0 .. MaxStages}

SpecsOf(s) ==
  [type : {s}, targets : TargetLists,
   deps : IF s = "DAG" THEN UNION {[1 .. n -> Dependency] : n \in 0 .. MaxListed} ELSE {<<>>},
   stages : IF s = "Staged" THEN StageLists ELSE {<<>>},
   max : {0, 1}]

\* A plan without strategy, before any is applied.
NoSpec == [type |-> "", targets |-> <<>>, deps |-> <<>>, stages |-> <<>>, max |-> 0]

PAInit ==
  /\ \/ /\ \E s \in Strategies : spec \in SpecsOf(s)
        /\ step = "webhook"
        /\ targets = {} /\ deps = <<>>
        /\ inDegree = [t \in {} |-> 0] /\ levels = <<>> /\ outcome = "start"
     \/ /\ spec = NoSpec /\ step = "unchecked"
        /\ Init
  /\ degree = [t \in {} |-> 0] /\ queue = {} /\ visited = 0
  /\ disabled = {} /\ effective = spec.targets /\ strategy = Own /\ reverse = FALSE

DagErrors ==
  \E i \in 1 .. Len(spec.deps) :
    \/ spec.deps[i].from \notin Declared
    \/ spec.deps[i].to \notin Declared
    \/ spec.deps[i].from = spec.deps[i].to

\* The positions of the dependencies of members of S on t.
OutOf(t, S) == {i \in 1 .. Len(spec.deps) : spec.deps[i].from = t /\ spec.deps[i].to \in S}

StageNames(i) == {spec.stages[i].targets[j] : j \in 1 .. Len(spec.stages[i].targets)}

\* A target that two places of the stages name.
AssignedTwice ==
  \/ \E i, k \in 1 .. Len(spec.stages) : i # k /\ StageNames(i) \cap StageNames(k) # {}
  \/ \E i \in 1 .. Len(spec.stages) :
       Cardinality(StageNames(i)) # Len(spec.stages[i].targets)

\* Slip: a target without a stage is not noticed.
StagedErrorsLax ==
  \/ spec.stages = <<>>
  \/ \E i \in 1 .. Len(spec.stages) : spec.stages[i].targets = <<>>
  \/ \E i \in 1 .. Len(spec.stages) : ~(StageNames(i) \subseteq Declared)
  \/ AssignedTwice

StagedErrors ==
  \/ spec.stages = <<>>
  \/ \E i \in 1 .. Len(spec.stages) : spec.stages[i].targets = <<>>
  \/ \E i \in 1 .. Len(spec.stages) : ~(StageNames(i) \subseteq Declared)
  \/ AssignedTwice
  \/ \E t \in Declared : \A i \in 1 .. Len(spec.stages) : t \notin StageNames(i)

\* validateStrategy for everything but a DAG without obvious errors.
ValidateStrategy ==
  /\ step = "webhook" /\ visited = 0 /\ DOMAIN degree = {}
  /\ ~(spec.type = "DAG" /\ ~DagErrors)
  /\ step' = CASE spec.type = "DAG" -> "rejected"
               [] spec.type = "Staged" -> IF StagedErrors THEN "rejected" ELSE "accepted"
               [] OTHER -> "accepted"
  /\ UNCHANGED <<spec, kahnVars, exceptionVars, reverse, vars>>

\* validateDAG counts the edges and queues the names without any.
StartKahn ==
  /\ step = "webhook" /\ DOMAIN degree = {}
  /\ spec.type = "DAG" /\ ~DagErrors
  /\ degree' = [t \in Declared |-> Cardinality(OutOf(t, Declared))]
  /\ queue' = {t \in Declared : degree'[t] = 0}
  /\ UNCHANGED <<spec, step, visited, exceptionVars, reverse, vars>>

Lowered(node) == [t \in Declared |-> degree[t] - Cardinality(OutOf(t, {node}))]

VisitNode ==
  /\ step = "webhook"
  /\ \E node \in queue :
       /\ degree' = Lowered(node)
       /\ queue' = (queue \ {node}) \cup
                   {t \in Declared : OutOf(t, {node}) # {} /\ Lowered(node)[t] = 0}
  /\ visited' = visited + 1
  /\ UNCHANGED <<spec, step, exceptionVars, reverse, vars>>

\* Slip: any progress is taken for success.
VerdictLax == IF visited > 0 THEN "accepted" ELSE "rejected"

Verdict == IF visited = Cardinality(Declared) THEN "accepted" ELSE "rejected"

EndKahn ==
  /\ step = "webhook" /\ DOMAIN degree # {} /\ queue = {}
  /\ step' = Verdict
  /\ UNCHANGED <<spec, kahnVars, exceptionVars, reverse, vars>>

-----------------------------------------------------------------------------
(* The exception and the controller *)

HasDependencyOn(t) == spec.type = "DAG" /\ \E i \in 1 .. Len(spec.deps) : spec.deps[i].from = t

\* The exception webhook accepts the target override, the controller applies it.
DisableTarget ==
  /\ step = "accepted" /\ Len(spec.deps) <= MaxExcepted
  /\ \E t \in Declared \ disabled :
       /\ ~HasDependencyOn(t)
       /\ disabled' = disabled \cup {t} /\ effective' = Without(effective, t)
  /\ UNCHANGED <<spec, step, kahnVars, strategy, reverse, vars>>

\* The same for an execution override: the strategy is replaced as a whole.
ReplaceStrategy ==
  /\ step = "accepted" /\ Len(spec.deps) <= MaxExcepted
  /\ strategy' \in Replacements
  /\ UNCHANGED <<spec, step, kahnVars, disabled, effective, reverse, vars>>

\* buildExecutionPlan is called for a shutdown or a wakeup.
BuildExecutionPlan ==
  /\ step = "accepted"
  /\ reverse' \in BOOLEAN
  /\ step' = "build"
  /\ IF strategy.type = "DAG"
     THEN targets' = EffectiveSet /\ deps' = Directed(reverse') /\ UNCHANGED outcome
     ELSE outcome' = "ok" /\ UNCHANGED input
  /\ UNCHANGED <<spec, kahnVars, exceptionVars, inDegree, levels>>

PlanDAG ==
  /\ (step = "build" /\ strategy.type = "DAG") \/ step = "unchecked"
  /\ UNCHANGED <<spec, step, kahnVars, exceptionVars, reverse>>
  /\ Next

PANext ==
  \/ ValidateStrategy \/ StartKahn \/ VisitNode \/ EndKahn
  \/ DisableTarget \/ ReplaceStrategy \/ BuildExecutionPlan \/ PlanDAG

PASpec == PAInit /\ [][PANext]_paVars

-----------------------------------------------------------------------------
(* What is built *)

\* Slip: the wakeup's stages are not reversed.
ExecPlanUnreversed ==
  CASE strategy.type = "Sequential" -> PlanSequential(effective)
    [] strategy.type = "Parallel"   -> PlanParallel(effective, strategy.max)
    [] strategy.type = "Staged"     -> PlanStaged(strategy.stages, strategy.max)
    [] strategy.type = "DAG"        ->
         [k \in 1 .. Len(levels) |->
            [targets |-> levels[k], max |-> OrElse(strategy.max, Cardinality(levels[k]))]]

\* The execution plan buildExecutionPlan returns.
ExecPlan ==
  CASE strategy.type = "Sequential" -> PlanSequential(ReverseIf(reverse, effective))
    [] strategy.type = "Parallel"   -> PlanParallel(ReverseIf(reverse, effective), strategy.max)
    [] strategy.type = "Staged"     -> PlanStaged(ReverseIf(reverse, strategy.stages), strategy.max)
    [] strategy.type = "DAG"        ->
         [k \in 1 .. Len(levels) |->
            [targets |-> levels[k], max |-> OrElse(strategy.max, Cardinality(levels[k]))]]

Built == step = "build" /\ outcome = "ok"

StageOf(t) == CHOOSE k \in 1 .. Len(ExecPlan) : t \in ExecPlan[k].targets

-----------------------------------------------------------------------------
(* Properties *)

\* An exception disabled a target that depends on another one.
Dangling == \E i \in 1 .. Len(spec.deps) : spec.deps[i].to \in disabled

\* What the webhooks accept, the controller can plan, in both directions, although
\* validateDAG and PlanDAG are two implementations of the check.  Of the plan's own
\* strategy it fails exactly when an exception disabled a target that depends on
\* another one, which hasDependencyOn does not look for; else the exception brought
\* the strategy that fails, of which its webhook reads the type only.
AcceptedIsPlannable ==
  step = "build" /\ strategy = Own =>
    /\ outcome # "cycle"
    /\ outcome = "notFound" => Dangling
    /\ outcome = "ok" => ~Dangling

\* The stages of an execution plan hold every target of the effective plan
\* exactly once and nothing else, each stage with a target and a positive limit.
\* An exception leaves this in three ways: the plan's own stages keep the targets that
\* one disables, the stages one brings may name anything, and Parallel without
\* an enabled target is one empty stage.
StagesPartitionTargets ==
  Built /\ (strategy.type = "Staged" => strategy = Own) =>
    /\ UNION {ExecPlan[k].targets : k \in 1 .. Len(ExecPlan)} =
         IF strategy.type = "Staged" THEN Declared ELSE EffectiveSet
    /\ \A j, k \in 1 .. Len(ExecPlan) :
         j # k => ExecPlan[j].targets \cap ExecPlan[k].targets = {}
    /\ \A k \in 1 .. Len(ExecPlan) :
         \/ ExecPlan[k].targets # {} /\ ExecPlan[k].max > 0
         \/ strategy.type = "Parallel" /\ effective = <<>>

\* A wakeup runs in the opposite order of a shutdown, whatever is disabled and
\* whichever strategy is in force: for a Sequential strategy the target listed
\* later first, for the plan's own stages the later stage first, for a DAG the
\* dependent first.
WakeupReverses ==
  Built =>
    /\ strategy.type = "Sequential" =>
         \A i, j \in 1 .. Len(effective) : i < j =>
           (StageOf(effective[i]) < StageOf(effective[j]) <=> ~reverse)
    /\ strategy.type = "Staged" /\ strategy = Own =>
         \A i, j \in 1 .. Len(spec.stages) : i < j =>
           \A t \in StageNames(i), u \in StageNames(j) : StageOf(t) < StageOf(u) <=> ~reverse
    /\ strategy.type = "DAG" =>
         \A i \in 1 .. Len(strategy.deps) :
           StageOf(strategy.deps[i].from) < StageOf(strategy.deps[i].to) <=> ~reverse
=============================================================================
