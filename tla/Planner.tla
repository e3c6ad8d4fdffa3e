------------------------------ MODULE Planner ------------------------------
(***************************************************************************)
(* internal/scheduler/planner.go: how a strategy becomes the execution     *)
(* plan, a sequence of stages [targets, max].  PlanSequential,             *)
(* PlanParallel and PlanStaged are operators; PlanDAG, Kahn's algorithm by *)
(* levels, is the state machine below, one step per round of its loop.     *)
(* Target names are unique; a dependency may name anything, may be listed  *)
(* twice, and may close a cycle.                                           *)
(***************************************************************************)
EXTENDS Naturals, Sequences, FiniteSets

CONSTANTS
  Names,      \* every name a target or a dependency may have
  MaxDeps     \* how many dependencies a plan lists at most

ASSUME NamesAssumption == IsFiniteSet(Names) /\ MaxDeps \in Nat

Elements(s) == {s[i] : i \in 1 .. Len(s)}

\* A limit that is not set falls back to the given one.
OrElse(max, default) == IF max = 0 THEN default ELSE max

PlanSequential(ts) == [i \in 1 .. Len(ts) |-> [targets |-> {ts[i]}, max |-> 1]]

PlanParallel(ts, max) == <<[targets |-> Elements(ts), max |-> OrElse(max, Len(ts))]>>

\* stages is the strategy's list of [targets, parallel, max].
PlanStaged(stages, max) ==
  [i \in 1 .. Len(stages) |->
     [targets |-> Elements(stages[i].targets),
      max |-> OrElse(stages[i].max,
                     IF stages[i].parallel THEN OrElse(max, Len(stages[i].targets)) ELSE 1)]]

-----------------------------------------------------------------------------
(* PlanDAG *)

VARIABLES
  targets,    \* the names PlanDAG is given
  deps,       \* the dependencies: from must complete before to
  inDegree,   \* the in-degree of every target not placed yet
  levels,     \* the target sets of the stages built so far
  outcome     \* "start", "level", "ok", or the error: "notFound", "cycle"

input == <<targets, deps>>
vars == <<input, inDegree, levels, outcome>>

Dependency == [from : Names, to : Names]

DependencyLists == UNION {[1 .. n -> Dependency] : n \in 0 .. MaxDeps}

\* The positions of the dependencies of t on members of S.
Into(t, S) == {i \in 1 .. Len(deps) : deps[i].to = t /\ deps[i].from \in S}

Init ==
  /\ targets \in SUBSET Names
  /\ deps \in DependencyLists
  /\ inDegree = [t \in {} |-> 0]
  /\ levels = <<>>
  /\ outcome = "start"

Known == \A i \in 1 .. Len(deps) : deps[i].from \in targets /\ deps[i].to \in targets

UnknownTarget ==
  /\ outcome = "start" /\ ~Known
  /\ outcome' = "notFound"
  /\ UNCHANGED <<input, inDegree, levels>>

CountInDegrees ==
  /\ outcome = "start" /\ Known
  /\ inDegree' = [t \in targets |-> Cardinality(Into(t, targets))]
  /\ outcome' = "level"
  /\ UNCHANGED <<input, levels>>

\* Slip: a target is placed while one dependency is still open.
ReadyEarly == {t \in DOMAIN inDegree : inDegree[t] <= 1}

Ready == {t \in DOMAIN inDegree : inDegree[t] = 0}

\* Slip: a dependency that is listed twice is taken off once.
ReducedOnce(S) ==
  [t \in DOMAIN inDegree \ S |->
     inDegree[t] - Cardinality({deps[i] : i \in Into(t, S)})]

\* Slip: placed targets stay in the map.
ReducedKept(S) == [t \in DOMAIN inDegree |-> inDegree[t] - Cardinality(Into(t, S))]

Reduced(S) == [t \in DOMAIN inDegree \ S |-> inDegree[t] - Cardinality(Into(t, S))]

\* One round: every target without open dependencies forms the next stage.
NextLevel ==
  /\ outcome = "level" /\ DOMAIN inDegree # {} /\ Ready # {}
  /\ levels' = Append(levels, Ready)
  /\ inDegree' = Reduced(Ready)
  /\ UNCHANGED <<input, outcome>>

CycleDetected ==
  /\ outcome = "level" /\ DOMAIN inDegree # {} /\ Ready = {}
  /\ outcome' = "cycle"
  /\ UNCHANGED <<input, inDegree, levels>>

Finish ==
  /\ outcome = "level" /\ DOMAIN inDegree = {}
  /\ outcome' = "ok"
  /\ UNCHANGED <<input, inDegree, levels>>

Next == UnknownTarget \/ CountInDegrees \/ NextLevel \/ CycleDetected \/ Finish

Spec == Init /\ [][Next]_vars

-----------------------------------------------------------------------------
(* Properties *)

\* The variables of PlanDAG; the in-degrees are never negative.
TypeOK ==
  /\ targets \subseteq Names /\ deps \in Seq(Dependency)
  /\ DOMAIN inDegree \subseteq targets /\ inDegree \in [DOMAIN inDegree -> Nat]
  /\ levels \in Seq(SUBSET targets)
  /\ outcome \in {"start", "level", "ok", "notFound", "cycle"}

\* PlanDAG places a target only after everything it depends on, however the
\* dependencies are ordered or repeated.
DependenciesFirst ==
  \A k \in 1 .. Len(levels) : \A i \in 1 .. Len(deps) :
    deps[i].to \in levels[k] => \E j \in 1 .. k - 1 : deps[i].from \in levels[j]

\* Every target is placed at most once, and the placed ones are those that have
\* no in-degree any more.
PlacedOnce ==
  /\ \A j, k \in 1 .. Len(levels) : j # k => levels[j] \cap levels[k] = {}
  /\ outcome \in {"level", "cycle", "ok"} =>
       UNION Elements(levels) = targets \ DOMAIN inDegree

\* No target waits longer than its dependencies make it: it is placed right
\* after one of them (the stages are the longest-path levels).
NoIdleStage ==
  \A k \in 2 .. Len(levels) : \A t \in levels[k] :
    \E i \in 1 .. Len(deps) : deps[i].to = t /\ deps[i].from \in levels[k - 1]

\* A set every member of which depends on another member: what a cycle leaves.
Knotted(S) == S # {} /\ \A t \in S : Into(t, S) # {}

\* ErrCycleDetected is returned exactly for the plans that have a cycle.
CycleIffKnotted ==
  /\ outcome = "cycle" => \E S \in SUBSET targets : Knotted(S)
  /\ outcome = "ok" => \A S \in SUBSET targets : ~Knotted(S)
=============================================================================
