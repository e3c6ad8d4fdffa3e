--------------------------- MODULE OverridesProofs ---------------------------
(***************************************************************************)
(* RestartRunsOnce and IntentFollowed, for every horizon, every number of  *)
(* requests, boundaries and crashes, and every number of API calls that    *)
(* fail.                                                                   *)
(*                                                                         *)
(* The argument has two halves.  What a handler may leave, whatever patch  *)
(* of it fails, is bounded by two relations on worlds, Keeps and Settles,  *)
(* which hold of every handler.  What the rest of the system adds is that  *)
(* a copy which is behind the plan is always about to be replaced: a       *)
(* reconcile is queued or a delivery waits.                                *)
(***************************************************************************)
EXTENDS Overrides, TLAPS

-----------------------------------------------------------------------------
(* Types *)

Meta == [exists : BOOLEAN, deleting : BOOLEAN, finalizer : BOOLEAN,
         target : {"", "hibernate", "wakeup"}, until : Nat, restart : BOOLEAN, fresh : BOOLEAN]
Resting == {"", "Active", "Hibernated"}
AtWork == {"Hibernating", "WakingUp"}
Operations == {"", "hibernate", "wakeup"}
PhaseAndOp == [phase : Resting \cup AtWork, op : Operations]
Copy == [meta : Meta, off : BOOLEAN, data : BOOLEAN, phase : Resting \cup AtWork, op : Operations]
Context == [meta : Meta, status : PhaseAndOp, off : BOOLEAN, data : BOOLEAN]
Timer == [poll : BOOLEAN, deadline : Nat]
Excuses == {"failed", "late", "finalized"}

Worlds == [meta : Meta, mem : Copy, timer : Timer, faults : Nat, reran : Nat,
           excused : SUBSET Excuses]

OvType ==
  /\ ovNow \in Nat /\ ovMeta \in Meta /\ ovStatus \in PhaseAndOp
  /\ ovOff \in BOOLEAN /\ ovData \in BOOLEAN /\ ovQueued \in BOOLEAN
  /\ ovSlot \in Context \cup {EmptySlot}
  /\ ovMem \in Copy \cup {NoWorker}
  /\ ovTimer \in Timer
  /\ ovAsked \in Nat /\ ovReran \in Nat /\ ovExcused \in SUBSET Excuses
  /\ ovBudget \in [requests : Nat, boundaries : Nat, faults : Nat, crashes : Nat]

-----------------------------------------------------------------------------
(* The inductive invariant *)

\* The restarts that ran were asked for; one that waits in the plan, and one that
\* a resting worker holds or will be given, has not run.
RestartsCounted ==
  /\ ovReran <= ovAsked
  /\ ovMeta.restart => ovReran < ovAsked
  /\ ovMem # NoWorker /\ ovMem.phase \in Resting /\ ovMem.meta.restart => ovReran < ovAsked
  /\ ovSlot # EmptySlot /\ ovSlot.meta.restart /\ (ovMem = NoWorker \/ ovMem.phase \in Resting)
       => ovReran < ovAsked

\* A restart that only the slot or the worker still has is about to be replaced.
StaleIsReplaced ==
  /\ ovSlot # EmptySlot /\ ovSlot.meta.restart => ovMeta.restart \/ ovQueued
  /\ ovMem # NoWorker /\ ovMem.meta.restart => ovMeta.restart \/ ovQueued \/ ovSlot # EmptySlot

\* A plan that is being deleted is there for its finalizer.
FinalizerHolds(m) == m.exists /\ m.deleting => m.finalizer

\* The phase is the one wanted: hibernated, or awake as far as there is restore data.
PhaseWanted(mem, target) ==
  IF target = "hibernate" THEN mem.phase = "Hibernated"
  ELSE mem.phase = "Active" \/ (mem.phase = "Hibernated" /\ ~mem.data)

\* The worker has nothing to do before its deadline.
Settled(mem, timer) ==
  /\ ~mem.meta.deleting
  /\ IF mem.meta.target # ""
     THEN timer.deadline = mem.meta.until /\ PhaseWanted(mem, mem.meta.target)
     ELSE timer.deadline = 0 /\ PhaseWanted(mem, IF mem.off THEN "hibernate" ELSE "wakeup")

InStep(mem) == mem.meta = ovMeta /\ mem.off = ovOff /\ mem.data = ovData

\* Once no reconcile is queued the slot is current, and once it is empty the worker
\* is, and polls or has settled, unless it is excused.
RestIsSettled ==
  /\ FinalizerHolds(ovMeta)
  /\ ovTimer.poll => ovTimer.deadline = 0
  /\ ovSlot # EmptySlot /\ ~ovQueued => InStep(ovSlot)
  /\ ~ovQueued /\ ovSlot = EmptySlot /\ ovExcused = {} =>
       IF ovMem = NoWorker THEN ~ovMeta.exists
       ELSE InStep(ovMem) /\ (ovTimer.poll \/ Settled(ovMem, ovTimer))

\* A plan does not come back, and a deletion is not taken back.
Onward(m, meta) == (meta.exists => m.exists) /\ (m.deleting => meta.deleting)

\* Metadata m was read from the plan, whose metadata is meta now.
Behind(m, meta) == FinalizerHolds(m) /\ Onward(m, meta)

\* A worker that is not excused, and the slot, have only what was read from the plan.
CopiesAreReads ==
  /\ ovSlot # EmptySlot => Behind(ovSlot.meta, ovMeta)
  /\ ovMem # NoWorker /\ ovExcused = {} => Behind(ovMem.meta, ovMeta)

OvInv == OvType /\ RestartsCounted /\ StaleIsReplaced /\ RestIsSettled /\ CopiesAreReads

-----------------------------------------------------------------------------
(* Worlds *)

\* A copy is not the absence of a worker, and a context not an empty slot.
LEMMA CopyIsWorker == \A c \in Copy : c # NoWorker
<1>1. SUFFICES ASSUME NEW c \in Copy, c = NoWorker PROVE FALSE
  OBVIOUS
<1>2. "meta" \in DOMAIN c
  BY <1>1 DEF Copy
<1>3. DOMAIN NoWorker = {"phase"}
  BY DEF NoWorker
<1>4. QED
  BY <1>1, <1>2, <1>3

\* A context in the slot is told apart from an empty slot by its fields.
LEMMA ContextIsContent == \A c \in Context : c # EmptySlot
<1>1. SUFFICES ASSUME NEW c \in Context, c = EmptySlot PROVE FALSE
  OBVIOUS
<1>2. "meta" \in DOMAIN c
  BY <1>1 DEF Context
<1>3. DOMAIN EmptySlot = {"off"}
  BY DEF EmptySlot
<1>4. QED
  BY <1>1, <1>2, <1>3

\* What a patch that succeeds, and one that fails, leaves.
Patched(w, m) == [w EXCEPT !.meta = m, !.mem.meta = m]
Failed(w, m) ==
  OnError([w EXCEPT !.mem.meta = m, !.excused = @ \cup {"failed"},
                    !.faults = IF w.meta.exists THEN @ - 1 ELSE @])

\* The fields of a world after a patch that succeeded.
LEMMA PatchedFields ==
  ASSUME NEW w \in Worlds, NEW m \in Meta
  PROVE  LET u == Patched(w, m) IN
         /\ u \in Worlds /\ u.meta = m /\ u.mem.meta = m
         /\ u.mem.phase = w.mem.phase /\ u.mem.op = w.mem.op
         /\ u.mem.off = w.mem.off /\ u.mem.data = w.mem.data
         /\ u.timer = w.timer /\ u.reran = w.reran /\ u.excused = w.excused
BY DEF Patched, Worlds, Copy

\* The fields of a world after a patch that failed.
LEMMA FailedFields ==
  ASSUME NEW w \in Worlds, NEW m \in Meta, w.faults > 0 \/ ~w.meta.exists
  PROVE  LET u == Failed(w, m) IN
         /\ u \in Worlds /\ u.meta = w.meta /\ u.mem.meta = m
         /\ u.mem.phase = w.mem.phase /\ u.mem.op = w.mem.op
         /\ u.mem.off = w.mem.off /\ u.mem.data = w.mem.data
         /\ u.timer = [poll |-> TRUE, deadline |-> 0] /\ u.reran = w.reran
         /\ u.excused = w.excused \cup {"failed"}
<1>1. TRUE \in BOOLEAN
  BY Zenon
<1>2. [poll |-> TRUE, deadline |-> 0] \in Timer
  BY <1>1 DEF Timer
<1>3. w.meta.exists \in BOOLEAN
  BY DEF Worlds, Meta
<1>4. (IF w.meta.exists THEN w.faults - 1 ELSE w.faults) \in Nat
  BY <1>3 DEF Worlds
<1>5. w.excused \cup {"failed"} \in SUBSET Excuses
  BY DEF Worlds, Excuses
<1>6. QED
  BY <1>2, <1>4, <1>5 DEF Failed, OnError, Worlds, Copy

-----------------------------------------------------------------------------
(* What a handler may leave *)

OutcomeType(v) ==
  /\ v.meta \in Meta /\ v.mem \in Copy \cup {NoWorker} /\ v.timer \in Timer
  /\ v.faults \in Nat /\ v.reran \in Nat /\ v.excused \in SUBSET Excuses
  /\ v.timer.poll => v.timer.deadline = 0

\* At most one operation is run again, on a restart found in the plan or in the
\* copy, and it leaves none in either; no restart appears that was in neither; an
\* operation under way stays under way.
Keeps(w, v) ==
  /\ v.meta.restart => w.meta.restart
  /\ v.mem # NoWorker /\ v.mem.meta.restart => w.mem.meta.restart \/ v.meta.restart
  /\ v.mem # NoWorker /\ w.mem.phase \in AtWork => v.mem.phase \in AtWork
  /\ \/ v.reran = w.reran
     \/ /\ v.reran = w.reran + 1
        /\ w.mem.phase \in Resting /\ (w.mem.meta.restart \/ w.meta.restart)
        /\ v.mem # NoWorker /\ v.mem.phase \in AtWork
        /\ ~v.mem.meta.restart /\ ~v.meta.restart

\* Without an excuse, a worker ends only with its plan, and has a copy that was read
\* from the plan; one whose copy is the plan, and that leaves the plan as it was,
\* polls or has settled.
Settles(w, v) ==
  /\ w.excused \subseteq v.excused
  /\ Onward(w.meta, v.meta)
  /\ FinalizerHolds(w.meta) => FinalizerHolds(v.meta)
  /\ v.mem # NoWorker => v.mem.off = w.mem.off /\ v.mem.data = w.mem.data
  /\ FinalizerHolds(w.meta) /\ Behind(w.mem.meta, w.meta) /\ v.excused = {} =>
       IF v.mem = NoWorker THEN v.meta = w.meta => ~v.meta.exists
       ELSE /\ Behind(v.mem.meta, v.meta)
            /\ w.mem.meta = w.meta /\ v.meta = w.meta =>
                 v.mem.meta = v.meta /\ (v.timer.poll \/ Settled(v.mem, v.timer))

Allowed(w, v) == OutcomeType(v) /\ Keeps(w, v) /\ Settles(w, v)

\* A handler under way, from w, that has only patched and set the first phase so far.
Prepared(w, u) ==
  /\ u \in Worlds
  /\ u.mem.phase = w.mem.phase \/ (w.mem.phase = "" /\ u.mem.phase = "Active")
  /\ u.mem.off = w.mem.off /\ u.mem.data = w.mem.data
  /\ u.reran = w.reran /\ u.excused = w.excused
  /\ u.meta.restart => w.meta.restart
  /\ u.mem.meta.restart => w.mem.meta.restart \/ u.meta.restart
  /\ Onward(w.meta, u.meta)
  /\ FinalizerHolds(w.meta) => FinalizerHolds(u.meta)
  /\ w.mem.meta = w.meta => u.mem.meta = u.meta
  /\ FinalizerHolds(w.meta) /\ Behind(w.mem.meta, w.meta) => Behind(u.mem.meta, u.meta)

\* A handler starts prepared.
LEMMA PreparedAtStart == \A w \in Worlds : Prepared(w, w)
BY DEF Prepared, Onward

\* A patch that succeeds keeps it prepared, if it adds no restart.
LEMMA PreparedByPatch ==
  ASSUME NEW w \in Worlds, NEW u, Prepared(w, u), NEW m \in Meta,
         m.restart => u.meta.restart, Onward(u.meta, m),
         FinalizerHolds(u.meta) => FinalizerHolds(m)
  PROVE  Prepared(w, Patched(u, m))
<1>1. u \in Worlds
  BY DEF Prepared
<1> DEFINE p == Patched(u, m)
<1>2. /\ p \in Worlds /\ p.meta = m /\ p.mem.meta = m /\ p.mem.phase = u.mem.phase
      /\ p.mem.off = u.mem.off /\ p.mem.data = u.mem.data
      /\ p.reran = u.reran /\ p.excused = u.excused
  BY <1>1, PatchedFields
<1> HIDE DEF p
<1>3. Prepared(w, p)
  BY <1>2 DEF Prepared, Behind, Onward
<1>4. QED
  BY <1>3 DEF p

\* A patch that fails ends the handler in an allowed way.
LEMMA FailureAllowed ==
  ASSUME NEW w \in Worlds, NEW u, Prepared(w, u), NEW m \in Meta,
         u.faults > 0 \/ ~u.meta.exists, m.restart => u.mem.meta.restart
  PROVE  Allowed(w, Failed(u, m))
<1>1. u \in Worlds
  BY DEF Prepared
<1> DEFINE v == Failed(u, m)
<1>2. /\ v \in Worlds /\ v.meta = u.meta /\ v.mem.meta = m
      /\ v.mem.phase = u.mem.phase /\ v.mem.off = u.mem.off /\ v.mem.data = u.mem.data
      /\ v.timer.poll /\ v.timer.deadline = 0 /\ v.reran = u.reran
      /\ v.excused = u.excused \cup {"failed"}
  BY <1>1, FailedFields
<1> HIDE DEF v
<1>3. OutcomeType(v)
  BY <1>2 DEF OutcomeType, Worlds
<1>4. Keeps(w, v)
  BY <1>2 DEF Keeps, Prepared, AtWork
<1>5. Settles(w, v)
  BY <1>2 DEF Settles, Prepared
<1>6. QED
  BY <1>3, <1>4, <1>5 DEF Allowed, v

\* The fields of a world in which an operation has started.
LEMMA StartsFields ==
  ASSUME NEW u \in Worlds, NEW op \in {"hibernate", "wakeup"}, NEW v \in Starts(u, op)
  PROVE  /\ v \in Worlds /\ v.meta = u.meta /\ v.mem.meta = u.mem.meta
         /\ v.mem.phase \in AtWork /\ v.mem.off = u.mem.off /\ v.mem.data = u.mem.data
         /\ v.timer.poll /\ v.timer.deadline = 0 /\ v.reran = u.reran /\ v.excused = u.excused
<1>1. TRUE \in BOOLEAN
  BY Zenon
<1>2. v = [u EXCEPT !.mem.phase = IF op = "hibernate" THEN "Hibernating" ELSE "WakingUp",
                    !.mem.op = op, !.timer = [poll |-> TRUE, deadline |-> 0]]
  BY DEF Starts
<1>3. QED
  BY <1>1, <1>2 DEF Worlds, Copy, Timer, AtWork, Operations

\* Starting an operation, as its first run, is allowed.
LEMMA StartAllowed ==
  ASSUME NEW w \in Worlds, NEW u, Prepared(w, u), NEW op \in {"hibernate", "wakeup"},
         NEW v \in Starts(u, op)
  PROVE  Allowed(w, v)
<1>1. u \in Worlds
  BY DEF Prepared
<1>4. /\ v \in Worlds /\ v.meta = u.meta /\ v.mem.meta = u.mem.meta
      /\ v.mem.phase \in AtWork /\ v.mem.off = u.mem.off /\ v.mem.data = u.mem.data
      /\ v.timer.poll /\ v.timer.deadline = 0 /\ v.reran = u.reran /\ v.excused = u.excused
  BY <1>1, StartsFields
<1>5. v.mem # NoWorker
  BY <1>4, CopyIsWorker DEF Worlds
<1>6. OutcomeType(v)
  BY <1>4 DEF OutcomeType, Worlds
<1>7. Keeps(w, v)
  BY <1>4 DEF Keeps, Prepared
<1>8. Settles(w, v)
  BY <1>4, <1>5 DEF Settles, Prepared
<1>9. QED
  BY <1>6, <1>7, <1>8 DEF Allowed

\* Running an operation again is allowed once the restart is out of plan and copy.
LEMMA AgainAllowed ==
  ASSUME NEW w \in Worlds, NEW u, Prepared(w, u), NEW op \in {"hibernate", "wakeup"},
         w.mem.phase \in Resting, w.mem.meta.restart \/ w.meta.restart,
         ~u.mem.meta.restart, ~u.meta.restart,
         NEW v \in Again(u, op)
  PROVE  Allowed(w, v)
<1>1. u \in Worlds
  BY DEF Prepared
<1> DEFINE r == [u EXCEPT !.reran = @ + 1]
<1>2. /\ r \in Worlds /\ r.meta = u.meta /\ r.mem = u.mem
      /\ r.reran = u.reran + 1 /\ r.excused = u.excused
  BY <1>1 DEF Worlds
<1>3. v \in Starts(r, op)
  BY DEF Again
<1> HIDE DEF r
<1>4. /\ v \in Worlds /\ v.meta = u.meta /\ v.mem.meta = u.mem.meta
      /\ v.mem.phase \in AtWork /\ v.mem.off = u.mem.off /\ v.mem.data = u.mem.data
      /\ v.timer.poll /\ v.timer.deadline = 0 /\ v.reran = u.reran + 1 /\ v.excused = u.excused
  BY <1>2, <1>3, StartsFields
<1>5. v.mem # NoWorker
  BY <1>4, CopyIsWorker DEF Worlds
<1>6. OutcomeType(v)
  BY <1>4 DEF OutcomeType, Worlds
<1>7. Keeps(w, v)
  BY <1>4, <1>5 DEF Keeps, Prepared, AtWork
<1>8. Settles(w, v)
  BY <1>4, <1>5 DEF Settles, Prepared
<1>9. QED
  BY <1>6, <1>7, <1>8 DEF Allowed

\* Coming to rest without a directive is allowed where nothing has to be done.
LEMMA RestAllowed ==
  ASSUME NEW w \in Worlds, NEW u, Prepared(w, u),
         w.mem.meta = w.meta /\ u.meta = w.meta =>
           ~u.mem.meta.deleting /\ u.mem.meta.target = "" /\ PhaseWanted(u.mem, IF u.mem.off THEN "hibernate" ELSE "wakeup")
  PROVE  Allowed(w, NoDirective(u))
<1>1. u \in Worlds
  BY DEF Prepared
<1>2. FALSE \in BOOLEAN
  BY Zenon
<1> DEFINE v == NoDirective(u)
<1>3. /\ v \in Worlds /\ v.meta = u.meta /\ v.mem = u.mem /\ ~v.timer.poll /\ v.timer.deadline = 0
      /\ v.reran = u.reran /\ v.excused = u.excused
  BY <1>1, <1>2 DEF NoDirective, Nothing, Worlds, Timer
<1> HIDE DEF v
<1>4. v.mem # NoWorker
  BY <1>3, CopyIsWorker DEF Worlds
<1>5. OutcomeType(v)
  BY <1>3 DEF OutcomeType, Worlds
<1>6. Keeps(w, v)
  BY <1>3 DEF Keeps, Prepared, AtWork
<1>7. Settles(w, v)
  BY <1>3, <1>4 DEF Settles, Prepared, Settled
<1>8. QED
  BY <1>5, <1>6, <1>7 DEF Allowed, v

\* An instant is ahead or it is not.
LEMMA AheadOrNot ==
  \A m, n \in Nat : (m <= n \/ m > n) /\ (m > n => ~(m <= n))
OBVIOUS

\* Coming to rest under an override, with its deadline armed.
LEMMA OverridingAllowed ==
  ASSUME ovNow \in Nat,
         NEW w \in Worlds, NEW u, Prepared(w, u),
         w.mem.meta = w.meta /\ u.meta = w.meta =>
           /\ ~u.mem.meta.deleting /\ u.mem.meta.target # ""
           /\ PhaseWanted(u.mem, u.mem.meta.target)
  PROVE  \A v \in Overriding(u) : Allowed(w, v)
<1>1. u \in Worlds
  BY DEF Prepared
<1>2. FALSE \in BOOLEAN
  BY Zenon
<1> DEFINE until == u.mem.meta.until
           d == IF until > ovNow THEN until ELSE 0
           excuse == IF until # 0 /\ until <= ovNow THEN u.excused \cup {"late"} ELSE u.excused
           v == [u EXCEPT !.timer = [poll |-> FALSE, deadline |-> d], !.excused = excuse]
<1>3. until \in Nat
  BY <1>1 DEF Worlds, Copy, Meta
<1>4. Overriding(u) = {v}
  BY <1>1 DEF Overriding, Deadline, Worlds
<1>5. d \in Nat /\ (until = 0 \/ until > ovNow => d = until)
  <2> HIDE DEF until
  <2>1. QED
    BY <1>3
<1>6. /\ excuse \in SUBSET Excuses /\ u.excused \subseteq excuse
      /\ excuse = {} => (until = 0 \/ until > ovNow)
  <2> HIDE DEF until
  <2>1. u.excused \in SUBSET Excuses
    BY <1>1 DEF Worlds
  <2>2. CASE until # 0 /\ until <= ovNow
    <3>1. excuse = u.excused \cup {"late"}
      BY <2>2
    <3>2. QED
      BY <2>1, <3>1 DEF Excuses
  <2>3. CASE until = 0
    BY <2>1, <2>3
  <2>4. CASE until > ovNow
    <3>1. ~(until <= ovNow)
      BY <1>3, <2>4, AheadOrNot, Zenon
    <3>2. QED
      BY <2>1, <2>4, <3>1
  <2>5. until <= ovNow \/ until > ovNow
    BY <1>3, AheadOrNot, Zenon
  <2>6. QED
    BY <2>2, <2>3, <2>4, <2>5
<1> HIDE DEF d, excuse
<1>7. [poll |-> FALSE, deadline |-> d] \in Timer
  BY <1>2, <1>5 DEF Timer
<1>8. /\ v \in Worlds /\ v.meta = u.meta /\ v.mem = u.mem /\ ~v.timer.poll
      /\ v.timer.deadline = d /\ v.reran = u.reran /\ v.excused = excuse
  BY <1>1, <1>6, <1>7 DEF Worlds
<1> HIDE DEF v
<1>9. v.mem # NoWorker
  BY <1>8, CopyIsWorker DEF Worlds
<1>10. OutcomeType(v)
  BY <1>8 DEF OutcomeType, Worlds
<1>11. Keeps(w, v)
  BY <1>8 DEF Keeps, Prepared, AtWork
<1>12. Settles(w, v)
  BY <1>5, <1>6, <1>8, <1>9 DEF Settles, Prepared, Settled
<1>13. QED
  BY <1>4, <1>10, <1>11, <1>12, Zenon DEF Allowed

-----------------------------------------------------------------------------
(* The handlers *)

NoFresh(m) == [m EXCEPT !.fresh = FALSE]

\* The worlds two outcomes of a patch leave, when it goes on to S on success.
Outcomes(u, S, m) ==
  (IF u.meta.exists THEN S ELSE {})
  \cup (IF u.faults > 0 \/ ~u.meta.exists THEN {Failed(u, m)} ELSE {})

\* Consuming fresh on the way to an operation, with its patch made explicit.
LEMMA ConsumeFreshUnfolded ==
  ASSUME NEW u \in Worlds
  PROVE  /\ ConsumeFresh(u, Hibernate) =
              IF u.mem.meta.fresh
              THEN Outcomes(u, Hibernate(Patched(u, NoFresh(u.meta))), NoFresh(u.mem.meta))
              ELSE Hibernate(u)
         /\ ConsumeFresh(u, WakeUp) =
              IF u.mem.meta.fresh
              THEN Outcomes(u, WakeUp(Patched(u, NoFresh(u.meta))), NoFresh(u.mem.meta))
              ELSE WakeUp(u)
BY DEF ConsumeFresh, Patch, Outcomes, Patched, Failed, NoFresh, Worlds

\* The same for an operation that is run again.
LEMMA ConsumeFreshAgain ==
  ASSUME NEW u \in Worlds, NEW op
  PROVE  ConsumeFresh(u, LAMBDA v : Again(v, op)) =
           IF u.mem.meta.fresh
           THEN Outcomes(u, Again(Patched(u, NoFresh(u.meta)), op), NoFresh(u.mem.meta))
           ELSE Again(u, op)
BY DEF ConsumeFresh, Patch, Outcomes, Patched, Failed, NoFresh, Worlds

\* Both outcomes of a patch are allowed if what follows its success is.
LEMMA OutcomesAllowed ==
  ASSUME NEW w \in Worlds, NEW u, Prepared(w, u), NEW S, \A v \in S : Allowed(w, v),
         NEW m \in Meta, m.restart => u.mem.meta.restart
  PROVE  \A v \in Outcomes(u, S, m) : Allowed(w, v)
BY FailureAllowed DEF Outcomes

\* Taking annotations out of metadata keeps its type and its finalizer.
LEMMA AnnotationsTaken ==
  ASSUME NEW m \in Meta
  PROVE  /\ NoFresh(m) \in Meta /\ NoFresh(m).restart = m.restart
         /\ FinalizerHolds(m) => FinalizerHolds(NoFresh(m))
         /\ Onward(m, NoFresh(m)) /\ Onward(m, WithoutRestart(m))
         /\ WithoutRestart(m) \in Meta /\ ~WithoutRestart(m).restart
         /\ FinalizerHolds(m) => FinalizerHolds(WithoutRestart(m))
<1>1. FALSE \in BOOLEAN
  BY Zenon
<1>2. QED
  BY <1>1 DEF NoFresh, WithoutRestart, FinalizerHolds, Onward, Meta

\* Metadata in a world has its type.
LEMMA WorldMeta == \A w \in Worlds : w.meta \in Meta /\ w.mem.meta \in Meta
BY DEF Worlds, Copy

\* Going on to an operation, with fresh consumed first, is allowed.
LEMMA FreshStartAllowed ==
  ASSUME NEW w \in Worlds, NEW u, Prepared(w, u)
  PROVE  /\ \A v \in ConsumeFresh(u, Hibernate) : Allowed(w, v)
         /\ \A v \in ConsumeFresh(u, WakeUp) : Allowed(w, v)
<1>1. u \in Worlds /\ u.meta \in Meta /\ u.mem.meta \in Meta
  BY WorldMeta DEF Prepared
<1> DEFINE p == Patched(u, NoFresh(u.meta))
<1>2. Prepared(w, p)
  BY <1>1, AnnotationsTaken, PreparedByPatch
<1>3. /\ \A v \in Hibernate(u) : Allowed(w, v)
      /\ \A v \in WakeUp(u) : Allowed(w, v)
  BY StartAllowed DEF Hibernate, WakeUp
<1>4. /\ \A v \in Hibernate(p) : Allowed(w, v)
      /\ \A v \in WakeUp(p) : Allowed(w, v)
  BY <1>2, StartAllowed DEF Hibernate, WakeUp
<1>5. NoFresh(u.mem.meta) \in Meta /\ NoFresh(u.mem.meta).restart = u.mem.meta.restart
  BY <1>1, AnnotationsTaken
<1> HIDE DEF p
<1>6. /\ \A v \in Outcomes(u, Hibernate(p), NoFresh(u.mem.meta)) : Allowed(w, v)
      /\ \A v \in Outcomes(u, WakeUp(p), NoFresh(u.mem.meta)) : Allowed(w, v)
  BY <1>4, <1>5, OutcomesAllowed
<1>7. QED
  BY <1>1, <1>3, <1>6, ConsumeFreshUnfolded, Zenon DEF p

\* So is running one again, with the restart gone and fresh consumed first.
LEMMA FreshAgainAllowed ==
  ASSUME NEW w \in Worlds, NEW u, Prepared(w, u), NEW op \in {"hibernate", "wakeup"},
         w.mem.phase \in Resting, w.mem.meta.restart \/ w.meta.restart,
         ~u.mem.meta.restart, ~u.meta.restart
  PROVE  \A v \in ConsumeFresh(u, LAMBDA x : Again(x, op)) : Allowed(w, v)
<1>1. u \in Worlds /\ u.meta \in Meta /\ u.mem.meta \in Meta
  BY WorldMeta DEF Prepared
<1> DEFINE p == Patched(u, NoFresh(u.meta))
<1>2. Prepared(w, p)
  BY <1>1, AnnotationsTaken, PreparedByPatch
<1>3. ~p.meta.restart /\ ~p.mem.meta.restart
  <2>1. NoFresh(u.meta) \in Meta /\ NoFresh(u.meta).restart = u.meta.restart
    BY <1>1, AnnotationsTaken
  <2>2. p.meta = NoFresh(u.meta) /\ p.mem.meta = NoFresh(u.meta)
    BY <1>1, <2>1, PatchedFields
  <2>3. QED
    BY <2>1, <2>2
<1>4. \A v \in Again(u, op) : Allowed(w, v)
  BY AgainAllowed
<1> HIDE DEF p
<1>5. \A v \in Again(p, op) : Allowed(w, v)
  BY <1>2, <1>3, AgainAllowed
<1>6. NoFresh(u.mem.meta) \in Meta /\ NoFresh(u.mem.meta).restart = u.mem.meta.restart
  BY <1>1, AnnotationsTaken
<1>7. \A v \in Outcomes(u, Again(p, op), NoFresh(u.mem.meta)) : Allowed(w, v)
  BY <1>5, <1>6, OutcomesAllowed
<1>8. QED
  BY <1>1, <1>4, <1>7, ConsumeFreshAgain, Zenon DEF p

\* A handler of the idle phases at u, of a worker found at w.
Idling(w, u) ==
  /\ w \in Worlds /\ Prepared(w, u)
  /\ w.mem.phase \in Resting /\ u.mem.phase \in {"Active", "Hibernated"}
  /\ w.mem.meta = w.meta /\ u.meta = w.meta => ~u.mem.meta.deleting

\* idleState follows the schedule.
LEMMA IdleAllowed ==
  ASSUME NEW w, NEW u, Idling(w, u), u.mem.meta.target = ""
  PROVE  \A v \in HandleIdle(u) : Allowed(w, v)
<1>1. w \in Worlds /\ Prepared(w, u)
  BY DEF Idling
<1>2. CASE u.mem.phase = "Active" /\ u.mem.off
  <2>1. HandleIdle(u) = Hibernate(u)
    BY <1>2 DEF HandleIdle
  <2>2. QED
    BY <1>1, <2>1, StartAllowed DEF Hibernate
<1>3. CASE u.mem.phase = "Hibernated" /\ ~u.mem.off /\ u.mem.data
  <2>1. HandleIdle(u) = WakeUp(u)
    BY <1>3 DEF HandleIdle
  <2>2. QED
    BY <1>1, <2>1, StartAllowed DEF WakeUp
<1>4. CASE /\ ~(u.mem.phase = "Active" /\ u.mem.off)
           /\ ~(u.mem.phase = "Hibernated" /\ ~u.mem.off /\ u.mem.data)
  <2>1. HandleIdle(u) = {NoDirective(u)}
    BY <1>4 DEF HandleIdle
  <2>2. PhaseWanted(u.mem, IF u.mem.off THEN "hibernate" ELSE "wakeup")
    BY <1>4 DEF PhaseWanted, Idling
  <2>3. Allowed(w, NoDirective(u))
    BY <1>1, <2>2, RestAllowed DEF Idling
  <2>4. QED
    BY <2>1, <2>3
<1>5. QED
  BY <1>2, <1>3, <1>4

\* The plan changes when a restart found in the copy of it is taken out.
LEMMA RestartTaken ==
  ASSUME NEW w \in Worlds, NEW u, Prepared(w, u), u.mem.meta.restart,
         NEW m \in Meta, ~m.restart, Onward(u.meta, m), FinalizerHolds(u.meta) => FinalizerHolds(m)
  PROVE  LET p == Patched(u, m) IN
         /\ Prepared(w, p) /\ ~p.mem.meta.restart /\ ~p.meta.restart
         /\ p.mem.data = u.mem.data
         /\ w.mem.meta.restart \/ w.meta.restart
         /\ ~(w.mem.meta = w.meta /\ p.meta = w.meta)
<1> DEFINE p == Patched(u, m)
<1>1. u \in Worlds
  BY DEF Prepared
<1>2. p.meta = m /\ p.mem.meta = m /\ p.mem.data = u.mem.data
  BY <1>1, PatchedFields
<1>3. Prepared(w, p)
  BY PreparedByPatch
<1> HIDE DEF p
<1>4. QED
  BY <1>2, <1>3 DEF Prepared, p

\* overrideActionState.Handle holds the plan at the override's phase.
LEMMA OverrideAllowed ==
  ASSUME ovNow \in Nat, NEW w, NEW u, Idling(w, u), u.mem.meta.target # ""
  PROVE  \A v \in HandleOverride(u) : Allowed(w, v)
<1>1. w \in Worlds /\ Prepared(w, u) /\ u \in Worlds /\ w.mem.phase \in Resting
  BY DEF Idling, Prepared
<1>2. /\ u.meta \in Meta /\ u.mem.meta \in Meta
      /\ u.mem.meta.target \in {"hibernate", "wakeup"}
  BY <1>1, WorldMeta DEF Meta
<1> DEFINE p == Patched(u, WithoutRestart(u.meta))
           m == WithoutRestart(u.mem.meta)
<1>3. u.mem.meta.restart =>
        /\ Prepared(w, p) /\ ~p.mem.meta.restart /\ ~p.meta.restart
        /\ w.mem.meta.restart \/ w.meta.restart
        /\ ~(w.mem.meta = w.meta /\ p.meta = w.meta)
  <2>1. /\ WithoutRestart(u.meta) \in Meta /\ ~WithoutRestart(u.meta).restart
        /\ FinalizerHolds(u.meta) => FinalizerHolds(WithoutRestart(u.meta))
        /\ Onward(u.meta, WithoutRestart(u.meta))
    BY <1>2, AnnotationsTaken
  <2>2. QED
    BY <1>1, <2>1, RestartTaken
<1>4. m \in Meta /\ (m.restart => u.mem.meta.restart)
  BY <1>2, AnnotationsTaken
<1>5. CASE u.mem.phase = "Active" /\ u.mem.meta.target = "hibernate"
  <2>1. HandleOverride(u) = ConsumeFresh(u, Hibernate)
    BY <1>5 DEF HandleOverride
  <2>2. QED
    BY <1>1, <2>1, FreshStartAllowed
<1>6. CASE u.mem.phase = "Hibernated" /\ u.mem.meta.target = "hibernate" /\ u.mem.meta.restart
  <2>1. HandleOverride(u) = Outcomes(u, ConsumeFresh(p, LAMBDA x : Again(x, "hibernate")), m)
    BY <1>1, <1>6 DEF HandleOverride, ConsumeRestart, Patch, Outcomes, Patched, Failed, Worlds
  <2>2. \A v \in ConsumeFresh(p, LAMBDA x : Again(x, "hibernate")) : Allowed(w, v)
    BY <1>1, <1>3, <1>6, FreshAgainAllowed
  <2>3. QED
    BY <1>1, <1>4, <2>1, <2>2, OutcomesAllowed
<1>7. CASE u.mem.phase = "Hibernated" /\ u.mem.meta.target = "wakeup" /\ u.mem.data
  <2>1. HandleOverride(u) = ConsumeFresh(u, WakeUp)
    BY <1>7 DEF HandleOverride
  <2>2. QED
    BY <1>1, <2>1, FreshStartAllowed
<1>8. CASE u.mem.phase = "Active" /\ u.mem.meta.target = "wakeup" /\ u.mem.meta.restart
  <2> DEFINE S == IF p.mem.data THEN ConsumeFresh(p, LAMBDA x : Again(x, "wakeup"))
                  ELSE Overriding(p)
  <2>1. HandleOverride(u) = Outcomes(u, S, m)
    BY <1>1, <1>8 DEF HandleOverride, ConsumeRestart, Patch, Outcomes, Patched, Failed, Worlds
  <2>2. \A v \in ConsumeFresh(p, LAMBDA x : Again(x, "wakeup")) : Allowed(w, v)
    BY <1>1, <1>3, <1>8, FreshAgainAllowed
  <2>3. \A v \in Overriding(p) : Allowed(w, v)
    BY <1>1, <1>3, <1>8, OverridingAllowed
  <2>4. \A v \in S : Allowed(w, v)
    BY <2>2, <2>3, Zenon
  <2>5. QED
    BY <1>1, <1>4, <2>1, <2>4, OutcomesAllowed
<1>9. CASE /\ ~(u.mem.phase = "Active" /\ u.mem.meta.target = "hibernate")
           /\ ~(u.mem.phase = "Hibernated" /\ u.mem.meta.target = "hibernate" /\ u.mem.meta.restart)
           /\ ~(u.mem.phase = "Hibernated" /\ u.mem.meta.target = "wakeup" /\ u.mem.data)
           /\ ~(u.mem.phase = "Active" /\ u.mem.meta.target = "wakeup" /\ u.mem.meta.restart)
  <2>1. HandleOverride(u) = Overriding(u)
    BY <1>9, Zenon DEF HandleOverride
  <2>2. PhaseWanted(u.mem, u.mem.meta.target)
    BY <1>2, <1>9 DEF PhaseWanted, Idling
  <2>3. \A v \in Overriding(u) : Allowed(w, v)
    BY <1>1, <2>2, OverridingAllowed DEF Idling
  <2>4. QED
    BY <2>1, <2>3, Zenon
<1>10. QED
  BY <1>5, <1>6, <1>7, <1>8, <1>9, Zenon

\* restartState.Handle consumes the annotations first.
LEMMA RestartAllowed ==
  ASSUME NEW w, NEW u, Idling(w, u), u.mem.meta.restart
  PROVE  \A v \in HandleRestart(u) : Allowed(w, v)
<1>1. w \in Worlds /\ Prepared(w, u) /\ u \in Worlds /\ w.mem.phase \in Resting
  BY DEF Idling, Prepared
<1>2. u.meta \in Meta /\ u.mem.meta \in Meta
  BY <1>1, WorldMeta
<1> DEFINE n == NoFresh(WithoutRestart(u.meta))
           p == Patched(u, n)
           m == NoFresh(WithoutRestart(u.mem.meta))
           S == CASE p.mem.op = "hibernate" /\ p.mem.phase = "Hibernated" -> Again(p, "hibernate")
                  [] p.mem.op = "wakeup" /\ p.mem.phase = "Active" /\ p.mem.data -> Again(p, "wakeup")
                  [] OTHER -> {NoDirective(p)}
<1>3. /\ n \in Meta /\ ~n.restart /\ (FinalizerHolds(u.meta) => FinalizerHolds(n))
      /\ Onward(u.meta, n)
  <2>1. /\ WithoutRestart(u.meta) \in Meta /\ ~WithoutRestart(u.meta).restart
        /\ FinalizerHolds(u.meta) => FinalizerHolds(WithoutRestart(u.meta))
        /\ Onward(u.meta, WithoutRestart(u.meta))
    BY <1>2, AnnotationsTaken
  <2>2. QED
    BY <2>1, AnnotationsTaken DEF Onward
<1>4. m \in Meta /\ (m.restart => u.mem.meta.restart)
  <2>1. WithoutRestart(u.mem.meta) \in Meta /\ ~WithoutRestart(u.mem.meta).restart
    BY <1>2, AnnotationsTaken
  <2>2. QED
    BY <2>1, AnnotationsTaken
<1>5. HandleRestart(u) = Outcomes(u, S, m)
  BY <1>1 DEF HandleRestart, Patch, Outcomes, Patched, Failed, NoFresh, Worlds
<1>6. /\ Prepared(w, p) /\ ~p.mem.meta.restart /\ ~p.meta.restart
      /\ w.mem.meta.restart \/ w.meta.restart
      /\ ~(w.mem.meta = w.meta /\ p.meta = w.meta)
  <2> HIDE DEF n
  <2>1. QED
    BY <1>1, <1>3, RestartTaken
<1> HIDE DEF m, n, p
<1>7. \A v \in Again(p, "hibernate") : Allowed(w, v)
  BY <1>1, <1>6, AgainAllowed
<1>8. \A v \in Again(p, "wakeup") : Allowed(w, v)
  BY <1>1, <1>6, AgainAllowed
<1>9. Allowed(w, NoDirective(p))
  BY <1>1, <1>6, RestAllowed
<1>10. \A v \in S : Allowed(w, v)
  BY <1>7, <1>8, <1>9
<1>11. QED
  BY <1>1, <1>4, <1>5, <1>10, OutcomesAllowed

\* The handler of the idle phases.
LEMMA SelectIdleAllowed ==
  ASSUME ovNow \in Nat, NEW w, NEW u, Idling(w, u)
  PROVE  \A v \in SelectIdleHandler(u) : Allowed(w, v)
<1>1. CASE u.mem.meta.target # ""
  <2>1. SelectIdleHandler(u) = HandleOverride(u)
    BY <1>1, Zenon DEF SelectIdleHandler
  <2>2. QED
    BY <1>1, <2>1, OverrideAllowed, Zenon
<1>2. CASE u.mem.meta.target = "" /\ u.mem.meta.restart
  <2>1. SelectIdleHandler(u) = HandleRestart(u)
    BY <1>2, Zenon DEF SelectIdleHandler
  <2>2. QED
    BY <1>2, <2>1, RestartAllowed, Zenon
<1>3. CASE u.mem.meta.target = "" /\ ~u.mem.meta.restart
  <2>1. SelectIdleHandler(u) = HandleIdle(u)
    BY <1>3, Zenon DEF SelectIdleHandler
  <2>2. QED
    BY <1>3, <2>1, IdleAllowed, Zenon
<1>4. QED
  BY <1>1, <1>2, <1>3

\* lifecycleState.handle: the finalizer, the first phase and its handler.
LEMMA InitializeAllowed ==
  ASSUME ovNow \in Nat, NEW w \in Worlds, w.mem.phase = "", ~w.mem.meta.deleting
  PROVE  \A v \in Initialize(w) : Allowed(w, v)
<1> DEFINE A(u) == [u EXCEPT !.mem.phase = "Active"]
           n == [w.meta EXCEPT !.finalizer = TRUE]
           m == [w.mem.meta EXCEPT !.finalizer = TRUE]
           p == Patched(w, n)
<1>1. w.meta \in Meta /\ w.mem.meta \in Meta /\ Prepared(w, w)
  BY WorldMeta, PreparedAtStart
<1>2. TRUE \in BOOLEAN
  BY Zenon
<1>3. /\ n \in Meta /\ n.finalizer /\ n.restart = w.meta.restart
      /\ FinalizerHolds(n) /\ Onward(w.meta, n)
  BY <1>1, <1>2 DEF Meta, FinalizerHolds, Onward
<1>4. m \in Meta /\ m.restart = w.mem.meta.restart
  BY <1>1, <1>2 DEF Meta
<1>5. ASSUME NEW u, Prepared(w, u), u.mem.phase = "",
             w.mem.meta = w.meta /\ u.meta = w.meta => ~u.mem.meta.deleting
      PROVE  \A v \in SelectIdleHandler(A(u)) : Allowed(w, v)
  <2>1. u \in Worlds
    BY <1>5 DEF Prepared
  <2>2. /\ A(u) \in Worlds /\ A(u).meta = u.meta /\ A(u).mem.meta = u.mem.meta
        /\ A(u).mem.phase = "Active" /\ A(u).mem.off = u.mem.off /\ A(u).mem.data = u.mem.data
        /\ A(u).reran = u.reran /\ A(u).excused = u.excused
    BY <2>1 DEF Worlds, Copy, Resting
  <2> HIDE DEF A
  <2>3. Prepared(w, A(u))
    BY <1>5, <2>2 DEF Prepared
  <2>4. Idling(w, A(u))
    BY <1>5, <2>2, <2>3 DEF Idling, Resting
  <2>5. QED
    BY <2>4, SelectIdleAllowed, Zenon
<1>6. CASE w.mem.meta.finalizer
  <2>1. Initialize(w) = SelectIdleHandler(A(w))
    BY <1>6, Zenon DEF Initialize
  <2>2. QED
    BY <1>1, <1>5, <2>1, Zenon
<1>7. CASE ~w.mem.meta.finalizer
  <2>1. Initialize(w) = Outcomes(w, SelectIdleHandler(A(p)), m)
    BY <1>7 DEF Initialize, Patch, Outcomes, Patched, Failed, Worlds
  <2>2. Prepared(w, p)
    BY <1>1, <1>3, PreparedByPatch
  <2>3. p.meta = n /\ p.mem.phase = ""
    BY <1>3, PatchedFields
  <2>4. ~(w.mem.meta = w.meta /\ p.meta = w.meta)
    BY <1>3, <1>7, <2>3
  <2>5. \A v \in SelectIdleHandler(A(p)) : Allowed(w, v)
    <3> HIDE DEF p, A
    <3>1. QED
      BY <1>5, <2>2, <2>3, <2>4, Zenon
  <2>6. QED
    <3> HIDE DEF p, A, m
    <3>1. QED
      BY <1>1, <1>4, <2>1, <2>5, OutcomesAllowed
<1>8. QED
  BY <1>6, <1>7

\* An API error ends any handler in an allowed way: the worker polls.
LEMMA ErrorAllowed ==
  ASSUME NEW w \in Worlds, NEW f \in Nat
  PROVE  Allowed(w, OnError([w EXCEPT !.faults = f])) /\ Allowed(w, OnError(w))
<1>1. TRUE \in BOOLEAN
  BY Zenon
<1>2. [poll |-> TRUE, deadline |-> 0] \in Timer
  BY <1>1 DEF Timer
<1>3. ASSUME NEW g \in Nat, NEW v, v = OnError([w EXCEPT !.faults = g]) \/ v = OnError(w)
      PROVE  Allowed(w, v)
  <2>1. /\ v \in Worlds /\ v.meta = w.meta /\ v.mem = w.mem
        /\ v.timer.poll /\ v.timer.deadline = 0 /\ v.reran = w.reran /\ v.excused = w.excused
    <3>1. CASE v = OnError([w EXCEPT !.faults = g])
      BY <1>2, <3>1 DEF OnError, Worlds
    <3>2. CASE v = OnError(w)
      BY <1>2, <3>2 DEF OnError, Worlds
    <3>3. QED
      BY <1>3, <3>1, <3>2
  <2>2. v.mem # NoWorker
    BY <2>1, CopyIsWorker DEF Worlds
  <2>3. OutcomeType(v)
    BY <2>1 DEF OutcomeType, Worlds
  <2>4. Keeps(w, v)
    BY <2>1 DEF Keeps
  <2>5. Settles(w, v)
    BY <2>1, <2>2 DEF Settles, Onward
  <2>6. QED
    BY <2>3, <2>4, <2>5 DEF Allowed
<1>4. QED
  BY <1>3

\* lifecycleState.handleDelete: the worker ends, and the plan with its finalizer.
LEMMA DeleteAllowed ==
  ASSUME NEW w \in Worlds, w.mem.meta.deleting
  PROVE  \A v \in HandleDelete(w) : Allowed(w, v)
<1> DEFINE D(u) == [NoDirective(u) EXCEPT !.mem = NoWorker]
           n == [w.meta EXCEPT !.finalizer = FALSE, !.exists = ~w.meta.deleting]
           m == [w.mem.meta EXCEPT !.finalizer = FALSE, !.exists = ~w.mem.meta.deleting]
           p == Patched(w, n)
           E == IF w.faults > 0 THEN {OnError([w EXCEPT !.faults = @ - 1])} ELSE {}
<1>1. w.meta \in Meta /\ w.mem.meta \in Meta /\ Prepared(w, w)
  BY WorldMeta, PreparedAtStart
<1>2. \A b \in BOOLEAN : (~b) \in BOOLEAN
  BY Zenon
<1>3. FALSE \in BOOLEAN
  BY Zenon
<1>4. /\ n \in Meta /\ ~n.finalizer /\ n.restart = w.meta.restart /\ FinalizerHolds(n)
      /\ w.meta.exists => Onward(w.meta, n)
  <2>1. w.meta.deleting \in BOOLEAN /\ (~w.meta.deleting) \in BOOLEAN
    BY <1>1, <1>2 DEF Meta
  <2>2. QED
    BY <1>1, <1>3, <2>1 DEF Meta, FinalizerHolds, Onward
<1>5. m \in Meta /\ m.restart = w.mem.meta.restart
  <2>1. w.mem.meta.deleting \in BOOLEAN /\ (~w.mem.meta.deleting) \in BOOLEAN
    BY <1>1, <1>2 DEF Meta
  <2>2. QED
    BY <1>1, <1>3, <2>1 DEF Meta
<1>6. ASSUME NEW u, Prepared(w, u),
             FinalizerHolds(w.meta) /\ Behind(w.mem.meta, w.meta) /\ u.meta = w.meta =>
               ~u.meta.exists
      PROVE  Allowed(w, D(u))
  <2>1. u \in Worlds
    BY <1>6 DEF Prepared
  <2> DEFINE v == D(u)
  <2>2. Nothing \in Timer /\ ~Nothing.poll
    BY <1>3 DEF Nothing, Timer
  <2>3. /\ v.mem = NoWorker /\ v.meta = u.meta /\ v.timer = Nothing /\ v.reran = u.reran
        /\ v.excused = u.excused /\ v.faults = u.faults
    BY <2>1 DEF NoDirective, Worlds
  <2> HIDE DEF v
  <2>4. OutcomeType(v)
    BY <2>1, <2>2, <2>3 DEF OutcomeType, Worlds
  <2>5. Keeps(w, v)
    BY <1>6, <2>3 DEF Keeps, Prepared
  <2>6. Settles(w, v)
    BY <1>6, <2>3 DEF Settles, Prepared
  <2>7. QED
    BY <2>4, <2>5, <2>6 DEF Allowed, v
<1>7. \A v \in E : Allowed(w, v)
  <2>1. CASE w.faults > 0
    <3>1. w.faults - 1 \in Nat
      BY <2>1 DEF Worlds
    <3>2. E = {OnError([w EXCEPT !.faults = w.faults - 1])}
      BY <2>1
    <3>3. QED
      BY <3>1, <3>2, ErrorAllowed
  <2>2. CASE ~(w.faults > 0)
    BY <2>2
  <2>3. QED
    BY <2>1, <2>2
<1>8. CASE w.mem.meta.finalizer /\ w.meta.exists
  <2>1. HandleDelete(w) = E \cup Outcomes(w, {D(p)}, m)
    BY <1>8 DEF HandleDelete, Patch, Outcomes, Patched, Failed, Worlds
  <2>2. Prepared(w, p)
    BY <1>1, <1>4, <1>8, PreparedByPatch
  <2>3. p.meta = n
    BY <1>4, PatchedFields
  <2>4. Behind(w.mem.meta, w.meta) /\ p.meta = w.meta => ~p.meta.exists
    <3>1. n.exists = ~w.meta.deleting
      BY <1>1 DEF Meta
    <3>2. QED
      BY <2>3, <3>1 DEF Behind, Onward
  <2> HIDE DEF D, E, p, m
  <2>5. Allowed(w, D(p))
    BY <1>6, <2>2, <2>4, Zenon
  <2>6. \A v \in Outcomes(w, {D(p)}, m) : Allowed(w, v)
    BY <1>1, <1>5, <2>5, OutcomesAllowed
  <2>7. QED
    BY <1>7, <2>1, <2>6, Zenon
<1>9. CASE ~(w.mem.meta.finalizer /\ w.meta.exists)
  <2>1. HandleDelete(w) = E \cup {D(w)}
    BY <1>9 DEF HandleDelete
  <2>2. Behind(w.mem.meta, w.meta) => ~w.meta.exists
    BY <1>9 DEF FinalizerHolds, Behind, Onward
  <2> HIDE DEF D, E
  <2>3. Allowed(w, D(w))
    BY <1>1, <1>6, <2>2, Zenon
  <2>4. QED
    BY <1>7, <2>1, <2>3, Zenon
<1>10. QED
  BY <1>8, <1>9

\* selectHandler: whichever handler is called, what it leaves is allowed.
LEMMA HandlersAllowed ==
  ASSUME ovNow \in Nat, NEW w \in Worlds
  PROVE  \A v \in SelectHandler(w) : Allowed(w, v)
<1>1. w.mem.phase \in Resting \cup AtWork /\ Prepared(w, w)
  BY PreparedAtStart DEF Worlds, Copy
<1>2. CASE w.mem.meta.deleting
  <2>1. SelectHandler(w) = HandleDelete(w)
    BY <1>2, Zenon DEF SelectHandler
  <2>2. QED
    BY <1>2, <2>1, DeleteAllowed, Zenon
<1>3. CASE ~w.mem.meta.deleting /\ w.mem.phase = ""
  <2>1. SelectHandler(w) = Initialize(w)
    BY <1>3 DEF SelectHandler
  <2>2. QED
    BY <1>3, <2>1, InitializeAllowed, Zenon
<1>4. CASE ~w.mem.meta.deleting /\ w.mem.phase \in {"Active", "Hibernated"}
  <2>1. SelectHandler(w) = SelectIdleHandler(w)
    BY <1>4 DEF SelectHandler
  <2>2. Idling(w, w)
    BY <1>1, <1>4 DEF Idling, Resting
  <2>3. QED
    BY <2>1, <2>2, SelectIdleAllowed, Zenon
<1>5. CASE ~w.mem.meta.deleting /\ w.mem.phase \in AtWork
  <2>1. SelectHandler(w) = {OnError(w)}
    BY <1>5 DEF SelectHandler, AtWork
  <2>2. Allowed(w, OnError(w))
    BY ErrorAllowed
  <2>3. QED
    BY <2>1, <2>2, Zenon
<1>6. QED
  BY <1>1, <1>2, <1>3, <1>4, <1>5 DEF Resting

\* overrideActionState.OnDeadline: the override is taken out of the plan.
LEMMA OnDeadlineAllowed ==
  ASSUME NEW w \in Worlds
  PROVE  \A v \in OnDeadline(w) :
           /\ OutcomeType(v) /\ Keeps(w, v)
           /\ w.excused \subseteq v.excused /\ v.mem # NoWorker /\ Onward(w.meta, v.meta)
           /\ FinalizerHolds(w.meta) => FinalizerHolds(v.meta)
           /\ FinalizerHolds(w.meta) /\ Behind(w.mem.meta, w.meta) /\ v.excused = {} =>
                Behind(v.mem.meta, v.meta)
           /\ w.mem.meta.target # "" /\ w.mem.phase \in {"Active", "Hibernated"} => Settles(w, v)
<1> DEFINE n == [w.meta EXCEPT !.target = "", !.until = 0]
           m == [w.mem.meta EXCEPT !.target = "", !.until = 0]
           p == Patched(w, n)
<1>1. w.meta \in Meta /\ w.mem.meta \in Meta /\ Prepared(w, w)
  BY WorldMeta, PreparedAtStart
<1>2. /\ n \in Meta /\ n.target = "" /\ n.restart = w.meta.restart
      /\ Onward(w.meta, n) /\ (FinalizerHolds(w.meta) => FinalizerHolds(n))
  BY <1>1 DEF Meta, FinalizerHolds, Onward
<1>3. m \in Meta /\ m.restart = w.mem.meta.restart
  BY <1>1 DEF Meta
<1>4. CASE w.mem.meta.target # "" /\ w.mem.phase \in {"Active", "Hibernated"}
  <2>1. OnDeadline(w) = Outcomes(w, {NoDirective(p)}, m)
    BY <1>4 DEF OnDeadline, Patch, Outcomes, Patched, Failed, Worlds
  <2>2. Prepared(w, p)
    BY <1>1, <1>2, PreparedByPatch
  <2>3. p.meta = n
    BY <1>2, PatchedFields
  <2>4. ~(w.mem.meta = w.meta /\ p.meta = w.meta)
    BY <1>2, <1>4, <2>3
  <2> HIDE DEF p, m
  <2>5. Allowed(w, NoDirective(p))
    BY <2>2, <2>4, RestAllowed
  <2>6. \A v \in Outcomes(w, {NoDirective(p)}, m) : Allowed(w, v)
    BY <1>1, <1>3, <2>5, OutcomesAllowed
  <2>7. \A v \in Outcomes(w, {NoDirective(p)}, m) : v.mem # NoWorker
    <3>1. p \in Worlds
      BY <2>2 DEF Prepared
    <3>2. NoDirective(p).mem = p.mem
      BY <3>1 DEF NoDirective, Worlds
    <3>3. NoDirective(p).mem # NoWorker
      BY <3>1, <3>2, CopyIsWorker DEF Worlds
    <3>4. w.faults > 0 \/ ~w.meta.exists => Failed(w, m) \in Worlds
      BY <1>3, FailedFields
    <3>5. w.faults > 0 \/ ~w.meta.exists => Failed(w, m).mem # NoWorker
      BY <3>4, CopyIsWorker DEF Worlds
    <3>6. QED
      BY <3>3, <3>5 DEF Outcomes
  <2>8. QED
    BY <2>1, <2>6, <2>7, Zenon DEF Allowed, Settles
<1>5. CASE ~(w.mem.meta.target # "" /\ w.mem.phase \in {"Active", "Hibernated"})
  <2> DEFINE v == NoDirective(w)
  <2>1. OnDeadline(w) = {v}
    BY <1>5, Zenon DEF OnDeadline
  <2>2. FALSE \in BOOLEAN
    BY Zenon
  <2>3. /\ v \in Worlds /\ v.meta = w.meta /\ v.mem = w.mem /\ ~v.timer.poll
        /\ v.timer.deadline = 0 /\ v.reran = w.reran /\ v.excused = w.excused
    BY <2>2 DEF NoDirective, Nothing, Worlds, Timer
  <2> HIDE DEF v
  <2>4. v.mem # NoWorker
    BY <2>3, CopyIsWorker DEF Worlds
  <2>5. OutcomeType(v)
    BY <2>3 DEF OutcomeType, Worlds
  <2>6. Keeps(w, v)
    BY <2>3 DEF Keeps
  <2>7. Onward(w.meta, v.meta)
    BY <2>3 DEF Onward
  <2>8. QED
    BY <1>5, <2>1, <2>3, <2>4, <2>5, <2>6, <2>7
<1>6. QED
  BY <1>4, <1>5

-----------------------------------------------------------------------------
(* A step of the worker *)

\* The invariant, of a worker about to handle w with slot its slot.
Ready(w, slot) ==
  /\ w \in Worlds /\ slot \in Context \cup {EmptySlot}
  /\ w.meta = ovMeta /\ w.reran = ovReran
  /\ ovReran <= ovAsked
  /\ ovMeta.restart => ovReran < ovAsked
  /\ w.mem.phase \in Resting /\ w.mem.meta.restart => ovReran < ovAsked
  /\ slot # EmptySlot /\ slot.meta.restart /\ w.mem.phase \in Resting => ovReran < ovAsked
  /\ slot # EmptySlot /\ slot.meta.restart => ovMeta.restart \/ ovQueued
  /\ w.mem.meta.restart => ovMeta.restart \/ ovQueued \/ slot # EmptySlot
  /\ FinalizerHolds(ovMeta)
  /\ slot # EmptySlot => Behind(slot.meta, ovMeta)
  /\ slot # EmptySlot /\ ~ovQueued => InStep(slot)
  /\ w.excused = {} => Behind(w.mem.meta, ovMeta)
  /\ ~ovQueued /\ slot = EmptySlot /\ w.excused = {} => InStep(w.mem)

\* Being queued is not forgotten, and a plan that changed is queued.
LEMMA LeavesQueued ==
  ASSUME OvType, NEW v, NEW slot, Leaves(v, slot)
  PROVE  /\ ovQueued' \in BOOLEAN
         /\ ovQueued => ovQueued'
         /\ ovMeta' # ovMeta => ovQueued'
<1>1. ovQueued' = (ovQueued \/ v.meta # ovMeta) /\ ovMeta' = v.meta
  BY Zenon DEF Leaves
<1>2. (ovQueued \/ v.meta # ovMeta) \in BOOLEAN
  BY Zenon
<1>3. QED
  BY <1>1, <1>2, Zenon

\* Counting restarts survives what a handler leaves.
LEMMA LeavesRestarts ==
  ASSUME OvType, NEW w, NEW slot, Ready(w, slot), NEW v, OutcomeType(v), Keeps(w, v),
         Leaves(v, slot)
  PROVE  OvType' /\ RestartsCounted' /\ StaleIsReplaced'
<1>1. /\ ovQueued' \in BOOLEAN /\ (ovQueued => ovQueued') /\ (ovMeta' # ovMeta => ovQueued')
  BY LeavesQueued
<1>2. /\ ovSlot' = (IF v.mem = NoWorker THEN EmptySlot ELSE slot)
      /\ ovMeta' = v.meta /\ ovMem' = v.mem /\ ovTimer' = v.timer
      /\ ovBudget' = [ovBudget EXCEPT !.faults = v.faults]
      /\ ovReran' = v.reran /\ ovExcused' = v.excused
      /\ ovNow' = ovNow /\ ovStatus' = ovStatus /\ ovOff' = ovOff /\ ovData' = ovData
      /\ ovAsked' = ovAsked
  BY DEF Leaves
<1>3. OvType'
  BY <1>1, <1>2 DEF OvType, OutcomeType, Ready
<1>4. /\ v.meta.restart => ovMeta.restart
      /\ v.mem # NoWorker /\ v.mem.meta.restart => w.mem.meta.restart \/ v.meta.restart
      /\ ovMeta.restart => v.meta.restart \/ ovQueued'
  BY <1>1, <1>2 DEF Keeps, Ready
<1>5. StaleIsReplaced'
  BY <1>1, <1>2, <1>4 DEF StaleIsReplaced, Ready
<1>6. RestartsCounted'
  <2>1. CASE v.reran = w.reran
    <3>1. v.mem # NoWorker /\ v.mem.phase \in Resting => w.mem.phase \in Resting
      BY DEF Keeps, Ready, Worlds, Copy, Resting, AtWork
    <3>2. QED
      BY <1>2, <1>4, <2>1, <3>1 DEF RestartsCounted, Ready
  <2>2. CASE v.reran # w.reran
    <3>1. /\ v.reran = ovReran + 1 /\ ovReran < ovAsked
          /\ v.mem # NoWorker /\ v.mem.phase \in AtWork /\ ~v.meta.restart
      BY <2>2 DEF Keeps, Ready
    <3>2. v.reran <= ovAsked
      BY <3>1 DEF OvType
    <3>3. v.mem.phase \notin Resting
      BY <3>1 DEF AtWork, Resting
    <3>4. QED
      BY <1>2, <3>1, <3>2, <3>3 DEF RestartsCounted
  <2>3. QED
    BY <2>1, <2>2
<1>7. QED
  BY <1>3, <1>5, <1>6

\* So does what is known of a worker at rest.
LEMMA LeavesSettled ==
  ASSUME OvType, NEW w, NEW slot, Ready(w, slot), NEW v, OutcomeType(v), Settles(w, v),
         Leaves(v, slot)
  PROVE  RestIsSettled' /\ CopiesAreReads'
<1>1. /\ ovQueued' \in BOOLEAN /\ (ovQueued => ovQueued') /\ (ovMeta' # ovMeta => ovQueued')
  BY LeavesQueued
<1>2. /\ ovSlot' = (IF v.mem = NoWorker THEN EmptySlot ELSE slot)
      /\ ovMeta' = v.meta /\ ovMem' = v.mem /\ ovTimer' = v.timer /\ ovExcused' = v.excused
      /\ ovOff' = ovOff /\ ovData' = ovData
  BY DEF Leaves
<1>3. FinalizerHolds(v.meta) /\ (v.timer.poll => v.timer.deadline = 0)
  BY DEF Settles, Ready, OutcomeType
<1>4. ovSlot' # EmptySlot => ovSlot' = slot /\ slot # EmptySlot
  BY <1>2
<1>5. ~ovQueued' => ~ovQueued /\ v.meta = ovMeta
  BY <1>1, <1>2
<1>6. v.excused = {} => w.excused = {} /\ Behind(w.mem.meta, w.meta)
  BY DEF Settles, Ready
<1>7. CopiesAreReads'
  <2>1. ovSlot' # EmptySlot => Behind(ovSlot'.meta, v.meta)
    BY <1>4 DEF Settles, Ready, Behind, Onward
  <2>2. v.mem # NoWorker /\ v.excused = {} => Behind(v.mem.meta, v.meta)
    BY <1>6 DEF Settles, Ready
  <2>3. QED
    BY <1>2, <2>1, <2>2 DEF CopiesAreReads
<1>8. ovSlot' # EmptySlot /\ ~ovQueued' => InStep(ovSlot)'
  BY <1>2, <1>4, <1>5 DEF Ready, InStep
<1>9. ASSUME ~ovQueued', ovSlot' = EmptySlot, v.excused = {}
      PROVE  IF v.mem = NoWorker THEN ~v.meta.exists
             ELSE InStep(v.mem)' /\ (v.timer.poll \/ Settled(v.mem, v.timer))
  <2>1. CASE v.mem = NoWorker
    BY <1>5, <1>6, <1>9, <2>1 DEF Settles, Ready
  <2>2. CASE v.mem # NoWorker
    <3>1. slot = EmptySlot
      BY <1>2, <1>9, <2>2
    <3>2. InStep(w.mem)
      BY <1>5, <1>6, <1>9, <3>1 DEF Ready
    <3>3. w.mem.meta = w.meta /\ v.meta = w.meta
      BY <1>5, <1>9, <3>2 DEF Ready, InStep
    <3>4. v.mem.meta = v.meta /\ (v.timer.poll \/ Settled(v.mem, v.timer))
      BY <1>6, <1>9, <2>2, <3>3 DEF Settles, Ready
    <3>5. v.mem.off = w.mem.off /\ v.mem.data = w.mem.data
      BY <2>2 DEF Settles
    <3>6. v.mem.meta = ovMeta' /\ v.mem.off = ovOff' /\ v.mem.data = ovData'
      BY <1>2, <3>2, <3>4, <3>5 DEF InStep
    <3>7. QED
      BY <2>2, <3>4, <3>6 DEF InStep
  <2>3. QED
    BY <2>1, <2>2
<1>10. RestIsSettled'
  BY <1>2, <1>3, <1>8, <1>9 DEF RestIsSettled, InStep
<1>11. QED
  BY <1>7, <1>10

-----------------------------------------------------------------------------
(* The steps *)

\* A delivery: the copy is what the slot held, and the slot is empty.
LEMMA DeliverStep == OvInv /\ DeliverContext => OvInv'
<1> SUFFICES ASSUME OvInv, DeliverContext PROVE OvInv'
  OBVIOUS
<1>1. OvType /\ ovSlot # EmptySlot /\ ovSlot \in Context
  BY DEF OvInv, OvType, DeliverContext
<1> DEFINE status == IF ovMem = NoWorker THEN ovSlot.status
                     ELSE [phase |-> ovMem.phase, op |-> ovMem.op]
           mem == [meta |-> ovSlot.meta, off |-> ovSlot.off, data |-> ovSlot.data,
                   phase |-> status.phase, op |-> status.op]
           w == [World EXCEPT !.mem = mem, !.excused = {}]
<1>2. PICK v \in SelectHandler(w) : Leaves(v, EmptySlot)
  BY Zenon DEF DeliverContext
<1>3. status \in PhaseAndOp
  BY <1>1 DEF OvType, Context, Copy, PhaseAndOp
<1>4. mem.phase \in Resting => ovMem = NoWorker \/ ovMem.phase \in Resting
  OBVIOUS
<1> HIDE DEF status
<1>5. mem \in Copy
  BY <1>1, <1>3 DEF Context, Copy, PhaseAndOp
<1>6. mem.meta = ovSlot.meta /\ mem.off = ovSlot.off /\ mem.data = ovSlot.data
  OBVIOUS
<1> HIDE DEF mem
<1>7. ovBudget.faults \in Nat /\ {} \in SUBSET Excuses
  BY <1>1 DEF OvType
<1>8. w \in Worlds /\ w.meta = ovMeta /\ w.mem = mem /\ w.reran = ovReran /\ w.excused = {}
  BY <1>1, <1>5, <1>7 DEF World, Worlds, OvType
<1> HIDE DEF w
<1>9. Ready(w, EmptySlot)
  BY <1>1, <1>4, <1>6, <1>8
  DEF OvInv, Ready, RestartsCounted, StaleIsReplaced, RestIsSettled, CopiesAreReads, InStep
<1>10. Allowed(w, v)
  BY <1>1, <1>2, <1>8, HandlersAllowed, Zenon DEF OvType
<1>11. QED
  BY <1>1, <1>2, <1>9, <1>10, LeavesRestarts, LeavesSettled, Zenon DEF OvInv, Allowed

\* A worker that is there is ready to handle what it has.
LEMMA WorkerReady ==
  ASSUME OvInv, ovMem # NoWorker
  PROVE  Ready(World, ovSlot) /\ World.mem = ovMem /\ World.meta = ovMeta /\ World.timer = ovTimer
         /\ World.excused = ovExcused
<1>1. OvType /\ ovMem \in Copy /\ ovBudget.faults \in Nat
  BY DEF OvInv, OvType
<1>2. /\ World \in Worlds /\ World.meta = ovMeta /\ World.mem = ovMem
      /\ World.reran = ovReran /\ World.excused = ovExcused /\ World.timer = ovTimer
  BY <1>1 DEF World, Worlds, OvType
<1> DEFINE w == World
<1> HIDE DEF w
<1>3. /\ w \in Worlds /\ w.meta = ovMeta /\ w.mem = ovMem
      /\ w.reran = ovReran /\ w.excused = ovExcused
  BY <1>2 DEF w
<1>4. Ready(w, ovSlot)
  BY <1>1, <1>3
  DEF OvInv, OvType, Ready, RestartsCounted, StaleIsReplaced, RestIsSettled, CopiesAreReads, InStep
<1>5. QED
  BY <1>2, <1>4 DEF w

\* A poll.
LEMMA PollStep == OvInv /\ Poll => OvInv'
<1> SUFFICES ASSUME OvInv, Poll PROVE OvInv'
  OBVIOUS
<1>1. OvType /\ ovNow \in Nat /\ ovMem # NoWorker
  BY DEF OvInv, OvType, Poll
<1>2. PICK v \in SelectHandler(World) : Leaves(v, ovSlot)
  BY Zenon DEF Poll
<1>3. Ready(World, ovSlot)
  BY <1>1, WorkerReady
<1>4. World \in Worlds
  BY <1>3, Zenon DEF Ready
<1>5. Allowed(World, v)
  BY <1>1, <1>2, <1>4, HandlersAllowed, Zenon
<1>6. QED
  BY <1>1, <1>2, <1>3, <1>5, LeavesRestarts, LeavesSettled, Zenon DEF OvInv, Allowed

\* The deadline of an override: a worker at rest that has one is under an override.
LEMMA DeadlineStep == OvInv /\ DeadlineFires => OvInv'
<1> SUFFICES ASSUME OvInv, DeadlineFires PROVE OvInv'
  OBVIOUS
<1>1. /\ OvType /\ ovMem # NoWorker /\ ovTimer.deadline # 0
  BY DEF OvInv, OvType, DeadlineFires
<1>2. PICK v \in OnDeadline(World) : Leaves(v, ovSlot)
  BY Zenon DEF DeadlineFires
<1> DEFINE w == World
<1>3. Ready(w, ovSlot) /\ w.mem = ovMem /\ w.meta = ovMeta /\ w.excused = ovExcused
  BY <1>1, WorkerReady
<1>4. w \in Worlds
  BY <1>3, Zenon DEF Ready
<1>5. /\ OutcomeType(v) /\ Keeps(w, v)
      /\ w.excused \subseteq v.excused /\ v.mem # NoWorker /\ Onward(w.meta, v.meta)
      /\ FinalizerHolds(w.meta) => FinalizerHolds(v.meta)
      /\ FinalizerHolds(w.meta) /\ Behind(w.mem.meta, w.meta) /\ v.excused = {} =>
           Behind(v.mem.meta, v.meta)
      /\ w.mem.meta.target # "" /\ w.mem.phase \in {"Active", "Hibernated"} => Settles(w, v)
  BY <1>2, <1>4, OnDeadlineAllowed, Zenon
<1> HIDE DEF w
<1>6. OvType' /\ RestartsCounted' /\ StaleIsReplaced'
  BY <1>1, <1>2, <1>3, <1>5, LeavesRestarts, Zenon
<1>7. CASE w.mem.meta.target # "" /\ w.mem.phase \in {"Active", "Hibernated"}
  BY <1>1, <1>2, <1>3, <1>5, <1>6, <1>7, LeavesSettled, Zenon DEF OvInv
<1>8. CASE ~(w.mem.meta.target # "" /\ w.mem.phase \in {"Active", "Hibernated"})
  <2>1. ovQueued \/ ovSlot # EmptySlot \/ ovExcused # {}
    <3>1. SUFFICES ASSUME ~ovQueued, ovSlot = EmptySlot, ovExcused = {} PROVE FALSE
      BY Zenon
    <3>2. ~ovTimer.poll /\ Settled(ovMem, ovTimer)
      BY <1>1, <3>1 DEF OvInv, RestIsSettled
    <3>3. ovMem.meta.target # "" /\ ovMem.phase \in {"Active", "Hibernated"}
      BY <1>1, <3>2 DEF Settled, PhaseWanted
    <3>4. QED
      BY <1>3, <1>8, <3>3
  <2>2. /\ ovQueued' \in BOOLEAN /\ (ovQueued => ovQueued') /\ (ovMeta' # ovMeta => ovQueued')
    BY <1>1, <1>2, LeavesQueued, Zenon
  <2>3. /\ ovSlot' = (IF v.mem = NoWorker THEN EmptySlot ELSE ovSlot)
        /\ ovMeta' = v.meta /\ ovMem' = v.mem /\ ovTimer' = v.timer /\ ovExcused' = v.excused
        /\ ovOff' = ovOff /\ ovData' = ovData
    BY <1>2 DEF Leaves
  <2>4. ovSlot' = ovSlot
    BY <1>5, <2>3
  <2>5. CopiesAreReads'
    BY <1>3, <1>5, <2>3, <2>4 DEF CopiesAreReads, Ready, Behind, Onward
  <2>6. RestIsSettled'
    BY <1>3, <1>5, <2>1, <2>2, <2>3, <2>4 DEF RestIsSettled, Ready, InStep, OutcomeType
  <2>7. QED
    BY <1>6, <2>5, <2>6 DEF OvInv
<1>9. QED
  BY <1>7, <1>8

\* An operation ends: nothing is under way, so the copy is as recent as the plan.
LEMMA FinishStep == OvInv /\ OperationFinishes => OvInv'
<1> SUFFICES ASSUME OvInv, OperationFinishes PROVE OvInv'
  OBVIOUS
<1>1. /\ OvType /\ ovMem # NoWorker /\ ovMem \in Copy /\ ~ovQueued /\ ovSlot = EmptySlot
      /\ ovTimer' = Nothing /\ ovExcused' = ovExcused \cup {"finalized"}
      /\ UNCHANGED <<ovNow, ovMeta, ovStatus, ovOff, ovData, ovQueued, ovSlot, ovAsked, ovReran,
                     ovBudget>>
  BY DEF OvInv, OvType, OperationFinishes
<1>2. ovMem' \in Copy /\ ovMem'.meta = ovMem.meta
  BY <1>1 DEF OperationFinishes, Copy, Resting
<1>3. ovMem' # NoWorker
  BY <1>2, CopyIsWorker
<1>4. FALSE \in BOOLEAN
  BY Zenon
<1>5. Nothing \in Timer /\ ~Nothing.poll
  BY <1>4 DEF Nothing, Timer
<1>6. ovExcused' \in SUBSET Excuses /\ ovExcused' # {}
  BY <1>1 DEF OvType, Excuses
<1>7. OvType'
  BY <1>1, <1>2, <1>5, <1>6 DEF OvType
<1>8. RestartsCounted' /\ StaleIsReplaced'
  BY <1>1, <1>2, <1>3 DEF OvInv, RestartsCounted, StaleIsReplaced
<1>9. RestIsSettled' /\ CopiesAreReads'
  BY <1>1, <1>5, <1>6 DEF OvInv, RestIsSettled, CopiesAreReads
<1>10. QED
  BY <1>7, <1>8, <1>9 DEF OvInv

\* The status writer.
LEMMA PersistStep == OvInv /\ Persist => OvInv'
<1> SUFFICES ASSUME OvInv, Persist PROVE OvInv'
  OBVIOUS
<1>1. /\ ovMem \in Copy /\ ovStatus' = [phase |-> ovMem.phase, op |-> ovMem.op]
      /\ UNCHANGED <<ovNow, ovMeta, ovOff, ovData, ovQueued, ovSlot, ovMem, ovTimer,
                     ovAsked, ovReran, ovExcused, ovBudget>>
  BY DEF OvInv, OvType, Persist
<1>2. ovStatus' \in PhaseAndOp
  BY <1>1 DEF Copy, PhaseAndOp
<1>3. OvType'
  BY <1>1, <1>2 DEF OvInv, OvType
<1>4. RestartsCounted' /\ StaleIsReplaced' /\ RestIsSettled' /\ CopiesAreReads'
  BY <1>1 DEF OvInv, RestartsCounted, StaleIsReplaced, RestIsSettled, CopiesAreReads, InStep
<1>5. QED
  BY <1>3, <1>4 DEF OvInv

\* The provider reads the plan: the slot holds what the plan is.
LEMMA ReconcileStep == OvInv /\ ReconcileContext => OvInv'
<1> SUFFICES ASSUME OvInv, ReconcileContext PROVE OvInv'
  OBVIOUS
<1>1. /\ OvType /\ ~ovQueued'
      /\ UNCHANGED <<ovNow, ovMeta, ovStatus, ovOff, ovData, ovTimer, ovAsked, ovReran,
                     ovExcused, ovBudget>>
  BY DEF OvInv, ReconcileContext
<1>2. ovQueued' \in BOOLEAN
  BY Zenon DEF ReconcileContext
<1>3. CASE ovMeta.exists
  <2> DEFINE c == [meta |-> ovMeta, status |-> ovStatus, off |-> ovOff, data |-> ovData]
  <2>1. ovSlot' = c /\ ovMem' = ovMem
    BY <1>3 DEF ReconcileContext
  <2>2. c \in Context /\ c.meta = ovMeta /\ c.off = ovOff /\ c.data = ovData
    BY <1>1 DEF OvType, Context
  <2> HIDE DEF c
  <2>3. c # EmptySlot
    BY <2>2, ContextIsContent
  <2>4. OvType'
    BY <1>1, <1>2, <2>1, <2>2 DEF OvType
  <2>5. RestartsCounted'
    BY <1>1, <2>1, <2>2 DEF OvInv, RestartsCounted
  <2>6. StaleIsReplaced'
    BY <1>1, <2>1, <2>2, <2>3 DEF StaleIsReplaced
  <2>7. RestIsSettled'
    BY <1>1, <2>1, <2>2, <2>3 DEF OvInv, RestIsSettled, InStep
  <2>8. CopiesAreReads'
    BY <1>1, <2>1, <2>2 DEF OvInv, RestIsSettled, CopiesAreReads, Behind, Onward
  <2>9. QED
    BY <2>4, <2>5, <2>6, <2>7, <2>8 DEF OvInv
<1>4. CASE ~ovMeta.exists
  <2>1. ovSlot' = EmptySlot /\ ovMem' = NoWorker
    BY <1>4 DEF ReconcileContext
  <2>2. OvType'
    BY <1>1, <1>2, <2>1 DEF OvType
  <2>3. RestartsCounted' /\ StaleIsReplaced'
    BY <1>1, <2>1 DEF OvInv, RestartsCounted, StaleIsReplaced
  <2>4. RestIsSettled' /\ CopiesAreReads'
    BY <1>1, <1>4, <2>1 DEF OvInv, RestIsSettled, CopiesAreReads
  <2>5. QED
    BY <2>2, <2>3, <2>4 DEF OvInv
<1>5. QED
  BY <1>3, <1>4

\* A change of the plan by its users, which queues a reconcile.
LEMMA RequestStep ==
  ASSUME OvInv, NEW meta \in Meta, NEW asked \in {0, 1}, Request(meta, asked),
         FinalizerHolds(ovMeta) => FinalizerHolds(meta), Onward(ovMeta, meta),
         meta.restart => ovMeta.restart \/ asked = 1, ovMeta.restart => meta.restart
  PROVE  OvInv'
<1>1. /\ OvType /\ ovMeta' = meta /\ ovAsked' = ovAsked + asked /\ ovQueued'
      /\ ovBudget' = [ovBudget EXCEPT !.requests = @ - 1] /\ ovBudget.requests > 0
      /\ UNCHANGED <<ovNow, ovStatus, ovOff, ovData, ovSlot, ovMem, ovTimer, ovReran, ovExcused>>
  BY DEF OvInv, Request
<1>2. ovQueued' \in BOOLEAN
  BY Zenon DEF Request
<1>3. ovBudget' \in [requests : Nat, boundaries : Nat, faults : Nat, crashes : Nat]
  <2>1. /\ ovBudget.requests - 1 \in Nat
        /\ ovBudget \in [requests : Nat, boundaries : Nat, faults : Nat, crashes : Nat]
    BY <1>1 DEF OvType
  <2>2. QED
    BY <1>1, <2>1
<1>4. ovAsked' \in Nat /\ ovAsked <= ovAsked' /\ (asked = 1 => ovAsked < ovAsked')
  BY <1>1 DEF OvType
<1>5. OvType'
  BY <1>1, <1>2, <1>3, <1>4 DEF OvType
<1>6. RestartsCounted'
  <2>1. /\ ovReran <= ovAsked => ovReran <= ovAsked'
        /\ ovReran < ovAsked => ovReran < ovAsked'
        /\ ovReran <= ovAsked /\ asked = 1 => ovReran < ovAsked'
    BY <1>1, <1>4 DEF OvType
  <2>2. ovReran <= ovAsked
    BY DEF OvInv, RestartsCounted
  <2>3. ovReran' <= ovAsked' /\ (ovMeta'.restart => ovReran' < ovAsked')
    BY <1>1, <2>1, <2>2 DEF OvInv, RestartsCounted
  <2>4. /\ ovMem' # NoWorker /\ ovMem'.phase \in Resting /\ ovMem'.meta.restart => ovReran' < ovAsked'
        /\ ovSlot' # EmptySlot /\ ovSlot'.meta.restart /\ (ovMem' = NoWorker \/ ovMem'.phase \in Resting)
             => ovReran' < ovAsked'
    BY <1>1, <2>1 DEF OvInv, RestartsCounted
  <2>5. QED
    BY <2>3, <2>4 DEF RestartsCounted
<1>7. StaleIsReplaced'
  BY <1>1 DEF StaleIsReplaced
<1>8. RestIsSettled'
  BY <1>1 DEF OvInv, RestIsSettled
<1>9. CopiesAreReads'
  BY <1>1 DEF OvInv, CopiesAreReads, Behind, Onward
<1>10. QED
  BY <1>5, <1>6, <1>7, <1>8, <1>9 DEF OvInv

\* The requests: an override, a restart, a deletion.
LEMMA AskStep ==
  ASSUME OvInv, NEW t \in {"", "hibernate", "wakeup"}, NEW u \in Nat, NEW f \in BOOLEAN,
         AskOverride(t, u) \/ AskRestart(f) \/ AskDeletion
  PROVE  OvInv'
<1>1. ovMeta \in Meta
  BY DEF OvInv, OvType
<1>2. TRUE \in BOOLEAN /\ \A a, b \in BOOLEAN : (a /\ b) \in BOOLEAN
  BY Zenon
<1>3. CASE AskOverride(t, u)
  <2> DEFINE m == [ovMeta EXCEPT !.target = t, !.until = u]
  <2>1. /\ m \in Meta /\ m.restart = ovMeta.restart /\ Onward(ovMeta, m)
        /\ FinalizerHolds(ovMeta) => FinalizerHolds(m)
    BY <1>1 DEF Meta, Onward, FinalizerHolds
  <2>2. Request(m, 0)
    BY <1>3 DEF AskOverride
  <2> HIDE DEF m
  <2>3. QED
    BY <2>1, <2>2, RequestStep
<1>4. CASE AskRestart(f)
  <2> DEFINE m == [ovMeta EXCEPT !.restart = TRUE, !.fresh = f]
  <2>1. /\ m \in Meta /\ m.restart /\ Onward(ovMeta, m)
        /\ FinalizerHolds(ovMeta) => FinalizerHolds(m)
    BY <1>1, <1>2 DEF Meta, Onward, FinalizerHolds
  <2>2. Request(m, 1)
    BY <1>4 DEF AskRestart
  <2> HIDE DEF m
  <2>3. QED
    BY <2>1, <2>2, RequestStep
<1>5. CASE AskDeletion
  <2> DEFINE m == [ovMeta EXCEPT !.deleting = TRUE, !.exists = @ /\ ovMeta.finalizer]
  <2>1. ovMeta.exists \in BOOLEAN /\ ovMeta.finalizer \in BOOLEAN
    BY <1>1 DEF Meta
  <2>2. (ovMeta.exists /\ ovMeta.finalizer) \in BOOLEAN
    BY <1>2, <2>1, Zenon
  <2>3. m = [ovMeta EXCEPT !.deleting = TRUE, !.exists = (ovMeta.exists /\ ovMeta.finalizer)]
    BY <1>1 DEF Meta
  <2>4. /\ m.exists = (ovMeta.exists /\ ovMeta.finalizer) /\ m.restart = ovMeta.restart
        /\ m.deleting /\ m.finalizer = ovMeta.finalizer /\ m \in Meta
    BY <1>1, <1>2, <2>2, <2>3 DEF Meta
  <2>5. Request(m, 0)
    BY <1>5 DEF AskDeletion
  <2> HIDE DEF m
  <2>6. Onward(ovMeta, m) /\ FinalizerHolds(m)
    BY <2>4 DEF Onward, FinalizerHolds
  <2>7. QED
    BY <2>4, <2>5, <2>6, RequestStep
<1>6. QED
  BY <1>3, <1>4, <1>5

\* What changes the schedule's answer or the restore data queues a reconcile, and
\* time alone changes nothing that is known of the worker.
LEMMA SurroundingsStep ==
  ASSUME OvInv, ScheduleBoundary \/ DataSaved \/ Hour
  PROVE  OvInv'
<1>1. OvType /\ \A b \in BOOLEAN : (~b) \in BOOLEAN
  BY Zenon DEF OvInv
<1>2. CASE ScheduleBoundary
  <2>1. /\ ovOff' = ~ovOff /\ ovQueued' = TRUE
        /\ ovBudget' = [ovBudget EXCEPT !.boundaries = @ - 1] /\ ovBudget.boundaries > 0
        /\ UNCHANGED <<ovNow, ovMeta, ovStatus, ovData, ovSlot, ovMem, ovTimer, ovAsked,
                       ovReran, ovExcused>>
    BY <1>2 DEF ScheduleBoundary
  <2>2. ovOff' \in BOOLEAN /\ ovQueued' \in BOOLEAN
    BY <1>1, <2>1, Zenon DEF OvType
  <2>3. ovBudget' \in [requests : Nat, boundaries : Nat, faults : Nat, crashes : Nat]
    <3>1. /\ ovBudget.boundaries - 1 \in Nat
          /\ ovBudget \in [requests : Nat, boundaries : Nat, faults : Nat, crashes : Nat]
      BY <1>1, <2>1 DEF OvType
    <3>2. QED
      BY <2>1, <3>1
  <2>4. OvType'
    BY <1>1, <2>1, <2>2, <2>3 DEF OvType
  <2>5. RestartsCounted' /\ StaleIsReplaced' /\ RestIsSettled' /\ CopiesAreReads'
    BY <2>1 DEF OvInv, RestartsCounted, StaleIsReplaced, RestIsSettled, CopiesAreReads
  <2>6. QED
    BY <2>4, <2>5 DEF OvInv
<1>3. CASE DataSaved
  <2>1. /\ ovData' = TRUE /\ ovQueued' = TRUE
        /\ UNCHANGED <<ovNow, ovMeta, ovStatus, ovOff, ovSlot, ovMem, ovTimer, ovAsked,
                       ovReran, ovExcused, ovBudget>>
    BY <1>3 DEF DataSaved
  <2>2. ovData' \in BOOLEAN /\ ovQueued' \in BOOLEAN
    BY <2>1, Zenon
  <2>3. OvType'
    BY <1>1, <2>1, <2>2 DEF OvType
  <2>4. RestartsCounted' /\ StaleIsReplaced' /\ RestIsSettled' /\ CopiesAreReads'
    BY <2>1 DEF OvInv, RestartsCounted, StaleIsReplaced, RestIsSettled, CopiesAreReads
  <2>5. QED
    BY <2>3, <2>4 DEF OvInv
<1>4. CASE Hour
  <2>1. /\ ovNow' = ovNow + 1
        /\ UNCHANGED <<ovMeta, ovStatus, ovOff, ovData, ovQueued, ovSlot, ovMem, ovTimer,
                       ovAsked, ovReran, ovExcused, ovBudget>>
    BY <1>4 DEF Hour
  <2>2. OvType'
    BY <1>1, <2>1 DEF OvType
  <2>3. RestartsCounted' /\ StaleIsReplaced' /\ RestIsSettled' /\ CopiesAreReads'
    BY <2>1 DEF OvInv, RestartsCounted, StaleIsReplaced, RestIsSettled, CopiesAreReads, InStep
  <2>4. QED
    BY <2>2, <2>3 DEF OvInv
<1>5. QED
  BY <1>2, <1>3, <1>4

\* A restart of the controller leaves no copy, and reads every plan there is.
LEMMA CrashStep == OvInv /\ Crash => OvInv'
<1> SUFFICES ASSUME OvInv, Crash PROVE OvInv'
  OBVIOUS
<1>1. /\ OvType /\ ovMem' = NoWorker /\ ovSlot' = EmptySlot /\ ovTimer' = Nothing
      /\ ovQueued' = ovMeta.exists
      /\ ovBudget' = [ovBudget EXCEPT !.crashes = @ - 1] /\ ovBudget.crashes > 0
      /\ UNCHANGED <<ovNow, ovMeta, ovStatus, ovOff, ovData, ovAsked, ovReran, ovExcused>>
  BY DEF OvInv, Crash
<1>2. FALSE \in BOOLEAN
  BY Zenon
<1>3. Nothing \in Timer /\ ~Nothing.poll
  BY <1>2 DEF Nothing, Timer
<1>4. ovBudget' \in [requests : Nat, boundaries : Nat, faults : Nat, crashes : Nat]
  <2>1. /\ ovBudget.crashes - 1 \in Nat
        /\ ovBudget \in [requests : Nat, boundaries : Nat, faults : Nat, crashes : Nat]
    BY <1>1 DEF OvType
  <2>2. QED
    BY <1>1, <2>1
<1>5. ovQueued' \in BOOLEAN
  BY <1>1 DEF OvType, Meta
<1>6. OvType'
  BY <1>1, <1>3, <1>4, <1>5 DEF OvType
<1>7. RestartsCounted' /\ StaleIsReplaced'
  BY <1>1 DEF OvInv, RestartsCounted, StaleIsReplaced
<1>8. RestIsSettled' /\ CopiesAreReads'
  BY <1>1, <1>3 DEF OvInv, RestIsSettled, CopiesAreReads
<1>9. QED
  BY <1>6, <1>7, <1>8 DEF OvInv

\* A new plan, with its first reconcile queued.
LEMMA OverridesInit == OVInit => OvInv
<1> SUFFICES ASSUME OVInit PROVE OvInv
  OBVIOUS
<1>1. TRUE \in BOOLEAN /\ FALSE \in BOOLEAN
  BY Zenon
<1>2. NewPlan \in Meta /\ ~NewPlan.restart /\ ~NewPlan.deleting
  BY <1>1 DEF NewPlan, Meta
<1>3. Unset \in PhaseAndOp
  BY DEF Unset, PhaseAndOp, Resting, Operations
<1>4. Nothing \in Timer /\ ~Nothing.poll
  BY <1>1 DEF Nothing, Timer
<1>5. ovBudget \in [requests : Nat, boundaries : Nat, faults : Nat, crashes : Nat]
  BY OvAssumption DEF OVInit
<1>6. OvType
  BY <1>1, <1>2, <1>3, <1>4, <1>5 DEF OVInit, OvType
<1>7. RestartsCounted /\ StaleIsReplaced
  BY <1>2 DEF OVInit, RestartsCounted, StaleIsReplaced
<1>8. RestIsSettled /\ CopiesAreReads
  BY <1>2, <1>4 DEF OVInit, RestIsSettled, CopiesAreReads, FinalizerHolds
<1>9. QED
  BY <1>6, <1>7, <1>8 DEF OvInv

\* Every step keeps the invariant.
LEMMA OverridesNext == OvInv /\ [OVNext]_ovVars => OvInv'
<1> SUFFICES ASSUME OvInv, [OVNext]_ovVars PROVE OvInv'
  OBVIOUS
<1>1. CASE DeliverContext \/ Poll \/ DeadlineFires \/ OperationFinishes \/ Persist
  BY <1>1, DeliverStep, PollStep, DeadlineStep, FinishStep, PersistStep, Zenon
<1>2. CASE ReconcileContext \/ Crash
  BY <1>2, ReconcileStep, CrashStep, Zenon
<1>3. CASE ScheduleBoundary \/ DataSaved \/ Hour
  BY <1>3, SurroundingsStep, Zenon
<1>4. CASE \E t \in {"hibernate", "wakeup"} : \E u \in {0} \cup (ovNow + 1) .. OvHorizon : AskOverride(t, u)
  <2>1. PICK t \in {"hibernate", "wakeup"}, u \in {0} \cup (ovNow + 1) .. OvHorizon : AskOverride(t, u)
    BY <1>4, Zenon
  <2>2. u \in Nat
    BY OvAssumption DEF OvInv, OvType
  <2>3. TRUE \in BOOLEAN
    BY Zenon
  <2>4. QED
    BY <2>1, <2>2, <2>3, AskStep, Zenon
<1>5. CASE AskOverride("", 0) \/ AskDeletion
  <2>1. TRUE \in BOOLEAN /\ 0 \in Nat
    OBVIOUS
  <2>2. QED
    BY <1>5, <2>1, AskStep, Zenon
<1>6. CASE \E f \in BOOLEAN : AskRestart(f)
  <2>1. 0 \in Nat
    OBVIOUS
  <2>2. QED
    BY <1>6, <2>1, AskStep, Zenon
<1>7. CASE UNCHANGED ovVars
  BY <1>7 DEF ovVars, OvInv, OvType, RestartsCounted, StaleIsReplaced, RestIsSettled,
              CopiesAreReads, InStep
<1>8. QED
  BY <1>1, <1>2, <1>3, <1>4, <1>5, <1>6, <1>7, Zenon DEF OVNext

(***************************************************************************)
(* The invariant of the override, restart and deletion handlers holds in   *)
(* every state.                                                            *)
(***************************************************************************)
THEOREM OverridesInvariant == OVSpec => []OvInv
BY OverridesInit, OverridesNext, PTL DEF OVSpec

(***************************************************************************)
(* Each restart that was asked for runs at most one operation              *)
(* (ConsumeRestart in state_override.go, restartState.Handle), however     *)
(* often patches fail, deliveries are late or the controller restarts.     *)
(***************************************************************************)
THEOREM RestartRunsOnceHolds == OVSpec => []RestartRunsOnce
<1>1. OvInv => RestartRunsOnce
  BY DEF OvInv, RestartsCounted, RestartRunsOnce
<1>2. QED
  BY <1>1, OverridesInvariant, PTL

(***************************************************************************)
(* Whenever the controller has come to rest, the plan is where its         *)
(* override, or else its schedule, wants it, a deleted plan is gone, or    *)
(* the worker is excused until its next delivery.                          *)
(***************************************************************************)
THEOREM IntentFollowedHolds == OVSpec => []IntentFollowed
<1>1. OvInv => IntentFollowed
  <2> SUFFICES ASSUME OvInv, AtRest, ovExcused = {} PROVE Followed
    BY DEF IntentFollowed
  <2>1. /\ ~ovQueued /\ ovSlot = EmptySlot /\ ~ovTimer.poll
        /\ ovTimer.deadline # 0 => ovTimer.deadline > ovNow
    BY DEF AtRest
  <2>2. CASE ovMem = NoWorker
    BY <2>1, <2>2 DEF OvInv, RestIsSettled, Followed
  <2>3. CASE ovMem # NoWorker
    <3>1. InStep(ovMem) /\ Settled(ovMem, ovTimer)
      BY <2>1, <2>3 DEF OvInv, RestIsSettled
    <3>2. ovMeta.target = "" => (Wanted <=> ovOff)
      BY DEF Wanted, InForce
    <3>3. ovMeta.target # "" => (Wanted <=> ovMeta.target = "hibernate")
      <4>1. ovMeta.target # "" => ovMeta.until = 0 \/ ovNow < ovMeta.until
        BY <2>1, <3>1 DEF Settled, InStep, OvInv, OvType, Meta
      <4>2. QED
        BY <4>1 DEF Wanted, InForce
    <3>4. /\ ~ovMeta.deleting
          /\ IF Wanted THEN ovMem.phase = "Hibernated" ELSE ovMem.phase = "Active" \/ ~ovData
      BY <3>1, <3>2, <3>3 DEF Settled, InStep, PhaseWanted
    <3>5. QED
      BY <2>3, <3>4 DEF Followed
  <2>4. QED
    BY <2>2, <2>3
<1>2. QED
  BY <1>1, OverridesInvariant, PTL
=============================================================================
