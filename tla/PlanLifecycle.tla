--------------------------- MODULE PlanLifecycle ---------------------------
(***************************************************************************)
(* What the plan worker promises to whoever reads a HibernatePlan's status: *)
(* the plan moves through its phases along the edges below and no others,  *)
(* one handler call at a time, and the status writer persists every        *)
(* status the worker went through, in that order, some time later.  A      *)
(* restart resumes from the last persisted status.                         *)
(*                                                                         *)
(* A status is reduced to [phase, op, cycle, stage, retry]: the phase, the *)
(* operation with its cycle, the stage index and the retry count.  What    *)
(* makes an edge be taken (schedule, Jobs, users) is left open; PlanWorker *)
(* implements this specification under the mapping of PlanRefinement.      *)
(***************************************************************************)
EXTENDS Naturals, Sequences

CONSTANTS
  StageCount,   \* operation -> number of stages of its execution plan
  MaxRetries    \* behavior.retries

VARIABLES
  current,   \* the status the worker acts on
  pending,   \* statuses on their way to the API server, oldest first
  durable    \* the status in the API server

lifecycleVars == <<current, pending, durable>>

Ops == {"shutdown", "wakeup"}

PhaseOf(op) == IF op = "shutdown" THEN "Hibernating" ELSE "WakingUp"

Phases == {"", "Active", "Hibernating", "Hibernated", "WakingUp", "Suspended", "Error"}

Status == [phase : Phases, op : Ops \cup {""}, cycle : Nat, stage : Nat \ {0}, retry : Nat]

\* The operation runs in the phase that belongs to it.
Runs(s) == s.op \in Ops /\ s.phase = PhaseOf(s.op)

\* Durable and pending statuses as one line, oldest first.
At(i) == IF i = 0 THEN durable ELSE pending[i]

Latest == At(Len(pending))

-----------------------------------------------------------------------------
(* The edges of the lifecycle, from status s to status t *)

Setup(s, t) == s.phase = "" /\ t = [s EXCEPT !.phase = "Active"]

\* A new operation starts at the first stage; the retry count is not reset.
Starting(s, op, cycle) ==
  [phase |-> PhaseOf(op), op |-> op, cycle |-> cycle, stage |-> 1, retry |-> s.retry]

StartShutdown(s, t) ==
  s.phase = "Active" /\ t.cycle \in Nat \ {0} /\ t = Starting(s, "shutdown", t.cycle)

\* The wakeup belongs to the cycle of the shutdown.
StartWakeup(s, t) == s.phase = "Hibernated" /\ t = Starting(s, "wakeup", s.cycle)

Advance(s, t) ==
  Runs(s) /\ s.stage < StageCount[s.op] /\ t = [s EXCEPT !.stage = @ + 1]

\* Only the last stage ends an operation.
Complete(s, t) ==
  /\ Runs(s) /\ s.stage = StageCount[s.op]
  /\ t = [s EXCEPT !.phase = IF s.op = "shutdown" THEN "Hibernated" ELSE "Active", !.retry = 0]

Fail(s, t) ==
  s.phase \in {"Hibernating", "WakingUp"} /\ t = [s EXCEPT !.phase = "Error"]

Suspend(s, t) == t = [s EXCEPT !.phase = "Suspended"]

\* A plan suspended in an error starts over with a fresh retry count.
Resume(s, t) ==
  /\ s.phase = "Suspended"
  /\ \/ \E ph \in {"Active", "Hibernating", "Hibernated", "WakingUp"} :
          t = [s EXCEPT !.phase = ph]
     \/ t = [s EXCEPT !.phase = IF s.op = "wakeup" THEN "Hibernated" ELSE "Active", !.retry = 0]

\* A retry repeats the stage of the operation that failed.
Retry(s, t) ==
  /\ s.phase = "Error" /\ s.retry < MaxRetries
  /\ \E op \in Ops : /\ s.op \in {op, ""}
                     /\ t = [s EXCEPT !.phase = PhaseOf(op), !.retry = @ + 1]

\* retry-now, once the retries are used up.
RetryNow(s, t) == s.phase = "Error" /\ s.retry >= MaxRetries /\ t = [s EXCEPT !.retry = 0]

Edge(s, t) ==
  \/ Setup(s, t) \/ StartShutdown(s, t) \/ StartWakeup(s, t)
  \/ Advance(s, t) \/ Complete(s, t) \/ Fail(s, t)
  \/ Suspend(s, t) \/ Resume(s, t)
  \/ Retry(s, t) \/ RetryNow(s, t)

\* What one handler call may make of the status: nothing, one edge, or the next
\* stage and its failure at once.
Reaches(s, t) ==
  \/ s = t \/ Edge(s, t)
  \/ LET next == [s EXCEPT !.stage = @ + 1] IN Advance(s, next) /\ Fail(next, t)

\* What a reader of the API server may see next: the phase Hibernated between a
\* suspension and the wakeup it is resumed with is never written.
Follows(s, t) ==
  \/ s = t \/ Edge(s, t)
  \/ s.phase = "Suspended" /\ Edge([s EXCEPT !.phase = "Hibernated"], t)

-----------------------------------------------------------------------------
(* Steps *)

\* A handler moves the worker's status and sends what it went through.
Send ==
  /\ Reaches(current, current')
  /\ durable' = durable
  /\ pending' \in Seq(Status) /\ Len(pending') >= Len(pending)
  /\ \A i \in 1 .. Len(pending) : pending'[i] = pending[i]
  /\ \A i \in Len(pending) + 1 .. Len(pending') :
       Reaches(current, pending'[i]) /\ Follows(At(i - 1)', pending'[i])
  /\ Latest' = current'

\* forceWakeUpOnResume changes the worker's memory only.
ResumeAhead ==
  /\ current.phase = "Suspended" /\ current' = [current EXCEPT !.phase = "Hibernated"]
  /\ UNCHANGED <<pending, durable>>

\* The status writer persists the oldest pending status.
Persist ==
  /\ pending # <<>>
  /\ durable' = Head(pending) /\ pending' = Tail(pending)
  /\ current' = current

\* The worker, or the whole controller, is gone; the next one reads the API server.
Restart == current' = durable /\ pending' = <<>> /\ durable' = durable

Init ==
  /\ current = [phase |-> "", op |-> "", cycle |-> 0, stage |-> 1, retry |-> 0]
  /\ pending = <<>>
  /\ durable = current

Next == Send \/ ResumeAhead \/ Persist \/ Restart

Spec == Init /\ [][Next]_lifecycleVars

-----------------------------------------------------------------------------
(* Properties *)

\* A stage of the operation's plan, and no more retries than the plan allows.
InBounds(s) ==
  /\ s.op \in Ops => s.stage <= StageCount[s.op]
  /\ s.op = "" => s.stage = 1
  /\ s.retry <= MaxRetries

\* The worker is at the end of the line, or ahead of it by forceWakeUpOnResume.
AtTheEnd ==
  \/ current = Latest
  \/ Latest.phase = "Suspended" /\ current = [Latest EXCEPT !.phase = "Hibernated"]

\* Every status is a legal one, and the statuses still to be written follow the
\* persisted one and each other along the lifecycle.
LineOK ==
  /\ current \in Status /\ InBounds(current)
  /\ pending \in Seq(Status)
  /\ \A i \in 0 .. Len(pending) : At(i) \in Status /\ InBounds(At(i))
  /\ \A i \in 0 .. Len(pending) - 1 : Follows(At(i), At(i + 1))
  /\ AtTheEnd

\* The status in the API server moves along the lifecycle too, whatever is
\* queued, lost or restarted: a reader never sees a phase that an edge of the
\* lifecycle does not lead to.
DurableMoves == [][Follows(durable, durable')]_durable

=============================================================================
