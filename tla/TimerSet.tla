------------------------------- MODULE TimerSet -------------------------------
(***************************************************************************)
(* The timers of a plan worker (internal/provider/processor/plan/timer.go) *)
(* and the worker's event loop around them (worker.go): four timers, the   *)
(* goroutine that multiplexes them into a channel of capacity one, and the *)
(* worker that takes deliveries and timer events and applies the timer     *)
(* directives its phase handler returns.  The phase handlers are in        *)
(* PlanWorker; here a handler is the set Results of what it may return.    *)
(***************************************************************************)
EXTENDS Integers

CONSTANTS Inactivity, \* inactivity timeout, in units of time
          Results     \* timer directives: [req, tmo, ddl], 0 for none

Operational == {"requeue", "timeout", "deadline"}
Timers == Operational \cup {"inactivity"}

VARIABLES tsLeft,     \* time left on each timer, Off when it is not armed
          tsLength,   \* the duration it was armed with
          tsSeen,     \* timers whose channel the loop's select is reading
          tsNotify,   \* the notify channel holds a poke
          tsOut,      \* the event in the out channel, "none" when empty
          tsWorker,   \* "select", "handle" or "ended"
          tsSlot,     \* a delivery waits in the worker's slot
          tsLate      \* a handler ran after the inactivity timer had fired

tsVars == <<tsLeft, tsLength, tsSeen, tsNotify, tsOut, tsWorker, tsSlot, tsLate>>

Off == -1    \* timer = nil
Spent == -2  \* armed, and its channel has been read

Armed(t) == tsLeft[t] # Off

(* Start: a new worker has a new TimerSet, with the inactivity timer armed. *)
Started ==
    /\ tsLeft' = [t \in Timers |-> IF t = "inactivity" THEN Inactivity ELSE Off]
    /\ tsLength' = [t \in Timers |-> IF t = "inactivity" THEN Inactivity ELSE 0]
    /\ tsSeen' = {"inactivity"}
    /\ tsNotify' = FALSE
    /\ tsOut' = "none"
    /\ tsWorker' = "select"
    /\ tsLate' = FALSE

TSInit ==
    /\ tsLeft = [t \in Timers |-> IF t = "inactivity" THEN Inactivity ELSE Off]
    /\ tsLength = [t \in Timers |-> IF t = "inactivity" THEN Inactivity ELSE 0]
    /\ tsSeen = {"inactivity"}
    /\ tsNotify = FALSE
    /\ tsOut = "none"
    /\ tsWorker = "select"
    /\ tsSlot = TRUE
    /\ tsLate = FALSE

(* The coordinator's pool puts the latest PlanContext in the worker's slot. *)
Delivery ==
    /\ ~tsSlot
    /\ tsSlot' = TRUE
    /\ UNCHANGED <<tsLeft, tsLength, tsSeen, tsNotify, tsOut, tsWorker, tsLate>>

(* A delivery for a plan whose worker ended starts a new one. *)
Respawn == tsWorker = "ended" /\ tsSlot /\ Started /\ UNCHANGED tsSlot

(* The loop wakes up on a poke and evaluates the channels of its select again. *)
Reevaluate ==
    /\ tsWorker # "ended"
    /\ tsNotify
    /\ tsNotify' = FALSE
    /\ tsSeen' = {t \in Timers : Armed(t)}
    /\ UNCHANGED <<tsLeft, tsLength, tsOut, tsWorker, tsSlot, tsLate>>

(* The loop reads the channel of a timer that fired and offers its event: a full *)
(* out channel drops it.                                                        *)
Fires(t) ==
    /\ tsWorker # "ended"
    /\ tsLeft[t] = 0
    /\ t \in tsSeen
    /\ tsLeft' = [tsLeft EXCEPT ![t] = Spent]
    /\ tsOut' = IF tsOut = "none" THEN t ELSE tsOut
    /\ tsLate' = (tsLate \/ (t = "inactivity" /\ tsWorker = "handle"))
    /\ tsSeen' = {u \in Timers : Armed(u)}
    /\ UNCHANGED <<tsLength, tsNotify, tsWorker, tsSlot>>

(* Time passes; neither goroutine is a whole unit of time late at its select, a *)
(* handler may run for any time.                                              *)
TimePasses ==
    /\ tsWorker # "ended"
    /\ tsWorker = "select" => ~tsSlot /\ tsOut = "none"
    /\ ~tsNotify
    /\ \A t \in tsSeen : tsLeft[t] # 0
    /\ \E t \in Timers : tsLeft[t] > 0
    /\ tsLeft' = [t \in Timers |-> IF tsLeft[t] > 0 THEN tsLeft[t] - 1 ELSE tsLeft[t]]
    /\ UNCHANGED <<tsLength, tsSeen, tsNotify, tsOut, tsWorker, tsSlot, tsLate>>

(* The worker's select takes a delivery. *)
TakeDelivery ==
    /\ tsWorker = "select"
    /\ tsSlot
    /\ tsSlot' = FALSE
    /\ tsWorker' = "handle"
    /\ tsLate' = (tsLate \/ tsOut = "inactivity")
    /\ UNCHANGED <<tsLeft, tsLength, tsSeen, tsNotify, tsOut>>

(* It takes a timer event, which disarms the timer; inactivity ends the worker, *)
(* and Stop disarms the other timers with it.                                  *)
TakeEvent ==
    /\ tsWorker = "select"
    /\ tsOut # "none"
    /\ tsOut' = "none"
    /\ tsWorker' = IF tsOut = "inactivity" THEN "ended" ELSE "handle"
    /\ tsLeft' = [tsLeft EXCEPT ![tsOut] = Off]
    /\ tsLength' = [tsLength EXCEPT ![tsOut] = 0]
    /\ UNCHANGED <<tsSeen, tsNotify, tsSlot, tsLate>>

(***************************************************************************)
(* Apply: requeue and deadline are replaced on every call, a timeout that  *)
(* is armed is left alone; a zero duration disarms.  Applied to the timers *)
(* that a phase change (Requeue) has reset first.                          *)
(***************************************************************************)
Directive(r, t) == CASE t = "requeue" -> r.req [] t = "timeout" -> r.tmo [] OTHER -> r.ddl

Keeps(r, t, reset) == t = "timeout" /\ r.tmo > 0 /\ Armed(t) /\ ~reset

Applied(r, t, reset) ==
    IF Keeps(r, t, reset) THEN tsLeft[t]
    ELSE IF Directive(r, t) > 0 THEN Directive(r, t) ELSE Off

(* Slip: a deadline beyond the inactivity timeout does not extend it. *)
KeepAliveBase(ddl) == Inactivity

(* KeepAlive: the inactivity timer starts over, longer than a far deadline. *)
KeepAlive(ddl) == IF ddl > Inactivity THEN ddl + Inactivity ELSE Inactivity

(* The handler returns: its directives are applied, the loop is poked and the *)
(* inactivity timer reset.  reset tells whether the phase changed on the way. *)
HandlerReturns(r, reset) ==
    /\ tsWorker = "handle"
    /\ tsWorker' = "select"
    /\ tsLeft' = [t \in Timers |->
          IF t \in Operational THEN Applied(r, t, reset)
          ELSE IF Armed(t) THEN KeepAlive(r.ddl) ELSE Off]
    /\ tsLength' = [t \in Timers |->
          IF t \in Operational
          THEN IF Keeps(r, t, reset) THEN tsLength[t] ELSE Directive(r, t)
          ELSE tsLength[t]]
    /\ tsSeen' = {t \in tsSeen : t = "inactivity" \/ Keeps(r, t, reset)}
    /\ tsNotify' = TRUE
    /\ UNCHANGED <<tsOut, tsSlot, tsLate>>

Loop == Reevaluate \/ TimePasses \/ (\E t \in Timers : Fires(t))
Handles == \E r \in Results, reset \in BOOLEAN : HandlerReturns(r, reset)

TSNext == Delivery \/ Respawn \/ Loop \/ TakeDelivery \/ TakeEvent \/ Handles

(* Fairness: time passes, both goroutines run, handlers return, and the worker's *)
(* select, which chooses at random, passes over neither of its channels for ever. *)
TSFairness ==
    /\ WF_tsVars(Loop)
    /\ WF_tsVars(Handles)
    /\ SF_tsVars(TakeEvent)
    /\ SF_tsVars(TakeDelivery)
    /\ WF_tsVars(Respawn)

TSSpec == TSInit /\ [][TSNext]_tsVars /\ TSFairness

-----------------------------------------------------------------------------
(***************************************************************************)
(* state.go:40-52: a handler that asked for a poll or a deadline is run    *)
(* again, even when the event of that timer is dropped on a full channel,  *)
(* replaced by another or armed while the loop was already waiting in its  *)
(* select.  The worker ends instead only when the poll or the deadline is  *)
(* as far away as the inactivity timeout, or when inactivity had fired     *)
(* before the handler ran.                                                 *)
(***************************************************************************)
DrivenAgain ==
    (/\ tsWorker = "select"
     /\ \E t \in {"requeue", "deadline"} : Armed(t) /\ tsLength[t] # Inactivity)
        ~> (tsWorker = "handle" \/ tsLate)
=============================================================================
