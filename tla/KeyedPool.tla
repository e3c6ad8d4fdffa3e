------------------------------ MODULE KeyedPool ------------------------------
(***************************************************************************)
(* The keyed worker pool (pkg/keyedworker) as one key sees it: the map     *)
(* slot of the key, the entries ever created for it, the goroutine of      *)
(* each entry, and the callers that deliver.  Keys share nothing but the   *)
(* mutex of the map.  kpKind is the pool being modelled:                   *)
(*   "plans"   the coordinator's pool: latest-wins slots, entries removed  *)
(*             by Remove when the plan is deleted;                         *)
(*   "writers" the status writer's pool: FIFO slots of capacity Capacity,  *)
(*             entries removed when their worker idles out.                *)
(***************************************************************************)
EXTENDS Integers, Sequences, FiniteSets

CONSTANTS Senders,    \* goroutines that call Deliver for the key
          MaxValues,  \* bound: values delivered
          MaxEntries, \* bound: entries created
          MaxRemoves, \* bound: calls of Remove
          Capacity    \* capacity of a FIFO slot

VARIABLES kpKind,     \* which pool
          kpStage,    \* "new", "registered" or "stopped"
          kpMap,      \* the entry the map holds for the key, 0 when none
          kpEntries,  \* sequence of the entries created
          kpSenders,  \* what each caller of Deliver is doing
          kpFate,     \* what became of each value delivered
          kpRemoves   \* calls of Remove so far

kpVars == <<kpKind, kpStage, kpMap, kpEntries, kpSenders, kpFate, kpRemoves>>

Ids == 1..Len(kpEntries)
Latest == kpKind = "plans"
AutoRemove == kpKind = "writers"

(***************************************************************************)
(* An entry: its slot (the FIFO queue, or the latest value, and the signal *)
(* channel of capacity one) and its goroutine.  at is where the goroutine  *)
(* is: "none" (running is false), "select", "recv" (signal taken), "handle",*)
(* "flush" (idle timer fired) or "exit"; flushing tells which loop called  *)
(* Recv, cancelled is ctx.Err() # nil, reapers counts exited goroutines    *)
(* that have still to take the map lock.  revived is history: runEntry     *)
(* started the goroutine again although Remove had cancelled it.           *)
(***************************************************************************)
FreshEntry == [queue |-> <<>>, signal |-> FALSE, at |-> "none", item |-> 0,
               flushing |-> FALSE, cancelled |-> FALSE, reapers |-> 0, revived |-> FALSE]

SlotLen(e) == IF Latest THEN (IF e.signal THEN 1 ELSE 0) ELSE Len(e.queue)

Quiet == [at |-> "idle", entry |-> 0, value |-> 0]

KPInit ==
    /\ kpKind \in {"plans", "writers"}
    /\ kpStage = "new"
    /\ kpMap = 0
    /\ kpEntries = <<>>
    /\ kpSenders = [s \in Senders |-> Quiet]
    /\ kpFate = <<>>
    /\ kpRemoves = 0

(* Deliver, first step: getOrCreate under the lock of the map.  Plans are delivered *)
(* by one goroutine, the coordinator's subscription.                             *)
Deliver(s) ==
    /\ kpSenders[s].at = "idle"
    /\ kpKind = "plans" => \A t \in Senders : kpSenders[t].at = "idle"
    /\ Len(kpFate) < MaxValues
    /\ kpFate' = Append(kpFate, "sending")
    /\ \/ /\ kpMap # 0
          /\ UNCHANGED <<kpMap, kpEntries>>
       \/ /\ kpMap = 0
          /\ Len(kpEntries) < MaxEntries
          /\ kpEntries' = Append(kpEntries, FreshEntry)
          /\ kpMap' = Len(kpEntries')
    /\ kpSenders' = [kpSenders EXCEPT ![s] =
                       [at |-> "push", entry |-> kpMap', value |-> Len(kpFate')]]
    /\ UNCHANGED <<kpKind, kpStage, kpRemoves>>

(* Send into a FIFO slot: a full buffer drops the value and skips the signal. *)
PushFIFO(s, e, v) ==
    IF Len(kpEntries[e].queue) < Capacity
      THEN /\ kpEntries' = [kpEntries EXCEPT ![e].queue = Append(@, v)]
           /\ kpFate' = [kpFate EXCEPT ![v] = "queued"]
           /\ kpSenders' = [kpSenders EXCEPT ![s].at = "signal"]
      ELSE /\ kpFate' = [kpFate EXCEPT ![v] = "dropped"]
           /\ kpSenders' = [kpSenders EXCEPT ![s].at = "ensure"]
           /\ UNCHANGED kpEntries

(* Send into a latest-wins slot: the stored value is replaced; one that nobody *)
(* has read yet is superseded.                                               *)
PushLatest(s, e, v) ==
    /\ kpEntries' = [kpEntries EXCEPT ![e].queue = <<v>>]
    /\ kpFate' = [i \in 1..Len(kpFate) |->
                    IF i = v THEN "queued"
                    ELSE IF kpFate[i] = "queued"
                              /\ \E j \in 1..Len(kpEntries[e].queue) :
                                    kpEntries[e].queue[j] = i
                         THEN "superseded" ELSE kpFate[i]]
    /\ kpSenders' = [kpSenders EXCEPT ![s].at = "signal"]

Push(s) ==
    /\ kpSenders[s].at = "push"
    /\ IF Latest THEN PushLatest(s, kpSenders[s].entry, kpSenders[s].value)
                 ELSE PushFIFO(s, kpSenders[s].entry, kpSenders[s].value)
    /\ UNCHANGED <<kpKind, kpStage, kpMap, kpRemoves>>

Signal(s) ==
    /\ kpSenders[s].at = "signal"
    /\ kpEntries' = [kpEntries EXCEPT ![kpSenders[s].entry].signal = TRUE]
    /\ kpSenders' = [kpSenders EXCEPT ![s].at = "ensure"]
    /\ UNCHANGED <<kpKind, kpStage, kpMap, kpFate, kpRemoves>>

(* ensureRunning: one goroutine per entry, and none once the pool has stopped. *)
EnsureRunning(e) ==
    IF kpStage = "registered" /\ e.at = "none"
    THEN [e EXCEPT !.at = "select", !.cancelled = FALSE]
    ELSE e

(* Deliver, last step: before Register there is no worker factory to run. *)
Ensure(s) ==
    /\ kpSenders[s].at = "ensure"
    /\ kpEntries' = [kpEntries EXCEPT ![kpSenders[s].entry] = EnsureRunning(@)]
    /\ kpSenders' = [kpSenders EXCEPT ![s] = Quiet]
    /\ UNCHANGED <<kpKind, kpStage, kpMap, kpFate, kpRemoves>>

(* Register arms the pool and starts a worker for what was buffered before it. *)
Register ==
    /\ kpStage = "new"
    /\ kpStage' = "registered"
    /\ kpEntries' = [e \in Ids |->
          IF e = kpMap /\ SlotLen(kpEntries[e]) > 0
          THEN [kpEntries[e] EXCEPT !.at = "select"] ELSE kpEntries[e]]
    /\ UNCHANGED <<kpKind, kpMap, kpSenders, kpFate, kpRemoves>>

(* Stop cancels the context every goroutine derives its own from. *)
Stop ==
    /\ kpStage = "registered"
    /\ kpStage' = "stopped"
    /\ kpEntries' = [e \in Ids |->
          IF kpEntries[e].at = "none" THEN kpEntries[e]
          ELSE [kpEntries[e] EXCEPT !.cancelled = TRUE]]
    /\ UNCHANGED <<kpKind, kpMap, kpSenders, kpFate, kpRemoves>>

(* Slip: the entry leaves the map and its goroutine is not told. *)
CancelNothing(e) == FALSE

(* Remove cancels the goroutine of the entry, which ends at its next select. *)
CancelEntry(e) == kpEntries[e].at # "none"

(***************************************************************************)
(* Remove, called by the goroutine that delivers (the coordinator's        *)
(* subscription), in three critical sections: the entry leaves the map,    *)
(* its goroutine is cancelled, its slot is drained.  The goroutine may run *)
(* in between.  What is pending when the entry leaves the map is lost with *)
(* the plan.                                                               *)
(***************************************************************************)
Remove(s) ==
    /\ kpKind = "plans"
    /\ \A t \in Senders : kpSenders[t].at = "idle"
    /\ kpMap # 0
    /\ kpRemoves < MaxRemoves
    /\ kpRemoves' = kpRemoves + 1
    /\ kpMap' = 0
    /\ kpSenders' = [kpSenders EXCEPT ![s] = [at |-> "cancel", entry |-> kpMap, value |-> 0]]
    /\ kpFate' = [i \in 1..Len(kpFate) |->
                    IF kpFate[i] = "queued" /\ kpEntries[kpMap].queue = <<i>>
                    THEN "discarded" ELSE kpFate[i]]
    /\ UNCHANGED <<kpKind, kpStage, kpEntries>>

Cancel(s) ==
    /\ kpSenders[s].at = "cancel"
    /\ kpEntries' = [kpEntries EXCEPT
          ![kpSenders[s].entry].cancelled = CancelEntry(kpSenders[s].entry)]
    /\ kpSenders' = [kpSenders EXCEPT ![s].at = "drain"]
    /\ UNCHANGED <<kpKind, kpStage, kpMap, kpFate, kpRemoves>>

(* Draining a latest-wins slot takes the signal and leaves the value. *)
Drain(s) ==
    /\ kpSenders[s].at = "drain"
    /\ kpEntries' = [kpEntries EXCEPT ![kpSenders[s].entry].signal = FALSE]
    /\ kpSenders' = [kpSenders EXCEPT ![s] = Quiet]
    /\ UNCHANGED <<kpKind, kpStage, kpMap, kpFate, kpRemoves>>

(* The worker's select takes the signal of its slot. *)
Take(e) ==
    /\ kpEntries[e].at \in {"select", "flush"}
    /\ kpEntries[e].signal
    /\ kpEntries' = [kpEntries EXCEPT
          ![e].signal = FALSE, ![e].flushing = (kpEntries[e].at = "flush"), ![e].at = "recv"]
    /\ UNCHANGED <<kpKind, kpStage, kpMap, kpSenders, kpFate, kpRemoves>>

(* Recv of a FIFO slot blocks on an empty queue and re-arms the signal when more *)
(* is queued; Recv of a latest-wins slot reads the stored value.                 *)
Recv(e) ==
    /\ kpEntries[e].at = "recv"
    /\ kpEntries[e].queue # <<>>
    /\ LET v == Head(kpEntries[e].queue)
           rest == Tail(kpEntries[e].queue)
       IN /\ kpEntries' = [kpEntries EXCEPT
                ![e].at = "handle", ![e].item = v,
                ![e].queue = IF Latest THEN @ ELSE rest,
                ![e].signal = @ \/ (~Latest /\ rest # <<>>)]
          /\ kpFate' = [kpFate EXCEPT ![v] = IF @ = "discarded" THEN @ ELSE "handling"]
    /\ UNCHANGED <<kpKind, kpStage, kpMap, kpSenders, kpRemoves>>

(* The handler returns, with or without an error or a recovered panic. *)
Handled(e) ==
    /\ kpEntries[e].at = "handle"
    /\ kpEntries' = [kpEntries EXCEPT
          ![e].at = IF kpEntries[e].flushing THEN "flush" ELSE "select", ![e].item = 0]
    /\ kpFate' = [kpFate EXCEPT ![kpEntries[e].item] =
                    IF @ = "handling" THEN "handled" ELSE @]
    /\ UNCHANGED <<kpKind, kpStage, kpMap, kpSenders, kpRemoves>>

(***************************************************************************)
(* The worker's idle timer fires: the status writer first flushes what is  *)
(* signalled, the plan worker returns at once.  A cancelled context ends   *)
(* either worker at its select.                                            *)
(***************************************************************************)
Idle(e) ==
    /\ kpEntries[e].at = "select"
    /\ kpEntries' = [kpEntries EXCEPT ![e].at = IF AutoRemove THEN "flush" ELSE "exit"]
    /\ UNCHANGED <<kpKind, kpStage, kpMap, kpSenders, kpFate, kpRemoves>>

Return(e) ==
    /\ \/ kpEntries[e].at = "select" /\ kpEntries[e].cancelled
       \/ kpEntries[e].at = "flush" /\ ~kpEntries[e].signal
    /\ kpEntries' = [kpEntries EXCEPT ![e].at = "exit", ![e].flushing = FALSE]
    /\ UNCHANGED <<kpKind, kpStage, kpMap, kpSenders, kpFate, kpRemoves>>

(* Slip: values that arrived during the exit start no new goroutine. *)
RestartNever(e) == FALSE

Restart(e) == SlotLen(kpEntries[e]) > 0 /\ kpStage = "registered"

(* The deferred half of runEntry, under the lock of the entry. *)
RunEntryDefer(e) ==
    /\ kpEntries[e].at = "exit"
    /\ kpEntries' = [kpEntries EXCEPT
          ![e].at = IF Restart(e) THEN "select" ELSE "none",
          ![e].cancelled = FALSE,
          ![e].revived = @ \/ (Restart(e) /\ kpEntries[e].cancelled),
          ![e].reapers =
             IF SlotLen(kpEntries[e]) = 0 /\ AutoRemove /\ ~kpEntries[e].cancelled
             THEN @ + 1 ELSE @]
    /\ UNCHANGED <<kpKind, kpStage, kpMap, kpSenders, kpFate, kpRemoves>>

(***************************************************************************)
(* Auto-removal under both locks.  It deletes the key, whichever entry the *)
(* map holds for it by then.                                               *)
(***************************************************************************)
Reap(e) ==
    /\ kpEntries[e].reapers > 0
    /\ kpEntries' = [kpEntries EXCEPT ![e].reapers = @ - 1]
    /\ kpMap' = IF kpEntries[e].at = "none" /\ SlotLen(kpEntries[e]) = 0 THEN 0 ELSE kpMap
    /\ UNCHANGED <<kpKind, kpStage, kpSenders, kpFate, kpRemoves>>

Sending == \E s \in Senders : Push(s) \/ Signal(s) \/ Ensure(s) \/ Cancel(s) \/ Drain(s)
Working == \E e \in Ids : Recv(e) \/ Handled(e) \/ Return(e) \/ RunEntryDefer(e)

KPNext ==
    \/ \E s \in Senders : Deliver(s) \/ Remove(s)
    \/ Sending
    \/ Working
    \/ \E e \in Ids : Take(e) \/ Idle(e) \/ Reap(e)
    \/ Register
    \/ Stop

(***************************************************************************)
(* Fairness: a goroutine that can run does, and the manager calls Start.   *)
(* Idle timers and further deliveries may or may not happen.  A select     *)
(* with several ready cases picks one at random, and the idle timer of a   *)
(* fresh goroutine has its whole TTL to go: a pending signal is not passed *)
(* over for ever, which is strong fairness of Take.                        *)
(***************************************************************************)
KPFairness ==
    /\ WF_kpVars(Sending \/ Register)
    /\ WF_kpVars(Working)
    /\ SF_kpVars(\E e \in Ids : Take(e))

KPSpec == KPInit /\ [][KPNext]_kpVars /\ KPFairness

(***************************************************************************)
(* pool.go:16 "If pending items remain when a goroutine exits, a new one   *)
(* is re-spawned immediately to drain them": a value a slot accepted is    *)
(* handled, unless a newer one replaced it, its plan was removed or the    *)
(* pool stopped, whatever Register, Deliver, idle exits, removals of the   *)
(* entry and spurious signals do in between.                               *)
(***************************************************************************)
NothingStranded ==
    []<>(kpStage = "stopped" \/ \A i \in 1..Len(kpFate) : kpFate[i] # "queued")

\* A call of Remove is under way for the entry.
BeingRemoved(e) ==
    \E s \in Senders : kpSenders[s].at \in {"cancel", "drain"} /\ kpSenders[s].entry = e

(***************************************************************************)
(* Two goroutines of one plan never handle at the same time, but for what  *)
(* a removal leaves behind when the plan is created again: a goroutine     *)
(* that is finishing after Remove cancelled it, or one that runEntry       *)
(* started again between the cancellation and Drain.  And what is left     *)
(* behind takes no value any more once Remove has returned.                *)
(***************************************************************************)
OnePlanWorker ==
    kpKind = "plans" =>
        /\ Cardinality({e \in Ids : /\ kpEntries[e].at # "none"
                                    /\ ~kpEntries[e].cancelled
                                    /\ ~kpEntries[e].revived}) <= 1
        /\ \A e \in Ids : e # kpMap /\ ~BeingRemoved(e) => ~kpEntries[e].signal
=============================================================================
