------------------------ MODULE NotificationDispatch ------------------------
(***************************************************************************)
(* Notifications of one plan to one Slack sink in thread mode: the hooks   *)
(* that submit requests (state_notify.go), the dispatcher with its stream  *)
(* workers and its cache of sink states (dispatcher.go, pkg/cache), the    *)
(* delivery to a thread (slack/delivery.go) and the record of it in the    *)
(* notification's status (lifecycle.go HandleDeliveryResult).  A stream is *)
(* one operation of one cycle; an operation's requests are submitted       *)
(* before those of the next one, while deliveries may lag, by no more      *)
(* operations than entries are kept for.  An operation takes minutes: a    *)
(* worker at rest has long taken its request when the next one begins, and *)
(* a request that waits longer has another delivery before it.             *)
(***************************************************************************)
EXTENDS Integers, Sequences, FiniteSets

CONSTANTS NdStreams,   \* number of operations the plan goes through
          NdEvents,    \* the events the notification subscribes to
          NdCapacity,  \* buffer of a stream (256)
          NdKept,      \* entries kept for a sink and plan (MaxSinkStatusCyclesPerPlan)
          NdMaxEvents, \* bound: requests
          NdMaxFaults, \* bound: calls that fail
          NdMaxExits   \* bound: ends of the process

ASSUME NdAssumption == NdStreams \in Nat \ {0} /\ NdKept \in Nat \ {0}

VARIABLES ndCurrent, \* the operation the plan is in
          ndSent,    \* requests submitted so far
          ndSlot,    \* the queued requests of each stream
          ndWork,    \* what the worker of each stream is doing
          ndCache,   \* the dispatcher's cache of sink states
          ndWrites,  \* queued status updates of the notification
          ndStored,  \* sink states in the notification's status
          ndOrder,   \* streams with an entry there, the latest delivery last
          ndRoots,   \* Slack: root messages of each stream
          ndEmoji,   \* Slack: reactions on the latest root of each stream
          ndMark,    \* the last terminal event replied under that root
          ndStarts,  \* Start requests that created a root
          ndLost,    \* streams that lost the memory of their thread
          ndUnmarked, \* streams with a reaction call that failed
          ndFaults, ndExits

ndVars == <<ndCurrent, ndSent, ndSlot, ndWork, ndCache, ndWrites, ndStored, ndOrder,
            ndRoots, ndEmoji, ndMark, ndStarts, ndLost, ndUnmarked, ndFaults, ndExits>>

Streams == 1..NdStreams
Terminal == {"Success", "Failure"}

\* reactionForEvent.
ReactionForEvent(e) ==
    CASE e = "Failure" -> "x"
      [] e = "Success" -> "check"
      [] e \in {"Start", "ExecutionProgress", "Recovery"} -> "loading"
      [] OTHER -> ""

IsTerminalReaction(r) == r \in {"check", "x"}

\* A sink state: the root of the thread and the reaction last put on it.
NoThread == [root |-> 0, reaction |-> ""]
Resting == [pc |-> "idle"]

NdIdle(k) == ndWork[k] = Resting /\ ndSlot[k] = <<>>
Call(fails) == IF fails THEN ndFaults < NdMaxFaults /\ ndFaults' = ndFaults + 1
               ELSE UNCHANGED ndFaults
Slack == <<ndRoots, ndEmoji, ndMark, ndStarts>>
Status == <<ndStored, ndOrder>>

-----------------------------------------------------------------------------
(* The plan's status writer runs a hook: the request is queued or, when the *)
(* stream's buffer is full, dropped.                                        *)
Submit(e) ==
    LET k == ndCurrent IN
    /\ ndSent < NdMaxEvents
    /\ ndSent' = ndSent + 1
    /\ ndSlot' = IF Len(ndSlot[k]) < NdCapacity
                 THEN [ndSlot EXCEPT ![k] = Append(@, e)] ELSE ndSlot
    /\ UNCHANGED <<ndCurrent, ndWork, ndCache, ndWrites, Status, Slack,
                   ndLost, ndUnmarked, ndFaults, ndExits>>

NdSettled(k) == NdIdle(k) /\ \A i \in 1..Len(ndWrites) : ndWrites[i].stream # k

NextOperation ==
    /\ ndCurrent < NdStreams
    /\ \A k \in 1..(ndCurrent + 1 - NdKept) : NdSettled(k)
    /\ ndWork[ndCurrent] = Resting => ndSlot[ndCurrent] = <<>>
    /\ ndCurrent' = ndCurrent + 1
    /\ UNCHANGED <<ndSent, ndSlot, ndWork, ndCache, ndWrites, Status, Slack,
                   ndLost, ndUnmarked, ndFaults, ndExits>>

\* Slip: the state is read from the status, which is written later.
ResolveStored(k) == ndStored[k]

\* resolveSinkState: the cached state, else the one in the notification's status.
ResolveSinkState(k) == IF ndCache[k] # NoThread THEN ndCache[k] ELSE ndStored[k]

(***************************************************************************)
(* The stream's worker takes a request.  Without the sink's secret it is   *)
(* dropped; a state that cannot be read counts as none.  What was read     *)
(* from the status is cached.                                              *)
(***************************************************************************)
TakeRequest(k) ==
    /\ ndWork[k] = Resting
    /\ ndSlot[k] # <<>>
    /\ ndSlot' = [ndSlot EXCEPT ![k] = Tail(@)]
    /\ \/ /\ Call(TRUE)
          /\ UNCHANGED <<ndWork, ndCache, ndLost>>
       \/ \E unread \in BOOLEAN :
            /\ unread => ndCache[k] = NoThread
            /\ Call(unread)
            /\ LET st == IF unread THEN NoThread ELSE ResolveSinkState(k) IN
               /\ ndWork' = [ndWork EXCEPT ![k] =
                     [pc |-> "root", ev |-> Head(ndSlot[k]), st |-> st, root |-> 0, created |-> FALSE]]
               /\ ndCache' = IF unread THEN ndCache ELSE [ndCache EXCEPT ![k] = st]
            /\ ndLost' = IF unread THEN ndLost \cup {k} ELSE ndLost
    /\ UNCHANGED <<ndCurrent, ndSent, ndWrites, Status, Slack, ndUnmarked, ndExits>>

\* mergeStates: what a delivery does not report is kept.
MergeStates(st, root, reaction) ==
    [root |-> IF root # 0 THEN root ELSE st.root,
     reaction |-> IF reaction # "" THEN reaction ELSE st.reaction]

(* reportDelivery: the cache at once, the status later. *)
ReportDelivery(k, st) ==
    /\ ndCache' = IF st # NoThread THEN [ndCache EXCEPT ![k] = st] ELSE ndCache
    /\ ndWrites' = Append(ndWrites, [stream |-> k, st |-> st])
    /\ ndWork' = [ndWork EXCEPT ![k] = Resting]

\* Slip: a terminal mark gives way to any later event.
PreserveNothing(reaction, e) == FALSE

\* shouldPreserveTerminalRoot.
ShouldPreserveTerminalRoot(reaction, e) == IsTerminalReaction(reaction) /\ e \notin Terminal

(* syncThreadRoot: an existing root is updated in place, which changes no state; *)
(* Start, or a stream without a root, posts a new one.                          *)
SyncThreadRoot(k) ==
    LET w == ndWork[k] root == IF w.ev = "Start" THEN 0 ELSE w.st.root IN
    /\ w.pc = "root"
    /\ \/ /\ root # 0
          /\ ndWork' = [ndWork EXCEPT ![k] = [@ EXCEPT !.pc = "reply", !.root = root]]
          /\ UNCHANGED <<ndCache, ndWrites, Slack, ndFaults>>
       \/ /\ root = 0
          /\ Call(FALSE)
          /\ ndRoots' = [ndRoots EXCEPT ![k] = @ + 1]
          /\ ndEmoji' = [ndEmoji EXCEPT ![k] = {}]
          /\ ndMark' = [ndMark EXCEPT ![k] = ""]
          /\ ndStarts' = [ndStarts EXCEPT ![k] = @ + (IF w.ev = "Start" THEN 1 ELSE 0)]
          /\ ndWork' = [ndWork EXCEPT ![k] = [@ EXCEPT !.pc = "reply", !.root = ndRoots[k] + 1,
                                                       !.created = TRUE]]
          /\ UNCHANGED <<ndCache, ndWrites>>
       \/ /\ root = 0
          /\ Call(TRUE)
          /\ ReportDelivery(k, w.st)
          /\ UNCHANGED Slack
    /\ UNCHANGED <<ndCurrent, ndSent, ndSlot, Status, ndLost, ndUnmarked, ndExits>>

(* sendThreadReply: when it fails, the delivery reports no state, not even of a *)
(* root that was just created.                                                 *)
SendThreadReply(k) ==
    LET w == ndWork[k] IN
    /\ w.pc = "reply"
    /\ \/ /\ Call(FALSE)
          /\ ndWork' = [ndWork EXCEPT ![k] = [@ EXCEPT !.pc = "react"]]
          /\ ndMark' = IF w.ev \in Terminal
                       THEN [ndMark EXCEPT ![k] = ReactionForEvent(w.ev)] ELSE ndMark
          /\ UNCHANGED <<ndCache, ndWrites, ndLost>>
       \/ /\ Call(TRUE)
          /\ ReportDelivery(k, w.st)
          /\ ndLost' = IF w.created THEN ndLost \cup {k} ELSE ndLost
          /\ UNCHANGED ndMark
    /\ UNCHANGED <<ndCurrent, ndSent, ndSlot, Status, ndRoots, ndEmoji, ndStarts,
                   ndUnmarked, ndExits>>

\* shouldBumpReaction, or a root just created.
ShouldBump(w) ==
    /\ ReactionForEvent(w.ev) # ""
    /\ w.created \/ w.ev = "Start" \/ w.st.reaction # ReactionForEvent(w.ev)

(* overrideRootThreadReaction, and the end of the delivery: the previous reaction *)
(* goes, the new one comes; either call may fail, and the recorded one stays.      *)
SyncThreadRootReaction(k) ==
    LET w    == ndWork[k]
        prev == IF w.ev = "Start" \/ w.created THEN "" ELSE w.st.reaction
        next == ReactionForEvent(w.ev)
        keep == ~w.created /\ ShouldPreserveTerminalRoot(w.st.reaction, w.ev)
    IN /\ w.pc = "react"
       /\ IF keep \/ ~ShouldBump(w)
          THEN /\ ReportDelivery(k, MergeStates(w.st, w.root, w.st.reaction))
               /\ UNCHANGED <<ndEmoji, ndUnmarked, ndFaults>>
          ELSE \/ /\ Call(FALSE)
                  /\ ndEmoji' = [ndEmoji EXCEPT ![k] = (@ \ {prev}) \cup {next}]
                  /\ ReportDelivery(k, MergeStates(w.st, w.root, next))
                  /\ UNCHANGED ndUnmarked
               \/ /\ Call(TRUE)
                  /\ \E gone \in {{}, {prev}} : ndEmoji' = [ndEmoji EXCEPT ![k] = @ \ gone]
                  /\ ReportDelivery(k, MergeStates(w.st, w.root, w.st.reaction))
                  /\ ndUnmarked' = ndUnmarked \cup {k}
       /\ UNCHANGED <<ndCurrent, ndSent, ndSlot, Status, ndRoots, ndMark, ndStarts,
                      ndLost, ndExits>>

\* The entries of the status without the one that is upserted.
OtherEntries(s, k) ==
    IF \E i \in 1..Len(s) : s[i] = k
    THEN LET p == CHOOSE i \in 1..Len(s) : s[i] = k
         IN [i \in 1..(Len(s) - 1) |-> IF i < p THEN s[i] ELSE s[i + 1]]
    ELSE s

(* The status writer applies the oldest delivery result and prunes: only the entries *)
(* of the latest deliveries stay.  A write that fails is dropped.                    *)
ApplyResult ==
    /\ ndWrites # <<>>
    /\ ndWrites' = Tail(ndWrites)
    /\ LET k     == Head(ndWrites).stream
           order == Append(OtherEntries(ndOrder, k), k)
           kept  == IF Len(order) > NdKept THEN Tail(order) ELSE order
       IN \/ /\ Call(FALSE)
             /\ ndOrder' = kept
             /\ ndStored' = [j \in Streams |->
                   IF j = k THEN Head(ndWrites).st
                   ELSE IF \E i \in 1..Len(kept) : kept[i] = j THEN ndStored[j] ELSE NoThread]
             /\ UNCHANGED ndLost
          \/ /\ Call(TRUE)
             /\ ndLost' = ndLost \cup {k}
             /\ UNCHANGED Status
    /\ UNCHANGED <<ndCurrent, ndSent, ndSlot, ndWork, ndCache, Slack, ndUnmarked, ndExits>>

(* A cached state expires ten minutes after its last use: long after a status write, *)
(* which takes seconds, and not while the stream has requests.                       *)
ExpireState(k) ==
    /\ ndCache[k] # NoThread
    /\ NdSettled(k)
    /\ ndCache' = [ndCache EXCEPT ![k] = NoThread]
    /\ UNCHANGED <<ndCurrent, ndSent, ndSlot, ndWork, ndWrites, Status, Slack,
                   ndLost, ndUnmarked, ndFaults, ndExits>>

(* The process ends: by a crash, or after it drained the streams for as long as it may. *)
(* Requests, cache and queued writes are gone.                                          *)
Exit ==
    /\ ndExits < NdMaxExits
    /\ ndExits' = ndExits + 1
    /\ ndSlot' = [k \in Streams |-> <<>>]
    /\ ndWork' = [k \in Streams |-> Resting]
    /\ ndCache' = [k \in Streams |-> NoThread]
    /\ ndWrites' = <<>>
    /\ ndLost' = ndLost \cup {ndWrites[i].stream : i \in 1..Len(ndWrites)}
                        \cup {k \in Streams : ndWork[k] # Resting /\ ndWork[k].created}
    /\ ndUnmarked' = ndUnmarked \cup {k \in Streams : ndWork[k] # Resting}
    /\ UNCHANGED <<ndCurrent, ndSent, Status, Slack, ndFaults>>

-----------------------------------------------------------------------------
NDInit ==
    /\ ndCurrent = 1 /\ ndSent = 0 /\ ndFaults = 0 /\ ndExits = 0
    /\ ndSlot = [k \in Streams |-> <<>>]
    /\ ndWork = [k \in Streams |-> Resting]
    /\ ndCache = [k \in Streams |-> NoThread]
    /\ ndStored = [k \in Streams |-> NoThread]
    /\ ndWrites = <<>> /\ ndOrder = <<>>
    /\ ndRoots = [k \in Streams |-> 0]
    /\ ndEmoji = [k \in Streams |-> {}]
    /\ ndMark = [k \in Streams |-> ""]
    /\ ndStarts = [k \in Streams |-> 0]
    /\ ndLost = {} /\ ndUnmarked = {}

NDNext ==
    \/ \E e \in NdEvents : Submit(e)
    \/ NextOperation
    \/ \E k \in Streams : \/ TakeRequest(k)
                          \/ SyncThreadRoot(k)
                          \/ SendThreadReply(k)
                          \/ SyncThreadRootReaction(k)
                          \/ ExpireState(k)
    \/ ApplyResult
    \/ Exit

NDSpec == NDInit /\ [][NDNext]_ndVars

-----------------------------------------------------------------------------
(***************************************************************************)
(* dispatcher.go reportDelivery "preventing duplicate root messages in     *)
(* Slack thread mode": a stream has one root message, and one more for     *)
(* each Start, however late its states are written, whenever they expire   *)
(* from the cache, are pruned from the status or the process restarts.     *)
(* Only a stream that lost the memory of its thread may start another: a   *)
(* reply that failed right after the root was posted, states that could    *)
(* not be read or written, a process that ended before they were written.  *)
(***************************************************************************)
OneThreadPerStart ==
    \A k \in Streams \ ndLost : ndRoots[k] <= ndStarts[k] + 1

(***************************************************************************)
(* slack/delivery.go shouldPreserveTerminalRoot: once the outcome of an    *)
(* operation is reported in its thread, the root shows exactly the mark of *)
(* the last outcome, whatever progress, recovery and phase changes arrive  *)
(* after it and through restarts, as long as no reaction call failed.      *)
(***************************************************************************)
OutcomeStaysMarked ==
    \A k \in Streams \ (ndLost \cup ndUnmarked) :
        (ndWork[k] = Resting /\ ndMark[k] # "") => ndEmoji[k] = {ndMark[k]}
=============================================================================
