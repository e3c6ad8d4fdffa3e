--------------------------- MODULE KeyedPoolProofs ---------------------------
(***************************************************************************)
(* Why a plan never has two workers: for every number of callers, values,  *)
(* entries and removals.                                                   *)
(*                                                                         *)
(* OnePlanWorker counts goroutines and says nothing about the map, so it   *)
(* is not inductive.  What keeps a second goroutine away is that nobody    *)
(* holds a reference to an entry that has left the map, since the caller   *)
(* of Deliver is the caller of Remove, and that such an entry has no       *)
(* signal left once Remove has drained it.  Between Remove's critical      *)
(* sections its goroutine runs on: until the cancellation it is the only   *)
(* one, after it runEntry may have revived it, as the history says.        *)
(***************************************************************************)
EXTENDS KeyedPool, FiniteSetTheorems, SequenceTheorems, TLAPS

EntryType == [queue : Seq(Nat), signal : BOOLEAN,
              at : {"none", "select", "recv", "handle", "flush", "exit"}, item : Nat,
              flushing : BOOLEAN, cancelled : BOOLEAN, reapers : Nat,
              revived : BOOLEAN]

Delivering == {"push", "signal", "ensure"}
Removing == {"cancel", "drain"}
SenderType == [at : {"idle"} \cup Delivering \cup Removing, entry : Nat, value : Nat]

Fates == {"sending", "queued", "superseded", "dropped", "discarded", "handling", "handled"}

PoolType ==
    /\ kpMap \in 0..Len(kpEntries)
    /\ kpEntries \in Seq(EntryType)
    /\ kpSenders \in [Senders -> SenderType]
    /\ kpFate \in Seq(Fates)
    /\ kpKind \in {"plans", "writers"}

\* The goroutine of the entry, if there is one, has been told to end, or started
\* again in spite of it.
Told(x) == x.at = "none" \/ x.cancelled \/ x.revived

\* A caller of Deliver or Remove works on an entry that was created.
CallersOK == \A s \in Senders : kpSenders[s].at # "idle" => kpSenders[s].entry \in Ids

\* An entry of a plan other than the one in the map has no signal and its goroutine
\* has been told, unless Remove is still at it; a caller of Deliver works on the
\* entry in the map, and a caller of Remove has the pool's callers to itself.
PlanEntries ==
    kpKind = "plans" =>
      /\ \A e \in Ids : e # kpMap /\ ~BeingRemoved(e) =>
            ~kpEntries[e].signal /\ Told(kpEntries[e])
      /\ \A e \in Ids : kpEntries[e].reapers = 0
      /\ \A s \in Senders : kpSenders[s].at \in Delivering =>
            kpSenders[s].entry = kpMap /\ kpMap # 0
      /\ \A s \in Senders : kpSenders[s].at \in Removing =>
            /\ kpMap = 0
            /\ \A t \in Senders : t # s => kpSenders[t].at = "idle"
            /\ kpSenders[s].at = "drain" => Told(kpEntries[kpSenders[s].entry])

PoolInv == PoolType /\ CallersOK /\ PlanEntries
-----------------------------------------------------------------------------
(* Types *)

\* A step that changes one entry leaves the others and their number alone.
LEMMA UpdateEntry ==
  ASSUME PoolType, NEW e \in Ids, NEW x \in EntryType,
         kpEntries' = [kpEntries EXCEPT ![e] = x]
  PROVE  /\ kpEntries' \in Seq(EntryType) /\ Len(kpEntries') = Len(kpEntries)
         /\ Ids' = Ids /\ kpEntries'[e] = x
         /\ \A i \in Ids : i # e => kpEntries'[i] = kpEntries[i]
  BY DEF PoolType, Ids

\* A step that rewrites all entries, keeping their number.
LEMMA MapEntries ==
  ASSUME PoolType, NEW f, f \in [Ids -> EntryType], kpEntries' = f
  PROVE  kpEntries' \in Seq(EntryType) /\ Len(kpEntries') = Len(kpEntries) /\ Ids' = Ids
  BY DEF PoolType, Ids

\* An entry of the pool is an entry.
LEMMA EntryHas ==
  ASSUME PoolType, NEW e \in Ids
  PROVE  kpEntries[e] \in EntryType
  BY DEF PoolType, Ids

\* Rewriting the fates keeps their number.
LEMMA MapFates ==
  ASSUME PoolType, NEW f \in [1..Len(kpFate) -> Fates]
  PROVE  f \in Seq(Fates)
  BY DEF PoolType

\* A value whose fate is decided.
LEMMA UpdateFate ==
  ASSUME PoolType, NEW v, NEW x \in Fates
  PROVE  [kpFate EXCEPT ![v] = x] \in Seq(Fates)
<1>1. kpFate \in [1..Len(kpFate) -> Fates] /\ Len(kpFate) \in Nat
  BY DEF PoolType
<1>2. [kpFate EXCEPT ![v] = x] \in [1..Len(kpFate) -> Fates]
  BY <1>1
<1> QED
  BY <1>2, MapFates

-----------------------------------------------------------------------------
(* Steps that change one entry *)

\* A step on one entry keeps the invariant when it neither takes the entry back
\* that the pool has let go of nor moves a caller to another entry.
LEMMA OneEntry ==
  ASSUME PoolInv, NEW e \in Ids, NEW x \in EntryType,
         kpEntries' = [kpEntries EXCEPT ![e] = x], UNCHANGED <<kpKind, kpMap>>,
         kpFate' \in Seq(Fates), kpSenders' \in [Senders -> SenderType],
         \A s \in Senders :
            \/ kpSenders'[s] = kpSenders[s]
            \/ /\ kpSenders[s].at \in Delivering
               /\ \/ kpSenders'[s].at = "idle"
                  \/ kpSenders'[s].at \in Delivering /\ kpSenders'[s].entry = kpSenders[s].entry,
         kpKind = "plans" =>
           /\ x.reapers = 0
           /\ e # kpMap => (x.signal => kpEntries[e].signal) /\ (Told(kpEntries[e]) => Told(x))
  PROVE  PoolInv'
<1>1. /\ kpEntries' \in Seq(EntryType) /\ Len(kpEntries') = Len(kpEntries)
      /\ Ids' = Ids /\ kpEntries'[e] = x
      /\ \A i \in Ids : i # e => kpEntries'[i] = kpEntries[i]
  BY UpdateEntry DEF PoolInv
<1>2. PoolType'
  BY <1>1 DEF PoolInv, PoolType
<1>3. PlanEntries'
  <2> SUFFICES ASSUME kpKind = "plans" PROVE PlanEntries'
    BY DEF PlanEntries
  <2>1. \A i \in Ids : BeingRemoved(i)' = BeingRemoved(i)
    BY DEF BeingRemoved, Delivering
  <2>2. \A i \in Ids : i # kpMap /\ ~BeingRemoved(i) =>
            ~kpEntries'[i].signal /\ Told(kpEntries'[i])
    BY <1>1 DEF PoolInv, PlanEntries, Told
  <2>3. \A i \in Ids : kpEntries'[i].reapers = 0
    BY <1>1 DEF PoolInv, PlanEntries
  <2>4. ASSUME NEW s \in Senders, kpSenders'[s].at \in Delivering
        PROVE  kpSenders'[s].entry = kpMap /\ kpMap # 0
    BY <2>4 DEF PoolInv, PlanEntries, Delivering
  <2>5. ASSUME NEW s \in Senders, kpSenders'[s].at \in Removing
        PROVE  /\ kpMap = 0
               /\ \A t \in Senders : t # s => kpSenders'[t].at = "idle"
               /\ kpSenders'[s].at = "drain" => Told(kpEntries'[kpSenders'[s].entry])
    <3>1. kpSenders'[s] = kpSenders[s]
      BY <2>5 DEF Removing, Delivering
    <3>2. /\ kpMap = 0 /\ \A t \in Senders : t # s => kpSenders[t].at = "idle"
          /\ kpSenders[s].at = "drain" => Told(kpEntries[kpSenders[s].entry])
          /\ kpSenders[s].entry \in Ids
      BY <2>5, <3>1 DEF PoolInv, PlanEntries, CallersOK, Removing
    <3>3. \A t \in Senders : t # s => kpSenders'[t].at = "idle"
      BY <3>2 DEF Delivering
    <3> QED
      BY <1>1, <3>1, <3>2, <3>3, 0 \notin Ids DEF Ids
  <2> QED
    BY <1>1, <2>1, <2>2, <2>3, <2>4, <2>5 DEF PlanEntries
<1>4. CallersOK'
  BY <1>1 DEF PoolInv, CallersOK, Delivering
<1> QED
  BY <1>2, <1>3, <1>4 DEF PoolInv

\* The steps of the goroutine of an entry.
LEMMA WorkerInv ==
  ASSUME PoolInv, NEW e \in Ids,
         Take(e) \/ Recv(e) \/ Handled(e) \/ Idle(e) \/ Return(e) \/ RunEntryDefer(e)
  PROVE  PoolInv'
<1>0. /\ kpEntries[e] \in EntryType /\ PoolType /\ kpKind \in {"plans", "writers"}
      /\ kpFate \in Seq(Fates) /\ kpSenders \in [Senders -> SenderType]
  BY EntryHas DEF PoolInv, PoolType
<1>a. kpKind = "plans" => kpEntries[e].reapers = 0
  BY DEF PoolInv, PlanEntries
<1>1. CASE Take(e)
  <2> DEFINE x == [kpEntries[e] EXCEPT !.signal = FALSE,
                     !.flushing = (kpEntries[e].at = "flush"), !.at = "recv"]
  <2>1. (kpEntries[e].at = "flush") \in BOOLEAN /\ FALSE \in BOOLEAN
    BY Zenon
  <2>2. x \in EntryType
    BY <1>0, <2>1 DEF EntryType
  <2>3. x.reapers = kpEntries[e].reapers /\ ~x.signal /\ (Told(kpEntries[e]) => Told(x))
    BY <1>0, <1>1 DEF EntryType, Take, Told
  <2>4. kpEntries' = [kpEntries EXCEPT ![e] = x] /\ UNCHANGED <<kpKind, kpMap, kpSenders, kpFate>>
    BY <1>1, <1>0 DEF Take, PoolType, EntryType
  <2> HIDE DEF x
  <2> QED
    BY <1>0, <1>a, <2>2, <2>3, <2>4, OneEntry
<1>2. CASE Recv(e)
  <2> DEFINE v == Head(kpEntries[e].queue)
  <2> DEFINE sg == kpEntries[e].signal \/ (~Latest /\ Tail(kpEntries[e].queue) # <<>>)
  <2> DEFINE q == IF Latest THEN kpEntries[e].queue ELSE Tail(kpEntries[e].queue)
  <2> DEFINE x == [kpEntries[e] EXCEPT !.at = "handle", !.item = v, !.queue = q, !.signal = sg]
  <2>1. v \in Nat /\ q \in Seq(Nat)
    <3>1. kpEntries[e].queue \in Seq(Nat) /\ kpEntries[e].queue # <<>>
      BY <1>0, <1>2 DEF Recv, EntryType
    <3> QED
      BY <3>1, HeadTailProperties
  <2>2. sg \in BOOLEAN
    BY Zenon
  <2>3. kpKind = "plans" => (sg => kpEntries[e].signal)
    BY DEF Latest
  <2>4. /\ kpEntries' = [kpEntries EXCEPT ![e] = x] /\ UNCHANGED <<kpKind, kpMap, kpSenders>>
        /\ kpFate' = [kpFate EXCEPT ![v] = IF @ = "discarded" THEN @ ELSE "handling"]
    BY <1>0, <1>2 DEF Recv, PoolType, EntryType
  <2> HIDE DEF v, q, sg
  <2>5. x \in EntryType /\ x.reapers = kpEntries[e].reapers /\ x.signal = sg
        /\ x.cancelled = kpEntries[e].cancelled /\ x.revived = kpEntries[e].revived
    BY <1>0, <2>1, <2>2 DEF EntryType
  <2>6. kpFate' \in Seq(Fates)
    <3>1. (IF kpFate[v] = "discarded" THEN kpFate[v] ELSE "handling") \in Fates
      BY DEF Fates
    <3> QED
      BY <1>0, <2>4, <3>1, UpdateFate
  <2>7. kpKind = "plans" => (x.signal => kpEntries[e].signal) /\ (Told(kpEntries[e]) => Told(x))
    BY <1>2, <2>3, <2>5 DEF Told, Recv
  <2> HIDE DEF x
  <2> QED
    BY <1>0, <1>a, <2>4, <2>5, <2>6, <2>7, OneEntry
<1>3. CASE Handled(e)
  <2> DEFINE a == IF kpEntries[e].flushing THEN "flush" ELSE "select"
  <2> DEFINE x == [kpEntries[e] EXCEPT !.at = a, !.item = 0]
  <2> DEFINE v == kpEntries[e].item
  <2>1. /\ kpEntries' = [kpEntries EXCEPT ![e] = x] /\ UNCHANGED <<kpKind, kpMap, kpSenders>>
        /\ kpFate' = [kpFate EXCEPT ![v] = IF @ = "handling" THEN "handled" ELSE @]
    BY <1>3 DEF Handled
  <2>2. x \in EntryType /\ x.reapers = kpEntries[e].reapers /\ x.signal = kpEntries[e].signal
        /\ x.cancelled = kpEntries[e].cancelled /\ x.revived = kpEntries[e].revived
    BY <1>0 DEF EntryType
  <2>3. kpFate' \in Seq(Fates)
    <3>1. CASE v \in 1..Len(kpFate)
      <4>1. kpFate[v] \in Fates
        BY <1>0, <3>1
      <4>2. (IF kpFate[v] = "handling" THEN "handled" ELSE kpFate[v]) \in Fates
        BY <4>1 DEF Fates
      <4> QED
        BY <1>0, <2>1, <4>2, UpdateFate
    <3>2. CASE v \notin 1..Len(kpFate)
      <4>1. kpFate \in [1..Len(kpFate) -> Fates]
        BY <1>0
      <4>2. kpFate' \in [1..Len(kpFate) -> Fates]
        BY <2>1, <3>2, <4>1
      <4> QED
        BY <1>0, <4>2, MapFates
    <3> QED
      BY <3>1, <3>2
  <2>4. Told(kpEntries[e]) => Told(x)
    BY <1>3, <2>2 DEF Told, Handled
  <2> HIDE DEF x
  <2> QED
    BY <1>0, <1>a, <2>1, <2>2, <2>3, <2>4, OneEntry
<1>4. CASE Idle(e)
  <2> DEFINE x == [kpEntries[e] EXCEPT !.at = IF AutoRemove THEN "flush" ELSE "exit"]
  <2>1. kpEntries' = [kpEntries EXCEPT ![e] = x] /\ UNCHANGED <<kpKind, kpMap, kpSenders, kpFate>>
    BY <1>4 DEF Idle
  <2>2. x \in EntryType /\ x.reapers = kpEntries[e].reapers /\ x.signal = kpEntries[e].signal
        /\ x.cancelled = kpEntries[e].cancelled /\ x.revived = kpEntries[e].revived
    BY <1>0 DEF EntryType
  <2>3. Told(kpEntries[e]) => Told(x)
    BY <1>4, <2>2 DEF Told, Idle
  <2> HIDE DEF x
  <2> QED
    BY <1>0, <1>a, <2>1, <2>2, <2>3, OneEntry
<1>5. CASE Return(e)
  <2> DEFINE x == [kpEntries[e] EXCEPT !.at = "exit", !.flushing = FALSE]
  <2>1. kpEntries' = [kpEntries EXCEPT ![e] = x] /\ UNCHANGED <<kpKind, kpMap, kpSenders, kpFate>>
    BY <1>5 DEF Return
  <2>2. FALSE \in BOOLEAN
    BY Zenon
  <2>3. x \in EntryType /\ x.reapers = kpEntries[e].reapers /\ x.signal = kpEntries[e].signal
        /\ x.cancelled = kpEntries[e].cancelled /\ x.revived = kpEntries[e].revived
    BY <1>0, <2>2 DEF EntryType
  <2>4. Told(kpEntries[e]) => Told(x)
    BY <1>5, <2>3 DEF Told, Return
  <2> HIDE DEF x
  <2> QED
    BY <1>0, <1>a, <2>1, <2>3, <2>4, OneEntry
<1>6. CASE RunEntryDefer(e)
  <2> DEFINE a == IF Restart(e) THEN "select" ELSE "none"
  <2> DEFINE v == kpEntries[e].revived \/ (Restart(e) /\ kpEntries[e].cancelled)
  <2> DEFINE r == IF SlotLen(kpEntries[e]) = 0 /\ AutoRemove /\ ~kpEntries[e].cancelled
                  THEN kpEntries[e].reapers + 1 ELSE kpEntries[e].reapers
  <2> DEFINE x == [kpEntries[e] EXCEPT !.at = a, !.cancelled = FALSE, !.revived = v,
                                       !.reapers = r]
  <2>1. kpEntries' = [kpEntries EXCEPT ![e] = x] /\ UNCHANGED <<kpKind, kpMap, kpSenders, kpFate>>
    BY <1>6 DEF RunEntryDefer
  <2>2. FALSE \in BOOLEAN /\ v \in BOOLEAN
    BY Zenon
  <2>3. r \in Nat /\ (kpKind = "plans" => r = 0)
    BY <1>0, <1>a DEF EntryType, AutoRemove
  <2>4. Told(kpEntries[e]) => a = "none" \/ v
    BY <1>6 DEF RunEntryDefer, Told
  <2>5. a \in {"select", "none"}
    OBVIOUS
  <2> HIDE DEF a, r, v
  <2>6. /\ x \in EntryType /\ x.reapers = r /\ x.signal = kpEntries[e].signal
        /\ x.at = a /\ x.revived = v
    BY <1>0, <2>2, <2>3, <2>5 DEF EntryType
  <2>7. Told(kpEntries[e]) => Told(x)
    BY <2>4, <2>6 DEF Told
  <2> HIDE DEF x
  <2> QED
    BY <1>0, <2>1, <2>3, <2>6, <2>7, OneEntry
<1> QED
  BY <1>1, <1>2, <1>3, <1>4, <1>5, <1>6

\* An exited goroutine's auto-removal; in the pool of plans there is none.
LEMMA ReapInv == ASSUME PoolInv, NEW e \in Ids, Reap(e) PROVE PoolInv'
<1> DEFINE x == [kpEntries[e] EXCEPT !.reapers = kpEntries[e].reapers - 1]
<1>1. kpEntries[e] \in EntryType /\ PoolType /\ kpEntries[e].reapers > 0
  BY EntryHas DEF PoolInv, Reap
<1>2. kpKind # "plans"
  BY <1>1 DEF PoolInv, PlanEntries
<1>3. x \in EntryType
  BY <1>1 DEF EntryType
<1>4. kpEntries' = [kpEntries EXCEPT ![e] = x] /\ kpMap' \in {0, kpMap}
      /\ UNCHANGED <<kpKind, kpSenders, kpFate>>
  BY DEF Reap
<1> HIDE DEF x
<1>5. kpEntries' \in Seq(EntryType) /\ Len(kpEntries') = Len(kpEntries) /\ Ids' = Ids
  BY <1>1, <1>3, <1>4, UpdateEntry
<1> QED
  BY <1>1, <1>2, <1>4, <1>5 DEF PoolInv, PoolType, PlanEntries, CallersOK

-----------------------------------------------------------------------------
(* The callers of Deliver and Remove *)

\* A caller of Deliver that has its entry.
LEMMA SendingInv ==
  ASSUME PoolInv, NEW s \in Senders, Push(s) \/ Signal(s) \/ Ensure(s)
  PROVE  PoolInv'
<1> DEFINE e == kpSenders[s].entry
<1> DEFINE v == kpSenders[s].value
<1>c. e \in Ids
  BY DEF PoolInv, CallersOK, Push, Signal, Ensure
<1>0. /\ kpEntries[e] \in EntryType /\ PoolType /\ kpKind \in {"plans", "writers"}
      /\ kpFate \in Seq(Fates) /\ kpSenders \in [Senders -> SenderType]
      /\ kpSenders[s] \in SenderType /\ v \in Nat
  BY <1>c, EntryHas DEF PoolInv, PoolType, SenderType
<1>a. kpSenders[s].at \in Delivering /\ (kpKind = "plans" => kpEntries[e].reapers = 0 /\ e = kpMap)
  BY <1>c DEF PoolInv, PlanEntries, Push, Signal, Ensure, Delivering
<1>b. ASSUME NEW a \in Delivering, kpSenders' = [kpSenders EXCEPT ![s].at = a]
      PROVE  /\ kpSenders' \in [Senders -> SenderType]
             /\ \A t \in Senders :
                  \/ kpSenders'[t] = kpSenders[t]
                  \/ /\ kpSenders[t].at \in Delivering
                     /\ \/ kpSenders'[t].at = "idle"
                        \/ /\ kpSenders'[t].at \in Delivering
                           /\ kpSenders'[t].entry = kpSenders[t].entry
  BY <1>0, <1>a, <1>b DEF SenderType, Delivering
<1>1. CASE Push(s) /\ kpKind = "plans"
  <2> DEFINE x == [kpEntries[e] EXCEPT !.queue = <<v>>]
  <2> DEFINE f == [i \in 1..Len(kpFate) |->
                    IF i = v THEN "queued"
                    ELSE IF kpFate[i] = "queued"
                              /\ \E j \in 1..Len(kpEntries[e].queue) :
                                    kpEntries[e].queue[j] = i
                         THEN "superseded" ELSE kpFate[i]]
  <2>1. /\ kpEntries' = [kpEntries EXCEPT ![e] = x] /\ UNCHANGED <<kpKind, kpMap>>
        /\ kpFate' = f /\ kpSenders' = [kpSenders EXCEPT ![s].at = "signal"]
    BY <1>1 DEF Push, PushLatest, Latest
  <2>2. x \in EntryType /\ x.reapers = kpEntries[e].reapers
    <3>1. <<v>> \in Seq(Nat)
      BY <1>0
    <3> QED
      BY <1>0, <3>1 DEF EntryType
  <2>3. f \in [1..Len(kpFate) -> Fates]
    BY <1>0 DEF Fates
  <2>4. kpFate' \in Seq(Fates)
    BY <1>0, <2>1, <2>3, MapFates
  <2> HIDE DEF x, f, e
  <2> QED
    BY <1>c, <1>0, <1>a, <1>b, <2>1, <2>2, <2>4, OneEntry DEF Delivering
<1>2. CASE Push(s) /\ kpKind # "plans"
  <2> DEFINE x == [kpEntries[e] EXCEPT !.queue = Append(kpEntries[e].queue, v)]
  <2>1. /\ UNCHANGED <<kpKind, kpMap>>
        /\ \/ /\ kpEntries' = [kpEntries EXCEPT ![e] = x]
              /\ kpFate' = [kpFate EXCEPT ![v] = "queued"]
              /\ kpSenders' = [kpSenders EXCEPT ![s].at = "signal"]
           \/ /\ kpEntries' = kpEntries
              /\ kpFate' = [kpFate EXCEPT ![v] = "dropped"]
              /\ kpSenders' = [kpSenders EXCEPT ![s].at = "ensure"]
    BY <1>2 DEF Push, PushFIFO, Latest
  <2>2. x \in EntryType
    <3>1. Append(kpEntries[e].queue, v) \in Seq(Nat)
      BY <1>0 DEF EntryType
    <3> QED
      BY <1>0, <3>1 DEF EntryType
  <2> HIDE DEF x
  <2>3. kpFate' \in Seq(Fates) /\ kpSenders' \in [Senders -> SenderType]
    <3>1. "queued" \in Fates /\ "dropped" \in Fates
      BY DEF Fates
    <3>2. /\ [kpFate EXCEPT ![v] = "queued"] \in Seq(Fates)
          /\ [kpFate EXCEPT ![v] = "dropped"] \in Seq(Fates)
      BY <1>0, <3>1, UpdateFate
    <3>3. kpSenders' \in [Senders -> SenderType]
      BY <1>b, <2>1 DEF Delivering
    <3> QED
      BY <2>1, <3>2, <3>3
  <2>4. kpEntries' \in Seq(EntryType) /\ Len(kpEntries') = Len(kpEntries)
    BY <1>c, <1>0, <2>1, <2>2, UpdateEntry DEF PoolType
  <2>5. \A t \in Senders : kpSenders'[t].at # "idle" =>
           kpSenders[t].at # "idle" /\ kpSenders'[t].entry = kpSenders[t].entry
    BY <1>b, <2>1 DEF Delivering
  <2> QED
    BY <1>0, <1>2, <2>1, <2>3, <2>4, <2>5 DEF PoolInv, PoolType, PlanEntries, CallersOK, Ids
<1>3. CASE Signal(s)
  <2> DEFINE x == [kpEntries[e] EXCEPT !.signal = TRUE]
  <2>1. /\ kpEntries' = [kpEntries EXCEPT ![e] = x] /\ UNCHANGED <<kpKind, kpMap, kpFate>>
        /\ kpSenders' = [kpSenders EXCEPT ![s].at = "ensure"]
    BY <1>3 DEF Signal
  <2>2. TRUE \in BOOLEAN
    BY Zenon
  <2>3. x \in EntryType /\ x.reapers = kpEntries[e].reapers
    BY <1>0, <2>2 DEF EntryType
  <2> HIDE DEF x, e
  <2> QED
    BY <1>c, <1>0, <1>a, <1>b, <2>1, <2>3, OneEntry DEF Delivering
<1>4. CASE Ensure(s)
  <2> DEFINE x == EnsureRunning(kpEntries[e])
  <2>1. /\ kpEntries' = [kpEntries EXCEPT ![e] = x] /\ UNCHANGED <<kpKind, kpMap, kpFate>>
        /\ kpSenders' = [kpSenders EXCEPT ![s] = Quiet]
    BY <1>4 DEF Ensure
  <2>2. FALSE \in BOOLEAN
    BY Zenon
  <2>3. x \in EntryType /\ x.reapers = kpEntries[e].reapers
    BY <1>0, <2>2 DEF EntryType, EnsureRunning
  <2>4. kpSenders' \in [Senders -> SenderType] /\ kpSenders'[s].at = "idle"
        /\ \A t \in Senders : t # s => kpSenders'[t] = kpSenders[t]
    BY <1>0, <2>1 DEF SenderType, Quiet
  <2> HIDE DEF x, e
  <2> QED
    BY <1>c, <1>0, <1>a, <2>1, <2>3, <2>4, OneEntry
<1> QED
  BY <1>1, <1>2, <1>3, <1>4

\* Deliver finds the entry in the map or creates one.
LEMMA DeliverInv == ASSUME PoolInv, NEW s \in Senders, Deliver(s) PROVE PoolInv'
<1>0. /\ PoolType /\ kpFate \in Seq(Fates) /\ kpEntries \in Seq(EntryType)
      /\ kpSenders \in [Senders -> SenderType] /\ kpMap \in 0..Len(kpEntries)
  BY DEF PoolInv, PoolType
<1>1. kpFate' \in Seq(Fates) /\ Len(kpFate') \in Nat
  <2>1. kpFate' = Append(kpFate, "sending") /\ "sending" \in Fates
    BY DEF Deliver, Fates
  <2> QED
    BY <1>0, <2>1
<1>2. kpSenders' = [kpSenders EXCEPT ![s] =
                      [at |-> "push", entry |-> kpMap', value |-> Len(kpFate')]]
      /\ UNCHANGED kpKind
  BY DEF Deliver
<1>3. CASE kpMap # 0 /\ UNCHANGED <<kpMap, kpEntries>>
  <2>1. kpSenders' \in [Senders -> SenderType]
    BY <1>0, <1>1, <1>2, <1>3 DEF SenderType, Delivering
  <2>2. PoolType'
    BY <1>0, <1>1, <1>2, <1>3, <2>1 DEF PoolType
  <2>3. \A t \in Senders : t # s => kpSenders'[t] = kpSenders[t]
    BY <1>0, <1>2
  <2>4. kpSenders'[s].entry = kpMap
    BY <1>0, <1>2, <1>3
  <2>5. kpSenders'[s].at = "push"
    BY <1>0, <1>2
  <2>6. CallersOK'
    BY <1>0, <1>3, <2>3, <2>4 DEF PoolInv, CallersOK, Ids
  <2>7. PlanEntries'
    <3> SUFFICES ASSUME kpKind = "plans" PROVE PlanEntries'
      BY <1>2 DEF PlanEntries
    <3>1. \A t \in Senders : kpSenders[t].at = "idle"
      BY DEF Deliver
    <3>2. \A e \in Ids : ~BeingRemoved(e) /\ ~BeingRemoved(e)'
      BY <2>3, <2>5, <3>1 DEF BeingRemoved
    <3>3. Ids' = Ids
      BY <1>3 DEF Ids
    <3> QED
      BY <1>3, <2>3, <2>4, <2>5, <3>1, <3>2, <3>3
      DEF PoolInv, PlanEntries, Delivering, Removing
  <2> QED
    BY <2>2, <2>6, <2>7 DEF PoolInv
<1>4. CASE kpMap = 0 /\ kpEntries' = Append(kpEntries, FreshEntry) /\ kpMap' = Len(kpEntries')
  <2>1. FreshEntry \in EntryType
    <3>1. FALSE \in BOOLEAN
      BY Zenon
    <3>2. <<>> \in Seq(Nat)
      OBVIOUS
    <3> QED
      BY <3>1, <3>2 DEF FreshEntry, EntryType
  <2>2. /\ kpEntries' \in Seq(EntryType) /\ Len(kpEntries') = Len(kpEntries) + 1
        /\ \A i \in Ids : kpEntries'[i] = kpEntries[i]
        /\ kpEntries'[Len(kpEntries) + 1] = FreshEntry
    BY <1>0, <1>4, <2>1, AppendProperties DEF Ids
  <2>3. kpSenders' \in [Senders -> SenderType]
    BY <1>0, <1>1, <1>2, <1>4, <2>2 DEF SenderType, Delivering
  <2>4. PoolType'
    BY <1>0, <1>1, <1>2, <1>4, <2>2, <2>3 DEF PoolType
  <2>5. \A t \in Senders : t # s => kpSenders'[t] = kpSenders[t]
    BY <1>0, <1>2
  <2>6. kpSenders'[s].entry = Len(kpEntries) + 1 /\ kpMap' = Len(kpEntries) + 1
        /\ Len(kpEntries) \in Nat
    BY <1>0, <1>2, <1>4, <2>2
  <2>7. Ids' = Ids \cup {kpMap'} /\ kpMap' \notin Ids /\ kpMap \notin Ids
    BY <1>4, <2>2, <2>6 DEF Ids
  <2>8. CallersOK'
    BY <2>5, <2>6, <2>7 DEF PoolInv, CallersOK
  <2>9. PlanEntries'
    <3> SUFFICES ASSUME kpKind = "plans" PROVE PlanEntries'
      BY <1>2 DEF PlanEntries
    <3>1. \A t \in Senders : t # s => kpSenders'[t].at = "idle"
      BY <2>5 DEF Deliver
    <3>a. kpSenders'[s].at = "push" /\ \A t \in Senders : kpSenders[t].at = "idle"
      BY <1>0, <1>2 DEF Deliver
    <3>b. \A e \in Ids : ~BeingRemoved(e)
      BY <3>a DEF BeingRemoved
    <3>2. \A e \in Ids' : e # kpMap' => ~kpEntries'[e].signal /\ Told(kpEntries'[e])
      BY <1>4, <2>2, <2>7, <3>b DEF PoolInv, PlanEntries
    <3>3. \A e \in Ids' : kpEntries'[e].reapers = 0
      BY <2>2, <2>6, <2>7 DEF PoolInv, PlanEntries, FreshEntry
    <3> QED
      BY <2>6, <3>a, <3>1, <3>2, <3>3 DEF PlanEntries, Delivering, Removing
  <2> QED
    BY <2>4, <2>8, <2>9 DEF PoolInv
<1> QED
  BY <1>3, <1>4 DEF Deliver

\* Remove takes the entry out of the map; nobody is delivering meanwhile.
LEMMA RemoveInv == ASSUME PoolInv, NEW s \in Senders, Remove(s) PROVE PoolInv'
<1>0. /\ PoolType /\ kpFate \in Seq(Fates) /\ kpKind = "plans" /\ kpMap \in Ids
      /\ kpSenders \in [Senders -> SenderType]
      /\ \A t \in Senders : kpSenders[t].at = "idle"
      /\ kpMap' = 0 /\ UNCHANGED <<kpKind, kpEntries>>
      /\ kpSenders' = [kpSenders EXCEPT ![s] = [at |-> "cancel", entry |-> kpMap, value |-> 0]]
  BY DEF PoolInv, PoolType, Remove, Ids
<1>1. kpFate' \in Seq(Fates)
  <2> DEFINE f == [i \in 1..Len(kpFate) |->
                    IF kpFate[i] = "queued" /\ kpEntries[kpMap].queue = <<i>>
                    THEN "discarded" ELSE kpFate[i]]
  <2>1. kpFate' = f
    BY DEF Remove
  <2>2. f \in [1..Len(kpFate) -> Fates]
    BY <1>0 DEF Fates
  <2> QED
    BY <1>0, <2>1, <2>2, MapFates
<1>2. /\ kpSenders' \in [Senders -> SenderType] /\ Ids' = Ids
      /\ kpSenders'[s].at = "cancel" /\ kpSenders'[s].entry = kpMap
      /\ \A t \in Senders : t # s => kpSenders'[t].at = "idle"
  BY <1>0 DEF SenderType, Removing, Ids
<1>3. PoolType'
  BY <1>0, <1>1, <1>2 DEF PoolType
<1>4. CallersOK'
  BY <1>0, <1>2 DEF CallersOK
<1>5. PlanEntries'
  <2>1. \A e \in Ids : ~BeingRemoved(e)
    BY <1>0 DEF BeingRemoved
  <2>2. \A e \in Ids : ~BeingRemoved(e)' => e # kpMap
    BY <1>2 DEF BeingRemoved
  <2> QED
    BY <1>0, <1>2, <2>1, <2>2 DEF PoolInv, PlanEntries, Delivering, Removing
<1> QED
  BY <1>3, <1>4, <1>5 DEF PoolInv

\* The two later critical sections of Remove tell the goroutine to end and empty
\* the slot; only then does the caller let go of the entry.
LEMMA RemovingInv == ASSUME PoolInv, NEW s \in Senders, Cancel(s) \/ Drain(s) PROVE PoolInv'
<1> DEFINE e == kpSenders[s].entry
<1>c. e \in Ids
  BY DEF PoolInv, CallersOK, Cancel, Drain
<1>0. /\ kpEntries[e] \in EntryType /\ PoolType /\ kpFate \in Seq(Fates)
      /\ kpSenders \in [Senders -> SenderType] /\ kpSenders[s] \in SenderType
      /\ kpSenders[s].at \in Removing /\ UNCHANGED <<kpKind, kpMap, kpFate>>
  BY <1>c, EntryHas DEF PoolInv, PoolType, Cancel, Drain, Removing
<1>a. kpKind = "plans" =>
        /\ kpMap = 0 /\ \A t \in Senders : t # s => kpSenders[t].at = "idle"
        /\ kpSenders[s].at = "drain" => Told(kpEntries[e])
  BY <1>0 DEF PoolInv, PlanEntries
<1>b. \A i \in Ids : kpKind = "plans" /\ i # e =>
        /\ kpEntries[i].reapers = 0 /\ ~kpEntries[i].signal /\ Told(kpEntries[i])
  <2> SUFFICES ASSUME NEW i \in Ids, kpKind = "plans", i # e
               PROVE  kpEntries[i].reapers = 0 /\ ~kpEntries[i].signal /\ Told(kpEntries[i])
    OBVIOUS
  <2>1. ~BeingRemoved(i) /\ i # kpMap
    BY <1>a DEF BeingRemoved, Ids
  <2> QED
    BY <2>1 DEF PoolInv, PlanEntries
<1>d. ASSUME NEW x \in EntryType, kpEntries' = [kpEntries EXCEPT ![e] = x],
             x.reapers = kpEntries[e].reapers, Told(x),
             \/ kpSenders' = [kpSenders EXCEPT ![s].at = "drain"]
             \/ kpSenders' = [kpSenders EXCEPT ![s] = Quiet] /\ ~x.signal
      PROVE  PoolInv'
  <2>1. /\ kpEntries' \in Seq(EntryType) /\ Len(kpEntries') = Len(kpEntries)
        /\ Ids' = Ids /\ kpEntries'[e] = x
        /\ \A i \in Ids : i # e => kpEntries'[i] = kpEntries[i]
    BY <1>c, <1>0, <1>d, UpdateEntry
  <2>2. /\ kpSenders' \in [Senders -> SenderType]
        /\ \A t \in Senders : t # s => kpSenders'[t] = kpSenders[t]
        /\ \/ kpSenders'[s].at = "drain" /\ kpSenders'[s].entry = e
           \/ kpSenders'[s].at = "idle" /\ ~x.signal
    <3>1. CASE kpSenders' = [kpSenders EXCEPT ![s].at = "drain"]
      BY <1>0, <3>1 DEF SenderType, Removing
    <3>2. CASE kpSenders' = [kpSenders EXCEPT ![s] = Quiet] /\ ~x.signal
      BY <1>0, <3>2 DEF SenderType, Quiet
    <3> QED
      BY <1>d, <3>1, <3>2
  <2>3. PoolType'
    BY <1>0, <2>1, <2>2 DEF PoolType
  <2> HIDE DEF e
  <2>4. CallersOK'
    BY <1>c, <2>1, <2>2 DEF PoolInv, CallersOK
  <2>5. PlanEntries'
    <3> SUFFICES ASSUME kpKind = "plans" PROVE PlanEntries'
      BY <1>0 DEF PlanEntries
    <3>1. \A i \in Ids : kpEntries'[i].reapers = 0
      BY <1>b, <1>c, <1>d, <2>1 DEF PoolInv, PlanEntries
    <3>2. \A i \in Ids : ~BeingRemoved(i)' => ~kpEntries'[i].signal /\ Told(kpEntries'[i])
      BY <1>b, <1>d, <2>1, <2>2 DEF BeingRemoved
    <3>3. kpMap' = 0 /\ \A t \in Senders : t # s => kpSenders'[t].at = "idle"
      BY <1>0, <1>a, <2>2
    <3> QED
      BY <1>d, <2>1, <2>2, <3>1, <3>2, <3>3 DEF PlanEntries, Delivering, Removing
  <2> QED
    BY <2>3, <2>4, <2>5 DEF PoolInv
<1>1. CASE Cancel(s)
  <2> DEFINE c == kpEntries[e].at # "none"
  <2> DEFINE x == [kpEntries[e] EXCEPT !.cancelled = c]
  <2>1. /\ kpEntries' = [kpEntries EXCEPT ![e] = x]
        /\ kpSenders' = [kpSenders EXCEPT ![s].at = "drain"]
    BY <1>1 DEF Cancel, CancelEntry
  <2>2. c \in BOOLEAN
    BY Zenon
  <2>3. x \in EntryType /\ x.reapers = kpEntries[e].reapers /\ x.cancelled = c
        /\ x.at = kpEntries[e].at
    BY <1>0, <2>2 DEF EntryType
  <2>4. Told(x)
    BY <2>3 DEF Told
  <2> HIDE DEF x, e
  <2> QED
    BY <1>d, <2>1, <2>3, <2>4
<1>2. CASE Drain(s)
  <2> DEFINE x == [kpEntries[e] EXCEPT !.signal = FALSE]
  <2>1. /\ kpEntries' = [kpEntries EXCEPT ![e] = x]
        /\ kpSenders' = [kpSenders EXCEPT ![s] = Quiet]
    BY <1>2 DEF Drain
  <2>2. FALSE \in BOOLEAN
    BY Zenon
  <2>3. x \in EntryType /\ x.reapers = kpEntries[e].reapers /\ ~x.signal
        /\ (Told(kpEntries[e]) => Told(x))
    BY <1>0, <2>2 DEF EntryType, Told
  <2>4. CASE kpKind = "plans"
    <3>1. Told(x)
      BY <1>2, <1>a, <2>3, <2>4 DEF Drain
    <3> HIDE DEF x, e
    <3> QED
      BY <1>d, <2>1, <2>3, <3>1
  <2>5. CASE kpKind # "plans"
    <3> HIDE DEF x
    <3>1. kpEntries' \in Seq(EntryType) /\ Len(kpEntries') = Len(kpEntries) /\ Ids' = Ids
      BY <1>c, <1>0, <2>1, <2>3, UpdateEntry
    <3>2. /\ kpSenders' \in [Senders -> SenderType] /\ kpSenders'[s].at = "idle"
          /\ \A t \in Senders : t # s => kpSenders'[t] = kpSenders[t]
      BY <1>0, <2>1 DEF SenderType, Quiet
    <3> QED
      BY <1>0, <2>5, <3>1, <3>2 DEF PoolInv, PoolType, PlanEntries, CallersOK
  <2> QED
    BY <2>4, <2>5
<1> QED
  BY <1>1, <1>2

-----------------------------------------------------------------------------
(* Start and stop of the pool *)

\* Register and Stop change where the goroutines are, not what is in the map.
LEMMA StageInv == ASSUME PoolInv, Register \/ Stop PROVE PoolInv'
<1>0. PoolType /\ UNCHANGED <<kpKind, kpMap, kpSenders, kpFate>>
  BY DEF PoolInv, Register, Stop
<1>1. CASE Register
  <2> DEFINE f == [e \in Ids |-> IF e = kpMap /\ SlotLen(kpEntries[e]) > 0
                                THEN [kpEntries[e] EXCEPT !.at = "select"] ELSE kpEntries[e]]
  <2>1. kpEntries' = f
    BY <1>1 DEF Register
  <2>2. ASSUME NEW e \in Ids
        PROVE  /\ f[e] \in EntryType /\ f[e].reapers = kpEntries[e].reapers
               /\ e # kpMap => f[e] = kpEntries[e]
    <3>1. kpEntries[e] \in EntryType
      BY <1>0, EntryHas
    <3> QED
      BY <3>1 DEF EntryType
  <2>3. f \in [Ids -> EntryType]
    BY <2>2
  <2> HIDE DEF f
  <2>4. kpEntries' \in Seq(EntryType) /\ Len(kpEntries') = Len(kpEntries) /\ Ids' = Ids
    BY <1>0, <2>1, <2>3, MapEntries
  <2>5. \A e \in Ids : BeingRemoved(e)' = BeingRemoved(e)
    BY <1>0 DEF BeingRemoved
  <2>6. \A s \in Senders : kpSenders[s].at \in Removing /\ kpKind = "plans" =>
           kpSenders[s].entry \in Ids /\ kpSenders[s].entry # kpMap
    BY DEF PoolInv, PlanEntries, CallersOK, Removing, Ids
  <2>7. PlanEntries'
    BY <1>0, <2>1, <2>2, <2>4, <2>5, <2>6 DEF PoolInv, PlanEntries
  <2> QED
    BY <1>0, <2>4, <2>7 DEF PoolInv, PoolType, CallersOK
<1>2. CASE Stop
  <2> DEFINE f == [e \in Ids |-> IF kpEntries[e].at = "none" THEN kpEntries[e]
                                ELSE [kpEntries[e] EXCEPT !.cancelled = TRUE]]
  <2>1. kpEntries' = f
    BY <1>2 DEF Stop
  <2>2. ASSUME NEW e \in Ids
        PROVE  /\ f[e] \in EntryType /\ f[e].reapers = kpEntries[e].reapers
               /\ f[e].signal = kpEntries[e].signal
               /\ f[e].at = "none" \/ f[e].cancelled
    <3>1. kpEntries[e] \in EntryType
      BY <1>0, EntryHas
    <3>2. TRUE \in BOOLEAN
      BY Zenon
    <3> QED
      BY <3>1, <3>2 DEF EntryType
  <2>3. f \in [Ids -> EntryType]
    BY <2>2
  <2> HIDE DEF f
  <2>4. kpEntries' \in Seq(EntryType) /\ Len(kpEntries') = Len(kpEntries) /\ Ids' = Ids
    BY <1>0, <2>1, <2>3, MapEntries
  <2>5. \A e \in Ids : BeingRemoved(e)' = BeingRemoved(e)
    BY <1>0 DEF BeingRemoved
  <2>6. \A s \in Senders : kpSenders[s].at \in Removing /\ kpKind = "plans" =>
           kpSenders[s].entry \in Ids
    BY DEF PoolInv, CallersOK, Removing
  <2>7. PlanEntries'
    BY <1>0, <2>1, <2>2, <2>4, <2>5, <2>6 DEF PoolInv, PlanEntries, Told
  <2> QED
    BY <1>0, <2>4, <2>7 DEF PoolInv, PoolType, CallersOK
<1> QED
  BY <1>1, <1>2

-----------------------------------------------------------------------------
(* The theorems *)

\* A pool starts without entries, its callers idle.
LEMMA InitPool == KPInit => PoolInv
<1> SUFFICES ASSUME KPInit PROVE PoolInv
  OBVIOUS
<1>1. kpEntries = <<>> /\ Len(kpEntries) = 0 /\ Ids = {} /\ kpFate = <<>>
  BY DEF KPInit, Ids
<1>2. kpSenders \in [Senders -> SenderType] /\ \A s \in Senders : kpSenders[s].at = "idle"
  BY DEF KPInit, SenderType, Quiet
<1> QED
  BY <1>1, <1>2 DEF KPInit, PoolInv, PoolType, CallersOK, PlanEntries, Delivering, Removing

\* Every critical section of the pool keeps the invariant.
LEMMA NextPool == PoolInv /\ [KPNext]_kpVars => PoolInv'
<1> SUFFICES ASSUME PoolInv, [KPNext]_kpVars PROVE PoolInv'
  OBVIOUS
<1>1. CASE UNCHANGED kpVars
  BY <1>1 DEF kpVars, PoolInv, PoolType, CallersOK, PlanEntries, BeingRemoved, Ids
<1>2. CASE KPNext
  BY <1>2, DeliverInv, RemoveInv, RemovingInv, SendingInv, WorkerInv, ReapInv, StageInv
  DEF KPNext, Sending, Working
<1> QED
  BY <1>1, <1>2

\* The invariant of the pool: what has left the map has no signal and its goroutine
\* was told to end, whatever deliveries, idle exits and the three critical sections
\* of Remove come in between.
THEOREM PoolInvariant == KPSpec => []PoolInv
BY InitPool, NextPool, PTL DEF KPSpec

\* However many deliveries, removals and idle exits of a plan interleave at the grain
\* of the pool's locks, no two goroutines of it handle at the same time, but for what
\* a removal leaves behind, which takes no value once Remove has returned (pool.go
\* Remove, ensureRunning, runEntry).
THEOREM OnePlanWorkerHolds == KPSpec => []OnePlanWorker
<1>1. PoolInv => OnePlanWorker
  <2> DEFINE A == {e \in Ids : /\ kpEntries[e].at # "none" /\ ~kpEntries[e].cancelled
                               /\ ~kpEntries[e].revived}
  <2> SUFFICES ASSUME PoolInv, kpKind = "plans"
               PROVE  /\ Cardinality(A) <= 1
                      /\ \A e \in Ids : e # kpMap /\ ~BeingRemoved(e) => ~kpEntries[e].signal
    BY DEF OnePlanWorker
  <2>1. \A e \in Ids : e # kpMap /\ ~BeingRemoved(e) => ~kpEntries[e].signal /\ e \notin A
    BY DEF PoolInv, PlanEntries, Told
  <2>2. \E d : A \subseteq {d}
    <3>1. CASE \E s \in Senders : kpSenders[s].at \in Removing
      <4>1. PICK s \in Senders : kpSenders[s].at \in Removing
        BY <3>1
      <4>2. kpMap = 0 /\ \A t \in Senders : t # s => kpSenders[t].at = "idle"
        BY <4>1 DEF PoolInv, PlanEntries
      <4>3. \A e \in Ids : e # kpSenders[s].entry => e # kpMap /\ ~BeingRemoved(e)
        BY <4>2 DEF BeingRemoved, Ids
      <4>4. A \subseteq {kpSenders[s].entry}
        BY <2>1, <4>3
      <4> QED
        BY <4>4
    <3>2. CASE \A s \in Senders : kpSenders[s].at \notin Removing
      <4>1. \A e \in Ids : ~BeingRemoved(e)
        BY <3>2 DEF BeingRemoved, Removing
      <4>2. A \subseteq {kpMap}
        BY <2>1, <4>1
      <4> QED
        BY <4>2
    <3> QED
      BY <3>1, <3>2
  <2>3. PICK d : A \subseteq {d}
    BY <2>2
  <2>4. IsFiniteSet({d}) /\ Cardinality({d}) = 1
    BY FS_Singleton
  <2> HIDE DEF A
  <2>5. Cardinality(A) <= Cardinality({d})
    BY <2>3, <2>4, FS_Subset
  <2> QED
    BY <2>1, <2>4, <2>5
<1> QED
  BY <1>1, PoolInvariant, PTL

=============================================================================
