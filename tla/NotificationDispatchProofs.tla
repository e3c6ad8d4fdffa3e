--------------------- MODULE NotificationDispatchProofs ---------------------
(***************************************************************************)
(* A stream keeps one thread and its root shows the outcome, for any       *)
(* number of operations, events, failing calls and restarts, any buffer    *)
(* and any number of entries kept.                                         *)
(*                                                                         *)
(* What a worker knows of its thread is in one of four places: its own     *)
(* delivery, the cache, the queue of status updates, the status.  The      *)
(* invariant (NDInv) says which of them is the latest, so that the next    *)
(* request finds it: the cache, when there is an entry, is what the last   *)
(* queued update says; without an entry the status says as much as was     *)
(* ever known.  Pruning is the danger: it drops the entry of the earliest  *)
(* delivery, which may be of a later operation than the others.  OrderInv  *)
(* bounds the entries that can follow the current operation's.             *)
(***************************************************************************)
EXTENDS NotificationDispatch, SequenceTheorems, FiniteSetTheorems, TLAPS

Reactions == {"", "check", "x", "loading"}

\* Sink states: a stream without a root has no reaction on it.
SinkStates == {s \in [root : Nat, reaction : Reactions] : s.root = 0 => s.reaction = ""}

Deliveries == [pc : {"root", "reply", "react"}, ev : NdEvents, st : SinkStates, root : Nat,
               created : BOOLEAN]

NDTypes ==
  /\ ndCurrent \in Streams
  /\ ndSlot \in [Streams -> Seq(NdEvents)]
  /\ ndWork \in [Streams -> {Resting} \cup Deliveries]
  /\ ndCache \in [Streams -> SinkStates]
  /\ ndWrites \in Seq([stream : Streams, st : SinkStates])
  /\ ndStored \in [Streams -> SinkStates]
  /\ ndOrder \in Seq(Streams)
  /\ ndRoots \in [Streams -> Nat]
  /\ ndEmoji \in [Streams -> SUBSET Reactions]
  /\ ndMark \in [Streams -> {"", "check", "x"}]
  /\ ndStarts \in [Streams -> Nat]
  /\ ndLost \in SUBSET Streams /\ ndUnmarked \in SUBSET Streams

Shown(r) == IF r = "" THEN {} ELSE {r}

\* A delivery of the stream runs; one of its status updates is queued.
Active(k)  == ndWork[k] # Resting
Pending(k) == \E i \in 1..Len(ndWrites) : ndWrites[i].stream = k

\* Nothing of the stream is under way.
AtRest(k) == ~Active(k) /\ ndSlot[k] = <<>> /\ ~Pending(k)

\* The entries of the status: at most NdKept, each of a stream that began; at most
\* those of the last NdKept operations follow the current one's.
OrderInv ==
  /\ Len(ndOrder) <= NdKept
  /\ \A i \in 1..Len(ndOrder) : ndOrder[i] <= ndCurrent
  /\ \A i, j \in 1..Len(ndOrder) : i # j => ndOrder[i] # ndOrder[j]
  /\ \A i, j \in 1..Len(ndOrder) :
       i < j /\ ndOrder[i] = ndCurrent => ndOrder[j] > ndCurrent - NdKept
  /\ \A k \in Streams : ndStored[k] # NoThread => \E i \in 1..Len(ndOrder) : ndOrder[i] = k

\* Operations to come have left no trace, those long past are settled.
FutureInv(k) ==
  k > ndCurrent => /\ AtRest(k) /\ ndCache[k] = NoThread /\ ndStored[k] = NoThread
                   /\ ndRoots[k] = 0 /\ ndEmoji[k] = {} /\ ndMark[k] = ""

PastInv(k) == k <= ndCurrent - NdKept => AtRest(k)

DeliveryInv(k) ==
  Active(k) => /\ ndCache[k] = ndWork[k].st
               /\ ndWork[k].pc = "root" => ndWork[k].created = FALSE
               /\ ndWork[k].pc # "root" => ndWork[k].root # 0
               /\ ndWork[k].pc # "root" /\ ndWork[k].ev = "Start" => ndWork[k].created = TRUE
               /\ ndWork[k].created = TRUE /\ ndWork[k].ev # "Start" => ndWork[k].st = NoThread

\* The last queued update of the stream says what the cache says.
WriteInv(k) ==
  \A i \in 1..Len(ndWrites) : ndWrites[i].stream = k =>
    /\ ndCache[k] = NoThread => ndWrites[i].st = NoThread
    /\ (\A j \in 1..Len(ndWrites) : j > i => ndWrites[j].stream # k) => ndWrites[i].st = ndCache[k]

\* A request may still be taken before the stream's state changes.
Expects(k) == ~Active(k) /\ (k = ndCurrent \/ ndSlot[k] # <<>>)

\* What is known of the thread is true, wherever it is kept.
MemoryInv(k) ==
  /\ Expects(k) => ResolveSinkState(k).root = ndRoots[k]
  /\ Active(k) =>
       /\ ndWork[k].pc = "root" => ndWork[k].st.root = ndRoots[k]
       /\ ndWork[k].pc # "root" => ndWork[k].root = ndRoots[k] /\ ndRoots[k] # 0
       /\ ndWork[k].pc # "root" /\ ndWork[k].created = FALSE => ndWork[k].st.root = ndRoots[k]
  /\ WriteInv(k)
  /\ ndCache[k] = NoThread /\ (Pending(k) \/ Active(k) \/ (k # ndCurrent /\ ndSlot[k] # <<>>))
       => ndStored[k] = NoThread
  /\ k = ndCurrent /\ ndCache[k] # NoThread /\ ~Pending(k) => ndStored[k] = ndCache[k]
  /\ ndRoots[k] <= ndStarts[k] + 1

\* The root shows the reaction that is remembered, and that is the outcome's.
MarkInv(k) ==
  /\ ~Active(k) /\ ndMark[k] # "" => ndEmoji[k] = {ndMark[k]}
  /\ Expects(k) => /\ ndEmoji[k] = Shown(ResolveSinkState(k).reaction)
                   /\ ndMark[k] # "" => ndMark[k] = ResolveSinkState(k).reaction
  /\ Active(k) =>
       /\ ndWork[k].created = TRUE => ndEmoji[k] = {}
       /\ ndWork[k].created = FALSE => ndEmoji[k] = Shown(ndWork[k].st.reaction)
       /\ ndWork[k].pc # "react" \/ ndWork[k].ev \notin Terminal =>
            (ndMark[k] # "" => ndWork[k].created = FALSE /\ ndMark[k] = ndWork[k].st.reaction)
       /\ ndWork[k].pc = "react" /\ ndWork[k].ev \in Terminal =>
            ndMark[k] = ReactionForEvent(ndWork[k].ev)

StreamInv(k) ==
  /\ FutureInv(k) /\ PastInv(k) /\ DeliveryInv(k)
  /\ k \notin ndLost => MemoryInv(k)
  /\ k \notin ndLost /\ k \notin ndUnmarked => MarkInv(k)

NDInv == NDTypes /\ OrderInv /\ \A k \in Streams : StreamInv(k)

-----------------------------------------------------------------------------

\* No thread is a sink state, and the only one without a root.
LEMMA NoThreadFacts ==
  /\ NoThread \in SinkStates /\ NoThread.root = 0 /\ NoThread.reaction = ""
  /\ \A s \in SinkStates : s.root \in Nat /\ s.reaction \in Reactions
  /\ \A s \in SinkStates : s.root = 0 => s = NoThread
  /\ \A s \in SinkStates : s # NoThread => s.root # 0
<1>1. NoThread \in SinkStates /\ NoThread.root = 0 /\ NoThread.reaction = ""
  BY DEF NoThread, SinkStates, Reactions
<1>2. \A s \in SinkStates : s.root \in Nat /\ s.reaction \in Reactions
  BY DEF SinkStates
<1>3. ASSUME NEW s \in SinkStates, s.root = 0 PROVE s = NoThread
  <2>1. s \in [root : Nat, reaction : Reactions] /\ s.reaction = ""
    BY <1>3 DEF SinkStates
  <2>2. s = [root |-> s.root, reaction |-> s.reaction]
    BY <2>1
  <2> QED
    BY <1>3, <2>1, <2>2 DEF NoThread
<1> QED
  BY <1>1, <1>2, <1>3

\* The guard NdSettled says that nothing of a stream is under way.
LEMMA SettledIsAtRest ==
  ASSUME NEW k
  PROVE  NdSettled(k) <=> AtRest(k)
BY DEF NdSettled, NdIdle, AtRest, Active, Pending

\* A delivery is not a worker at rest.
LEMMA DeliveryIsActive ==
  ASSUME NEW w \in Deliveries
  PROVE  w # Resting /\ w.pc \in {"root", "reply", "react"} /\ w.ev \in NdEvents
         /\ w.st \in SinkStates /\ w.root \in Nat /\ w.created \in BOOLEAN
<1>1. w.pc \in {"root", "reply", "react"} /\ w.ev \in NdEvents
      /\ w.st \in SinkStates /\ w.root \in Nat /\ w.created \in BOOLEAN
  BY DEF Deliveries
<1>2. Resting.pc = "idle"
  BY DEF Resting
<1> QED
  BY <1>1, <1>2

\* Something of the stream is under way: it is one of the last operations.
LEMMA BusyIsRecent ==
  ASSUME NDInv, NEW k \in Streams, ~AtRest(k)
  PROVE  k <= ndCurrent /\ k > ndCurrent - NdKept /\ ~(k > ndCurrent) /\ ~(k <= ndCurrent - NdKept)
<1>1. ndCurrent \in Int /\ NdKept \in Int /\ k \in Int
  <2>1. ndCurrent \in Streams
    BY DEF NDInv, NDTypes
  <2> QED
    BY <2>1, NdAssumption DEF Streams
<1>2. FutureInv(k) /\ PastInv(k)
  BY DEF NDInv, StreamInv
<1>3. ~(k > ndCurrent) /\ ~(k <= ndCurrent - NdKept)
  BY <1>2 DEF FutureInv, PastInv
<1> QED
  BY <1>1, <1>3

-----------------------------------------------------------------------------

\* A step leaves a stream alone: of its state only the entry in the status may go, and
\* not while the stream is the current one.
LEMMA OtherStream ==
  ASSUME NDInv, NEW j \in Streams, ndCurrent' = ndCurrent,
         ndSlot'[j] = ndSlot[j], ndWork'[j] = ndWork[j], ndCache'[j] = ndCache[j],
         ndRoots'[j] = ndRoots[j], ndEmoji'[j] = ndEmoji[j], ndMark'[j] = ndMark[j],
         ndStarts'[j] = ndStarts[j],
         j \notin ndLost' => j \notin ndLost, j \notin ndUnmarked' => j \notin ndUnmarked,
         ndStored'[j] = ndStored[j] \/ (j # ndCurrent /\ ndStored'[j] = NoThread),
         Pending(j)' <=> Pending(j), WriteInv(j) => WriteInv(j)'
  PROVE  StreamInv(j)'
<1>1. StreamInv(j)
  BY DEF NDInv
<1>a. Active(j)' <=> Active(j)
  BY DEF Active
<1>b. Expects(j)' <=> Expects(j)
  BY <1>a DEF Expects
<1>r. AtRest(j)' <=> AtRest(j)
  BY <1>a DEF AtRest
<1>2. FutureInv(j)'
  BY <1>1, <1>r DEF StreamInv, FutureInv
<1>3. PastInv(j)'
  BY <1>1, <1>r DEF StreamInv, PastInv
<1>4. DeliveryInv(j)'
  BY <1>1, <1>a DEF StreamInv, DeliveryInv
<1>5. ASSUME j \notin ndLost, Expects(j) PROVE ResolveSinkState(j)' = ResolveSinkState(j)
  <2>1. MemoryInv(j)
    BY <1>1, <1>5 DEF StreamInv
  <2>2. CASE ndCache[j] # NoThread
    BY <2>2 DEF ResolveSinkState
  <2>3. CASE ndCache[j] = NoThread /\ ndStored'[j] = ndStored[j]
    BY <2>3 DEF ResolveSinkState
  <2>4. CASE ndCache[j] = NoThread /\ j # ndCurrent /\ ndStored'[j] = NoThread
    <3>1. ndSlot[j] # <<>>
      BY <1>5, <2>4 DEF Expects
    <3>2. ndStored[j] = NoThread
      BY <2>1, <2>4, <3>1 DEF MemoryInv
    <3> QED
      BY <2>4, <3>2 DEF ResolveSinkState
  <2> QED
    BY <2>2, <2>3, <2>4
<1>6. ASSUME j \notin ndLost' PROVE MemoryInv(j)'
  <2>1. MemoryInv(j)
    BY <1>1, <1>6 DEF StreamInv
  <2>2. WriteInv(j)'
    BY <2>1 DEF MemoryInv
  <2>3. Expects(j)' => ResolveSinkState(j)'.root = ndRoots'[j]
    BY <2>1, <1>b, <1>5, <1>6 DEF MemoryInv
  <2> QED
    BY <2>1, <2>2, <2>3, <1>a DEF MemoryInv
<1>7. ASSUME j \notin ndLost', j \notin ndUnmarked' PROVE MarkInv(j)'
  <2>1. MarkInv(j)
    BY <1>1, <1>7 DEF StreamInv
  <2> QED
    BY <2>1, <1>a, <1>b, <1>5, <1>7 DEF MarkInv
<1> QED
  BY <1>2, <1>3, <1>4, <1>6, <1>7 DEF StreamInv

-----------------------------------------------------------------------------
(* The queue of status updates *)

\* An update of one stream is queued: the others' are as before.
LEMMA AppendOther ==
  ASSUME NDTypes, NEW k \in Streams, NEW st, NEW j \in Streams, j # k,
         ndWrites' = Append(ndWrites, [stream |-> k, st |-> st]), ndCache'[j] = ndCache[j]
  PROVE  (Pending(j)' <=> Pending(j)) /\ (WriteInv(j) => WriteInv(j)')
<1>1. ndWrites \in Seq([stream : Streams, st : SinkStates])
  BY DEF NDTypes
<1> DEFINE n == Len(ndWrites)
<1>2. n \in Nat /\ Len(ndWrites') = n + 1
  BY <1>1
<1>3. \A i \in 1..n : ndWrites'[i] = ndWrites[i]
  BY <1>1
<1>4. ndWrites'[n + 1].stream = k
  BY <1>1
<1>5. Pending(j)' <=> Pending(j)
  BY <1>2, <1>3, <1>4 DEF Pending
<1>6. ASSUME WriteInv(j) PROVE WriteInv(j)'
  <2> SUFFICES ASSUME NEW i \in 1..(n + 1), ndWrites'[i].stream = j
               PROVE  /\ ndCache'[j] = NoThread => ndWrites'[i].st = NoThread
                      /\ (\A m \in 1..(n + 1) : m > i => ndWrites'[m].stream # j)
                            => ndWrites'[i].st = ndCache'[j]
    BY <1>2 DEF WriteInv
  <2>1. i \in 1..n /\ ndWrites[i].stream = j /\ ndWrites'[i] = ndWrites[i]
    BY <1>2, <1>3, <1>4
  <2>2. (\A m \in 1..(n + 1) : m > i => ndWrites'[m].stream # j)
           => (\A m \in 1..n : m > i => ndWrites[m].stream # j)
    BY <1>2, <1>3
  <2> QED
    BY <1>6, <2>1, <2>2 DEF WriteInv
<1> QED
  BY <1>5, <1>6

\* The update that is queued says what the cache says: it is the latest.
LEMMA AppendOwn ==
  ASSUME NDTypes, NEW k \in Streams, NEW st,
         ndWrites' = Append(ndWrites, [stream |-> k, st |-> st]), ndCache'[k] = st,
         st = NoThread => ndCache[k] = NoThread
  PROVE  Pending(k)' /\ (WriteInv(k) => WriteInv(k)')
<1>1. ndWrites \in Seq([stream : Streams, st : SinkStates])
  BY DEF NDTypes
<1> DEFINE n == Len(ndWrites)
<1>2. n \in Nat /\ Len(ndWrites') = n + 1
  BY <1>1
<1>3. \A i \in 1..n : ndWrites'[i] = ndWrites[i]
  BY <1>1
<1>4. ndWrites'[n + 1].stream = k /\ ndWrites'[n + 1].st = st
  BY <1>1
<1>5. Pending(k)'
  BY <1>2, <1>4 DEF Pending
<1>6. ASSUME WriteInv(k) PROVE WriteInv(k)'
  <2> SUFFICES ASSUME NEW i \in 1..(n + 1), ndWrites'[i].stream = k
               PROVE  /\ ndCache'[k] = NoThread => ndWrites'[i].st = NoThread
                      /\ (\A m \in 1..(n + 1) : m > i => ndWrites'[m].stream # k)
                            => ndWrites'[i].st = ndCache'[k]
    BY <1>2 DEF WriteInv
  <2>1. CASE i = n + 1
    BY <2>1, <1>4
  <2>2. CASE i \in 1..n
    <3>1. ~(\A m \in 1..(n + 1) : m > i => ndWrites'[m].stream # k)
      BY <2>2, <1>2, <1>4
    <3>2. ndCache'[k] = NoThread => ndWrites'[i].st = NoThread
      BY <2>2, <1>3, <1>6 DEF WriteInv
    <3> QED
      BY <3>1, <3>2
  <2> QED
    BY <2>1, <2>2, <1>2
<1> QED
  BY <1>5, <1>6

\* The oldest update leaves the queue.  When it was the stream's last one it says what
\* the cache says.
LEMMA TailWrites ==
  ASSUME NDTypes, ndWrites # <<>>, ndWrites' = Tail(ndWrites), ndCache' = ndCache
  PROVE  /\ \A j \in Streams : WriteInv(j) => WriteInv(j)'
         /\ \A j \in Streams : j # Head(ndWrites).stream => (Pending(j)' <=> Pending(j))
         /\ \A j \in Streams : Pending(j)' => Pending(j)
         /\ Head(ndWrites) \in [stream : Streams, st : SinkStates]
         /\ Pending(Head(ndWrites).stream)
         /\ \A j \in Streams : WriteInv(j) /\ j = Head(ndWrites).stream =>
              /\ ndCache[j] = NoThread => Head(ndWrites).st = NoThread
              /\ ~Pending(j)' => Head(ndWrites).st = ndCache[j]
<1>1. ndWrites \in Seq([stream : Streams, st : SinkStates])
  BY DEF NDTypes
<1> DEFINE n == Len(ndWrites)
<1>2. n \in Nat \ {0} /\ Len(ndWrites') = n - 1
  BY <1>1
<1>3. \A i \in 1..(n - 1) : ndWrites'[i] = ndWrites[i + 1]
  BY <1>1
<1>h. Head(ndWrites) = ndWrites[1] /\ 1 \in 1..n /\ Head(ndWrites) \in [stream : Streams, st : SinkStates]
  <2>1. 1 \in 1..n
    BY <1>2
  <2>2. Head(ndWrites) = ndWrites[1]
    BY <1>1
  <2>3. ndWrites[1] \in [stream : Streams, st : SinkStates]
    BY <1>1, <2>1, ElementOfSeq
  <2> QED
    BY <2>1, <2>2, <2>3
<1>p. Pending(Head(ndWrites).stream)
  BY <1>h DEF Pending
<1>4. ASSUME NEW j \in Streams, WriteInv(j) PROVE WriteInv(j)'
  <2> SUFFICES ASSUME NEW i \in 1..(n - 1), ndWrites'[i].stream = j
               PROVE  /\ ndCache'[j] = NoThread => ndWrites'[i].st = NoThread
                      /\ (\A m \in 1..(n - 1) : m > i => ndWrites'[m].stream # j)
                            => ndWrites'[i].st = ndCache'[j]
    BY <1>2 DEF WriteInv
  <2>1. i + 1 \in 1..n /\ ndWrites'[i] = ndWrites[i + 1]
    BY <1>2, <1>3
  <2>2. ASSUME \A m \in 1..(n - 1) : m > i => ndWrites'[m].stream # j, NEW l \in 1..n, l > i + 1
        PROVE  ndWrites[l].stream # j
    <3>1. l - 1 \in 1..(n - 1) /\ l - 1 > i /\ (l - 1) + 1 = l
      BY <2>2, <1>2
    <3>2. ndWrites'[l - 1] = ndWrites[(l - 1) + 1]
      BY <3>1, <1>3
    <3> QED
      BY <2>2, <3>1, <3>2
  <2> QED
    BY <1>4, <2>1, <2>2 DEF WriteInv
<1>5. ASSUME NEW j \in Streams, Pending(j)' PROVE Pending(j)
  <2>1. PICK i \in 1..(n - 1) : ndWrites'[i].stream = j
    BY <1>5, <1>2 DEF Pending
  <2>2. i + 1 \in 1..n /\ ndWrites[i + 1].stream = j
    BY <2>1, <1>2, <1>3
  <2> QED
    BY <2>2 DEF Pending
<1>6. ASSUME NEW j \in Streams, NEW i \in 1..n, ndWrites[i].stream = j, i # 1 PROVE Pending(j)'
  <2>1. i - 1 \in 1..(n - 1) /\ (i - 1) + 1 = i
    BY <1>2, <1>6
  <2>2. ndWrites'[i - 1].stream = j
    BY <2>1, <1>3, <1>6
  <2> QED
    BY <2>1, <2>2, <1>2 DEF Pending
<1>7. ASSUME NEW j \in Streams, j # Head(ndWrites).stream, Pending(j) PROVE Pending(j)'
  BY <1>7, <1>6, <1>h DEF Pending
<1>8. ASSUME NEW j \in Streams, WriteInv(j), j = Head(ndWrites).stream
      PROVE  /\ ndCache[j] = NoThread => Head(ndWrites).st = NoThread
             /\ ~Pending(j)' => Head(ndWrites).st = ndCache[j]
  <2>1. ndCache[j] = NoThread => Head(ndWrites).st = NoThread
    BY <1>8, <1>h DEF WriteInv
  <2>2. ASSUME ~Pending(j)' PROVE Head(ndWrites).st = ndCache[j]
    <3>1. \A m \in 1..n : m > 1 => ndWrites[m].stream # j
      BY <2>2, <1>6
    <3> QED
      BY <3>1, <1>8, <1>h DEF WriteInv
  <2> QED
    BY <2>1, <2>2
<1> QED
  BY <1>4, <1>5, <1>7, <1>8, <1>h, <1>p

-----------------------------------------------------------------------------
(* The steps *)

\* At the start nothing has happened.
LEMMA InitNDInv == NDInit => NDInv
<1> SUFFICES ASSUME NDInit PROVE NDInv
  OBVIOUS
<1>1. ndCurrent = 1 /\ ndWrites = <<>> /\ ndOrder = <<>> /\ ndLost = {} /\ ndUnmarked = {}
  BY DEF NDInit
<1>2. 1 \in Streams
  BY NdAssumption DEF Streams
<1>3. \A k \in Streams :
        /\ ndSlot[k] = <<>> /\ ndWork[k] = Resting /\ ndCache[k] = NoThread
        /\ ndStored[k] = NoThread /\ ndRoots[k] = 0 /\ ndEmoji[k] = {} /\ ndMark[k] = ""
        /\ ndStarts[k] = 0
  BY DEF NDInit
<1>l. Len(ndWrites) = 0 /\ Len(ndOrder) = 0
  BY <1>1
<1>4. NDTypes
  <2>s. <<>> \in Seq(NdEvents)
    OBVIOUS
  <2>1. ndSlot \in [Streams -> Seq(NdEvents)]
    BY <2>s DEF NDInit
  <2>w. ndWork \in [Streams -> {Resting} \cup Deliveries]
    BY DEF NDInit
  <2>2. ndCache \in [Streams -> SinkStates] /\ ndStored \in [Streams -> SinkStates]
    BY NoThreadFacts DEF NDInit
  <2>3. ndRoots \in [Streams -> Nat] /\ ndStarts \in [Streams -> Nat]
    BY DEF NDInit
  <2>4. ndEmoji \in [Streams -> SUBSET Reactions] /\ ndMark \in [Streams -> {"", "check", "x"}]
    BY DEF NDInit
  <2>5. ndWrites \in Seq([stream : Streams, st : SinkStates]) /\ ndOrder \in Seq(Streams)
    BY <1>1
  <2> QED
    BY <1>1, <1>2, <2>1, <2>w, <2>2, <2>3, <2>4, <2>5 DEF NDTypes
<1>5. OrderInv
  <2>1. Len(ndOrder) <= NdKept
    BY <1>l, NdAssumption
  <2>2. 1..Len(ndOrder) = {}
    BY <1>l
  <2> QED
    BY <2>1, <2>2, <1>3 DEF OrderInv
<1>6. ASSUME NEW k \in Streams PROVE StreamInv(k)
  <2>a. 1..Len(ndWrites) = {}
    BY <1>l
  <2>p. ~Pending(k)
    BY <2>a DEF Pending
  <2>1. AtRest(k) /\ ~Active(k)
    BY <2>p, <1>3 DEF AtRest, Active
  <2>2. WriteInv(k)
    BY <2>a DEF WriteInv
  <2>3. ResolveSinkState(k) = NoThread
    BY <1>3 DEF ResolveSinkState
  <2>4. FutureInv(k) /\ PastInv(k) /\ DeliveryInv(k)
    BY <1>3, <2>1 DEF FutureInv, PastInv, DeliveryInv
  <2>5. MemoryInv(k)
    <3>1. ndSlot[k] = <<>> /\ ~Pending(k) /\ ndCache[k] = NoThread
      BY <1>3, <2>1 DEF AtRest
    <3>2. NoThread.root = ndRoots[k] /\ ndRoots[k] <= ndStarts[k] + 1
      <4>1. ndRoots[k] = 0 /\ ndStarts[k] = 0
        BY <1>3
      <4>2. NoThread.root = 0
        BY NoThreadFacts
      <4>3. 0 <= 0 + 1
        OBVIOUS
      <4> QED
        BY <4>1, <4>2, <4>3
    <3> QED
      BY <2>1, <2>2, <2>3, <3>1, <3>2 DEF MemoryInv
  <2>6. MarkInv(k)
    BY <1>3, <2>1, <2>3, NoThreadFacts DEF MarkInv, Shown
  <2> QED
    BY <2>4, <2>5, <2>6 DEF StreamInv
<1> QED
  BY <1>4, <1>5, <1>6 DEF NDInv

\* The status is left alone, and the plan stays in its operation.
LEMMA OrderUnchanged ==
  ASSUME OrderInv, ndOrder' = ndOrder, ndStored' = ndStored, ndCurrent' = ndCurrent
  PROVE  OrderInv'
BY DEF OrderInv

\* Submit: the current stream has one request more.
LEMMA SubmitNDInv ==
  ASSUME NDInv, NEW e \in NdEvents, Submit(e)
  PROVE  NDInv'
<1> DEFINE k == ndCurrent
<1>1. NDTypes /\ OrderInv /\ k \in Streams
  BY DEF NDInv, NDTypes
<1>2. /\ UNCHANGED <<ndCurrent, ndWork, ndCache, ndWrites, ndStored, ndOrder>>
      /\ UNCHANGED <<ndRoots, ndEmoji, ndMark, ndStarts, ndLost, ndUnmarked>>
      /\ ndSlot' = [ndSlot EXCEPT ![k] = Append(@, e)] \/ ndSlot' = ndSlot
  BY DEF Submit, Status, Slack
<1>3. ndSlot \in [Streams -> Seq(NdEvents)]
  BY <1>1 DEF NDTypes
<1>4. ndSlot' \in [Streams -> Seq(NdEvents)]
  <2>1. Append(ndSlot[k], e) \in Seq(NdEvents)
    BY <1>1, <1>3
  <2> QED
    BY <1>2, <1>3, <2>1
<1>5. NDTypes'
  BY <1>1, <1>2, <1>4 DEF NDTypes
<1>6. OrderInv'
  BY <1>1, <1>2, OrderUnchanged
<1>w. \A j \in Streams : (Pending(j)' <=> Pending(j)) /\ (WriteInv(j) => WriteInv(j)')
  BY <1>2 DEF Pending, WriteInv
<1>7. ASSUME NEW j \in Streams, j # k PROVE StreamInv(j)'
  <2>1. ndSlot'[j] = ndSlot[j]
    BY <1>2, <1>3, <1>7
  <2> QED
    BY <2>1, <1>2, <1>w, OtherStream
<1>8. StreamInv(k)'
  <2>1. StreamInv(k)
    BY <1>1 DEF NDInv
  <2>2. k \in Int /\ NdKept \in Int /\ ~(k > ndCurrent) /\ ~(k <= ndCurrent - NdKept)
    BY <1>1, NdAssumption DEF Streams
  <2>3. FutureInv(k)' /\ PastInv(k)'
    BY <1>2, <2>2 DEF FutureInv, PastInv
  <2>a. (Active(k)' <=> Active(k)) /\ ResolveSinkState(k)' = ResolveSinkState(k)
    BY <1>2 DEF Active, ResolveSinkState
  <2>b. Expects(k)' <=> Expects(k)
    BY <1>2, <2>a DEF Expects
  <2>4. DeliveryInv(k)'
    BY <2>1, <1>2, <2>a DEF StreamInv, DeliveryInv
  <2>5. ASSUME MemoryInv(k) PROVE MemoryInv(k)'
    BY <2>5, <1>1, <1>2, <1>w, <2>a, <2>b DEF MemoryInv
  <2>6. ASSUME MarkInv(k) PROVE MarkInv(k)'
    BY <2>6, <1>2, <2>a, <2>b DEF MarkInv
  <2> QED
    BY <2>1, <2>3, <2>4, <2>5, <2>6, <1>2 DEF StreamInv
<1> QED
  BY <1>1, <1>2, <1>5, <1>6, <1>7, <1>8 DEF NDInv

\* NextOperation: what lies ahead of the plan becomes current; a request of the last
\* operation that still waits has a delivery before it, which knows the thread.
LEMMA NextOperationNDInv ==
  ASSUME NDInv, NextOperation
  PROVE  NDInv'
<1> DEFINE c == ndCurrent
<1>1. NDTypes /\ OrderInv /\ c \in Streams
  BY DEF NDInv, NDTypes
<1>2. /\ UNCHANGED <<ndSlot, ndWork, ndCache, ndWrites, ndStored, ndOrder>>
      /\ UNCHANGED <<ndRoots, ndEmoji, ndMark, ndStarts, ndLost, ndUnmarked>>
      /\ c < NdStreams /\ ndCurrent' = c + 1
      /\ \A k \in 1..(c + 1 - NdKept) : NdSettled(k)
      /\ ndWork[c] = Resting => ndSlot[c] = <<>>
  BY DEF NextOperation, Status, Slack
<1>3. c \in Int /\ NdKept \in Int /\ NdKept >= 1 /\ NdStreams \in Int /\ c >= 1
  BY <1>1, NdAssumption DEF Streams
<1>4. ndCurrent' \in Streams
  BY <1>2, <1>3 DEF Streams
<1>5. NDTypes'
  BY <1>1, <1>2, <1>4 DEF NDTypes
<1>6. OrderInv'
  <2>1. \A i \in 1..Len(ndOrder) : ndOrder[i] \in Int /\ ndOrder[i] <= c
    <3>1. ndOrder \in Seq(Streams)
      BY <1>1 DEF NDTypes
    <3>2. \A i \in 1..Len(ndOrder) : ndOrder[i] \in Streams
      BY <3>1, ElementOfSeq
    <3> QED
      BY <3>2, <1>1, NdAssumption DEF OrderInv, Streams
  <2>2. \A i \in 1..Len(ndOrder) : ndOrder[i] <= c + 1 /\ ndOrder[i] # c + 1
    BY <2>1, <1>3
  <2> QED
    BY <1>1, <1>2, <2>2 DEF OrderInv
<1>7. ASSUME NEW k \in Streams PROVE StreamInv(k)'
  <2>1. StreamInv(k) /\ k \in Int /\ k >= 1
    BY <1>1, NdAssumption DEF NDInv, Streams
  <2>2. (Active(k)' <=> Active(k)) /\ (Pending(k)' <=> Pending(k)) /\ (AtRest(k)' <=> AtRest(k))
        /\ (WriteInv(k)' <=> WriteInv(k)) /\ ResolveSinkState(k)' = ResolveSinkState(k)
    BY <1>2 DEF Active, Pending, AtRest, WriteInv, ResolveSinkState
  <2>3. FutureInv(k)'
    <3>1. k > c + 1 => k > c
      BY <1>3, <2>1
    <3> QED
      BY <3>1, <2>1, <2>2, <1>2 DEF FutureInv, StreamInv
  <2>4. PastInv(k)'
    <3>1. k <= (c + 1) - NdKept => k \in 1..(c + 1 - NdKept)
      BY <1>3, <2>1
    <3>2. k \in 1..(c + 1 - NdKept) => AtRest(k)
      BY <1>2, SettledIsAtRest
    <3> QED
      BY <3>1, <3>2, <2>2, <1>2 DEF PastInv
  <2>5. DeliveryInv(k)'
    BY <2>1, <2>2, <1>2 DEF StreamInv, DeliveryInv
  <2>6. ASSUME k \notin ndLost PROVE MemoryInv(k)'
    <3>1. MemoryInv(k)
      BY <2>1, <2>6 DEF StreamInv
    <3>0. k = c + 1 => k > ndCurrent
      BY <1>3
    <3>2. CASE k = c + 1
      <4>1. AtRest(k) /\ ndCache[k] = NoThread /\ ndStored[k] = NoThread /\ ndRoots[k] = 0
        BY <3>0, <3>2, <2>1 DEF StreamInv, FutureInv
      <4>2. ~Active(k) /\ ~Pending(k) /\ ndSlot[k] = <<>>
        BY <4>1 DEF AtRest
      <4>3. ResolveSinkState(k) = NoThread /\ NoThread.root = 0
        BY <4>1, NoThreadFacts DEF ResolveSinkState
      <4> QED
        BY <3>1, <4>1, <4>2, <4>3, <2>2, <1>2 DEF MemoryInv
    <3>3. CASE k # c + 1
      <4>1. Expects(k)' => Expects(k)
        BY <3>3, <2>2, <1>2 DEF Expects
      <4>2. k # ndCurrent' /\ ndSlot[k] # <<>> /\ k = c => Active(k)
        BY <1>2 DEF Active
      <4> QED
        BY <3>1, <3>3, <4>1, <4>2, <2>2, <1>2 DEF MemoryInv
    <3> QED
      BY <3>2, <3>3
  <2>7. ASSUME k \notin ndLost, k \notin ndUnmarked PROVE MarkInv(k)'
    <3>1. MarkInv(k)
      BY <2>1, <2>7 DEF StreamInv
    <3>0. k = c + 1 => k > ndCurrent
      BY <1>3
    <3>2. CASE k = c + 1
      <4>1. AtRest(k) /\ ndCache[k] = NoThread /\ ndStored[k] = NoThread
            /\ ndEmoji[k] = {} /\ ndMark[k] = ""
        BY <3>0, <3>2, <2>1 DEF StreamInv, FutureInv
      <4>2. ~Active(k)
        BY <4>1 DEF AtRest
      <4>3. ResolveSinkState(k) = NoThread /\ NoThread.reaction = ""
        BY <4>1, NoThreadFacts DEF ResolveSinkState
      <4> QED
        BY <4>1, <4>2, <4>3, <2>2, <1>2 DEF MarkInv, Shown
    <3>3. CASE k # c + 1
      <4>1. Expects(k)' => Expects(k)
        BY <3>3, <2>2, <1>2 DEF Expects
      <4> QED
        BY <3>1, <4>1, <2>2, <1>2 DEF MarkInv
    <3> QED
      BY <3>2, <3>3
  <2> QED
    BY <2>3, <2>4, <2>5, <2>6, <2>7, <1>2 DEF StreamInv
<1> QED
  BY <1>5, <1>6, <1>7 DEF NDInv

\* ExpireState: the status knows what the cache forgets, for the stream that needs it.
LEMMA ExpireStateNDInv ==
  ASSUME NDInv, NEW k \in Streams, ExpireState(k)
  PROVE  NDInv'
<1>1. NDTypes /\ OrderInv /\ StreamInv(k)
  BY DEF NDInv
<1>2. /\ UNCHANGED <<ndCurrent, ndSlot, ndWork, ndWrites, ndStored, ndOrder>>
      /\ UNCHANGED <<ndRoots, ndEmoji, ndMark, ndStarts, ndLost, ndUnmarked>>
      /\ ndCache[k] # NoThread /\ NdSettled(k)
      /\ ndCache' = [ndCache EXCEPT ![k] = NoThread]
  BY DEF ExpireState, Status, Slack
<1>3. ndCache \in [Streams -> SinkStates]
  BY <1>1 DEF NDTypes
<1>4. ndCache' \in [Streams -> SinkStates] /\ ndCache'[k] = NoThread
  BY <1>2, <1>3, NoThreadFacts
<1>5. NDTypes'
  BY <1>1, <1>2, <1>4 DEF NDTypes
<1>6. OrderInv'
  BY <1>1, <1>2, OrderUnchanged
<1>7. ASSUME NEW j \in Streams, j # k PROVE StreamInv(j)'
  <2>1. ndCache'[j] = ndCache[j]
    BY <1>2, <1>3, <1>7
  <2>2. (Pending(j)' <=> Pending(j)) /\ (WriteInv(j) => WriteInv(j)')
    BY <1>2, <2>1 DEF Pending, WriteInv
  <2> QED
    BY <2>1, <2>2, <1>2, OtherStream
<1>8. StreamInv(k)'
  <2>1. AtRest(k) /\ ~Active(k) /\ ~Pending(k) /\ ndSlot[k] = <<>>
    BY <1>2, SettledIsAtRest DEF AtRest
  <2>2. AtRest(k)' /\ ~Active(k)' /\ ~Pending(k)'
    BY <1>2, <2>1 DEF AtRest, Active, Pending
  <2>3. FutureInv(k)' /\ PastInv(k)' /\ DeliveryInv(k)'
    BY <1>1, <1>2, <1>4, <2>2 DEF StreamInv, FutureInv, PastInv, DeliveryInv
  <2>4. Expects(k)' => k = ndCurrent /\ Expects(k)
    BY <1>2, <2>1 DEF Expects
  <2>r. ResolveSinkState(k) = ndCache[k] /\ ResolveSinkState(k)' = ndStored[k]
    BY <1>2, <1>4 DEF ResolveSinkState
  <2>5. ASSUME k \notin ndLost, k = ndCurrent PROVE ResolveSinkState(k)' = ResolveSinkState(k)
    BY <2>5, <2>1, <2>r, <1>1, <1>2 DEF StreamInv, MemoryInv
  <2>6. WriteInv(k)'
    BY <2>2 DEF WriteInv, Pending
  <2>7. ASSUME k \notin ndLost PROVE MemoryInv(k)'
    <3>1. MemoryInv(k)
      BY <2>7, <1>1 DEF StreamInv
    <3> QED
      BY <3>1, <2>7, <2>1, <2>2, <2>4, <2>5, <2>6, <1>2, <1>4 DEF MemoryInv
  <2>8. ASSUME k \notin ndLost, k \notin ndUnmarked PROVE MarkInv(k)'
    <3>1. MarkInv(k)
      BY <2>8, <1>1 DEF StreamInv
    <3> QED
      BY <3>1, <2>8, <2>1, <2>2, <2>4, <2>5, <1>2 DEF MarkInv
  <2> QED
    BY <2>3, <2>7, <2>8, <1>2 DEF StreamInv
<1> QED
  BY <1>5, <1>6, <1>7, <1>8 DEF NDInv

\* Exit: a stream whose thread was known to the process alone is lost; the status knows
\* the others.
LEMMA ExitNDInv ==
  ASSUME NDInv, Exit
  PROVE  NDInv'
<1>1. NDTypes /\ OrderInv
  BY DEF NDInv
<1>2. /\ UNCHANGED <<ndCurrent, ndStored, ndOrder, ndRoots, ndEmoji, ndMark, ndStarts>>
      /\ ndSlot' = [k \in Streams |-> <<>>] /\ ndWork' = [k \in Streams |-> Resting]
      /\ ndCache' = [k \in Streams |-> NoThread] /\ ndWrites' = <<>>
      /\ ndLost' = ndLost \cup {ndWrites[i].stream : i \in 1..Len(ndWrites)}
                          \cup {k \in Streams : ndWork[k] # Resting /\ ndWork[k].created}
      /\ ndUnmarked' = ndUnmarked \cup {k \in Streams : ndWork[k] # Resting}
  BY DEF Exit, Status, Slack
<1>3. ndWrites \in Seq([stream : Streams, st : SinkStates])
  BY <1>1 DEF NDTypes
<1>4. ndLost' \in SUBSET Streams /\ ndUnmarked' \in SUBSET Streams
  <2>1. \A i \in 1..Len(ndWrites) : ndWrites[i] \in [stream : Streams, st : SinkStates]
    BY <1>3, ElementOfSeq
  <2>2. \A i \in 1..Len(ndWrites) : ndWrites[i].stream \in Streams
    BY <2>1
  <2>3. {ndWrites[i].stream : i \in 1..Len(ndWrites)} \subseteq Streams
    BY <2>2
  <2>4. ndLost \subseteq Streams /\ ndUnmarked \subseteq Streams
    BY <1>1 DEF NDTypes
  <2> QED
    BY <1>2, <2>3, <2>4
<1>5. NDTypes'
  <2>s. <<>> \in Seq(NdEvents) /\ <<>> \in Seq([stream : Streams, st : SinkStates])
    OBVIOUS
  <2>1. ndSlot' \in [Streams -> Seq(NdEvents)]
    BY <2>s, <1>2
  <2>2. ndWork' \in [Streams -> {Resting} \cup Deliveries]
    BY <1>2
  <2>3. ndCache' \in [Streams -> SinkStates]
    BY <1>2, NoThreadFacts
  <2>4. ndWrites' \in Seq([stream : Streams, st : SinkStates])
    BY <2>s, <1>2
  <2> QED
    BY <1>1, <1>2, <1>4, <2>1, <2>2, <2>3, <2>4 DEF NDTypes
<1>6. OrderInv'
  BY <1>1, <1>2, OrderUnchanged
<1>7. ASSUME NEW k \in Streams PROVE StreamInv(k)'
  <2>1. StreamInv(k)
    BY DEF NDInv
  <2>2. ndSlot'[k] = <<>> /\ ndWork'[k] = Resting /\ ndCache'[k] = NoThread
    BY <1>2
  <2>3. 1..Len(ndWrites') = {}
    BY <1>2
  <2>4. AtRest(k)' /\ ~Active(k)' /\ ~Pending(k)' /\ WriteInv(k)'
    BY <2>2, <2>3 DEF AtRest, Active, Pending, WriteInv
  <2>5. FutureInv(k)' /\ PastInv(k)' /\ DeliveryInv(k)'
    BY <2>1, <2>2, <2>4, <1>2 DEF StreamInv, FutureInv, PastInv, DeliveryInv
  <2>6. ResolveSinkState(k)' = ndStored[k] /\ (Expects(k)' => k = ndCurrent)
    BY <2>2, <1>2 DEF ResolveSinkState, Expects
  <2>7. ASSUME k \notin ndLost'
        PROVE  /\ k \notin ndLost /\ ~Pending(k)
               /\ ndWork[k] # Resting => ~ndWork[k].created
    BY <2>7, <1>2 DEF Pending
  <2>8. ASSUME k \notin ndLost' PROVE MemoryInv(k)'
    <3>1. MemoryInv(k) /\ DeliveryInv(k)
      BY <2>8, <2>7, <2>1 DEF StreamInv
    <3>2. ASSUME k = ndCurrent PROVE ndStored[k].root = ndRoots[k]
      <4>1. CASE ~Active(k)
        <5>1. ResolveSinkState(k).root = ndRoots[k]
          BY <4>1, <3>2, <3>1 DEF MemoryInv, Expects
        <5>2. ndStored[k] = ResolveSinkState(k)
          BY <3>1, <3>2, <2>7, <2>8 DEF MemoryInv, ResolveSinkState
        <5> QED
          BY <5>1, <5>2
      <4>2. CASE Active(k)
        <5>1. ndStored[k] = ndCache[k] /\ ndCache[k] = ndWork[k].st
          BY <3>1, <3>2, <4>2, <2>7, <2>8 DEF MemoryInv, DeliveryInv
        <5>2. ndWork[k] \in Deliveries
          BY <4>2, <1>1 DEF NDTypes, Active
        <5>3. ndWork[k].created = FALSE
          <6>1. ndWork[k].created \in BOOLEAN
            BY <5>2, DeliveryIsActive
          <6>2. ~ndWork[k].created
            BY <2>7, <2>8, <4>2 DEF Active
          <6> QED
            BY <6>1, <6>2, Zenon
        <5>4. ndWork[k].st.root = ndRoots[k]
          BY <5>3, <3>1, <4>2 DEF MemoryInv
        <5> QED
          BY <5>1, <5>4
      <4> QED
        BY <4>1, <4>2
    <3>3. ndRoots'[k] <= ndStarts'[k] + 1
      BY <3>1, <1>2 DEF MemoryInv
    <3> QED
      BY <3>2, <3>3, <2>2, <2>4, <2>6, <1>2 DEF MemoryInv
  <2>9. ASSUME k \notin ndLost', k \notin ndUnmarked' PROVE MarkInv(k)'
    <3>1. ~Active(k) /\ k \notin ndUnmarked
      BY <2>9, <1>2 DEF Active
    <3>2. MemoryInv(k) /\ MarkInv(k)
      BY <2>9, <2>7, <2>1, <3>1 DEF StreamInv
    <3>3. k = ndCurrent => ndStored[k] = ResolveSinkState(k) /\ Expects(k)
      BY <3>1, <3>2, <2>7, <2>9 DEF MemoryInv, ResolveSinkState, Expects
    <3> QED
      BY <3>1, <3>2, <3>3, <2>4, <2>6, <1>2 DEF MarkInv
  <2> QED
    BY <2>5, <2>8, <2>9 DEF StreamInv
<1> QED
  BY <1>5, <1>6, <1>7 DEF NDInv

-----------------------------------------------------------------------------
(* The steps of a worker *)

\* A step of stream k, on the state of the others.
OthersKept(k) ==
  \A j \in Streams : j # k =>
    /\ ndSlot'[j] = ndSlot[j] /\ ndWork'[j] = ndWork[j] /\ ndCache'[j] = ndCache[j]
    /\ ndRoots'[j] = ndRoots[j] /\ ndEmoji'[j] = ndEmoji[j] /\ ndMark'[j] = ndMark[j]
    /\ ndStarts'[j] = ndStarts[j]
    /\ j \notin ndLost' => j \notin ndLost
    /\ j \notin ndUnmarked' => j \notin ndUnmarked

\* A worker's step is looked at on its own stream only.
LEMMA OneStream ==
  ASSUME NDInv, NEW k \in Streams, ~AtRest(k), OthersKept(k), NDTypes',
         ndCurrent' = ndCurrent, ndOrder' = ndOrder, ndStored' = ndStored,
         \A j \in Streams : j # k => (Pending(j)' <=> Pending(j)) /\ (WriteInv(j) => WriteInv(j)'),
         DeliveryInv(k)', k \notin ndLost' => MemoryInv(k)',
         k \notin ndLost' /\ k \notin ndUnmarked' => MarkInv(k)'
  PROVE  NDInv'
<1>1. OrderInv'
  BY OrderUnchanged DEF NDInv
<1>2. ASSUME NEW j \in Streams, j # k PROVE StreamInv(j)'
  BY <1>2, OtherStream DEF OthersKept
<1>3. FutureInv(k)' /\ PastInv(k)'
  BY BusyIsRecent DEF FutureInv, PastInv
<1>4. StreamInv(k)'
  BY <1>3 DEF StreamInv
<1> QED
  BY <1>1, <1>2, <1>4 DEF NDInv

\* The status update queue and the cache are left alone.
LEMMA WritesKept ==
  ASSUME ndWrites' = ndWrites, NEW j \in Streams, ndCache'[j] = ndCache[j]
  PROVE  (Pending(j)' <=> Pending(j)) /\ (WriteInv(j) => WriteInv(j)')
BY DEF Pending, WriteInv

\* TakeRequest: the worker starts from what is known of the thread.
LEMMA TakeRequestNDInv ==
  ASSUME NDInv, NEW k \in Streams, TakeRequest(k)
  PROVE  NDInv'
<1>1. NDTypes /\ StreamInv(k)
  BY DEF NDInv
<1>2. /\ UNCHANGED <<ndCurrent, ndWrites, ndStored, ndOrder, ndRoots, ndEmoji, ndMark>>
      /\ UNCHANGED <<ndStarts, ndUnmarked>>
      /\ ndWork[k] = Resting /\ ndSlot[k] # <<>>
      /\ ndSlot' = [ndSlot EXCEPT ![k] = Tail(@)]
  BY DEF TakeRequest, Status, Slack
<1>t. /\ ndSlot \in [Streams -> Seq(NdEvents)]
      /\ ndWork \in [Streams -> {Resting} \cup Deliveries]
      /\ ndCache \in [Streams -> SinkStates] /\ ndStored \in [Streams -> SinkStates]
  BY <1>1 DEF NDTypes
<1>3. ~AtRest(k) /\ ~Active(k) /\ Expects(k)
  BY <1>2 DEF AtRest, Active, Expects
<1>4. Tail(ndSlot[k]) \in Seq(NdEvents) /\ Head(ndSlot[k]) \in NdEvents
  BY <1>2, <1>t
<1>5. ndSlot' \in [Streams -> Seq(NdEvents)] /\ \A j \in Streams : j # k => ndSlot'[j] = ndSlot[j]
  BY <1>2, <1>4, <1>t
<1>6. CASE ndWork' = ndWork /\ ndCache' = ndCache /\ ndLost' = ndLost
  <2>1. NDTypes'
    BY <1>1, <1>2, <1>5, <1>6 DEF NDTypes
  <2>2. OthersKept(k)
    BY <1>2, <1>5, <1>6 DEF OthersKept
  <2>w. \A j \in Streams : (Pending(j)' <=> Pending(j)) /\ (WriteInv(j) => WriteInv(j)')
    BY <1>2, <1>6, WritesKept
  <2>3. ~Active(k)' /\ ResolveSinkState(k)' = ResolveSinkState(k)
    BY <1>2, <1>6 DEF Active, ResolveSinkState
  <2>4. DeliveryInv(k)'
    BY <2>3 DEF DeliveryInv
  <2>5. ASSUME k \notin ndLost' PROVE MemoryInv(k)'
    <3>1. MemoryInv(k)
      BY <2>5, <1>1, <1>6 DEF StreamInv
    <3> QED
      BY <3>1, <2>3, <2>w, <1>2, <1>3, <1>6 DEF MemoryInv
  <2>6. ASSUME k \notin ndLost', k \notin ndUnmarked' PROVE MarkInv(k)'
    <3>1. MarkInv(k)
      BY <2>6, <1>1, <1>2, <1>6 DEF StreamInv
    <3> QED
      BY <3>1, <2>3, <1>2, <1>3 DEF MarkInv
  <2> QED
    BY <2>1, <2>2, <2>w, <2>4, <2>5, <2>6, <1>2, <1>3, OneStream
<1>7. ASSUME NEW unread \in BOOLEAN, NEW st, NEW w,
             unread => ndCache[k] = NoThread,
             st = IF unread THEN NoThread ELSE ResolveSinkState(k),
             w = [pc |-> "root", ev |-> Head(ndSlot[k]), st |-> st, root |-> 0, created |-> FALSE],
             ndWork' = [ndWork EXCEPT ![k] = w],
             ndCache' = IF unread THEN ndCache ELSE [ndCache EXCEPT ![k] = st],
             ndLost' = IF unread THEN ndLost \cup {k} ELSE ndLost
      PROVE  NDInv'
  <2>1. ResolveSinkState(k) \in SinkStates
    BY <1>t DEF ResolveSinkState
  <2>2. st \in SinkStates
    BY <2>1, <1>7, NoThreadFacts
  <2>3. w \in Deliveries /\ w.pc = "root" /\ w.st = st /\ w.created = FALSE
    <3>1. w.pc = "root" /\ w.st = st /\ w.created = FALSE
      BY <1>7
    <3>2. w \in Deliveries
      BY <1>7, <1>4, <2>2 DEF Deliveries
    <3> QED
      BY <3>1, <3>2
  <2>4. ndWork' \in [Streams -> {Resting} \cup Deliveries] /\ ndWork'[k] = w
        /\ \A j \in Streams : j # k => ndWork'[j] = ndWork[j]
    BY <1>7, <1>t, <2>3
  <2>5. ndCache' \in [Streams -> SinkStates] /\ ndCache'[k] = st
        /\ \A j \in Streams : j # k => ndCache'[j] = ndCache[j]
    BY <1>7, <1>t, <2>2
  <2>6. ndLost' \in SUBSET Streams /\ \A j \in Streams : j \notin ndLost' => j \notin ndLost
    BY <1>7, <1>1 DEF NDTypes
  <2>7. NDTypes'
    BY <1>1, <1>2, <1>5, <2>4, <2>5, <2>6 DEF NDTypes
  <2>8. OthersKept(k)
    BY <1>2, <1>5, <2>4, <2>5, <2>6 DEF OthersKept
  <2>w. \A j \in Streams : j # k => (Pending(j)' <=> Pending(j)) /\ (WriteInv(j) => WriteInv(j)')
    BY <1>2, <2>5, WritesKept
  <2>a. Active(k)' /\ ~Expects(k)'
    BY <2>3, <2>4, DeliveryIsActive DEF Active, Expects
  <2>d. DeliveryInv(k)'
    BY <2>3, <2>4, <2>5 DEF DeliveryInv
  <2>r. ASSUME k \notin ndLost' PROVE st = ResolveSinkState(k) /\ k \notin ndLost
    BY <2>r, <1>7
  <2>m. ASSUME k \notin ndLost' PROVE MemoryInv(k)'
    <3>1. MemoryInv(k)
      BY <2>m, <2>r, <1>1 DEF StreamInv
    <3>2. st = ResolveSinkState(k) /\ st.root = ndRoots[k]
      BY <2>m, <2>r, <3>1, <1>3 DEF MemoryInv
    <3>3. ndCache[k] = NoThread => st = ndStored[k]
      BY <3>2 DEF ResolveSinkState
    <3>4. ndCache[k] # NoThread => st = ndCache[k]
      BY <3>2 DEF ResolveSinkState
    <3>5. Pending(k) => st = ndCache[k]
      BY <3>1, <3>3, <3>4 DEF MemoryInv
    <3>6. Pending(k)' <=> Pending(k)
      BY <1>2 DEF Pending
    <3>7. WriteInv(k)'
      <4>1. CASE Pending(k)
        BY <4>1, <3>1, <3>5, <2>5, <1>2, WritesKept DEF MemoryInv
      <4>2. CASE ~Pending(k)
        BY <4>2, <1>2 DEF Pending, WriteInv
      <4> QED
        BY <4>1, <4>2
    <3>8. ndCache'[k] = NoThread => ndStored'[k] = NoThread
      BY <3>3, <3>4, <2>5, <1>2
    <3>9. k = ndCurrent /\ ~Pending(k) => ndStored[k] = st
      BY <3>1, <3>3, <3>4 DEF MemoryInv
    <3>10. ndRoots'[k] <= ndStarts'[k] + 1
      BY <3>1, <1>2 DEF MemoryInv
    <3>11. ndWork'[k].st.root = ndRoots'[k]
      BY <3>2, <2>3, <2>4, <1>2
    <3> QED
      BY <3>6, <3>7, <3>8, <3>9, <3>10, <3>11, <2>3, <2>4, <2>5, <2>a, <1>2 DEF MemoryInv
  <2>k. ASSUME k \notin ndLost', k \notin ndUnmarked' PROVE MarkInv(k)'
    <3>1. MarkInv(k)
      BY <2>k, <2>r, <1>1, <1>2 DEF StreamInv
    <3>2. ndEmoji[k] = Shown(st.reaction) /\ (ndMark[k] # "" => ndMark[k] = st.reaction)
      BY <3>1, <2>k, <2>r, <1>3 DEF MarkInv
    <3>3. ndWork'[k].pc = "root" /\ ndWork'[k].st = st /\ ndWork'[k].created = FALSE
      BY <2>3, <2>4
    <3> QED
      BY <3>2, <3>3, <2>a, <1>2 DEF MarkInv
  <2> QED
    BY <2>7, <2>8, <2>w, <2>d, <2>m, <2>k, <1>2, <1>3, OneStream
<1> QED
  <2>1. CASE UNCHANGED <<ndWork, ndCache, ndLost>>
    BY <2>1, <1>6
  <2>2. CASE \E unread \in BOOLEAN :
               /\ unread => ndCache[k] = NoThread
               /\ LET st == IF unread THEN NoThread ELSE ResolveSinkState(k) IN
                  /\ ndWork' = [ndWork EXCEPT ![k] =
                        [pc |-> "root", ev |-> Head(ndSlot[k]), st |-> st, root |-> 0, created |-> FALSE]]
                  /\ ndCache' = IF unread THEN ndCache ELSE [ndCache EXCEPT ![k] = st]
               /\ ndLost' = IF unread THEN ndLost \cup {k} ELSE ndLost
    BY <2>2, <1>7
  <2> QED
    BY <2>1, <2>2 DEF TakeRequest

\* The worker of stream k ends a delivery with the state st: what it reports is true of
\* the thread, and forgets nothing that was known.
LEMMA ReportNDInv ==
  ASSUME NDInv, NEW k \in Streams, NEW st \in SinkStates, Active(k), ReportDelivery(k, st),
         ndCurrent' = ndCurrent, ndOrder' = ndOrder, ndStored' = ndStored, ndSlot' = ndSlot,
         ndRoots' = ndRoots, ndMark' = ndMark, ndStarts' = ndStarts,
         ndLost' = ndLost \/ ndLost' = ndLost \cup {k},
         ndUnmarked' = ndUnmarked \/ ndUnmarked' = ndUnmarked \cup {k},
         ndEmoji' \in [Streams -> SUBSET Reactions],
         \A j \in Streams : j # k => ndEmoji'[j] = ndEmoji[j],
         st = NoThread => ndWork[k].st = NoThread,
         k \notin ndLost' => st.root = ndRoots[k],
         k \notin ndLost' /\ k \notin ndUnmarked' =>
           ndEmoji'[k] = Shown(st.reaction) /\ (ndMark[k] # "" => ndMark[k] = st.reaction)
  PROVE  NDInv'
<1>1. NDTypes /\ StreamInv(k) /\ DeliveryInv(k)
  BY DEF NDInv, StreamInv
<1>2. /\ ndCache' = IF st # NoThread THEN [ndCache EXCEPT ![k] = st] ELSE ndCache
      /\ ndWrites' = Append(ndWrites, [stream |-> k, st |-> st])
      /\ ndWork' = [ndWork EXCEPT ![k] = Resting]
  BY DEF ReportDelivery
<1>t. /\ ndWork \in [Streams -> {Resting} \cup Deliveries]
      /\ ndCache \in [Streams -> SinkStates]
      /\ ndWrites \in Seq([stream : Streams, st : SinkStates])
      /\ ndLost \in SUBSET Streams /\ ndUnmarked \in SUBSET Streams
  BY <1>1 DEF NDTypes
<1>3. ndCache[k] = ndWork[k].st
  BY <1>1 DEF DeliveryInv
<1>4. ndCache' \in [Streams -> SinkStates] /\ ndCache'[k] = st
      /\ \A j \in Streams : j # k => ndCache'[j] = ndCache[j]
  BY <1>2, <1>3, <1>t
<1>5. ndWork' \in [Streams -> {Resting} \cup Deliveries] /\ ndWork'[k] = Resting
      /\ \A j \in Streams : j # k => ndWork'[j] = ndWork[j]
  BY <1>2, <1>t
<1>6. ndWrites' \in Seq([stream : Streams, st : SinkStates])
  <2>1. [stream |-> k, st |-> st] \in [stream : Streams, st : SinkStates]
    OBVIOUS
  <2> QED
    BY <2>1, <1>2, <1>t, AppendProperties
<1>l. /\ ndLost' \in SUBSET Streams /\ ndUnmarked' \in SUBSET Streams
      /\ \A j \in Streams : j \notin ndLost' => j \notin ndLost
      /\ \A j \in Streams : j \notin ndUnmarked' => j \notin ndUnmarked
  BY <1>t
<1>7. NDTypes'
  BY <1>1, <1>4, <1>5, <1>6, <1>l DEF NDTypes
<1>8. OthersKept(k)
  BY <1>4, <1>5, <1>l DEF OthersKept
<1>w. \A j \in Streams : j # k => (Pending(j)' <=> Pending(j)) /\ (WriteInv(j) => WriteInv(j)')
  BY <1>1, <1>2, <1>4, AppendOther
<1>o. Pending(k)' /\ (WriteInv(k) => WriteInv(k)')
  BY <1>1, <1>2, <1>3, <1>4, AppendOwn
<1>a. ~Active(k)' /\ ~AtRest(k)
  BY <1>5 DEF Active, AtRest
<1>d. DeliveryInv(k)'
  BY <1>a DEF DeliveryInv
<1>r. ASSUME k \notin ndLost PROVE ResolveSinkState(k)' = st /\ (st = NoThread => ndStored[k] = NoThread)
  <2>1. MemoryInv(k)
    BY <1>r, <1>1 DEF StreamInv
  <2>2. st = NoThread => ndStored[k] = NoThread
    BY <2>1, <1>3 DEF MemoryInv
  <2> QED
    BY <2>2, <1>4 DEF ResolveSinkState
<1>m. ASSUME k \notin ndLost' PROVE MemoryInv(k)'
  <2>1. MemoryInv(k) /\ k \notin ndLost
    BY <1>m, <1>l, <1>1 DEF StreamInv
  <2>2. WriteInv(k)' /\ ndRoots'[k] <= ndStarts'[k] + 1
    BY <2>1, <1>o DEF MemoryInv
  <2>3. ResolveSinkState(k)'.root = ndRoots'[k]
    BY <2>1, <1>r, <1>m
  <2> QED
    BY <2>1, <2>2, <2>3, <1>r, <1>o, <1>a, <1>4 DEF MemoryInv
<1>k. ASSUME k \notin ndLost', k \notin ndUnmarked' PROVE MarkInv(k)'
  <2>1. k \notin ndLost
    BY <1>k, <1>l
  <2>2. ResolveSinkState(k)' = st
    BY <2>1, <1>r
  <2>3. ndEmoji'[k] = Shown(st.reaction) /\ (ndMark'[k] # "" => ndMark'[k] = st.reaction)
    BY <1>k
  <2>4. ndMark'[k] # "" => ndEmoji'[k] = {ndMark'[k]}
    BY <2>3 DEF Shown
  <2> QED
    BY <2>2, <2>3, <2>4, <1>a DEF MarkInv
<1> QED
  BY <1>7, <1>8, <1>w, <1>d, <1>m, <1>k, <1>a, OneStream

\* The worker of stream k goes on with its delivery: the state it started from stays.
LEMMA ProgressNDInv ==
  ASSUME NDInv, NEW k \in Streams, Active(k),
         ndWork'[k].st = ndWork[k].st, ndWork'[k].pc \in {"reply", "react"}, ndWork'[k].root # 0,
         ndWork'[k].ev = "Start" => ndWork'[k].created = TRUE,
         ndWork'[k].created = TRUE /\ ndWork'[k].ev # "Start" => ndWork'[k].st = NoThread,
         ndWork' \in [Streams -> {Resting} \cup Deliveries], ndWork'[k] \in Deliveries,
         \A j \in Streams : j # k => ndWork'[j] = ndWork[j],
         ndCurrent' = ndCurrent, ndOrder' = ndOrder, ndStored' = ndStored, ndSlot' = ndSlot,
         ndCache' = ndCache, ndWrites' = ndWrites, ndLost' = ndLost, ndUnmarked' = ndUnmarked,
         ndRoots' \in [Streams -> Nat], ndEmoji' \in [Streams -> SUBSET Reactions],
         ndMark' \in [Streams -> {"", "check", "x"}], ndStarts' \in [Streams -> Nat],
         \A j \in Streams : j # k => ndRoots'[j] = ndRoots[j] /\ ndEmoji'[j] = ndEmoji[j]
                                     /\ ndMark'[j] = ndMark[j] /\ ndStarts'[j] = ndStarts[j],
         k \notin ndLost => /\ ndWork'[k].root = ndRoots'[k] /\ ndRoots'[k] <= ndStarts'[k] + 1
                            /\ ndWork'[k].created = FALSE => ndWork'[k].st.root = ndRoots'[k],
         k \notin ndLost /\ k \notin ndUnmarked =>
           /\ ndWork'[k].created = TRUE => ndEmoji'[k] = {}
           /\ ndWork'[k].created = FALSE => ndEmoji'[k] = Shown(ndWork'[k].st.reaction)
           /\ ndWork'[k].pc # "react" \/ ndWork'[k].ev \notin Terminal =>
                (ndMark'[k] # "" => ndWork'[k].created = FALSE /\ ndMark'[k] = ndWork'[k].st.reaction)
           /\ ndWork'[k].pc = "react" /\ ndWork'[k].ev \in Terminal => ndMark'[k] = ReactionForEvent(ndWork'[k].ev)
  PROVE  NDInv'
<1>1. NDTypes /\ StreamInv(k) /\ DeliveryInv(k)
  BY DEF NDInv, StreamInv
<1>4. NDTypes'
  BY <1>1 DEF NDTypes
<1>5. OthersKept(k)
  BY DEF OthersKept
<1>w. \A j \in Streams : (Pending(j)' <=> Pending(j)) /\ (WriteInv(j) => WriteInv(j)')
  BY WritesKept
<1>a. Active(k)' /\ ~Expects(k)' /\ ~AtRest(k)
  BY DeliveryIsActive DEF Active, Expects, AtRest
<1>6. DeliveryInv(k)'
  <2>1. ndCache'[k] = ndWork'[k].st
    BY <1>1 DEF DeliveryInv
  <2> QED
    BY <2>1 DEF DeliveryInv
<1>7. ASSUME k \notin ndLost' PROVE MemoryInv(k)'
  <2>1. MemoryInv(k)
    BY <1>7, <1>1 DEF StreamInv
  <2>2. ndWork'[k].root = ndRoots'[k] /\ ndRoots'[k] # 0
        /\ (ndWork'[k].created = FALSE => ndWork'[k].st.root = ndRoots'[k])
    BY <1>7
  <2>3. ndWork'[k].pc # "root" /\ ndRoots'[k] <= ndStarts'[k] + 1
    BY <1>7
  <2>4. ndCache[k] = NoThread => ndStored[k] = NoThread
    BY <2>1 DEF MemoryInv
  <2> QED
    BY <2>1, <2>2, <2>3, <2>4, <1>w, <1>a DEF MemoryInv
<1>8. ASSUME k \notin ndLost', k \notin ndUnmarked' PROVE MarkInv(k)'
  BY <1>8, <1>a DEF MarkInv
<1> QED
  BY <1>4, <1>5, <1>w, <1>6, <1>7, <1>8, <1>a, OneStream

\* What an active worker holds.
LEMMA ActiveFacts ==
  ASSUME NDInv, NEW k \in Streams, Active(k)
  PROVE  /\ ndWork[k] \in Deliveries
         /\ ndWork[k].pc \in {"root", "reply", "react"} /\ ndWork[k].ev \in NdEvents
         /\ ndWork[k].st \in SinkStates /\ ndWork[k].root \in Nat /\ ndWork[k].created \in BOOLEAN
         /\ DeliveryInv(k) /\ (k \notin ndLost => MemoryInv(k))
         /\ (k \notin ndLost /\ k \notin ndUnmarked => MarkInv(k))
<1>1. ndWork \in [Streams -> {Resting} \cup Deliveries]
  BY DEF NDInv, NDTypes
<1>2. ndWork[k] \in Deliveries
  BY <1>1 DEF Active
<1>3. StreamInv(k)
  BY DEF NDInv
<1> QED
  BY <1>2, <1>3, DeliveryIsActive DEF StreamInv

\* A worker that is at a step of a delivery is active.
LEMMA AtStepIsActive ==
  ASSUME NEW k \in Streams, ndWork[k].pc \in {"root", "reply", "react"}
  PROVE  Active(k)
BY DEF Active, Resting

\* SyncThreadRoot: a root is posted only where there is none, or for a Start.
LEMMA SyncThreadRootNDInv ==
  ASSUME NDInv, NEW k \in Streams, SyncThreadRoot(k)
  PROVE  NDInv'
<1> DEFINE w == ndWork[k]
           root == IF w.ev = "Start" THEN 0 ELSE w.st.root
<1>1. /\ UNCHANGED <<ndCurrent, ndSlot, ndStored, ndOrder, ndLost, ndUnmarked>>
      /\ w.pc = "root"
      /\ \/ /\ root # 0
            /\ ndWork' = [ndWork EXCEPT ![k] = [@ EXCEPT !.pc = "reply", !.root = root]]
            /\ UNCHANGED <<ndCache, ndWrites, ndRoots, ndEmoji, ndMark, ndStarts>>
         \/ /\ root = 0
            /\ ndRoots' = [ndRoots EXCEPT ![k] = @ + 1]
            /\ ndEmoji' = [ndEmoji EXCEPT ![k] = {}]
            /\ ndMark' = [ndMark EXCEPT ![k] = ""]
            /\ ndStarts' = [ndStarts EXCEPT ![k] = @ + (IF w.ev = "Start" THEN 1 ELSE 0)]
            /\ ndWork' = [ndWork EXCEPT ![k] = [@ EXCEPT !.pc = "reply", !.root = ndRoots[k] + 1,
                                                         !.created = TRUE]]
            /\ UNCHANGED <<ndCache, ndWrites>>
         \/ /\ ReportDelivery(k, w.st)
            /\ UNCHANGED <<ndRoots, ndEmoji, ndMark, ndStarts>>
  BY DEF SyncThreadRoot, Status, Slack
<1>2. Active(k)
  BY <1>1, AtStepIsActive
<1>3. /\ w \in Deliveries /\ w.st \in SinkStates
      /\ DeliveryInv(k) /\ (k \notin ndLost => MemoryInv(k))
      /\ (k \notin ndLost /\ k \notin ndUnmarked => MarkInv(k))
  BY <1>2, ActiveFacts
<1>4. w.created = FALSE
  BY <1>1, <1>2, <1>3 DEF DeliveryInv
<1>5. k \notin ndLost => w.st.root = ndRoots[k] /\ ndRoots[k] <= ndStarts[k] + 1
  BY <1>1, <1>2, <1>3 DEF MemoryInv
<1>6. k \notin ndLost /\ k \notin ndUnmarked =>
        ndEmoji[k] = Shown(w.st.reaction) /\ (ndMark[k] # "" => ndMark[k] = w.st.reaction)
  BY <1>1, <1>2, <1>3, <1>4 DEF MarkInv
<1>t. /\ ndWork \in [Streams -> {Resting} \cup Deliveries]
      /\ ndRoots \in [Streams -> Nat] /\ ndEmoji \in [Streams -> SUBSET Reactions]
      /\ ndMark \in [Streams -> {"", "check", "x"}] /\ ndStarts \in [Streams -> Nat]
  BY DEF NDInv, NDTypes
<1>7. CASE /\ root # 0
           /\ ndWork' = [ndWork EXCEPT ![k] = [@ EXCEPT !.pc = "reply", !.root = root]]
           /\ UNCHANGED <<ndCache, ndWrites, ndRoots, ndEmoji, ndMark, ndStarts>>
  <2>1. w.ev # "Start" /\ root = w.st.root /\ root \in Nat
    BY <1>3, <1>7, NoThreadFacts
  <2>2. PICK v : v = [w EXCEPT !.pc = "reply", !.root = root]
    OBVIOUS
  <2>3. v \in Deliveries /\ v.pc = "reply" /\ v.root = root /\ v.created = w.created
        /\ v.st = w.st /\ v.ev = w.ev
    BY <2>1, <2>2, <1>3 DEF Deliveries
  <2>5. ndWork' = [ndWork EXCEPT ![k] = v]
    BY <2>2, <1>7
  <2>6. ndWork' \in [Streams -> {Resting} \cup Deliveries] /\ ndWork'[k] = v
        /\ \A j \in Streams : j # k => ndWork'[j] = ndWork[j]
    BY <2>3, <2>5, <1>t
  <2> HIDE DEF root
  <2>7. ndWork'[k] \in Deliveries /\ ndWork'[k].pc = "reply" /\ ndWork'[k].root = w.st.root
        /\ ndWork'[k].root # 0
        /\ ndWork'[k].created = FALSE /\ ndWork'[k].st = w.st /\ ndWork'[k].ev # "Start"
    BY <2>1, <2>3, <2>6, <1>4, <1>7
  <2> QED
    BY <2>6, <2>7, <1>1, <1>2, <1>5, <1>6, <1>7, <1>t, ProgressNDInv
<1>8. CASE /\ root = 0
           /\ ndRoots' = [ndRoots EXCEPT ![k] = @ + 1]
           /\ ndEmoji' = [ndEmoji EXCEPT ![k] = {}]
           /\ ndMark' = [ndMark EXCEPT ![k] = ""]
           /\ ndStarts' = [ndStarts EXCEPT ![k] = @ + (IF w.ev = "Start" THEN 1 ELSE 0)]
           /\ ndWork' = [ndWork EXCEPT ![k] = [@ EXCEPT !.pc = "reply", !.root = ndRoots[k] + 1,
                                                        !.created = TRUE]]
           /\ UNCHANGED <<ndCache, ndWrites>>
  <2>1. ndRoots[k] \in Nat /\ ndStarts[k] \in Nat
    BY <1>t
  <2>2. PICK v : v = [w EXCEPT !.pc = "reply", !.root = ndRoots[k] + 1, !.created = TRUE]
    OBVIOUS
  <2>3. v \in Deliveries /\ v.pc = "reply" /\ v.root = ndRoots[k] + 1 /\ v.created = TRUE
        /\ v.st = w.st /\ v.ev = w.ev
    <3>1. ndRoots[k] + 1 \in Nat
      BY <2>1
    <3> QED
      BY <2>2, <3>1, <1>3 DEF Deliveries
  <2>4. ndWork' = [ndWork EXCEPT ![k] = v]
    BY <2>2, <1>8
  <2>5. v.ev # "Start" => w.st.root = 0 /\ v.st = NoThread
    BY <2>3, <1>8, <1>3, NoThreadFacts
  <2>6. ndRoots' \in [Streams -> Nat] /\ ndRoots'[k] = ndRoots[k] + 1
        /\ \A j \in Streams : j # k => ndRoots'[j] = ndRoots[j]
    <3>1. ndRoots[k] + 1 \in Nat
      BY <2>1
    <3>2. ndRoots' = [ndRoots EXCEPT ![k] = ndRoots[k] + 1]
      BY <1>8
    <3> QED
      BY <3>1, <3>2, <1>t
  <2>7. ndEmoji' \in [Streams -> SUBSET Reactions] /\ ndEmoji'[k] = {}
        /\ \A j \in Streams : j # k => ndEmoji'[j] = ndEmoji[j]
    BY <1>8, <1>t
  <2>8. ndMark' \in [Streams -> {"", "check", "x"}] /\ ndMark'[k] = ""
        /\ \A j \in Streams : j # k => ndMark'[j] = ndMark[j]
    BY <1>8, <1>t
  <2>9. ndStarts' \in [Streams -> Nat]
        /\ ndStarts'[k] = ndStarts[k] + (IF w.ev = "Start" THEN 1 ELSE 0)
        /\ \A j \in Streams : j # k => ndStarts'[j] = ndStarts[j]
    <3> DEFINE n == ndStarts[k] + (IF w.ev = "Start" THEN 1 ELSE 0)
    <3>1. n \in Nat
      BY <2>1
    <3>2. ndStarts' = [ndStarts EXCEPT ![k] = n]
      BY <1>8
    <3> HIDE DEF n
    <3>3. ndStarts' \in [Streams -> Nat] /\ ndStarts'[k] = n
          /\ \A j \in Streams : j # k => ndStarts'[j] = ndStarts[j]
      BY <3>1, <3>2, <1>t
    <3> QED
      BY <3>3 DEF n
  <2>10. k \notin ndLost => ndRoots'[k] <= ndStarts'[k] + 1
    <3>1. CASE w.ev = "Start"
      BY <3>1, <2>1, <2>6, <2>9, <1>5
    <3>2. CASE w.ev # "Start"
      BY <3>2, <2>1, <2>3, <2>5, <2>6, <2>9, <1>5
    <3> QED
      BY <3>1, <3>2
  <2>11. v.root # 0
    BY <2>1, <2>3
  <2>12. ndWork' \in [Streams -> {Resting} \cup Deliveries] /\ ndWork'[k] = v
         /\ \A j \in Streams : j # k => ndWork'[j] = ndWork[j]
    BY <2>3, <2>4, <1>t
  <2>13. ndWork'[k] \in Deliveries /\ ndWork'[k].pc = "reply" /\ ndWork'[k].root = ndRoots'[k]
         /\ ndWork'[k].root # 0 /\ ndWork'[k].created = TRUE /\ ndWork'[k].st = w.st
         /\ (ndWork'[k].ev # "Start" => ndWork'[k].st = NoThread)
    BY <2>3, <2>5, <2>6, <2>11, <2>12
  <2> HIDE DEF root
  <2>14. UNCHANGED <<ndCache, ndWrites>>
    BY <1>8
  <2> QED
    BY <2>6, <2>7, <2>8, <2>9, <2>10, <2>12, <2>13, <2>14, <1>1, <1>2, ProgressNDInv
<1>9. CASE ReportDelivery(k, w.st) /\ UNCHANGED <<ndRoots, ndEmoji, ndMark, ndStarts>>
  BY <1>1, <1>2, <1>3, <1>5, <1>6, <1>9, <1>t, ReportNDInv
<1> QED
  BY <1>1, <1>7, <1>8, <1>9

\* What reactionForEvent returns.
LEMMA ReactionFacts ==
  ASSUME NEW e
  PROVE  /\ ReactionForEvent(e) \in Reactions
         /\ e \in Terminal => ReactionForEvent(e) \in {"check", "x"}
         /\ e \notin Terminal => ReactionForEvent(e) \in {"", "loading"}
         /\ e = "Start" => ReactionForEvent(e) = "loading"
BY DEF ReactionForEvent, Terminal, Reactions

\* SendThreadReply: when it fails after the root was posted the stream is lost.
LEMMA SendThreadReplyNDInv ==
  ASSUME NDInv, NEW k \in Streams, SendThreadReply(k)
  PROVE  NDInv'
<1> DEFINE w == ndWork[k]
<1>1. /\ UNCHANGED <<ndCurrent, ndSlot, ndStored, ndOrder, ndRoots, ndEmoji, ndStarts, ndUnmarked>>
      /\ w.pc = "reply"
      /\ \/ /\ ndWork' = [ndWork EXCEPT ![k] = [@ EXCEPT !.pc = "react"]]
            /\ ndMark' = IF w.ev \in Terminal
                         THEN [ndMark EXCEPT ![k] = ReactionForEvent(w.ev)] ELSE ndMark
            /\ UNCHANGED <<ndCache, ndWrites, ndLost>>
         \/ /\ ReportDelivery(k, w.st)
            /\ ndLost' = IF w.created THEN ndLost \cup {k} ELSE ndLost
            /\ UNCHANGED ndMark
  BY DEF SendThreadReply, Status, Slack
<1>2. Active(k)
  BY <1>1, AtStepIsActive
<1>3. /\ w \in Deliveries /\ w.st \in SinkStates /\ w.root \in Nat /\ w.created \in BOOLEAN
      /\ DeliveryInv(k) /\ (k \notin ndLost => MemoryInv(k))
      /\ (k \notin ndLost /\ k \notin ndUnmarked => MarkInv(k))
  BY <1>2, ActiveFacts
<1>4. /\ w.root # 0 /\ (w.ev = "Start" => w.created = TRUE)
      /\ (w.created = TRUE /\ w.ev # "Start" => w.st = NoThread)
  BY <1>1, <1>2, <1>3 DEF DeliveryInv
<1>5. k \notin ndLost => /\ w.root = ndRoots[k] /\ ndRoots[k] <= ndStarts[k] + 1
                         /\ w.created = FALSE => w.st.root = ndRoots[k]
  BY <1>1, <1>2, <1>3 DEF MemoryInv
<1>6. k \notin ndLost /\ k \notin ndUnmarked =>
        /\ w.created = TRUE => ndEmoji[k] = {}
        /\ w.created = FALSE => ndEmoji[k] = Shown(w.st.reaction)
        /\ ndMark[k] # "" => w.created = FALSE /\ ndMark[k] = w.st.reaction
  BY <1>1, <1>2, <1>3 DEF MarkInv
<1>t. /\ ndWork \in [Streams -> {Resting} \cup Deliveries]
      /\ ndRoots \in [Streams -> Nat] /\ ndEmoji \in [Streams -> SUBSET Reactions]
      /\ ndMark \in [Streams -> {"", "check", "x"}] /\ ndStarts \in [Streams -> Nat]
  BY DEF NDInv, NDTypes
<1>7. CASE /\ ndWork' = [ndWork EXCEPT ![k] = [@ EXCEPT !.pc = "react"]]
           /\ ndMark' = IF w.ev \in Terminal
                        THEN [ndMark EXCEPT ![k] = ReactionForEvent(w.ev)] ELSE ndMark
           /\ UNCHANGED <<ndCache, ndWrites, ndLost>>
  <2>1. PICK v : v = [w EXCEPT !.pc = "react"]
    OBVIOUS
  <2>2. v \in Deliveries /\ v.pc = "react" /\ v.root = w.root /\ v.created = w.created
        /\ v.st = w.st /\ v.ev = w.ev
    BY <2>1, <1>3 DEF Deliveries
  <2>3. ndWork' = [ndWork EXCEPT ![k] = v]
    BY <2>1, <1>7
  <2>4. ndWork' \in [Streams -> {Resting} \cup Deliveries] /\ ndWork'[k] = v
        /\ \A j \in Streams : j # k => ndWork'[j] = ndWork[j]
    BY <2>2, <2>3, <1>t
  <2>5. ndMark' \in [Streams -> {"", "check", "x"}]
        /\ (\A j \in Streams : j # k => ndMark'[j] = ndMark[j])
        /\ (w.ev \in Terminal => ndMark'[k] = ReactionForEvent(w.ev))
        /\ (w.ev \notin Terminal => ndMark'[k] = ndMark[k])
    <3>1. w.ev \in Terminal => ReactionForEvent(w.ev) \in {"", "check", "x"}
      BY ReactionFacts
    <3> QED
      BY <3>1, <1>7, <1>t
  <2>6. ndWork'[k] \in Deliveries /\ ndWork'[k].pc = "react" /\ ndWork'[k].root = w.root
        /\ ndWork'[k].created = w.created /\ ndWork'[k].st = w.st /\ ndWork'[k].ev = w.ev
    BY <2>2, <2>4
  <2>7. k \notin ndLost /\ k \notin ndUnmarked =>
          /\ ndWork'[k].ev \notin Terminal =>
               (ndMark'[k] # "" => ndWork'[k].created = FALSE /\ ndMark'[k] = ndWork'[k].st.reaction)
          /\ ndWork'[k].ev \in Terminal => ndMark'[k] = ReactionForEvent(ndWork'[k].ev)
    BY <2>5, <2>6, <1>6
  <2>8. k \notin ndLost /\ k \notin ndUnmarked =>
          /\ ndWork'[k].created = TRUE => ndEmoji'[k] = {}
          /\ ndWork'[k].created = FALSE => ndEmoji'[k] = Shown(ndWork'[k].st.reaction)
    BY <2>6, <1>1, <1>6
  <2>9. UNCHANGED <<ndCache, ndWrites, ndLost>>
    BY <1>7
  <2>10. k \notin ndLost => /\ ndWork'[k].root = ndRoots'[k] /\ ndRoots'[k] <= ndStarts'[k] + 1
                            /\ ndWork'[k].created = FALSE => ndWork'[k].st.root = ndRoots'[k]
    BY <2>6, <1>1, <1>5
  <2>11. ndWork'[k].root # 0 /\ (ndWork'[k].ev = "Start" => ndWork'[k].created = TRUE)
         /\ (ndWork'[k].created = TRUE /\ ndWork'[k].ev # "Start" => ndWork'[k].st = NoThread)
    BY <2>6, <1>4
  <2> QED
    BY <2>4, <2>5, <2>6, <2>7, <2>8, <2>9, <2>10, <2>11, <1>1, <1>2, <1>t, ProgressNDInv
<1>8. CASE /\ ReportDelivery(k, w.st)
           /\ ndLost' = IF w.created THEN ndLost \cup {k} ELSE ndLost
           /\ UNCHANGED ndMark
  <2>1. k \notin ndLost' => k \notin ndLost /\ ~w.created
    BY <1>8
  <2>2. ~w.created => w.created = FALSE
    BY <1>3, Zenon
  <2>3. k \notin ndLost' => w.st.root = ndRoots[k]
    BY <2>1, <2>2, <1>5
  <2>4. k \notin ndLost' /\ k \notin ndUnmarked' =>
          ndEmoji'[k] = Shown(w.st.reaction) /\ (ndMark[k] # "" => ndMark[k] = w.st.reaction)
    BY <2>1, <2>2, <1>1, <1>6
  <2>5. ndLost' = ndLost \/ ndLost' = ndLost \cup {k}
    BY <1>8
  <2> QED
    BY <2>3, <2>4, <2>5, <1>1, <1>2, <1>3, <1>8, <1>t, ReportNDInv
<1> QED
  BY <1>1, <1>7, <1>8

\* A sink state with a root and a reaction.
LEMMA RootedState ==
  ASSUME NEW m, m \in [root : Nat, reaction : Reactions], m.root # 0
  PROVE  m \in SinkStates /\ m # NoThread
BY NoThreadFacts DEF SinkStates

\* SyncThreadRootReaction: the root shows what is reported.  A mark of an outcome gives
\* way to that of a later outcome only.
LEMMA ReactionNDInv ==
  ASSUME NDInv, NEW k \in Streams, SyncThreadRootReaction(k)
  PROVE  NDInv'
<1> DEFINE w    == ndWork[k]
           prev == IF w.ev = "Start" \/ w.created THEN "" ELSE w.st.reaction
           next == ReactionForEvent(w.ev)
           keep == ~w.created /\ ShouldPreserveTerminalRoot(w.st.reaction, w.ev)
<1>1. /\ UNCHANGED <<ndCurrent, ndSlot, ndStored, ndOrder, ndRoots, ndMark, ndStarts, ndLost>>
      /\ w.pc = "react"
      /\ \/ /\ keep \/ ~ShouldBump(w)
            /\ ReportDelivery(k, MergeStates(w.st, w.root, w.st.reaction))
            /\ UNCHANGED <<ndEmoji, ndUnmarked>>
         \/ /\ ~keep /\ ShouldBump(w)
            /\ ndEmoji' = [ndEmoji EXCEPT ![k] = (@ \ {prev}) \cup {next}]
            /\ ReportDelivery(k, MergeStates(w.st, w.root, next))
            /\ UNCHANGED ndUnmarked
         \/ /\ \E gone \in {{}, {prev}} : ndEmoji' = [ndEmoji EXCEPT ![k] = @ \ gone]
            /\ ReportDelivery(k, MergeStates(w.st, w.root, w.st.reaction))
            /\ ndUnmarked' = ndUnmarked \cup {k}
  BY DEF SyncThreadRootReaction, Status
<1>2. Active(k)
  BY <1>1, AtStepIsActive
<1>3. /\ w \in Deliveries /\ w.st \in SinkStates /\ w.root \in Nat /\ w.created \in BOOLEAN
      /\ DeliveryInv(k) /\ (k \notin ndLost => MemoryInv(k))
      /\ (k \notin ndLost /\ k \notin ndUnmarked => MarkInv(k))
  BY <1>2, ActiveFacts
<1>c. (w.created => w.created = TRUE) /\ (~w.created => w.created = FALSE)
  BY <1>3, Zenon
<1>4. /\ w.root # 0 /\ (w.ev = "Start" => w.created = TRUE)
      /\ (w.created = TRUE /\ w.ev # "Start" => w.st = NoThread)
  BY <1>1, <1>2, <1>3 DEF DeliveryInv
<1>5. k \notin ndLost => w.root = ndRoots[k]
  BY <1>1, <1>2, <1>3 DEF MemoryInv
<1>6. k \notin ndLost /\ k \notin ndUnmarked =>
        /\ w.created = TRUE => ndEmoji[k] = {}
        /\ w.created = FALSE => ndEmoji[k] = Shown(w.st.reaction)
        /\ w.ev \notin Terminal =>
             (ndMark[k] # "" => w.created = FALSE /\ ndMark[k] = w.st.reaction)
        /\ w.ev \in Terminal => ndMark[k] = next
  BY <1>1, <1>2, <1>3 DEF MarkInv
<1>r. w.st.reaction \in Reactions /\ NoThread.reaction = ""
  BY <1>3, NoThreadFacts
<1>n. /\ next \in Reactions /\ (w.ev \in Terminal => next \in {"check", "x"})
      /\ (w.ev = "Start" => next = "loading")
  BY ReactionFacts
<1>t. ndEmoji \in [Streams -> SUBSET Reactions] /\ ndMark[k] \in {"", "check", "x"}
  BY DEF NDInv, NDTypes
<1> DEFINE old == MergeStates(w.st, w.root, w.st.reaction)
           new == MergeStates(w.st, w.root, next)
<1>m. w.st \in SinkStates /\ w.root \in Nat /\ w.root # 0 /\ w.st.reaction \in Reactions
      /\ next \in Reactions
  BY <1>3, <1>4, <1>r, <1>n
<1> HIDE DEF next
<1>7. old \in SinkStates /\ old # NoThread /\ old.root = w.root
      /\ old.reaction = w.st.reaction
  <2>1. PICK s, n, r : s = w.st /\ n = w.root /\ r = w.st.reaction
    OBVIOUS
  <2>2. s.reaction \in Reactions /\ n \in Nat /\ n # 0 /\ r \in Reactions
    BY <2>1, <1>m
  <2>3. old = [root |-> n, reaction |-> IF r # "" THEN r ELSE s.reaction]
    BY <2>1, <2>2 DEF MergeStates
  <2> HIDE DEF old
  <2>4. old \in [root : Nat, reaction : Reactions] /\ old.root = n
        /\ old.reaction = (IF r # "" THEN r ELSE s.reaction)
    BY <2>2, <2>3
  <2>5. old \in SinkStates /\ old # NoThread
    BY <2>2, <2>4, RootedState
  <2> QED
    BY <2>1, <2>4, <2>5
<1>8. new \in SinkStates /\ new # NoThread /\ new.root = w.root
      /\ (next # "" => new.reaction = next)
  <2>1. PICK s, n, r : s = w.st /\ n = w.root /\ r = next
    OBVIOUS
  <2>2. s.reaction \in Reactions /\ n \in Nat /\ n # 0 /\ r \in Reactions
    BY <2>1, <1>m
  <2>3. new = [root |-> n, reaction |-> IF r # "" THEN r ELSE s.reaction]
    BY <2>1, <2>2 DEF MergeStates
  <2> HIDE DEF new
  <2>4. new \in [root : Nat, reaction : Reactions] /\ new.root = n
        /\ new.reaction = (IF r # "" THEN r ELSE s.reaction)
    BY <2>2, <2>3
  <2>5. new \in SinkStates /\ new # NoThread
    BY <2>2, <2>4, RootedState
  <2> QED
    BY <2>1, <2>4, <2>5
<1> USE DEF next
<1>b. ShouldBump(w) <=> next # "" /\ (w.created \/ w.ev = "Start" \/ w.st.reaction # next)
  BY DEF ShouldBump
<1>p. keep <=> ~w.created /\ w.st.reaction \in {"check", "x"} /\ w.ev \notin Terminal
  BY DEF ShouldPreserveTerminalRoot, IsTerminalReaction
<1>e. prev = (IF w.ev = "Start" \/ w.created THEN "" ELSE w.st.reaction)
  OBVIOUS
<1> HIDE DEF keep, prev, next, old, new
<1>9. CASE /\ keep \/ ~ShouldBump(w)
           /\ ReportDelivery(k, old)
           /\ UNCHANGED <<ndEmoji, ndUnmarked>>
  <2>1. ASSUME k \notin ndLost, k \notin ndUnmarked
        PROVE  ndEmoji[k] = Shown(old.reaction) /\ (ndMark[k] # "" => ndMark[k] = old.reaction)
    <3>1. CASE w.created
      <4>1. next = "" /\ w.ev \notin Terminal /\ w.ev # "Start" /\ w.created = TRUE
        BY <3>1, <1>9, <1>b, <1>p, <1>c, <1>n
      <4>2. w.st.reaction = ""
        BY <4>1, <1>4, <1>r
      <4>3. ndEmoji[k] = {} /\ ndMark[k] = ""
        BY <4>1, <2>1, <1>6
      <4> QED
        BY <4>2, <4>3, <1>7 DEF Shown
    <3>2. CASE ~w.created
      <4>1. ndEmoji[k] = Shown(w.st.reaction)
        BY <3>2, <2>1, <1>c, <1>6
      <4>2. w.ev \in Terminal => ndMark[k] = w.st.reaction
        BY <3>2, <2>1, <1>9, <1>b, <1>p, <1>n, <1>6
      <4> QED
        BY <4>1, <4>2, <2>1, <1>6, <1>7
    <3> QED
      BY <3>1, <3>2
  <2> QED
    BY <2>1, <1>1, <1>2, <1>5, <1>7, <1>9, <1>t, ReportNDInv
<1>10. CASE /\ ~keep /\ ShouldBump(w)
            /\ ndEmoji' = [ndEmoji EXCEPT ![k] = (@ \ {prev}) \cup {next}]
            /\ ReportDelivery(k, new)
            /\ UNCHANGED ndUnmarked
  <2>1. next # "" /\ new.reaction = next
    BY <1>10, <1>b, <1>8
  <2>2. ndEmoji' \in [Streams -> SUBSET Reactions] /\ ndEmoji'[k] = (ndEmoji[k] \ {prev}) \cup {next}
        /\ \A j \in Streams : j # k => ndEmoji'[j] = ndEmoji[j]
    BY <1>10, <1>t, <1>n
  <2>3. ASSUME k \notin ndLost, k \notin ndUnmarked
        PROVE  ndEmoji'[k] = Shown(next) /\ (ndMark[k] # "" => ndMark[k] = next)
    <3>1. ndEmoji[k] \ {prev} = {}
      <4>1. CASE w.created
        BY <4>1, <2>3, <1>c, <1>6
      <4>2. CASE ~w.created
        <5>1. prev = w.st.reaction /\ ndEmoji[k] = Shown(w.st.reaction)
          BY <4>2, <2>3, <1>c, <1>4, <1>6, <1>e
        <5> QED
          BY <5>1 DEF Shown
      <4> QED
        BY <4>1, <4>2
    <3>2. ndEmoji'[k] = Shown(next)
      BY <3>1, <2>1, <2>2 DEF Shown
    <3>3. w.ev \notin Terminal => ndMark[k] = ""
      BY <2>3, <1>10, <1>p, <1>c, <1>t, <1>6
    <3> QED
      BY <3>2, <3>3, <2>3, <1>6
  <2> QED
    BY <2>1, <2>2, <2>3, <1>1, <1>2, <1>5, <1>8, <1>10, ReportNDInv
<1>11. CASE /\ \E gone \in {{}, {prev}} : ndEmoji' = [ndEmoji EXCEPT ![k] = @ \ gone]
            /\ ReportDelivery(k, old)
            /\ ndUnmarked' = ndUnmarked \cup {k}
  <2>1. PICK gone \in {{}, {prev}} : ndEmoji' = [ndEmoji EXCEPT ![k] = @ \ gone]
    BY <1>11
  <2>2. ndEmoji' \in [Streams -> SUBSET Reactions]
        /\ \A j \in Streams : j # k => ndEmoji'[j] = ndEmoji[j]
    BY <2>1, <1>t
  <2>3. k \in ndUnmarked'
    BY <1>11
  <2> QED
    BY <2>2, <2>3, <1>1, <1>2, <1>5, <1>7, <1>11, ReportNDInv
<1> QED
  BY <1>1, <1>9, <1>10, <1>11 DEF keep, prev, next, old, new

-----------------------------------------------------------------------------
(* The status writer *)

Distinct(s) == \A i, j \in 1..Len(s) : i # j => s[i] # s[j]

\* OtherEntries drops one entry and keeps the order of the others.
LEMMA OtherEntriesFacts ==
  ASSUME NEW s \in Seq(Streams), Distinct(s), NEW k \in Streams
  PROVE  /\ OtherEntries(s, k) \in Seq(Streams)
         /\ Len(OtherEntries(s, k)) <= Len(s)
         /\ \A i \in 1..Len(OtherEntries(s, k)) :
              OtherEntries(s, k)[i] # k /\ \E a \in 1..Len(s) : s[a] = OtherEntries(s, k)[i]
         /\ \A i, j \in 1..Len(OtherEntries(s, k)) : i < j =>
              \E a, b \in 1..Len(s) :
                a < b /\ s[a] = OtherEntries(s, k)[i] /\ s[b] = OtherEntries(s, k)[j]
         /\ \A a \in 1..Len(s) : s[a] # k =>
              \E i \in 1..Len(OtherEntries(s, k)) : OtherEntries(s, k)[i] = s[a]
<1> DEFINE n == Len(s)
           p == CHOOSE i \in 1..Len(s) : s[i] = k
           w == OtherEntries(s, k)
<1>1. n \in Nat /\ \A i \in 1..n : s[i] \in Streams
  BY ElementOfSeq
<1>2. \A i, j \in 1..n : i # j => s[i] # s[j]
  BY DEF Distinct
<1>3. CASE ~\E i \in 1..Len(s) : s[i] = k
  <2>1. OtherEntries(s, k) = s
    BY <1>3 DEF OtherEntries
  <2> QED
    BY <2>1, <1>1, <1>3
<1>4. CASE \E i \in 1..Len(s) : s[i] = k
  <2>1. p \in 1..n /\ s[p] = k
    BY <1>4
  <2>2. w = [i \in 1..(n - 1) |-> IF i < p THEN s[i] ELSE s[i + 1]]
    BY <1>4 DEF OtherEntries
  <2>3. n = Len(s) /\ w = OtherEntries(s, k)
    OBVIOUS
  <2> HIDE DEF n, p, w
  <2>4. \A i \in 1..(n - 1) : w[i] = IF i < p THEN s[i] ELSE s[i + 1]
    BY <2>2
  <2>5. w \in Seq(Streams) /\ Len(w) = n - 1
    BY <1>1, <2>1, <2>2
  <2>6. ASSUME NEW i \in 1..(n - 1) PROVE w[i] # k /\ \E a \in 1..n : s[a] = w[i]
    BY <1>1, <1>2, <2>1, <2>4
  <2>7. ASSUME NEW i \in 1..(n - 1), NEW j \in 1..(n - 1), i < j
        PROVE  \E a, b \in 1..n : a < b /\ s[a] = w[i] /\ s[b] = w[j]
    <3>1. CASE j < p
      <4>1. w[i] = s[i] /\ w[j] = s[j] /\ i \in 1..n /\ j \in 1..n
        BY <3>1, <2>7, <2>1, <2>4, <1>1
      <4> QED
        BY <4>1, <2>7
    <3>2. CASE ~(j < p) /\ i < p
      <4>1. w[i] = s[i] /\ w[j] = s[j + 1] /\ i \in 1..n /\ j + 1 \in 1..n /\ i < j + 1
        BY <3>2, <2>7, <2>1, <2>4, <1>1
      <4> QED
        BY <4>1
    <3>3. CASE ~(i < p)
      <4>1. w[i] = s[i + 1] /\ w[j] = s[j + 1] /\ i + 1 \in 1..n /\ j + 1 \in 1..n /\ i + 1 < j + 1
        BY <3>3, <2>7, <2>1, <2>4, <1>1
      <4> QED
        BY <4>1
    <3> QED
      BY <3>1, <3>2, <3>3
  <2>8. ASSUME NEW a \in 1..n, s[a] # k PROVE \E i \in 1..(n - 1) : w[i] = s[a]
    <3>1. CASE a < p
      <4>1. a \in 1..(n - 1) /\ w[a] = s[a]
        BY <3>1, <2>1, <2>4, <1>1
      <4> QED
        BY <4>1
    <3>2. CASE a > p
      <4>1. a - 1 \in 1..(n - 1) /\ w[a - 1] = s[(a - 1) + 1] /\ (a - 1) + 1 = a
        BY <3>2, <2>1, <2>4, <1>1
      <4> QED
        BY <4>1
    <3> QED
      BY <3>1, <3>2, <2>1, <2>8, <1>1
  <2>9. Len(w) <= n
    BY <2>5, <1>1
  <2>10. \A i \in 1..Len(w) : w[i] # k /\ \E a \in 1..Len(s) : s[a] = w[i]
    BY <2>3, <2>5, <2>6
  <2>r. \A i, j \in 1..Len(w) : i < j =>
          \E a, b \in 1..Len(s) : a < b /\ s[a] = w[i] /\ s[b] = w[j]
    <3> SUFFICES ASSUME NEW i \in 1..Len(w), NEW j \in 1..Len(w), i < j
                 PROVE  \E a, b \in 1..Len(s) : a < b /\ s[a] = w[i] /\ s[b] = w[j]
      OBVIOUS
    <3>1. i \in 1..(n - 1) /\ j \in 1..(n - 1)
      BY <2>5
    <3>2. \E a, b \in 1..n : a < b /\ s[a] = w[i] /\ s[b] = w[j]
      BY <3>1, <2>7
    <3> QED
      BY <3>2, <2>3
  <2>11. \A a \in 1..Len(s) : s[a] # k => \E i \in 1..Len(w) : w[i] = s[a]
    BY <2>3, <2>5, <2>8, Zenon
  <2>12. w \in Seq(Streams) /\ Len(w) <= Len(s)
    BY <2>3, <2>5, <2>9
  <2> QED
    BY <2>10, <2>r, <2>11, <2>12 DEF w
<1> QED
  BY <1>3, <1>4

\* The order of entries with room for one more: distinct streams that have begun, those
\* after the current one of the last NdKept operations.
LongOrder(s) ==
  /\ s \in Seq(Streams) /\ Len(s) <= NdKept + 1 /\ Distinct(s)
  /\ \A i \in 1..Len(s) : s[i] <= ndCurrent
  /\ \A i, j \in 1..Len(s) : i < j /\ s[i] = ndCurrent => s[j] > ndCurrent - NdKept

\* The entry that is pruned is never the current operation's: no more than NdKept - 1
\* others could come after it.
LEMMA CurrentStays ==
  ASSUME NDTypes, NEW s, LongOrder(s), Len(s) > NdKept
  PROVE  s[1] # ndCurrent
<1> SUFFICES ASSUME s[1] = ndCurrent PROVE FALSE
  OBVIOUS
<1>1. ndCurrent \in Int /\ NdKept \in Nat /\ NdKept >= 1
  <2>1. ndCurrent \in Streams
    BY DEF NDTypes
  <2> QED
    BY <2>1, NdAssumption DEF Streams
<1>2. Len(s) = NdKept + 1 /\ \A i \in 1..(NdKept + 1) : s[i] \in Int /\ s[i] <= ndCurrent
  <2>1. s \in Seq(Streams) /\ Len(s) <= NdKept + 1
    BY DEF LongOrder
  <2>2. Len(s) = NdKept + 1
    BY <2>1, <1>1
  <2>3. \A i \in 1..Len(s) : s[i] \in Streams /\ s[i] <= ndCurrent
    BY <2>1, ElementOfSeq DEF LongOrder
  <2>4. \A x \in Streams : x \in Int
    BY DEF Streams
  <2> QED
    BY <2>2, <2>3, <2>4
<1>3. \A i, j \in 1..(NdKept + 1) : i # j => s[i] # s[j]
  BY <1>2 DEF LongOrder, Distinct
<1>4. \A j \in 1..(NdKept + 1) : 1 < j => s[j] > ndCurrent - NdKept
  <2>1. 1 \in 1..(NdKept + 1)
    BY <1>1
  <2> QED
    BY <2>1, <1>2 DEF LongOrder
<1> DEFINE lo == ndCurrent - NdKept + 1
           hi == ndCurrent - 1
           f == [i \in 1..NdKept |-> s[i + 1]]
<1>5. ASSUME NEW i \in 1..NdKept PROVE s[i + 1] \in lo..hi
  <2>1. i + 1 \in 1..(NdKept + 1) /\ 1 < i + 1 /\ 1 \in 1..(NdKept + 1) /\ i + 1 # 1
    BY <1>1
  <2>2. s[i + 1] \in Int /\ s[i + 1] <= ndCurrent /\ s[i + 1] > ndCurrent - NdKept
    BY <2>1, <1>2, <1>4
  <2>3. s[i + 1] # ndCurrent
    BY <2>1, <1>3
  <2> QED
    BY <2>2, <2>3, <1>1
<1>6. f \in [1..NdKept -> lo..hi]
  BY <1>5
<1>7. lo \in Int /\ hi \in Int /\ (IF lo > hi THEN 0 ELSE hi - lo + 1) = NdKept - 1
  BY <1>1
<1>8. IsFiniteSet(1..NdKept) /\ Cardinality(1..NdKept) = NdKept
  <2>1. 1 \in Int /\ NdKept \in Int /\ (IF 1 > NdKept THEN 0 ELSE NdKept - 1 + 1) = NdKept
    BY <1>1
  <2> QED
    BY <2>1, FS_Interval
<1> HIDE DEF lo, hi
<1>9. IsFiniteSet(lo..hi) /\ Cardinality(lo..hi) = NdKept - 1
  BY <1>7, FS_Interval
<1>10. Cardinality(lo..hi) < Cardinality(1..NdKept)
  BY <1>1, <1>8, <1>9
<1> HIDE DEF f
<1>11. PICK x \in 1..NdKept, y \in 1..NdKept : x # y /\ f[x] = f[y]
  BY <1>6, <1>8, <1>9, <1>10, FS_PigeonHole
<1>12. s[x + 1] = s[y + 1]
  BY <1>11 DEF f
<1>13. x + 1 \in 1..(NdKept + 1) /\ y + 1 \in 1..(NdKept + 1) /\ x + 1 # y + 1
  BY <1>1, <1>11
<1> QED
  BY <1>3, <1>12, <1>13

\* The entry of a delivery goes to the end of the order.
LEMMA UpsertOrder ==
  ASSUME NDTypes, OrderInv, NEW k \in Streams, k <= ndCurrent, k > ndCurrent - NdKept
  PROVE  /\ LongOrder(Append(OtherEntries(ndOrder, k), k))
         /\ \A j \in Streams : (\E i \in 1..Len(ndOrder) : ndOrder[i] = j) =>
              \E i \in 1..Len(Append(OtherEntries(ndOrder, k), k)) :
                Append(OtherEntries(ndOrder, k), k)[i] = j
         /\ Append(OtherEntries(ndOrder, k), k)[Len(Append(OtherEntries(ndOrder, k), k))] = k
         /\ Len(Append(OtherEntries(ndOrder, k), k)) >= 1
<1> DEFINE o == OtherEntries(ndOrder, k)
           n == Len(o)
           q == Append(o, k)
<1>1. ndOrder \in Seq(Streams) /\ Len(ndOrder) \in Nat
  <2>1. ndOrder \in Seq(Streams)
    BY DEF NDTypes
  <2> QED
    BY <2>1
<1>2. Distinct(ndOrder)
  BY DEF OrderInv, Distinct
<1>3. /\ o \in Seq(Streams) /\ n <= Len(ndOrder)
      /\ \A i \in 1..n : o[i] # k /\ \E a \in 1..Len(ndOrder) : ndOrder[a] = o[i]
      /\ \A i, j \in 1..n : i < j =>
           \E a, b \in 1..Len(ndOrder) : a < b /\ ndOrder[a] = o[i] /\ ndOrder[b] = o[j]
      /\ \A a \in 1..Len(ndOrder) : ndOrder[a] # k => \E i \in 1..n : o[i] = ndOrder[a]
  BY <1>1, <1>2, OtherEntriesFacts
<1> HIDE DEF o
<1>4. n \in Nat /\ q \in Seq(Streams) /\ Len(q) = n + 1 /\ q[n + 1] = k
      /\ \A i \in 1..n : q[i] = o[i]
  BY <1>3, AppendProperties
<1>s. q = Append(OtherEntries(ndOrder, k), k)
  BY DEF o
<1> HIDE DEF n, q
<1>5. Len(q) <= NdKept + 1
  <2>1. Len(ndOrder) <= NdKept
    BY DEF OrderInv
  <2> QED
    BY <2>1, <1>1, <1>3, <1>4, NdAssumption DEF n
<1>6. Distinct(q)
  <2> SUFFICES ASSUME NEW i \in 1..(n + 1), NEW j \in 1..(n + 1), i < j PROVE q[i] # q[j]
    BY <1>4 DEF Distinct
  <2>1. i \in 1..n
    BY <1>4
  <2>2. CASE j = n + 1
    BY <2>1, <2>2, <1>3, <1>4 DEF n
  <2>3. CASE j \in 1..n
    <3>1. PICK a, b \in 1..Len(ndOrder) : a < b /\ ndOrder[a] = o[i] /\ ndOrder[b] = o[j]
      BY <2>1, <2>3, <1>3 DEF n
    <3>2. a # b
      BY <3>1, <1>1
    <3> QED
      BY <3>1, <3>2, <2>1, <2>3, <1>2, <1>4 DEF Distinct
  <2> QED
    BY <2>2, <2>3, <1>4
<1>7. \A i \in 1..Len(q) : q[i] <= ndCurrent
  <2> SUFFICES ASSUME NEW i \in 1..(n + 1) PROVE q[i] <= ndCurrent
    BY <1>4
  <2>1. CASE i = n + 1
    BY <2>1, <1>4
  <2>2. CASE i \in 1..n
    <3>1. PICK a \in 1..Len(ndOrder) : ndOrder[a] = o[i]
      BY <2>2, <1>3 DEF n
    <3>2. ndOrder[a] <= ndCurrent
      BY DEF OrderInv
    <3> QED
      BY <3>1, <3>2, <2>2, <1>4
  <2> QED
    BY <2>1, <2>2, <1>4
<1>8. \A i, j \in 1..Len(q) : i < j /\ q[i] = ndCurrent => q[j] > ndCurrent - NdKept
  <2> SUFFICES ASSUME NEW i \in 1..(n + 1), NEW j \in 1..(n + 1), i < j, q[i] = ndCurrent
               PROVE  q[j] > ndCurrent - NdKept
    BY <1>4
  <2>1. CASE j = n + 1
    BY <2>1, <1>4
  <2>2. CASE j \in 1..n
    <3>0. i \in 1..n
      BY <1>4
    <3>1. PICK a, b \in 1..Len(ndOrder) : a < b /\ ndOrder[a] = o[i] /\ ndOrder[b] = o[j]
      BY <3>0, <2>2, <1>3 DEF n
    <3> QED
      BY <3>0, <3>1, <2>2, <1>4 DEF OrderInv
  <2> QED
    BY <2>1, <2>2, <1>4
<1>9. ASSUME NEW j \in Streams, NEW i \in 1..Len(ndOrder), ndOrder[i] = j
      PROVE  \E m \in 1..Len(q) : q[m] = j
  <2>1. CASE j = k
    BY <2>1, <1>4
  <2>2. CASE j # k
    <3>1. PICK m \in 1..n : o[m] = j
      BY <2>2, <1>3, <1>9 DEF n
    <3> QED
      BY <3>1, <1>4
  <2> QED
    BY <2>1, <2>2
<1>10. LongOrder(q)
  BY <1>4, <1>5, <1>6, <1>7, <1>8 DEF LongOrder
<1>11. q[Len(q)] = k /\ Len(q) >= 1
  BY <1>4
<1> QED
  BY <1>9, <1>10, <1>11, <1>s

\* ApplyResult: the status learns what the delivery reported, and prunes an entry that
\* is not the current operation's.
LEMMA ApplyResultNDInv ==
  ASSUME NDInv, ApplyResult
  PROVE  NDInv'
<1>0. PICK k, st : k = Head(ndWrites).stream /\ st = Head(ndWrites).st
  OBVIOUS
<1> DEFINE order == Append(OtherEntries(ndOrder, k), k)
           kept  == IF Len(order) > NdKept THEN Tail(order) ELSE order
<1>1. NDTypes /\ OrderInv
  BY DEF NDInv
<1>2. /\ UNCHANGED <<ndCurrent, ndSlot, ndWork, ndCache, ndRoots, ndEmoji, ndMark, ndStarts>>
      /\ UNCHANGED ndUnmarked
      /\ ndWrites # <<>> /\ ndWrites' = Tail(ndWrites)
  BY DEF ApplyResult, Slack
<1>c. \/ /\ ndOrder' = kept
         /\ ndStored' = [j \in Streams |->
               IF j = k THEN st
               ELSE IF \E i \in 1..Len(kept) : kept[i] = j THEN ndStored[j] ELSE NoThread]
         /\ UNCHANGED ndLost
      \/ /\ ndLost' = ndLost \cup {k}
         /\ UNCHANGED <<ndStored, ndOrder>>
  <2> DEFINE entries == Append(OtherEntries(ndOrder, Head(ndWrites).stream), Head(ndWrites).stream)
             rest    == IF Len(entries) > NdKept THEN Tail(entries) ELSE entries
  <2>1. \/ /\ ndOrder' = rest
           /\ ndStored' = [j \in Streams |->
                 IF j = Head(ndWrites).stream THEN Head(ndWrites).st
                 ELSE IF \E i \in 1..Len(rest) : rest[i] = j THEN ndStored[j] ELSE NoThread]
           /\ UNCHANGED ndLost
        \/ /\ ndLost' = ndLost \cup {Head(ndWrites).stream}
           /\ UNCHANGED <<ndStored, ndOrder>>
    BY Zenon DEF ApplyResult, Status
  <2>2. entries = order
    BY <1>0
  <2> HIDE DEF entries, order
  <2>3. rest = kept
    BY <2>2
  <2> HIDE DEF rest, kept
  <2> QED
    BY <1>0, <2>1, <2>3
<1>3. /\ \A j \in Streams : WriteInv(j) => WriteInv(j)'
      /\ \A j \in Streams : j # k => (Pending(j)' <=> Pending(j))
      /\ \A j \in Streams : Pending(j)' => Pending(j)
      /\ k \in Streams /\ st \in SinkStates /\ Pending(k)
      /\ \A j \in Streams : WriteInv(j) /\ j = k =>
           /\ ndCache[j] = NoThread => st = NoThread
           /\ ~Pending(j)' => st = ndCache[j]
  BY <1>0, <1>1, <1>2, TailWrites
<1>4. k \in Streams /\ st \in SinkStates
  BY <1>3
<1>5. ~AtRest(k)
  BY <1>3 DEF AtRest
<1>w. ndWrites' \in Seq([stream : Streams, st : SinkStates])
  <2>1. ndWrites \in Seq([stream : Streams, st : SinkStates])
    BY <1>1 DEF NDTypes
  <2> QED
    BY <2>1, <1>2, HeadTailProperties
<1>d. DeliveryInv(k)'
  <2>1. DeliveryInv(k)
    BY <1>4 DEF NDInv, StreamInv
  <2> QED
    BY <2>1, <1>2 DEF DeliveryInv, Active
<1>t. ndStored \in [Streams -> SinkStates] /\ ndLost \in SUBSET Streams
  BY <1>1 DEF NDTypes
<1>6. CASE ndLost' = ndLost \cup {k} /\ UNCHANGED <<ndStored, ndOrder>>
  <2>1. ndLost' \in SUBSET Streams /\ k \in ndLost'
        /\ \A j \in Streams : j \notin ndLost' => j \notin ndLost
    BY <1>6, <1>4, <1>t
  <2>2. NDTypes'
    BY <2>1, <1>1, <1>2, <1>6, <1>w DEF NDTypes
  <2>3. OthersKept(k)
    BY <2>1, <1>2 DEF OthersKept
  <2> QED
    BY <2>1, <2>2, <2>3, <1>2, <1>3, <1>4, <1>5, <1>6, <1>d, OneStream
<1>7. CASE /\ ndOrder' = kept
           /\ ndStored' = [j \in Streams |->
                 IF j = k THEN st
                 ELSE IF \E i \in 1..Len(kept) : kept[i] = j THEN ndStored[j] ELSE NoThread]
           /\ UNCHANGED ndLost
  <2>1. k <= ndCurrent /\ k > ndCurrent - NdKept /\ ~(k > ndCurrent) /\ ~(k <= ndCurrent - NdKept)
    BY <1>4, <1>5, BusyIsRecent
  <2>2. /\ LongOrder(order)
        /\ \A j \in Streams : (\E i \in 1..Len(ndOrder) : ndOrder[i] = j) =>
             \E i \in 1..Len(order) : order[i] = j
        /\ order[Len(order)] = k /\ Len(order) >= 1
    BY <1>1, <1>4, <2>1, UpsertOrder
  <2>3. ndOrder' = IF Len(order) > NdKept THEN Tail(order) ELSE order
    BY <1>7
  <2>4. /\ ndStored' \in [Streams -> SinkStates] /\ ndStored'[k] = st
        /\ \A j \in Streams : j # k =>
             ndStored'[j] = IF \E i \in 1..Len(ndOrder') : ndOrder'[i] = j THEN ndStored[j] ELSE NoThread
    BY <1>4, <1>7, <1>t, NoThreadFacts
  <2> HIDE DEF order, kept
  <2>5. order \in Seq(Streams) /\ Len(order) \in Nat /\ order # <<>> /\ NdKept \in Nat /\ NdKept >= 1
    <3>1. order \in Seq(Streams)
      BY <2>2 DEF LongOrder
    <3> QED
      BY <3>1, <2>2, NdAssumption
  <2>6. /\ ndOrder' \in Seq(Streams) /\ Len(ndOrder') <= NdKept
        /\ \A i \in 1..Len(ndOrder') : \E a \in 1..Len(order) : ndOrder'[i] = order[a]
        /\ \A i, j \in 1..Len(ndOrder') : i < j =>
             \E a, b \in 1..Len(order) : a < b /\ ndOrder'[i] = order[a] /\ ndOrder'[j] = order[b]
        /\ \A a \in 1..Len(order) : a # 1 \/ Len(order) <= NdKept =>
             \E i \in 1..Len(ndOrder') : ndOrder'[i] = order[a]
    <3>1. CASE ~(Len(order) > NdKept)
      <4>1. ndOrder' = order
        BY <3>1, <2>3
      <4> QED
        BY <3>1, <4>1, <2>5
    <3>2. CASE Len(order) > NdKept
      <4>0. Len(order) <= NdKept + 1
        BY <2>2 DEF LongOrder
      <4>1. ndOrder' = Tail(order)
        BY <3>2, <2>3
      <4>2. ndOrder' \in Seq(Streams) /\ Len(ndOrder') = Len(order) - 1
            /\ \A i \in 1..Len(ndOrder') : ndOrder'[i] = order[i + 1]
        BY <4>1, <2>5, HeadTailProperties
      <4>3. Len(ndOrder') <= NdKept
        BY <4>0, <4>2, <2>5
      <4>4. ASSUME NEW i \in 1..Len(ndOrder') PROVE i + 1 \in 1..Len(order) /\ ndOrder'[i] = order[i + 1]
        BY <4>2, <2>5
      <4>5. ASSUME NEW i \in 1..Len(ndOrder'), NEW j \in 1..Len(ndOrder'), i < j
            PROVE  \E a, b \in 1..Len(order) : a < b /\ ndOrder'[i] = order[a] /\ ndOrder'[j] = order[b]
        <5>1. i + 1 < j + 1
          BY <4>5, <4>2, <2>5
        <5> QED
          BY <5>1, <4>4
      <4>6. ASSUME NEW a \in 1..Len(order), a # 1 PROVE \E i \in 1..Len(ndOrder') : ndOrder'[i] = order[a]
        <5>1. a - 1 \in 1..Len(ndOrder') /\ (a - 1) + 1 = a
          BY <4>6, <4>2, <2>5
        <5> QED
          BY <5>1, <4>2
      <4>7. ~(Len(order) <= NdKept)
        BY <3>2, <2>5
      <4> QED
        BY <4>2, <4>3, <4>4, <4>5, <4>6, <4>7
    <3> QED
      BY <3>1, <3>2
  <2>7. \E i \in 1..Len(ndOrder') : ndOrder'[i] = k
    <3>1. Len(order) \in 1..Len(order) /\ (Len(order) # 1 \/ Len(order) <= NdKept)
      BY <2>2, <2>5
    <3> QED
      BY <3>1, <2>2, <2>6
  <2>8. OrderInv'
    <3>1. \A i \in 1..Len(ndOrder') : ndOrder'[i] <= ndCurrent'
      BY <2>2, <2>6, <1>2 DEF LongOrder
    <3>2. ASSUME NEW i \in 1..Len(ndOrder'), NEW j \in 1..Len(ndOrder'), i < j
          PROVE  ndOrder'[i] # ndOrder'[j]
      <4>1. PICK a, b \in 1..Len(order) : a < b /\ ndOrder'[i] = order[a] /\ ndOrder'[j] = order[b]
        BY <3>2, <2>6
      <4>2. a # b
        BY <4>1, <2>5
      <4> QED
        BY <4>1, <4>2, <2>2 DEF LongOrder, Distinct
    <3>3. \A i, j \in 1..Len(ndOrder') : i # j => ndOrder'[i] # ndOrder'[j]
      <4>1. Len(ndOrder') \in Nat
        BY <2>6
      <4>2. \A i, j \in 1..Len(ndOrder') : i # j => i < j \/ j < i
        BY <4>1
      <4> QED
        BY <4>2, <3>2
    <3>4. ASSUME NEW i \in 1..Len(ndOrder'), NEW j \in 1..Len(ndOrder'), i < j, ndOrder'[i] = ndCurrent
          PROVE  ndOrder'[j] > ndCurrent - NdKept
      <4>1. PICK a, b \in 1..Len(order) : a < b /\ ndOrder'[i] = order[a] /\ ndOrder'[j] = order[b]
        BY <3>4, <2>6
      <4> QED
        BY <4>1, <3>4, <2>2 DEF LongOrder
    <3>5. \A j \in Streams : ndStored'[j] # NoThread => \E i \in 1..Len(ndOrder') : ndOrder'[i] = j
      BY <2>4, <2>7
    <3> QED
      BY <2>6, <3>1, <3>3, <3>4, <3>5, <1>2 DEF OrderInv
  <2>9. NDTypes'
    BY <2>4, <2>6, <1>1, <1>2, <1>7, <1>w DEF NDTypes
  <2>10. ASSUME NEW j \in Streams, j # k PROVE StreamInv(j)'
    <3>1. ndStored'[j] = ndStored[j] \/ (j # ndCurrent /\ ndStored'[j] = NoThread)
      <4> SUFFICES ASSUME j = ndCurrent, ndStored[j] # NoThread PROVE ndStored'[j] = ndStored[j]
        BY <2>4, <2>10
      <4>1. PICK a \in 1..Len(order) : order[a] = j
        BY <2>2, <1>1 DEF OrderInv
      <4>2. a # 1 \/ Len(order) <= NdKept
        <5>1. CASE Len(order) > NdKept
          BY <5>1, <4>1, <2>2, <1>1, CurrentStays
        <5>2. CASE ~(Len(order) > NdKept)
          BY <5>2, <2>5
        <5> QED
          BY <5>1, <5>2
      <4>3. \E i \in 1..Len(ndOrder') : ndOrder'[i] = j
        <5>1. a # 1 \/ Len(order) <= NdKept => \E i \in 1..Len(ndOrder') : ndOrder'[i] = order[a]
          BY <2>6
        <5> QED
          BY <5>1, <4>1, <4>2
      <4> QED
        BY <4>3, <2>4, <2>10
    <3>2. (Pending(j)' <=> Pending(j)) /\ (WriteInv(j) => WriteInv(j)')
      BY <2>10, <1>3
    <3>3. /\ j \notin ndLost' => j \notin ndLost
          /\ j \notin ndUnmarked' => j \notin ndUnmarked
      BY <1>2, <1>7
    <3> QED
      BY <3>1, <3>2, <3>3, <1>2, OtherStream
  <2>11. StreamInv(k)'
    <3>1. StreamInv(k)
      BY <1>4 DEF NDInv
    <3>2. FutureInv(k)' /\ PastInv(k)'
      BY <2>1, <1>2 DEF FutureInv, PastInv
    <3>3. (Active(k)' <=> Active(k)) /\ (Expects(k)' <=> Expects(k))
      BY <1>2 DEF Active, Expects
    <3>4. ASSUME k \notin ndLost
          PROVE  /\ MemoryInv(k) /\ ResolveSinkState(k)' = ResolveSinkState(k)
                 /\ ndCache[k] = NoThread => ndStored'[k] = NoThread
      <4>1. MemoryInv(k)
        BY <3>1, <3>4 DEF StreamInv
      <4>2. ndCache[k] = NoThread => ndStored[k] = NoThread /\ st = NoThread
        BY <4>1, <1>3, <1>4 DEF MemoryInv
      <4> QED
        BY <4>1, <4>2, <2>4, <1>2 DEF ResolveSinkState
    <3>5. ASSUME k \notin ndLost PROVE MemoryInv(k)'
      <4>1. MemoryInv(k) /\ WriteInv(k)
        BY <3>4, <3>5 DEF MemoryInv
      <4>2. WriteInv(k)' /\ (~Pending(k)' => ndStored'[k] = ndCache[k])
        BY <4>1, <1>3, <1>4, <2>4
      <4> QED
        BY <4>1, <4>2, <3>3, <3>4, <3>5, <1>2 DEF MemoryInv
    <3>6. ASSUME k \notin ndLost, k \notin ndUnmarked PROVE MarkInv(k)'
      <4>1. MarkInv(k)
        BY <3>1, <3>6 DEF StreamInv
      <4> QED
        BY <4>1, <3>3, <3>4, <3>6, <1>2 DEF MarkInv
    <3> QED
      BY <3>2, <3>5, <3>6, <1>2, <1>7, <1>d DEF StreamInv
  <2> QED
    BY <2>8, <2>9, <2>10, <2>11 DEF NDInv
<1> QED
  BY <1>c, <1>6, <1>7

-----------------------------------------------------------------------------
(* The theorems *)

\* Every step keeps the invariant.
LEMMA NextNDInv == NDInv /\ [NDNext]_ndVars => NDInv'
<1> SUFFICES ASSUME NDInv, [NDNext]_ndVars PROVE NDInv'
  OBVIOUS
<1>1. ASSUME NEW e \in NdEvents, Submit(e) PROVE NDInv'
  BY <1>1, SubmitNDInv
<1>2. CASE NextOperation
  BY <1>2, NextOperationNDInv
<1>3. ASSUME NEW k \in Streams, TakeRequest(k) PROVE NDInv'
  BY <1>3, TakeRequestNDInv
<1>4. ASSUME NEW k \in Streams, SyncThreadRoot(k) PROVE NDInv'
  BY <1>4, SyncThreadRootNDInv
<1>5. ASSUME NEW k \in Streams, SendThreadReply(k) PROVE NDInv'
  BY <1>5, SendThreadReplyNDInv
<1>6. ASSUME NEW k \in Streams, SyncThreadRootReaction(k) PROVE NDInv'
  BY <1>6, ReactionNDInv
<1>7. ASSUME NEW k \in Streams, ExpireState(k) PROVE NDInv'
  BY <1>7, ExpireStateNDInv
<1>8. CASE ApplyResult
  BY <1>8, ApplyResultNDInv
<1>9. CASE Exit
  BY <1>9, ExitNDInv
<1>10. CASE UNCHANGED ndVars
  <2>1. /\ UNCHANGED <<ndCurrent, ndSlot, ndWork, ndCache, ndWrites, ndStored, ndOrder>>
        /\ UNCHANGED <<ndRoots, ndEmoji, ndMark, ndStarts, ndLost, ndUnmarked>>
    BY <1>10 DEF ndVars
  <2>2. NDTypes' /\ OrderInv'
    BY <2>1, OrderUnchanged DEF NDInv, NDTypes
  <2>3. ASSUME NEW j \in Streams PROVE StreamInv(j)'
    <3>1. (Pending(j)' <=> Pending(j)) /\ (WriteInv(j) => WriteInv(j)')
      BY <2>1, WritesKept
    <3> QED
      BY <2>1, <3>1, OtherStream
  <2> QED
    BY <2>2, <2>3 DEF NDInv
<1> QED
  BY <1>1, <1>2, <1>3, <1>4, <1>5, <1>6, <1>7, <1>8, <1>9, <1>10 DEF NDNext

\* Whatever is delivered, written, expired, pruned or lost with the process, what is
\* remembered of a thread is true of it (dispatcher.go resolveSinkState).
THEOREM DispatchInvariant == NDSpec => []NDInv
BY InitNDInv, NextNDInv, PTL DEF NDSpec

\* dispatcher.go reportDelivery, slack/delivery.go syncThreadRoot: a stream that has not
\* lost the memory of its thread has one root, and one more for each Start.
THEOREM OneThread == NDSpec => []OneThreadPerStart
<1>1. NDInv => OneThreadPerStart
  <2> SUFFICES ASSUME NDInv, NEW k \in Streams \ ndLost PROVE ndRoots[k] <= ndStarts[k] + 1
    BY DEF OneThreadPerStart
  <2>1. MemoryInv(k)
    BY DEF NDInv, StreamInv
  <2> QED
    BY <2>1 DEF MemoryInv
<1> QED
  BY <1>1, DispatchInvariant, PTL

\* slack/delivery.go shouldPreserveTerminalRoot: the root shows exactly the mark of the
\* last outcome, however late events arrive and whatever the process forgets.
THEOREM OutcomeMarked == NDSpec => []OutcomeStaysMarked
<1>1. NDInv => OutcomeStaysMarked
  <2> SUFFICES ASSUME NDInv, NEW k \in Streams \ (ndLost \cup ndUnmarked),
                      ndWork[k] = Resting, ndMark[k] # ""
               PROVE  ndEmoji[k] = {ndMark[k]}
    BY DEF OutcomeStaysMarked
  <2>1. MarkInv(k)
    BY DEF NDInv, StreamInv
  <2> QED
    BY <2>1 DEF MarkInv, Active
<1> QED
  BY <1>1, DispatchInvariant, PTL
=============================================================================
