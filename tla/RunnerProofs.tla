---------------------------- MODULE RunnerProofs ----------------------------
(***************************************************************************)
(* What is proved of the runner, its executors and the restore data, for   *)
(* any number of resources, any sizes, cycles and attempts, and any number *)
(* of faults, killed pods and changes by the owner: first what a save      *)
(* keeps and what a wakeup loads, then the inductive invariant of Runner   *)
(* and what follows from it.                                               *)
(***************************************************************************)
EXTENDS Runner, TLAPS

\* What an executor may have reported by the time of the flush.
Accumulators ==
  {a \in [Keys -> Entry] :
     \A k \in Keys : IF a[k].has THEN a[k].reported /\ a[k].stale = 0
                     ELSE a[k] = NoEntry}

\* An entry as saves leave it: it is stale or was reported in the cycle of the
\* data, and has not yet missed the saves that evict it.
KeptEntry(e) ==
  /\ e \in Entry
  /\ e.stale < MaxStaleCount
  /\ IF e.has THEN e.reported <=> e.stale = 0 ELSE e = NoEntry

Kept(d) == d \in Data /\ \A k \in Keys : KeptEntry(d.entries[k])

\* The executors reported k in this attempt, or in an earlier one of the cycle.
InCycle(d, a, cycle, k) ==
  a[k].has \/ (d.exists /\ d.cycle = cycle /\ d.entries[k].reported)

-----------------------------------------------------------------------------
\* The absent entry has the type of an entry.
LEMMA NoEntryType == NoEntry \in Entry
  BY DEF NoEntry, Entry

\* A key without a report keeps its shape, counts one more save or is evicted.
LEMMA UnreportedKept ==
  ASSUME NEW old, KeptEntry(old), NEW same \in BOOLEAN
  PROVE  /\ KeptEntry(Unreported(old, same))
         /\ Unreported(old, same).stale = 0 =>
              Unreported(old, same) = NoEntry \/ (same /\ old.reported /\ Unreported(old, same) = old)
<1> USE RestoreAssumption DEF KeptEntry
<1>1. CASE ~old.has
  BY <1>1, NoEntryType DEF Unreported, NoEntry, Entry
<1>2. CASE old.has /\ same /\ old.reported
  BY <1>2 DEF Unreported, Entry
<1>3. CASE old.has /\ ~(same /\ old.reported)
  <2>1. Unreported(old, same) = IF old.stale + 1 >= MaxStaleCount THEN NoEntry
                                ELSE [old EXCEPT !.stale = @ + 1, !.reported = FALSE]
    BY <1>3 DEF Unreported
  <2>2. CASE old.stale + 1 >= MaxStaleCount
    BY <2>1, <2>2, NoEntryType DEF NoEntry
  <2>3. CASE ~(old.stale + 1 >= MaxStaleCount)
    <3> DEFINE e == [has |-> old.has, dem |-> old.dem, size |-> old.size,
                     stale |-> old.stale + 1, reported |-> FALSE]
    <3>1. Unreported(old, same) = e
      BY <2>1, <2>3 DEF Entry
    <3>2. e \in Entry /\ e.stale # 0 /\ e.stale < MaxStaleCount /\ ~e.reported /\ e.has
      BY <1>3, <2>3 DEF Entry
    <3> HIDE DEF e
    <3> QED BY <3>1, <3>2
  <2> QED BY <2>2, <2>3
<1> QED BY <1>1, <1>2, <1>3

\* What the accumulator holds is well formed.
LEMMA AccumulatedKept ==
  ASSUME NEW a \in Accumulators, NEW k \in Keys
  PROVE  KeptEntry(a[k])
  BY RestoreAssumption, NoEntryType DEF Accumulators, KeptEntry, NoEntry, Entry

\* flush and SaveState (save.go) keep restore data well formed: no key is at once
\* reported and stale, none outlives MaxStaleCount saves without a report, and
\* what is evicted leaves nothing behind.
THEOREM SaveKeepsShape ==
  ASSUME NEW d, Kept(d), NEW a \in Accumulators, NEW cycle \in Nat
  PROVE  Kept(SaveState(d, a, cycle))
<1> USE RestoreAssumption
<1> DEFINE same == d.cycle = cycle
<1> DEFINE m == Merged(d.entries, a, same)
<1>1. ASSUME NEW k \in Keys
      PROVE  KeptEntry(m[k])
  <2>1. KeptEntry(d.entries[k]) /\ same \in BOOLEAN
    BY DEF Kept
  <2>2. CASE a[k].has
    <3>1. m[k] = a[k] \/ (m[k] = d.entries[k])
      BY <2>2 DEF Merged, MergeReported
    <3> QED BY <2>1, <2>2, <3>1, AccumulatedKept
  <2>3. CASE ~a[k].has
    <3>1. m[k] = Unreported(d.entries[k], same)
      BY <2>3 DEF Merged
    <3> HIDE DEF m, same
    <3> QED BY <2>1, <3>1, UnreportedKept
  <2> QED BY <2>2, <2>3
<1>2. m \in [Keys -> Entry]
  BY <1>1 DEF Merged, KeptEntry
<1>3. CASE ~d.exists
  <2>1. SaveState(d, a, cycle) = Saved(a, cycle)
    BY <1>3 DEF SaveState
  <2>2. a \in [Keys -> Entry]
    BY DEF Accumulators
  <2> QED BY <2>1, <2>2, AccumulatedKept DEF Saved, Kept, Data
<1>4. CASE d.exists /\ d.cycle = cycle /\ Reported(a) = {}
  BY <1>4 DEF SaveState
<1>5. CASE d.exists /\ ~(d.cycle = cycle /\ Reported(a) = {})
  <2>1. SaveState(d, a, cycle) = Saved(m, cycle)
    BY <1>5 DEF SaveState
  <2> HIDE DEF m
  <2> QED BY <1>1, <1>2, <2>1 DEF Saved, Kept, Data
<1> QED BY <1>3, <1>4, <1>5

\* No data at all is well formed, and the other writes of the ConfigMap
\* (MarkTargetRestored, UnlockRestoreData) leave the entries as they are: with
\* SaveKeepsShape, restore data is well formed at all times.
LEMMA OthersKeepShape ==
  /\ Kept(NoData)
  /\ \A d : Kept(d) => Kept(Consumed(d)) /\ Kept(Unlocked(d))
<1>1. Kept(NoData)
  <2>1. NoEntries \in [Keys -> Entry] /\ \A k \in Keys : NoEntries[k] = NoEntry
    BY NoEntryType DEF NoEntries
  <2>2. KeptEntry(NoEntry)
    BY RestoreAssumption, NoEntryType DEF KeptEntry, NoEntry
  <2> QED BY <2>1, <2>2 DEF Kept, NoData, Data
<1>2. ASSUME NEW d, Kept(d) PROVE Kept(Consumed(d)) /\ Kept(Unlocked(d))
  <2>1. Consumed(d) \in Data /\ Consumed(d).entries = d.entries
    BY <1>2 DEF Kept, Data, Consumed
  <2>2. Unlocked(d) \in Data /\ Unlocked(d).entries = d.entries
    BY <1>2 DEF Kept, Data, Unlocked
  <2> QED BY <1>2, <2>1, <2>2 DEF Kept
<1> QED BY <1>1, <1>2

\* strategySelector (strategy.go): however many attempts a shutdown takes, what one
\* of them found running or scaled stays demanded, with the size it had unless a
\* later attempt found the resource up again: an attempt that finds it already
\* down, or does not find it, changes nothing.
THEOREM RetriesKeepDemand ==
  ASSUME NEW d, Kept(d), NEW a \in Accumulators, NEW cycle \in Nat, NEW k \in Keys,
         d.exists, d.cycle = cycle, d.entries[k].has,
         d.entries[k].reported, d.entries[k].dem
  PROVE  /\ SaveState(d, a, cycle).entries[k].dem
         /\ ~a[k].dem => SaveState(d, a, cycle).entries[k] = d.entries[k]
         /\ LoadRestoreData(SaveState(d, a, cycle))[k]
              = SaveState(d, a, cycle).entries[k]
<1> DEFINE r == SaveState(d, a, cycle).entries[k]
<1>1. \/ r = a[k] /\ a[k].has /\ a[k].dem
      \/ r = d.entries[k] /\ ~(a[k].has /\ a[k].dem)
  <2>1. CASE Reported(a) = {}
    <3>1. SaveState(d, a, cycle) = d
      BY <2>1 DEF SaveState
    <3> QED BY <2>1, <3>1 DEF Reported
  <2>2. CASE Reported(a) # {}
    <3>1. SaveState(d, a, cycle) = Saved(Merged(d.entries, a, TRUE), cycle)
      BY <2>2 DEF SaveState
    <3>2. r = IF a[k].has THEN MergeReported(d.entries[k], a[k], TRUE)
              ELSE Unreported(d.entries[k], TRUE)
      BY <3>1 DEF Saved, Merged
    <3>3. Unreported(d.entries[k], TRUE) = d.entries[k]
      BY DEF Unreported
    <3> QED BY <3>2, <3>3 DEF MergeReported, UseNewValue
  <2> QED BY <2>1, <2>2
<1>2. ~a[k].has => ~a[k].dem
  BY DEF Accumulators, NoEntry
<1>3. r.stale = 0
  BY <1>1 DEF Kept, KeptEntry, Accumulators
<1>4. LoadRestoreData(SaveState(d, a, cycle))[k] = r
  BY <1>3 DEF LoadRestoreData
<1> QED BY <1>1, <1>2, <1>4

\* LoadRestoreData (loader.go) after a save: a wakeup is given a key only when the
\* shutdown of this cycle reported it, in this attempt or an earlier one; what
\* only an older cycle knew is kept in the ConfigMap and not acted on.
THEOREM OnlyThisCycleIsLoaded ==
  ASSUME NEW d, Kept(d), NEW a \in Accumulators, NEW cycle \in Nat, NEW k \in Keys,
         LoadRestoreData(SaveState(d, a, cycle))[k].has
  PROVE  InCycle(d, a, cycle, k)
<1> DEFINE r == SaveState(d, a, cycle).entries[k]
<1>1. r.has /\ ~(r.stale > 0)
  BY DEF LoadRestoreData, NoEntry
<1>2. CASE ~d.exists
  BY <1>1, <1>2 DEF SaveState, Saved, InCycle
<1>3. CASE d.exists /\ d.cycle = cycle /\ Reported(a) = {}
  <2>1. SaveState(d, a, cycle) = d
    BY <1>3 DEF SaveState
  <2>2. KeptEntry(d.entries[k])
    BY DEF Kept
  <2>3. d.entries[k].stale = 0
    BY <1>1, <2>1, <2>2 DEF KeptEntry, Entry
  <2> QED BY <1>1, <1>3, <2>1, <2>2, <2>3 DEF InCycle, KeptEntry
<1>4. CASE d.exists /\ ~(d.cycle = cycle /\ Reported(a) = {}) /\ ~a[k].has
  <2>1. r = Unreported(d.entries[k], d.cycle = cycle)
    BY <1>4 DEF SaveState, Saved, Merged
  <2>2. KeptEntry(d.entries[k])
    BY DEF Kept
  <2>3. (d.cycle = cycle) \in BOOLEAN
    OBVIOUS
  <2>4. r \in Entry /\ (r.stale = 0 => r = NoEntry \/ (d.cycle = cycle /\ d.entries[k].reported))
    BY <2>1, <2>2, <2>3, UnreportedKept DEF KeptEntry
  <2>5. r.stale = 0
    BY <1>1, <2>4 DEF Entry
  <2> QED BY <1>1, <1>4, <2>4, <2>5 DEF NoEntry, InCycle
<1> QED BY <1>2, <1>3, <1>4 DEF InCycle
-----------------------------------------------------------------------------
(* The inductive invariant of Runner *)

States == {"up", "down", "gone", "stopping", "starting"}

Pcs == {"idle", "start", "load", "find", "work", "await", "flush", "mark", "end"}

Jobs == [op : {"none", "shutdown", "wakeup"}, pc : Pcs, todo : SUBSET Keys,
         pend : SUBSET Keys, ok : BOOLEAN]

TypeInv ==
  /\ await \in BOOLEAN /\ restored \in BOOLEAN
  /\ job \in Jobs
  /\ cloud \in [Keys -> [st : States, size : Nat]]
  /\ owed \in [Keys -> Nat]
  /\ Kept(store) /\ acc \in Accumulators /\ rd \in [Keys -> Entry]
  /\ plan \in [phase : {"Active", "Hibernating", "Hibernated", "WakingUp"},
               cycle : Nat, last : Nat, tries : Nat]
  /\ budget \in [faults : Nat, kills : Nat, meddling : Nat]
  /\ unsaved \subseteq Keys /\ forfeit \subseteq Keys /\ touched \subseteq Keys

\* Where the operation is, and what it then holds in memory.
JobInv ==
  /\ job.pc = "idle" <=> job.op = "none"
  /\ job.pc \in {"load", "mark"} => job.op = "wakeup"
  /\ job.pc = "flush" => job.op = "shutdown"
  /\ job.pc \notin {"end", "idle", "flush"} => job.ok
  /\ job.pc \in {"start", "load", "find"} => job.pend = {}
  /\ job.pc # "work" => job.todo = {}
  /\ job.op # "shutdown" \/ job.pc \in {"start", "find", "end"} =>
       unsaved = {} /\ acc = NoEntries
  /\ restored => job.op = "wakeup" /\ job.pc = "end" /\ job.ok
  /\ job.op = "wakeup" /\ job.pc \in {"find", "work", "await", "mark"} =>
       rd = LoadRestoreData(store)

\* Live data is of the cycle a shutdown runs in; data that is not is of no cycle,
\* or about to be unlocked. So a flush merges exactly into live data.
StoreInv ==
  /\ store.live => store.exists /\ store.cycle # 0
  /\ store.exists /\ ~store.live => restored \/ store.cycle = 0
  /\ restored => ~store.live
  /\ job.op = "shutdown" => plan.cycle # 0 /\ (store.live => store.cycle = plan.cycle)

\* The entry makes a wakeup act.
Asked(e) == e.has /\ e.stale = 0 /\ (e.dem \/ kind = "karpenter")

Positive(e) == e.dem \/ (kind = "karpenter" /\ e.has) => e.size > 0

UpOrOwed(k) == owed[k] > 0 \/ cloud[k].st \in {"up", "starting"}

SizeInv(k) ==
  /\ cloud[k].st \in {"up", "starting"} => cloud[k].size > 0
  /\ kind = "rds" /\ cloud[k].st \in {"up", "starting"} => cloud[k].size = 1
  /\ kind = "rds" => owed[k] \in {0, 1}
  /\ kind = "noop" => owed[k] = 0
  /\ kind = "karpenter" => cloud[k].st # "starting"
  /\ Positive(acc[k]) /\ Positive(store.entries[k])

\* What is owed is down, and known: to the accumulator until the flush, then to
\* the restore data, which is live as long as it is needed.
OwedInv(k) ==
  owed[k] > 0 =>
    /\ k \in forfeit \/ IF kind = "karpenter" THEN cloud[k].st = "gone"
                        ELSE cloud[k].st \in {"down", "stopping"}
    /\ k \in unsaved => Asked(acc[k]) /\ acc[k].size = owed[k]
    /\ Asked(acc[k]) => k \in unsaved \cup forfeit
    /\ ~store.live => k \in unsaved \cup forfeit
    /\ k \in unsaved \cup forfeit \/ Restorable(k)

\* Conversely, a resource with an entry a wakeup would act on is up or owed.
AskedInv(k) ==
  k \notin touched \cup forfeit =>
    /\ Asked(acc[k]) => UpOrOwed(k)
    /\ store.live /\ Asked(store.entries[k]) => UpOrOwed(k)

\* A NodePool is reported when it is deleted, and its older entry is then kept:
\* it is the same spec unless the owner edited the pool.
PoolInv(k) ==
  kind = "karpenter" /\ k \notin touched =>
    /\ acc[k].has => ~Up(k)
    /\ store.live /\ Asked(store.entries[k]) =>
         /\ Up(k) => cloud[k].size = store.entries[k].size
         /\ k \in unsaved /\ owed[k] > 0 => owed[k] = store.entries[k].size

CloudInv(k) == SizeInv(k) /\ OwedInv(k) /\ AskedInv(k) /\ PoolInv(k)

\* The instances an EC2 shutdown is about to stop are reported; any other
\* executor reports a resource when it takes it down, once.
ShutdownInv(k) ==
  job.op = "shutdown" /\ k \in job.todo =>
    IF kind = "ec2" THEN acc[k].has /\ acc[k].dem /\ acc[k].size = 1
    ELSE k \notin unsaved

\* What is owed is given back before a wakeup can end well.
WakeupInv(k) ==
  job.op = "wakeup" =>
    /\ job.pc \in {"work", "await"} =>
         /\ owed[k] > 0 => k \in forfeit \cup job.todo \cup job.pend
         /\ k \in job.todo => rd[k].has /\ (kind = "ec2" => rd[k].dem)
         /\ k \in job.pend => rd[k].dem
    /\ job.pc = "mark" => (owed[k] > 0 => k \in forfeit)

KeyInv(k) == CloudInv(k) /\ ShutdownInv(k) /\ WakeupInv(k)

RunnerInv == TypeInv /\ JobInv /\ StoreInv /\ \A k \in Keys : KeyInv(k)

-----------------------------------------------------------------------------
(* Lemmas about keys *)

\* The type of everything there is about one key.
LEMMA KeyTypes ==
  ASSUME TypeInv, NEW k \in Keys
  PROVE  /\ cloud[k] \in [st : States, size : Nat]
         /\ owed[k] \in Nat
         /\ KeptEntry(store.entries[k]) /\ store.entries[k] \in Entry
         /\ KeptEntry(acc[k]) /\ acc[k] \in Entry
         /\ rd[k] \in Entry
<1>1. /\ cloud \in [Keys -> [st : States, size : Nat]] /\ owed \in [Keys -> Nat]
      /\ Kept(store) /\ acc \in Accumulators /\ rd \in [Keys -> Entry]
  BY DEF TypeInv
<1>2. KeptEntry(store.entries[k])
  BY <1>1 DEF Kept
<1>3. KeptEntry(acc[k])
  BY <1>1, AccumulatedKept
<1> QED BY <1>1, <1>2, <1>3 DEF KeptEntry

\* Nothing about the resource, its entries and the observations of it changes,
\* except that it may be forfeited.
Quiet(k) ==
  /\ kind' = kind /\ cloud'[k] = cloud[k] /\ owed'[k] = owed[k] /\ acc'[k] = acc[k]
  /\ store'.entries[k] = store.entries[k] /\ store'.live = store.live
  /\ k \in unsaved' <=> k \in unsaved
  /\ k \in forfeit => k \in forfeit'
  /\ k \in touched' <=> k \in touched

\* What does not change keeps its invariant.
LEMMA QuietKeeps ==
  ASSUME NEW k, CloudInv(k), Quiet(k)
  PROVE  CloudInv(k)'
<1>1. SizeInv(k)'
  BY DEF CloudInv, SizeInv, Quiet, Positive
<1>2. \A e : Asked(e)' <=> Asked(e)
  BY DEF Asked, Quiet
<1>3. OwedInv(k)'
  BY DEF CloudInv, OwedInv, Quiet, Restorable, OutdatedSpec, Asked
<1>4. AskedInv(k)'
  BY DEF CloudInv, AskedInv, Quiet, UpOrOwed, Asked
<1>5. PoolInv(k)'
  BY DEF CloudInv, PoolInv, Quiet, Up, Asked
<1> QED BY <1>1, <1>3, <1>4, <1>5 DEF CloudInv

\* An absent entry asks for nothing.
LEMMA NoEntryFacts ==
  /\ ~NoEntry.has /\ ~NoEntry.dem /\ ~Asked(NoEntry) /\ Positive(NoEntry)
  /\ \A k \in Keys : NoEntries[k] = NoEntry
  BY DEF NoEntry, NoEntries, Asked, Positive

\* No entries at all are an accumulator and restore data.
LEMMA NoEntriesType == NoEntries \in Accumulators /\ NoEntries \in [Keys -> Entry]
<1>1. NoEntries \in [Keys -> Entry]
  BY NoEntryType DEF NoEntries
<1>2. \A k \in Keys : NoEntries[k] = NoEntry /\ ~NoEntry.has
  BY DEF NoEntries, NoEntry
<1> QED BY <1>1, <1>2 DEF Accumulators

\* What a wakeup loads of one key: its entry when that is not stale.
LEMMA LoadedEntry ==
  ASSUME TypeInv, NEW k \in Keys, rd = LoadRestoreData(store)
  PROVE  /\ rd[k] = IF store.entries[k].stale = 0 THEN store.entries[k] ELSE NoEntry
         /\ rd[k].has => Asked(store.entries[k]) \/ ~(rd[k].dem \/ kind = "karpenter")
         /\ rd[k].has => rd[k] = store.entries[k]
         /\ rd[k].dem => rd[k].has
         /\ Restorable(k) => rd[k] = store.entries[k] /\ rd[k].has /\ (rd[k].dem \/ kind = "karpenter")
<1>1. KeptEntry(store.entries[k]) /\ store.entries[k].stale \in Nat
  BY KeyTypes DEF Entry
<1>2. rd[k] = IF store.entries[k].stale = 0 THEN store.entries[k] ELSE NoEntry
  BY <1>1 DEF LoadRestoreData
<1>3. ~NoEntry.has /\ ~NoEntry.dem
  BY DEF NoEntry
<1>4. ~store.entries[k].has => store.entries[k] = NoEntry
  BY <1>1 DEF KeptEntry
<1> QED BY <1>2, <1>3, <1>4 DEF Asked, Restorable

\* A resource of a running shutdown is taken down and reported as it was.
LEMMA TakeDownKeeps ==
  ASSUME TypeInv, NEW k \in Keys, CloudInv(k),
         NEW st, kind' = kind, cloud'[k] = [st |-> st, size |-> 0],
         cloud[k].st \in {"up", "starting"}, kind = "karpenter" => Up(k),
         kind # "noop",
         IF kind = "karpenter" THEN st = "gone" ELSE st \in {"down", "stopping"},
         owed'[k] = cloud[k].size, k \in unsaved',
         acc'[k].has, acc'[k].stale = 0, acc'[k].dem \/ kind = "karpenter",
         acc'[k].size = cloud[k].size,
         store' = store, touched' = touched
  PROVE  CloudInv(k)'
<1>1. cloud[k].size > 0 /\ cloud[k].size \in Nat
  BY KeyTypes DEF CloudInv, SizeInv
<1>2. Asked(acc[k])' /\ owed'[k] > 0 /\ cloud'[k].st = st
  BY <1>1 DEF Asked
<1>3. SizeInv(k)'
  BY <1>1, <1>2 DEF CloudInv, SizeInv, Positive
<1>4. OwedInv(k)'
  BY <1>1, <1>2 DEF OwedInv
<1>5. AskedInv(k)'
  BY <1>1, <1>2 DEF AskedInv, UpOrOwed
<1>6. PoolInv(k)'
  BY <1>1, <1>2 DEF CloudInv, PoolInv, Up, Asked
<1> QED BY <1>3, <1>4, <1>5, <1>6 DEF CloudInv

\* A resource that is not taken down is reported as not to be given back.
LEMMA ReportKeeps ==
  ASSUME TypeInv, NEW k \in Keys, CloudInv(k), k \notin unsaved, kind # "karpenter",
         kind' = kind, cloud'[k] = cloud[k], owed'[k] = owed[k], ~acc'[k].dem,
         store' = store, touched' = touched, unsaved' = unsaved, forfeit' = forfeit
  PROVE  CloudInv(k)'
<1>1. ~Asked(acc[k])'
  BY DEF Asked
<1>2. SizeInv(k)'
  BY DEF CloudInv, SizeInv, Positive
<1>3. OwedInv(k)'
  BY <1>1 DEF CloudInv, OwedInv, Restorable, OutdatedSpec
<1>4. AskedInv(k)'
  BY <1>1 DEF CloudInv, AskedInv, UpOrOwed, Asked
<1>5. PoolInv(k)'
  BY DEF PoolInv
<1> QED BY <1>2, <1>3, <1>4, <1>5 DEF CloudInv

\* A wakeup gives a resource back with what was loaded of it; it is then owed no
\* more, unless it was forfeited.
LEMMA GiveBackKeeps ==
  ASSUME TypeInv, NEW k \in Keys, CloudInv(k), rd = LoadRestoreData(store),
         unsaved = {}, acc = NoEntries,
         rd[k].has, rd[k].dem \/ kind = "karpenter",
         NEW st, st = IF kind = "rds" THEN "starting" ELSE "up",
         NEW size, size = IF kind = "rds" THEN 1 ELSE rd[k].size,
         GiveBack(k, st, size),
         kind' = kind, store' = store, acc' = acc, unsaved' = unsaved,
         forfeit' = forfeit, touched' = touched
  PROVE  CloudInv(k)' /\ (owed'[k] > 0 => k \in forfeit)
<1> DEFINE e == store.entries[k]
<1>1. rd[k] = e /\ Asked(e) /\ (Restorable(k) => rd[k] = e)
  BY LoadedEntry
<1>2. cloud[k].size \in Nat /\ owed[k] \in Nat /\ e.size \in Nat
  BY KeyTypes DEF Entry
<1>3. cloud'[k] = [st |-> st, size |-> size]
  <2>1. cloud \in [Keys -> [st : States, size : Nat]]
    BY DEF TypeInv
  <2> QED BY <2>1 DEF GiveBack
<1>4. owed'[k] = IF size = owed[k] \/ OutdatedSpec(k) THEN 0 ELSE owed[k]
  <2>1. owed \in [Keys -> Nat]
    BY DEF TypeInv
  <2> QED BY <2>1 DEF GiveBack
<1>5. size > 0 /\ (kind = "rds" => size = 1) /\ (kind # "rds" => size = e.size)
  BY <1>1 DEF CloudInv, SizeInv, Positive
<1>6. owed'[k] > 0 => k \in forfeit
  <2>1. owed[k] > 0 /\ k \notin forfeit => Restorable(k)
    BY DEF CloudInv, OwedInv
  <2>2. owed[k] > 0 /\ kind = "rds" => owed[k] = 1
    BY DEF CloudInv, SizeInv
  <2>3. Restorable(k) => e.size = owed[k] \/ OutdatedSpec(k)
    BY DEF Restorable
  <2> QED BY <1>2, <1>4, <1>5, <2>1, <2>2, <2>3
<1>7. acc'[k] = NoEntry /\ ~NoEntry.has /\ ~NoEntry.dem
  BY NoEntryFacts
<1>8. owed'[k] = 0 \/ owed'[k] = owed[k]
  BY <1>4
<1>9. SizeInv(k)'
  BY <1>2, <1>3, <1>5, <1>7, <1>8 DEF CloudInv, SizeInv, Positive
<1>10. OwedInv(k)'
  BY <1>6, <1>7 DEF OwedInv, Asked
<1>11. AskedInv(k)'
  BY <1>3, <1>7 DEF AskedInv, UpOrOwed, Asked
<1>12. PoolInv(k)'
  BY <1>3, <1>5, <1>7 DEF PoolInv, Asked
<1> QED BY <1>6, <1>9, <1>10, <1>11, <1>12 DEF CloudInv

-----------------------------------------------------------------------------
(* The actions, by what they touch *)

\* The variables of an executor's frame.
LEMMA FrameFacts ==
  ASSUME ExecutorFrame
  PROVE  /\ kind' = kind /\ await' = await /\ store' = store /\ restored' = restored
         /\ rd' = rd /\ plan' = plan /\ touched' = touched
  BY DEF ExecutorFrame

\* An action that changes the job, the budget, the data read or the plan, and no
\* resource, entry or observation except that it may forfeit some.
Still ==
  /\ kind' = kind /\ cloud' = cloud /\ owed' = owed /\ acc' = acc /\ store' = store
  /\ unsaved' = unsaved /\ forfeit \subseteq forfeit' /\ touched' = touched

\* Such an action keeps what concerns the resources.
LEMMA StillKeeps ==
  ASSUME RunnerInv, Still, NEW k \in Keys
  PROVE  CloudInv(k)'
<1>1. CloudInv(k)
  BY DEF RunnerInv, KeyInv
<1>2. Quiet(k)
  BY DEF Still, Quiet
<1> QED BY <1>1, <1>2, QuietKeeps

\* Prepare, ConnectorFails, LoadForWakeup, LoadFails and Await move the operation on, or end it.
LEMMA PrepareStep ==
  ASSUME RunnerInv, Prepare \/ ConnectorFails \/ LoadForWakeup \/ LoadFails \/ Await
  PROVE  RunnerInv'
<1>0. TypeInv /\ JobInv /\ StoreInv /\ \A k \in Keys : KeyInv(k)
  BY DEF RunnerInv
<1>1. /\ Still /\ await' = await /\ restored' = restored /\ plan' = plan /\ forfeit' = forfeit
  BY DEF Prepare, ConnectorFails, LoadForWakeup, LoadFails, Await, Still, cloudVars, storeVars, obsVars
<1>2. /\ job \in Jobs /\ job.op \in {"none", "shutdown", "wakeup"} /\ (job.pc # "idle" => job.op # "none")
      /\ job.pc \notin {"end", "idle", "flush"} => job.ok
      /\ job.pc = "load" => job.op = "wakeup"
  BY <1>0 DEF TypeInv, Jobs, JobInv
<1>3. PICK pc \in Pcs, ok \in BOOLEAN :
        /\ job' = [job EXCEPT !.pc = pc, !.ok = ok]
        /\ \/ pc = "end" /\ job.pc \in {"start", "load"} /\ rd' = rd
           \/ pc \in {"find", "load"} /\ job.pc = "start" /\ ok /\ (pc = "find" <=> job.op = "shutdown")
              /\ rd' = rd
           \/ pc = "find" /\ job.pc = "load" /\ ok /\ rd' = LoadRestoreData(store)
           \/ pc \in {"flush", "mark"} /\ job.pc = "await" /\ ok /\ (pc = "flush" <=> job.op = "shutdown")
              /\ job.pend = {} /\ rd' = rd
  <2>1. job = [job EXCEPT !.ok = job.ok] /\ job.ok \in BOOLEAN
    BY <1>2 DEF Jobs
  <2>2. ASSUME NEW pc PROVE [job EXCEPT !.pc = pc] = [job EXCEPT !.pc = pc, !.ok = job.ok]
    BY <1>2 DEF Jobs
  <2>3. CASE Prepare
    <3>1. CASE kind \notin Enabled
      BY <2>3, <3>1 DEF Prepare, Pcs
    <3>2. CASE kind \in Enabled
      <4>1. job.pc = "start" /\ job.ok /\ rd' = rd
        BY <1>2, <2>3 DEF Prepare
      <4>2. job' = [job EXCEPT !.pc = IF job.op = "shutdown" THEN "find" ELSE "load", !.ok = job.ok]
        BY <2>2, <2>3, <3>2 DEF Prepare
      <4> QED BY <2>1, <4>1, <4>2 DEF Pcs
    <3> QED BY <3>1, <3>2
  <2>4. CASE ConnectorFails \/ LoadFails
    BY <2>4 DEF ConnectorFails, LoadFails, Pcs
  <2>5. CASE LoadForWakeup
    <3>1. CASE store.exists
      <4>1. job.pc = "load" /\ job.ok /\ rd' = LoadRestoreData(store)
        BY <1>2, <2>5, <3>1 DEF LoadForWakeup
      <4>2. job' = [job EXCEPT !.pc = "find", !.ok = job.ok]
        BY <2>2, <2>5, <3>1 DEF LoadForWakeup
      <4> QED BY <2>1, <4>1, <4>2 DEF Pcs
    <3>2. CASE ~store.exists
      BY <2>5, <3>2 DEF LoadForWakeup, Pcs
    <3> QED BY <3>1, <3>2
  <2>6. CASE Await
    <3>1. job.pc = "await" /\ job.ok /\ rd' = rd /\ job.pend = {}
      BY <1>2, <2>6 DEF Await
    <3>2. job' = [job EXCEPT !.pc = IF job.op = "shutdown" THEN "flush" ELSE "mark", !.ok = job.ok]
      BY <2>2, <2>6 DEF Await
    <3> QED BY <2>1, <3>1, <3>2 DEF Pcs
  <2> QED BY <2>3, <2>4, <2>5, <2>6
<1>4. /\ job' \in Jobs /\ job'.op = job.op /\ job'.todo = job.todo /\ job'.pend = job.pend
      /\ job'.pc = pc /\ job'.ok = ok
  BY <1>2, <1>3 DEF Jobs
<1>5. TypeInv'
  <2>1. budget' \in [faults : Nat, kills : Nat, meddling : Nat]
    <3>1. budget' = budget \/ Fault
      BY DEF Prepare, ConnectorFails, LoadForWakeup, LoadFails, Await
    <3> QED BY <1>0, <3>1 DEF Fault, TypeInv
  <2>2. rd' \in [Keys -> Entry]
    <3>1. \A k \in Keys : store.entries[k] \in Entry
      BY <1>0, KeyTypes
    <3>2. LoadRestoreData(store) \in [Keys -> Entry]
      BY <3>1, NoEntryType DEF LoadRestoreData
    <3> QED BY <1>0, <1>3, <3>2 DEF TypeInv
  <2> QED BY <1>0, <1>1, <1>4, <2>1, <2>2 DEF TypeInv, Still
<1>6. JobInv'
  BY <1>0, <1>1, <1>2, <1>3, <1>4 DEF JobInv, Still
<1>7. StoreInv'
  BY <1>0, <1>1, <1>4 DEF StoreInv, Still
<1>8. ASSUME NEW k \in Keys PROVE ShutdownInv(k)' /\ WakeupInv(k)'
  <2>1. ShutdownInv(k) /\ WakeupInv(k) /\ (job.pc # "work" => job.todo = {})
    BY <1>0 DEF KeyInv, JobInv
  <2>2. ShutdownInv(k)'
    BY <1>1, <1>4, <2>1 DEF ShutdownInv, Still
  <2>3. WakeupInv(k)'
    BY <1>1, <1>3, <1>4, <2>1 DEF WakeupInv, Still
  <2> QED BY <2>2, <2>3
<1> QED BY <1>1, <1>5, <1>6, <1>7, <1>8, StillKeeps DEF RunnerInv, KeyInv

\* LoopEnds: the executor waits.
LEMMA LoopEndsStep ==
  ASSUME RunnerInv, NEW t, LoopEnds(t)
  PROVE  RunnerInv'
<1>0. TypeInv /\ JobInv /\ StoreInv /\ \A k \in Keys : KeyInv(k)
  BY DEF RunnerInv
<1>1. /\ Still /\ await' = await /\ restored' = restored /\ plan' = plan /\ forfeit' = forfeit
      /\ rd' = rd /\ budget' = budget
      /\ job'.op = job.op /\ job'.todo = {} /\ job'.pend = job.pend /\ job'.ok = job.ok
      /\ job.pc = "work" /\ job'.pc = "await" /\ job.todo = {}
  BY <1>0 DEF LoopEnds, ExecutorFrame, Still, TypeInv, Jobs
<1>2. TypeInv'
  <2>1. job' \in Jobs
    BY <1>0 DEF LoopEnds, TypeInv, Jobs, Pcs
  <2> QED BY <1>0, <1>1, <2>1 DEF TypeInv, Still
<1>3. JobInv'
  BY <1>0, <1>1 DEF TypeInv, Jobs, JobInv, Still
<1>4. StoreInv'
  BY <1>0, <1>1 DEF StoreInv, Still
<1>5. ASSUME NEW k \in Keys PROVE ShutdownInv(k)' /\ WakeupInv(k)'
  <2>1. ShutdownInv(k) /\ WakeupInv(k)
    BY <1>0 DEF KeyInv
  <2> QED BY <1>1, <2>1 DEF ShutdownInv, WakeupInv, Still
<1> QED BY <1>1, <1>2, <1>3, <1>4, <1>5, StillKeeps DEF RunnerInv, KeyInv

\* An executor that fails ends a wakeup, and flushes a shutdown.
LEMMA FailedFacts ==
  ASSUME TypeInv, JobInv, job.pc \in {"find", "work"}, job' = Failed(job)
  PROVE  /\ job' \in Jobs
         /\ job'.op = job.op /\ job'.todo = {} /\ job'.pend = {} /\ ~job'.ok
         /\ job'.pc = IF job.op = "shutdown" THEN "flush" ELSE "end"
         /\ job.op \in {"shutdown", "wakeup"}
  BY DEF TypeInv, JobInv, Failed, Jobs, Pcs

\* CallFails: nothing but the operation is affected.
LEMMA CallFailsStep ==
  ASSUME RunnerInv, NEW t, CallFails(t)
  PROVE  RunnerInv'
<1>0. TypeInv /\ JobInv /\ StoreInv /\ \A k \in Keys : KeyInv(k)
  BY DEF RunnerInv
<1>1. /\ Still /\ await' = await /\ restored' = restored /\ plan' = plan /\ forfeit' = forfeit
      /\ rd' = rd /\ job.pc \in {"find", "work"}
      /\ budget' \in [faults : Nat, kills : Nat, meddling : Nat]
  BY <1>0 DEF CallFails, ExecutorFrame, Still, TypeInv, Fault
<1>2. /\ job' \in Jobs
      /\ job'.op = job.op /\ job'.todo = {} /\ job'.pend = {} /\ ~job'.ok
      /\ job'.pc = IF job.op = "shutdown" THEN "flush" ELSE "end"
      /\ job.op \in {"shutdown", "wakeup"}
  BY <1>0, <1>1, FailedFacts DEF CallFails
<1>3. TypeInv'
  BY <1>0, <1>1, <1>2 DEF TypeInv, Still
<1>4. JobInv'
  BY <1>0, <1>1, <1>2 DEF JobInv, Still
<1>5. StoreInv'
  BY <1>0, <1>1, <1>2 DEF StoreInv, Still
<1>6. ASSUME NEW k \in Keys PROVE ShutdownInv(k)' /\ WakeupInv(k)'
  BY <1>2 DEF ShutdownInv, WakeupInv
<1> QED BY <1>1, <1>3, <1>4, <1>5, <1>6, StillKeeps DEF RunnerInv, KeyInv

\* What a Still action of an executor leaves alone beside the resources.
ExecutorStill == Still /\ ExecutorFrame /\ budget' = budget /\ forfeit' = forfeit

\* A shutdown (not of EC2) begins its loop, or ends for want of resources.
LEMMA ShutdownLoopStep ==
  ASSUME RunnerInv, ExecutorStill, kind # "ec2", job.op = "shutdown", job.pc = "find",
         \/ job' = Failed(job)
         \/ job' = [job EXCEPT !.pc = "flush"]
         \/ \E S \in SUBSET Keys : Loop(S)
  PROVE  RunnerInv'
<1>0. TypeInv /\ JobInv /\ StoreInv /\ \A k \in Keys : KeyInv(k)
  BY DEF RunnerInv
<1>1. /\ Still /\ await' = await /\ restored' = restored /\ plan' = plan /\ forfeit' = forfeit
      /\ rd' = rd /\ budget' = budget
  BY DEF ExecutorStill, ExecutorFrame
<1>2. /\ job' \in Jobs /\ job'.op = "shutdown" /\ job'.pc \in {"flush", "work"}
      /\ job'.pc # "flush" => job'.ok
      /\ job'.pc # "work" => job'.todo = {}
  <2>1. CASE job' = Failed(job)
    BY <1>0, <2>1, FailedFacts
  <2>2. CASE job' = [job EXCEPT !.pc = "flush"]
    BY <1>0, <2>2 DEF TypeInv, Jobs, Pcs, JobInv
  <2>3. CASE \E S \in SUBSET Keys : Loop(S)
    <3>1. PICK S \in SUBSET Keys : job' = [job EXCEPT !.pc = "work", !.todo = S]
      BY <2>3 DEF Loop
    <3>2. job.ok
      BY <1>0 DEF JobInv
    <3> QED BY <1>0, <3>1, <3>2 DEF TypeInv, Jobs, Pcs
  <2> QED BY <2>1, <2>2, <2>3
<1>3. unsaved = {} /\ acc = NoEntries /\ ~restored
  BY <1>0 DEF JobInv
<1>4. TypeInv'
  BY <1>0, <1>1, <1>2 DEF TypeInv, Still
<1>5. JobInv'
  BY <1>0, <1>1, <1>2, <1>3 DEF JobInv, Still
<1>6. StoreInv'
  BY <1>0, <1>1, <1>2 DEF StoreInv, Still
<1>7. ASSUME NEW k \in Keys PROVE ShutdownInv(k)' /\ WakeupInv(k)'
  BY <1>1, <1>2, <1>3 DEF ShutdownInv, WakeupInv, Still
<1> QED BY <1>1, <1>4, <1>5, <1>6, <1>7, StillKeeps DEF RunnerInv, KeyInv

\* In a wakeup that has loaded its data, what is owed and not forfeited is known
\* to it, and down.
LEMMA OwedIsLoaded ==
  ASSUME RunnerInv, job.op = "wakeup", job.pc \in {"find", "work", "await", "mark"},
         NEW k \in Keys, owed[k] > 0, k \notin forfeit
  PROVE  /\ rd[k].has /\ (rd[k].dem \/ kind = "karpenter") /\ kind # "noop"
         /\ IF kind = "karpenter" THEN cloud[k].st = "gone" ELSE cloud[k].st \in {"down", "stopping"}
<1>1. TypeInv /\ JobInv /\ CloudInv(k)
  BY DEF RunnerInv, KeyInv
<1>2. unsaved = {} /\ rd = LoadRestoreData(store)
  BY <1>1 DEF JobInv
<1>3. Restorable(k)
  BY <1>1, <1>2 DEF CloudInv, OwedInv
<1>4. rd[k].has /\ (rd[k].dem \/ kind = "karpenter")
  BY <1>1, <1>2, <1>3, LoadedEntry
<1>5. owed[k] # 0
  BY <1>1, KeyTypes
<1> QED BY <1>1, <1>4, <1>5 DEF CloudInv, OwedInv, SizeInv

\* A wakeup begins its loop over what it loaded, or has nothing to restore.
LEMMA WakeupLoopStep ==
  ASSUME RunnerInv, ExecutorStill, job.op = "wakeup", job.pc = "find",
         \/ job' = [job EXCEPT !.pc = "mark"] /\ (Reported(rd) = {} \/ kind = "noop")
         \/ \E S \in SUBSET Reported(rd) :
              /\ Loop(S)
              /\ kind = "ec2" => S = {k \in Keys : rd[k].dem /\ cloud[k].st \in {"down", "stopping"}}
              /\ kind # "ec2" => S = Reported(rd)
  PROVE  RunnerInv'
<1>0. TypeInv /\ JobInv /\ StoreInv /\ \A k \in Keys : KeyInv(k)
  BY DEF RunnerInv
<1>1. /\ Still /\ await' = await /\ restored' = restored /\ plan' = plan /\ forfeit' = forfeit
      /\ rd' = rd /\ budget' = budget
  BY DEF ExecutorStill, ExecutorFrame
<1>2. Reported(rd) \subseteq Keys /\ \A k \in Keys : k \in Reported(rd) <=> rd[k].has
  BY DEF Reported
<1>3. /\ job' \in Jobs /\ job'.op = "wakeup" /\ job'.pc \in {"mark", "work"} /\ job'.ok
      /\ job'.pc = "work" => job'.pend = job.pend
      /\ job'.pc # "work" => job'.todo = {}
  <2>1. CASE job' = [job EXCEPT !.pc = "mark"]
    BY <1>0, <2>1 DEF TypeInv, Jobs, Pcs, JobInv
  <2>2. CASE \E S \in SUBSET Reported(rd) : Loop(S)
    <3>1. PICK S \in SUBSET Reported(rd) : job' = [job EXCEPT !.pc = "work", !.todo = S]
      BY <2>2 DEF Loop
    <3>2. job.ok /\ S \in SUBSET Keys
      BY <1>0, <1>2 DEF JobInv
    <3> QED BY <1>0, <3>1, <3>2 DEF TypeInv, Jobs, Pcs
  <2> QED BY <2>1, <2>2
<1>4. TypeInv'
  BY <1>0, <1>1, <1>3 DEF TypeInv, Still
<1>5. JobInv'
  BY <1>0, <1>1, <1>3 DEF JobInv, Still
<1>6. StoreInv'
  BY <1>0, <1>1, <1>3 DEF StoreInv, Still
<1>7. ASSUME NEW k \in Keys PROVE ShutdownInv(k)' /\ WakeupInv(k)'
  <2>1. ShutdownInv(k)'
    BY <1>3 DEF ShutdownInv
  <2>2. job.pend = {}
    BY <1>0 DEF JobInv
  <2>3. owed[k] > 0 /\ k \notin forfeit =>
          /\ rd[k].has /\ (rd[k].dem \/ kind = "karpenter") /\ kind # "noop"
          /\ IF kind = "karpenter" THEN cloud[k].st = "gone" ELSE cloud[k].st \in {"down", "stopping"}
    BY OwedIsLoaded
  <2>4. CASE job' = [job EXCEPT !.pc = "mark"] /\ (Reported(rd) = {} \/ kind = "noop")
    <3>1. job'.pc = "mark"
      BY <1>0, <2>4 DEF TypeInv, Jobs
    <3> QED BY <1>1, <1>2, <2>1, <2>3, <2>4, <3>1 DEF WakeupInv, Still
  <2>5. ASSUME NEW S \in SUBSET Reported(rd), Loop(S),
               kind = "ec2" => S = {j \in Keys : rd[j].dem /\ cloud[j].st \in {"down", "stopping"}},
               kind # "ec2" => S = Reported(rd)
        PROVE  WakeupInv(k)'
    <3>1. job'.pc = "work" /\ job'.todo = S
      BY <1>0, <2>5 DEF Loop, TypeInv, Jobs
    <3>2. k \in S => rd[k].has /\ (kind = "ec2" => rd[k].dem)
      BY <1>2, <2>5
    <3>3. owed[k] > 0 /\ k \notin forfeit => k \in S
      BY <1>2, <2>3, <2>5
    <3> QED BY <1>1, <1>3, <2>2, <3>1, <3>2, <3>3 DEF WakeupInv, Still
  <2> QED BY <2>1, <2>4, <2>5
<1> QED BY <1>1, <1>4, <1>5, <1>6, <1>7, StillKeeps DEF RunnerInv, KeyInv

\* The first steps of the executors are of these two forms.
LEMMA FindSteps ==
  ASSUME RunnerInv,
         \/ EC2WakeUp \/ EKSShutdown \/ EKSWakeUp \/ RDSShutdown \/ RDSWakeUp
         \/ KarpenterShutdown \/ KarpenterWakeUp \/ WorkloadShutdown \/ WorkloadWakeUp \/ NoopWakeUp
  PROVE  RunnerInv'
<1>1. Existing \in SUBSET Keys /\ Keys \in SUBSET Keys
  BY DEF Existing
<1>2. Reported(rd) \in SUBSET Reported(rd)
  OBVIOUS
<1>3. CASE EC2WakeUp
  <2> DEFINE S == {k \in Keys : rd[k].dem /\ cloud[k].st \in {"down", "stopping"}}
  <2>1. ExecutorStill /\ kind = "ec2" /\ job.op = "wakeup" /\ job.pc = "find"
    BY <1>3 DEF EC2WakeUp, ExecutorStill, Still, Running, ExecutorFrame
  <2>2. CASE Reported(rd) = {}
    <3>1. job' = [job EXCEPT !.pc = "mark"]
      BY <1>3, <2>2 DEF EC2WakeUp
    <3> QED BY <2>1, <2>2, <3>1, WakeupLoopStep
  <2>3. CASE Reported(rd) # {}
    <3>1. Loop(S)
      BY <1>3, <2>3 DEF EC2WakeUp
    <3>2. S \in SUBSET Reported(rd)
      <4>1. ASSUME NEW k \in Keys, rd[k].dem PROVE rd[k].has
        <5>1. TypeInv /\ rd = LoadRestoreData(store)
          BY <2>1 DEF RunnerInv, JobInv
        <5> QED BY <4>1, <5>1, LoadedEntry
      <4> QED BY <4>1 DEF Reported
    <3> HIDE DEF S
    <3>3. kind = "ec2" => S = {k \in Keys : rd[k].dem /\ cloud[k].st \in {"down", "stopping"}}
      BY DEF S
    <3> QED BY <2>1, <3>1, <3>2, <3>3, WakeupLoopStep
  <2> QED BY <2>2, <2>3
<1>4. CASE EKSShutdown
  BY <1>1, <1>4, ShutdownLoopStep
     DEF EKSShutdown, DetermineTargetNodeGroups, ExecutorStill, Still, Running, ExecutorFrame
<1>5. CASE RDSShutdown
  BY <1>1, <1>5, ShutdownLoopStep DEF RDSShutdown, Discover, ExecutorStill, Still, Running, ExecutorFrame
<1>6. CASE KarpenterShutdown
  BY <1>1, <1>6, ShutdownLoopStep
     DEF KarpenterShutdown, ListNodePools, ExecutorStill, Still, Running, ExecutorFrame
<1>7. CASE WorkloadShutdown
  BY <1>1, <1>7, ShutdownLoopStep
     DEF WorkloadShutdown, DiscoverNamespaces, ExecutorStill, Still, Running, ExecutorFrame
<1>8. CASE EKSWakeUp \/ RDSWakeUp \/ KarpenterWakeUp \/ WorkloadWakeUp
  <2>1. ExecutorStill /\ kind # "ec2" /\ job.op = "wakeup" /\ job.pc = "find" /\ RestoreLoop
    BY <1>8 DEF EKSWakeUp, RDSWakeUp, KarpenterWakeUp, WorkloadWakeUp, ExecutorStill, Still, Running,
                ExecutorFrame
  <2>2. CASE Reported(rd) = {}
    BY <2>1, <2>2, WakeupLoopStep DEF RestoreLoop
  <2>3. CASE Reported(rd) # {}
    <3>1. Loop(Reported(rd))
      BY <2>1, <2>3 DEF RestoreLoop
    <3> QED BY <1>2, <2>1, <3>1, WakeupLoopStep
  <2> QED BY <2>2, <2>3
<1>9. CASE NoopWakeUp
  BY <1>9, WakeupLoopStep DEF NoopWakeUp, ExecutorStill, Still, Running, ExecutorFrame
<1> QED BY <1>3, <1>4, <1>5, <1>6, <1>7, <1>8, <1>9

-----------------------------------------------------------------------------
(* Executor steps on one resource *)

\* An executor acts on resource k, in its loop or in the goroutine that waits for it.
OneKey(k) ==
  /\ ExecutorFrame
  /\ job' \in Jobs /\ job'.op = job.op /\ job'.pc = job.pc /\ job'.ok = job.ok
  /\ job.pc \in {"work", "await"} /\ job'.todo = job.todo \ {k}
  /\ cloud' \in [Keys -> [st : States, size : Nat]] /\ owed' \in [Keys -> Nat]
  /\ acc' \in Accumulators
  /\ unsaved' \subseteq Keys /\ forfeit \subseteq forfeit' /\ forfeit' \subseteq Keys
  /\ budget' \in [faults : Nat, kills : Nat, meddling : Nat]
  /\ \A j \in Keys \ {k} :
       /\ j \in job'.pend <=> j \in job.pend
       /\ cloud'[j] = cloud[j] /\ owed'[j] = owed[j] /\ acc'[j] = acc[j]
       /\ j \in unsaved' <=> j \in unsaved
  /\ job.op = "wakeup" => unsaved' = unsaved /\ acc' = acc

\* Such a step has to be looked at for its own resource only.
LEMMA OneKeyStep ==
  ASSUME RunnerInv, NEW k \in Keys, OneKey(k), CloudInv(k)', WakeupInv(k)'
  PROVE  RunnerInv'
<1>0. TypeInv /\ JobInv /\ StoreInv /\ \A j \in Keys : KeyInv(j)
  BY DEF RunnerInv
<1>1. /\ kind' = kind /\ await' = await /\ store' = store /\ restored' = restored
      /\ rd' = rd /\ plan' = plan /\ touched' = touched
  BY FrameFacts DEF OneKey
<1>2. TypeInv'
  BY <1>0, <1>1 DEF TypeInv, OneKey
<1>3. JobInv'
  BY <1>0, <1>1 DEF JobInv, OneKey, TypeInv, Jobs
<1>4. StoreInv'
  BY <1>0, <1>1 DEF StoreInv, OneKey
<1>5. ShutdownInv(k)'
  BY DEF OneKey, ShutdownInv
<1>6. ASSUME NEW j \in Keys, j # k PROVE KeyInv(j)'
  <2>1. CloudInv(j) /\ ShutdownInv(j) /\ WakeupInv(j)
    BY <1>0 DEF KeyInv
  <2>2. Quiet(j)
    BY <1>1, <1>6 DEF OneKey, Quiet
  <2>3. CloudInv(j)'
    BY <2>1, <2>2, QuietKeeps
  <2>4. ShutdownInv(j)'
    BY <1>1, <1>6, <2>1 DEF OneKey, ShutdownInv
  <2>5. WakeupInv(j)'
    BY <1>1, <1>6, <2>1 DEF OneKey, WakeupInv
  <2> QED BY <2>3, <2>4, <2>5 DEF KeyInv
<1> QED BY <1>2, <1>3, <1>4, <1>5, <1>6 DEF RunnerInv, KeyInv

\* TakeDown, Report and GiveBack change nothing of another resource.
LEMMA TakeDownType ==
  ASSUME TypeInv, NEW k \in Keys, NEW st \in States, TakeDown(k, st)
  PROVE  /\ cloud' \in [Keys -> [st : States, size : Nat]] /\ owed' \in [Keys -> Nat]
         /\ unsaved' \subseteq Keys /\ k \in unsaved'
         /\ cloud'[k] = [st |-> st, size |-> 0] /\ owed'[k] = cloud[k].size
         /\ \A j \in Keys \ {k} : /\ cloud'[j] = cloud[j] /\ owed'[j] = owed[j]
                                  /\ j \in unsaved' <=> j \in unsaved
<1>1. cloud \in [Keys -> [st : States, size : Nat]] /\ owed \in [Keys -> Nat] /\ unsaved \subseteq Keys
  BY DEF TypeInv
<1>2. [st |-> st, size |-> 0] \in [st : States, size : Nat] /\ cloud[k].size \in Nat
  BY <1>1
<1> QED BY <1>1, <1>2 DEF TakeDown

\* The same of GiveBack.
LEMMA GiveBackType ==
  ASSUME TypeInv, NEW k \in Keys, NEW st \in States, NEW size \in Nat, GiveBack(k, st, size)
  PROVE  /\ cloud' \in [Keys -> [st : States, size : Nat]] /\ owed' \in [Keys -> Nat]
         /\ \A j \in Keys \ {k} : cloud'[j] = cloud[j] /\ owed'[j] = owed[j]
<1>1. cloud \in [Keys -> [st : States, size : Nat]] /\ owed \in [Keys -> Nat]
  BY DEF TypeInv
<1>2. [st |-> st, size |-> size] \in [st : States, size : Nat]
  OBVIOUS
<1> DEFINE o == IF size = owed[k] \/ OutdatedSpec(k) THEN 0 ELSE owed[k]
<1>3. o \in Nat
  BY <1>1
<1>4. owed' = [owed EXCEPT ![k] = o]
  BY DEF GiveBack
<1> HIDE DEF o
<1>5. owed' \in [Keys -> Nat] /\ \A j \in Keys \ {k} : owed'[j] = owed[j]
  BY <1>1, <1>3, <1>4
<1> QED BY <1>1, <1>2, <1>5 DEF GiveBack

\* The same of Report, of what was down.
LEMMA ReportDownType ==
  ASSUME TypeInv, NEW k \in Keys, NEW size \in Nat, Report(k, FALSE, size)
  PROVE  /\ acc' \in Accumulators /\ \A j \in Keys \ {k} : acc'[j] = acc[j]
         /\ ~acc'[k].dem
<1> DEFINE e == [has |-> TRUE, dem |-> FALSE, size |-> size, stale |-> 0, reported |-> TRUE]
<1>1. acc' = [acc EXCEPT ![k] = e] /\ acc \in [Keys -> Entry] /\ acc \in Accumulators
  BY DEF Report, Add, TypeInv, Accumulators
<1>2. e \in Entry /\ e.has /\ e.reported /\ e.stale = 0 /\ ~e.dem
  BY DEF Entry
<1> HIDE DEF e
<1>3. acc' \in [Keys -> Entry] /\ \A j \in Keys : acc'[j] = IF j = k THEN e ELSE acc[j]
  BY <1>1, <1>2
<1>4. acc' \in Accumulators
  BY <1>1, <1>2, <1>3 DEF Accumulators
<1> QED BY <1>2, <1>3, <1>4

\* The same of Report, of what was up.
LEMMA ReportUpType ==
  ASSUME TypeInv, NEW k \in Keys, NEW dem \in BOOLEAN, Report(k, dem, cloud[k].size)
  PROVE  /\ acc' \in Accumulators /\ \A j \in Keys \ {k} : acc'[j] = acc[j]
         /\ acc'[k].has /\ acc'[k].dem = dem /\ acc'[k].size = cloud[k].size /\ acc'[k].stale = 0
<1> DEFINE e == [has |-> TRUE, dem |-> dem, size |-> cloud[k].size, stale |-> 0, reported |-> TRUE]
<1>1. acc' = [acc EXCEPT ![k] = e] /\ acc \in [Keys -> Entry] /\ acc \in Accumulators
  BY DEF Report, Add, TypeInv, Accumulators
<1>2. e \in Entry /\ e.has /\ e.reported /\ e.stale = 0 /\ e.dem = dem /\ e.size = cloud[k].size
  BY KeyTypes DEF Entry
<1> HIDE DEF e
<1>3. acc' \in [Keys -> Entry] /\ \A j \in Keys : acc'[j] = IF j = k THEN e ELSE acc[j]
  BY <1>1, <1>2
<1>4. acc' \in Accumulators
  BY <1>1, <1>2, <1>3 DEF Accumulators
<1> QED BY <1>2, <1>3, <1>4

\* What a shutdown does to one resource, whatever the executor.
LEMMA ShutdownKeyStep ==
  ASSUME RunnerInv, NEW k \in Keys, ExecutorFrame, forfeit' = forfeit, kind # "ec2",
         job.op = "shutdown", job.pc \in {"work", "await"},
         job.pc = "work" => k \in job.todo,
         job' \in Jobs, job'.op = job.op, job'.pc = job.pc, job'.ok = job.ok,
         job'.todo = job.todo \ {k},
         \A j \in Keys \ {k} : j \in job'.pend <=> j \in job.pend,
         budget' \in [faults : Nat, kills : Nat, meddling : Nat],
         \/ UNCHANGED <<cloud, owed, unsaved, acc>>
         \/ /\ UNCHANGED <<cloud, owed, unsaved>>
            /\ kind # "karpenter" /\ job.pc = "work"
            /\ \E size \in Nat : Report(k, FALSE, size)
         \/ /\ Up(k) /\ kind # "noop"
            /\ \E st \in States, dem \in BOOLEAN :
                 /\ TakeDown(k, st) /\ Report(k, dem, cloud[k].size)
                 /\ dem \/ kind = "karpenter"
                 /\ IF kind = "karpenter" THEN st = "gone" ELSE st \in {"down", "stopping"}
  PROVE  RunnerInv'
<1>0. TypeInv /\ JobInv /\ CloudInv(k) /\ ShutdownInv(k)
  BY DEF RunnerInv, KeyInv
<1>1. /\ kind' = kind /\ store' = store /\ touched' = touched
  BY FrameFacts
<1>2. WakeupInv(k)'
  BY DEF WakeupInv
<1>3. acc \in Accumulators /\ cloud[k] \in [st : States, size : Nat]
  BY <1>0, KeyTypes DEF TypeInv
<1>4. CASE UNCHANGED <<cloud, owed, unsaved, acc>>
  <2>1. Quiet(k)
    BY <1>1, <1>4 DEF Quiet
  <2>2. CloudInv(k)'
    BY <1>0, <2>1, QuietKeeps
  <2>3. OneKey(k)
    BY <1>0, <1>4 DEF OneKey, TypeInv
  <2> QED BY <1>2, <2>2, <2>3, OneKeyStep
<1>5. ASSUME UNCHANGED <<cloud, owed, unsaved>>, kind # "karpenter", job.pc = "work",
             NEW size \in Nat, Report(k, FALSE, size)
      PROVE  RunnerInv'
  <2>1. acc' = Add(acc, k, FALSE, size)
    BY <1>5 DEF Report
  <2>2. /\ acc' \in Accumulators /\ \A j \in Keys \ {k} : acc'[j] = acc[j]
        /\ ~acc'[k].dem
    BY <1>0, <1>5, ReportDownType
  <2>3. k \notin unsaved
    BY <1>0, <1>5 DEF ShutdownInv
  <2>4. CloudInv(k)'
    BY <1>0, <1>1, <1>5, <2>2, <2>3, ReportKeeps
  <2>5. OneKey(k)
    BY <1>0, <1>5, <2>2 DEF OneKey, TypeInv
  <2> QED BY <1>2, <2>4, <2>5, OneKeyStep
<1>6. ASSUME Up(k), kind # "noop", NEW st \in States, NEW dem \in BOOLEAN,
             TakeDown(k, st), Report(k, dem, cloud[k].size), dem \/ kind = "karpenter",
             IF kind = "karpenter" THEN st = "gone" ELSE st \in {"down", "stopping"}
      PROVE  RunnerInv'
  <2>1. cloud[k].size \in Nat /\ cloud[k].st = "up"
    BY <1>3, <1>6 DEF Up
  <2>2. acc' = Add(acc, k, dem, cloud[k].size)
    BY <1>6 DEF Report
  <2>3. /\ acc' \in Accumulators /\ \A j \in Keys \ {k} : acc'[j] = acc[j]
        /\ acc'[k].has /\ acc'[k].dem = dem /\ acc'[k].size = cloud[k].size /\ acc'[k].stale = 0
    BY <1>0, <1>6, ReportUpType
  <2>4. /\ acc'[k].has /\ acc'[k].stale = 0 /\ (acc'[k].dem \/ kind = "karpenter")
        /\ acc'[k].size = cloud[k].size
    BY <1>6, <2>3
  <2>5. /\ cloud' \in [Keys -> [st : States, size : Nat]] /\ owed' \in [Keys -> Nat]
        /\ unsaved' \subseteq Keys /\ k \in unsaved'
        /\ cloud'[k] = [st |-> st, size |-> 0] /\ owed'[k] = cloud[k].size
        /\ \A j \in Keys \ {k} : /\ cloud'[j] = cloud[j] /\ owed'[j] = owed[j]
                                 /\ j \in unsaved' <=> j \in unsaved
    BY <1>0, <1>6, TakeDownType
  <2>6. CloudInv(k)'
    BY <1>0, <1>1, <1>6, <2>1, <2>4, <2>5, TakeDownKeeps
  <2>7. OneKey(k)
    BY <1>0, <2>3, <2>5 DEF OneKey, TypeInv
  <2> QED BY <1>2, <2>6, <2>7, OneKeyStep
<1> QED BY <1>4, <1>5, <1>6

\* The job after one resource is done with.
LEMMA DoneFacts ==
  ASSUME TypeInv, NEW k, NEW P \in SUBSET Keys,
         \/ Done(k) /\ P = job.pend
         \/ job' = [job EXCEPT !.todo = @ \ {k}, !.pend = P]
  PROVE  /\ job' \in Jobs /\ job'.op = job.op /\ job'.pc = job.pc /\ job'.ok = job.ok
         /\ job'.todo = job.todo \ {k} /\ job'.pend = P
<1>1. job \in Jobs /\ job.todo \in SUBSET Keys
  BY DEF TypeInv, Jobs
<1>2. CASE Done(k) /\ P = job.pend
  BY <1>1, <1>2 DEF Jobs, Done
<1>3. CASE job' = [job EXCEPT !.todo = @ \ {k}, !.pend = P]
  BY <1>1, <1>3 DEF Jobs
<1> QED BY <1>2, <1>3

\* What goes on in the loop of a shutdown, but for EC2.
LEMMA ScaleDownSteps ==
  ASSUME RunnerInv, NEW k \in Keys,
         ScaleNodeGroupToZero(k) \/ ScaleDownNodePool(k) \/ ScaleDownWorkload(k) \/ GetScaleFails(k)
  PROVE  RunnerInv'
<1>0. TypeInv /\ job.pend \in SUBSET Keys /\ budget \in [faults : Nat, kills : Nat, meddling : Nat]
  BY DEF RunnerInv, TypeInv, Jobs
<1>1. /\ Done(k) /\ ExecutorFrame /\ forfeit' = forfeit /\ k \in job.todo
      /\ job.op = "shutdown" /\ job.pc = "work" /\ kind \in {"eks", "karpenter", "workloadscaler"}
  BY DEF ScaleNodeGroupToZero, ScaleDownNodePool, ScaleDownWorkload, GetScaleFails, Running
<1>2. /\ job' \in Jobs /\ job'.op = job.op /\ job'.pc = job.pc /\ job'.ok = job.ok
      /\ job'.todo = job.todo \ {k} /\ job'.pend = job.pend
  BY <1>0, <1>1, DoneFacts
<1>3. budget' \in [faults : Nat, kills : Nat, meddling : Nat]
  <2>1. budget' = budget \/ Fault
    BY Zenon DEF ScaleNodeGroupToZero, ScaleDownNodePool, ScaleDownWorkload, GetScaleFails
  <2> QED BY <1>0, <2>1 DEF Fault
<1>4. ASSUME UNCHANGED <<cloud, owed, unsaved, acc>>
      PROVE  RunnerInv'
  BY <1>1, <1>2, <1>3, <1>4, ShutdownKeyStep
<1>5. ASSUME UNCHANGED <<cloud, owed, unsaved>>, Report(k, FALSE, 0), kind # "karpenter"
      PROVE  RunnerInv'
  <2>1. \E size \in Nat : Report(k, FALSE, size)
    BY <1>5, Zenon, 0 \in Nat
  <2> QED BY <1>1, <1>2, <1>3, <1>5, <2>1, ShutdownKeyStep
<1>6. ASSUME Up(k), TakeDown(k, "down"), Report(k, TRUE, cloud[k].size), kind # "karpenter"
      PROVE  RunnerInv'
  <2>1. \E st \in States, dem \in BOOLEAN :
          /\ TakeDown(k, st) /\ Report(k, dem, cloud[k].size)
          /\ dem \/ kind = "karpenter"
          /\ IF kind = "karpenter" THEN st = "gone" ELSE st \in {"down", "stopping"}
    <3>1. "down" \in States /\ TRUE \in BOOLEAN /\ "down" \in {"down", "stopping"}
      BY DEF States
    <3> QED BY <1>6, <3>1, Zenon
  <2> QED BY <1>1, <1>2, <1>3, <1>6, <2>1, ShutdownKeyStep
<1>7. ASSUME Up(k), TakeDown(k, "gone"), Report(k, FALSE, cloud[k].size), kind = "karpenter"
      PROVE  RunnerInv'
  <2>1. \E st \in States, dem \in BOOLEAN :
          /\ TakeDown(k, st) /\ Report(k, dem, cloud[k].size)
          /\ dem \/ kind = "karpenter"
          /\ IF kind = "karpenter" THEN st = "gone" ELSE st \in {"down", "stopping"}
    <3>1. "gone" \in States /\ FALSE \in BOOLEAN
      BY DEF States
    <3> QED BY <1>7, <3>1, Zenon
  <2> QED BY <1>1, <1>2, <1>3, <1>7, <2>1, ShutdownKeyStep
<1>8. CASE ScaleNodeGroupToZero(k)
  <2>1. kind = "eks"
    BY <1>8 DEF ScaleNodeGroupToZero, Running
  <2>2. \/ UNCHANGED <<cloud, owed, unsaved, acc>>
        \/ Up(k) /\ TakeDown(k, "down") /\ Report(k, TRUE, cloud[k].size)
        \/ UNCHANGED <<cloud, owed, unsaved>> /\ Report(k, FALSE, 0)
    BY <1>8, Zenon DEF ScaleNodeGroupToZero, ReportAsScaled
  <2> QED BY <1>4, <1>5, <1>6, <2>1, <2>2
<1>9. CASE ScaleDownWorkload(k)
  <2>1. kind = "workloadscaler"
    BY <1>9 DEF ScaleDownWorkload, Running
  <2>2. \/ UNCHANGED <<cloud, owed, unsaved, acc>>
        \/ Up(k) /\ TakeDown(k, "down") /\ Report(k, TRUE, cloud[k].size)
        \/ UNCHANGED <<cloud, owed, unsaved>> /\ Report(k, FALSE, 0)
    BY <1>9, Zenon DEF ScaleDownWorkload
  <2> QED BY <1>4, <1>5, <1>6, <2>1, <2>2
<1>10. CASE ScaleDownNodePool(k)
  <2>1. kind = "karpenter"
    BY <1>10 DEF ScaleDownNodePool, Running
  <2>2. \/ UNCHANGED <<cloud, owed, unsaved, acc>>
        \/ Up(k) /\ TakeDown(k, "gone") /\ Report(k, FALSE, cloud[k].size)
    BY <1>10, Zenon DEF ScaleDownNodePool
  <2> QED BY <1>4, <1>7, <2>1, <2>2
<1>11. CASE GetScaleFails(k)
  BY <1>4, <1>11 DEF GetScaleFails
<1> QED BY <1>8, <1>9, <1>10, <1>11

\* The RDS executor stops a database, in its loop or once it has settled.
LEMMA RDSStopSteps ==
  ASSUME RunnerInv, NEW k \in Keys, RDSStop(k) \/ RDSPendingStop(k)
  PROVE  RunnerInv'
<1>0. TypeInv /\ JobInv /\ CloudInv(k) /\ job \in Jobs /\ budget \in [faults : Nat, kills : Nat, meddling : Nat]
  BY DEF RunnerInv, KeyInv, TypeInv
<1>1. /\ ExecutorFrame /\ forfeit' = forfeit /\ budget' = budget
      /\ job.op = "shutdown" /\ kind = "rds" /\ StopBody(k)
      /\ \/ job.pc = "work" /\ k \in job.todo
         \/ job.pc = "await" /\ Up(k)
  BY DEF RDSStop, RDSPendingStop, Running
<1>2. /\ job' \in Jobs /\ job'.op = job.op /\ job'.pc = job.pc /\ job'.ok = job.ok
      /\ job'.todo = job.todo \ {k}
      /\ \A j \in Keys \ {k} : j \in job'.pend <=> j \in job.pend
  <2>1. CASE RDSStop(k)
    <3> DEFINE P == IF await /\ InTransition(k) THEN job.pend \cup {k} ELSE job.pend
    <3>1. job' = [job EXCEPT !.todo = @ \ {k}, !.pend = P]
      BY <2>1 DEF RDSStop
    <3>2. P \in SUBSET Keys /\ \A j \in Keys \ {k} : j \in P <=> j \in job.pend
      BY <1>0 DEF Jobs
    <3> HIDE DEF P
    <3> QED BY <1>0, <3>1, <3>2, DoneFacts
  <2>2. CASE RDSPendingStop(k)
    <3>1. job' = [job EXCEPT !.pend = @ \ {k}] /\ job.pc = "await"
      BY <2>2 DEF RDSPendingStop, Running
    <3>2. job.todo = {}
      BY <1>0, <3>1 DEF JobInv
    <3> QED BY <1>0, <3>1, <3>2 DEF Jobs
  <2> QED BY <2>1, <2>2
<1>3. ASSUME UNCHANGED <<cloud, owed, unsaved, acc>>
      PROVE  RunnerInv'
  BY <1>0, <1>1, <1>2, <1>3, ShutdownKeyStep
<1>4. ASSUME UNCHANGED <<cloud, owed, unsaved>>, Report(k, FALSE, 1), job.pc = "work"
      PROVE  RunnerInv'
  <2>1. \E size \in Nat : Report(k, FALSE, size)
    BY <1>4, Zenon, 1 \in Nat
  <2> QED BY <1>0, <1>1, <1>2, <1>4, <2>1, ShutdownKeyStep
<1>5. ASSUME Up(k), TakeDown(k, "stopping"), Report(k, TRUE, 1)
      PROVE  RunnerInv'
  <2>1. cloud[k].size = 1
    BY <1>0, <1>1, <1>5 DEF CloudInv, SizeInv, Up
  <2>2. \E st \in States, dem \in BOOLEAN :
          /\ TakeDown(k, st) /\ Report(k, dem, cloud[k].size)
          /\ dem \/ kind = "karpenter"
          /\ IF kind = "karpenter" THEN st = "gone" ELSE st \in {"down", "stopping"}
    <3>1. "stopping" \in States /\ TRUE \in BOOLEAN /\ "stopping" \in {"down", "stopping"} /\ kind # "karpenter"
      BY <1>1 DEF States
    <3> QED BY <1>5, <2>1, <3>1, Zenon
  <2> QED BY <1>0, <1>1, <1>2, <1>5, <2>2, ShutdownKeyStep
<1>6. \/ UNCHANGED <<cloud, owed, unsaved, acc>>
      \/ Up(k) /\ TakeDown(k, "stopping") /\ Report(k, TRUE, 1)
      \/ cloud[k].st = "down" /\ UNCHANGED <<cloud, owed, unsaved>> /\ Report(k, FALSE, 1)
  BY <1>1, Zenon DEF StopBody, Up
<1>7. cloud[k].st = "down" => job.pc = "work"
  BY <1>1 DEF Up
<1> QED BY <1>3, <1>4, <1>5, <1>6, <1>7

\* What a wakeup does to one resource, whatever the executor: it gives it back, or
\* leaves it, which it may only do with what is not owed, forfeited or now pending.
LEMMA WakeupKeyStep ==
  ASSUME RunnerInv, NEW k \in Keys, ExecutorFrame, UNCHANGED <<unsaved, acc, budget>>,
         job.op = "wakeup", job.pc \in {"work", "await"},
         forfeit \subseteq forfeit', forfeit' \subseteq Keys,
         job' \in Jobs, job'.op = job.op, job'.pc = job.pc, job'.ok = job.ok,
         job'.todo = job.todo \ {k},
         \A j \in Keys \ {k} : j \in job'.pend <=> j \in job.pend,
         k \in job'.pend => rd[k].dem,
         \/ /\ UNCHANGED <<cloud, owed>>
            /\ owed[k] > 0 => k \in forfeit' \cup job'.pend
         \/ /\ rd[k].has /\ (rd[k].dem \/ kind = "karpenter") /\ forfeit' = forfeit
            /\ GiveBack(k, IF kind = "rds" THEN "starting" ELSE "up",
                           IF kind = "rds" THEN 1 ELSE rd[k].size)
  PROVE  RunnerInv'
<1>0. TypeInv /\ JobInv /\ CloudInv(k)
  BY DEF RunnerInv, KeyInv
<1>1. /\ kind' = kind /\ store' = store /\ touched' = touched /\ rd' = rd
  BY FrameFacts
<1>2. unsaved = {} /\ acc = NoEntries /\ rd = LoadRestoreData(store)
  BY <1>0 DEF JobInv
<1>3. /\ cloud \in [Keys -> [st : States, size : Nat]] /\ owed \in [Keys -> Nat]
      /\ acc \in Accumulators /\ unsaved \subseteq Keys
      /\ budget \in [faults : Nat, kills : Nat, meddling : Nat]
  BY <1>0 DEF TypeInv
<1>4. ASSUME UNCHANGED <<cloud, owed>>, owed[k] > 0 => k \in forfeit' \cup job'.pend
      PROVE  RunnerInv'
  <2>1. Quiet(k)
    BY <1>1, <1>4 DEF Quiet
  <2>2. CloudInv(k)'
    BY <1>0, <2>1, QuietKeeps
  <2>3. OneKey(k)
    BY <1>3, <1>4 DEF OneKey
  <2>4. WakeupInv(k)'
    BY <1>1, <1>4 DEF WakeupInv
  <2> QED BY <2>2, <2>3, <2>4, OneKeyStep
<1>5. ASSUME NEW st, st = IF kind = "rds" THEN "starting" ELSE "up",
             NEW size, size = IF kind = "rds" THEN 1 ELSE rd[k].size,
             rd[k].has, rd[k].dem \/ kind = "karpenter", forfeit' = forfeit,
             GiveBack(k, st, size)
      PROVE  RunnerInv'
  <2>1. CloudInv(k)' /\ (owed'[k] > 0 => k \in forfeit)
    BY <1>0, <1>1, <1>2, <1>5, GiveBackKeeps
  <2>2. st \in States /\ size \in Nat
    <3>1. rd[k].size \in Nat
      BY <1>0, KeyTypes DEF Entry
    <3> QED BY <1>5, <3>1 DEF States
  <2>3. /\ cloud' \in [Keys -> [st : States, size : Nat]] /\ owed' \in [Keys -> Nat]
        /\ \A j \in Keys \ {k} : cloud'[j] = cloud[j] /\ owed'[j] = owed[j]
    BY <1>0, <1>5, <2>2, GiveBackType
  <2>4. OneKey(k)
    BY <1>3, <2>3 DEF OneKey
  <2>5. WakeupInv(k)'
    BY <1>1, <1>5, <2>1 DEF WakeupInv
  <2> QED BY <2>1, <2>4, <2>5, OneKeyStep
<1> QED BY <1>4, <1>5

\* EKS, the workload scaler and Karpenter give one resource back, or pass it over.
LEMMA RestoreSteps ==
  ASSUME RunnerInv, NEW k \in Keys,
         RestoreNodeGroup(k) \/ RestoreWorkload(k) \/ RestoreNodePool(k)
  PROVE  RunnerInv'
<1>0. TypeInv /\ WakeupInv(k) /\ job.pend \in SUBSET Keys /\ forfeit \subseteq Keys
  BY DEF RunnerInv, KeyInv, TypeInv, Jobs
<1>1. /\ Done(k) /\ ExecutorFrame /\ UNCHANGED <<unsaved, acc, budget>> /\ forfeit' = forfeit
      /\ k \in job.todo
      /\ job.op = "wakeup" /\ job.pc = "work" /\ kind \in {"eks", "karpenter", "workloadscaler"}
  BY DEF RestoreNodeGroup, RestoreWorkload, RestoreNodePool, Running
<1>2. /\ job' \in Jobs /\ job'.op = job.op /\ job'.pc = job.pc /\ job'.ok = job.ok
      /\ job'.todo = job.todo \ {k} /\ job'.pend = job.pend
  BY <1>0, <1>1, DoneFacts
<1>3. rd[k].has /\ (k \in job.pend => rd[k].dem)
  BY <1>0, <1>1 DEF WakeupInv
<1>4. owed[k] > 0 /\ k \notin forfeit =>
        /\ rd[k].has /\ (rd[k].dem \/ kind = "karpenter")
        /\ IF kind = "karpenter" THEN cloud[k].st = "gone" ELSE cloud[k].st \in {"down", "stopping"}
  BY <1>1, OwedIsLoaded
<1>5. \/ /\ UNCHANGED <<cloud, owed>>
         /\ owed[k] > 0 => k \in forfeit
      \/ (rd[k].dem \/ kind = "karpenter") /\ GiveBack(k, "up", rd[k].size)
  <2>1. CASE kind = "karpenter"
    <3>1. IF Up(k) THEN UNCHANGED <<cloud, owed>> ELSE GiveBack(k, "up", rd[k].size)
      BY <2>1 DEF RestoreNodeGroup, RestoreWorkload, RestoreNodePool, Running
    <3> QED BY <1>4, <2>1, <3>1 DEF Up
  <2>2. CASE kind # "karpenter"
    <3>1. IF rd[k].dem /\ k \in Existing THEN GiveBack(k, "up", rd[k].size) ELSE UNCHANGED <<cloud, owed>>
      BY <2>2 DEF RestoreNodeGroup, RestoreWorkload, RestoreNodePool, Running
    <3>2. k \in Existing <=> cloud[k].st # "gone"
      BY DEF Existing
    <3> QED BY <1>4, <2>2, <3>1, <3>2
  <2> QED BY <2>1, <2>2
<1>6. CASE UNCHANGED <<cloud, owed>> /\ (owed[k] > 0 => k \in forfeit)
  BY <1>0, <1>1, <1>2, <1>3, <1>6, WakeupKeyStep
<1>7. ASSUME rd[k].dem \/ kind = "karpenter", GiveBack(k, "up", rd[k].size)
      PROVE  RunnerInv'
  <2>1. GiveBack(k, IF kind = "rds" THEN "starting" ELSE "up", IF kind = "rds" THEN 1 ELSE rd[k].size)
    BY <1>1, <1>7
  <2> QED BY <1>0, <1>1, <1>2, <1>3, <1>7, <2>1, WakeupKeyStep
<1> QED BY <1>5, <1>6, <1>7

\* The RDS executor starts a database, passes it over or waits for it.
LEMMA RDSStartSteps ==
  ASSUME RunnerInv, NEW k \in Keys, RDSStart(k) \/ RDSPendingStart(k)
  PROVE  RunnerInv'
<1>0. TypeInv /\ JobInv /\ WakeupInv(k) /\ job \in Jobs /\ forfeit \subseteq Keys /\ await \in BOOLEAN
  BY DEF RunnerInv, KeyInv, TypeInv
<1>1. /\ ExecutorFrame /\ UNCHANGED <<unsaved, acc, budget>>
      /\ job.op = "wakeup" /\ job.pc \in {"work", "await"} /\ kind = "rds"
  BY DEF RDSStart, RDSPendingStart, Running
<1>2. CASE RDSPendingStart(k)
  <2>1. job' = [job EXCEPT !.pend = @ \ {k}] /\ job.pc = "await" /\ k \in job.pend /\ forfeit' = forfeit
    BY <1>2 DEF RDSPendingStart, Running
  <2>2. job.todo = {} /\ rd[k].dem
    BY <1>0, <1>1, <2>1 DEF JobInv, WakeupInv
  <2>3. /\ job' \in Jobs /\ job'.op = job.op /\ job'.pc = job.pc /\ job'.ok = job.ok
        /\ job'.todo = job.todo \ {k} /\ k \notin job'.pend
        /\ \A j \in Keys \ {k} : j \in job'.pend <=> j \in job.pend
    BY <1>0, <2>1, <2>2 DEF Jobs
  <2>4. rd[k].has
    <3>1. rd = LoadRestoreData(store)
      BY <1>0, <1>1 DEF JobInv
    <3> QED BY <1>0, <2>2, <3>1, LoadedEntry
  <2>5. GiveBack(k, IF kind = "rds" THEN "starting" ELSE "up", IF kind = "rds" THEN 1 ELSE rd[k].size)
    BY <1>1, <1>2 DEF RDSPendingStart, StartBody
  <2> QED BY <1>0, <1>1, <2>1, <2>2, <2>3, <2>4, <2>5, WakeupKeyStep
<1>3. CASE RDSStart(k)
  <2> DEFINE passed == rd[k].dem /\ InTransition(k)
             P == IF await /\ passed THEN job.pend \cup {k} ELSE job.pend
  <2>1. /\ job' = [job EXCEPT !.todo = @ \ {k}, !.pend = P]
        /\ forfeit' = IF ~await /\ passed THEN forfeit \cup {k} ELSE forfeit
        /\ job.pc = "work" /\ k \in job.todo
    BY <1>3 DEF RDSStart, Running
  <2>2. P \in SUBSET Keys /\ \A j \in Keys \ {k} : j \in P <=> j \in job.pend
    BY <1>0 DEF Jobs
  <2>3. rd[k].has /\ (k \in job.pend => rd[k].dem)
    BY <1>0, <1>1, <2>1 DEF WakeupInv
  <2>4. k \in P => rd[k].dem
    BY <2>3
  <2>5. forfeit \subseteq forfeit' /\ forfeit' \subseteq Keys
    BY <1>0, <2>1
  <2>6. owed[k] > 0 /\ k \notin forfeit => rd[k].dem /\ cloud[k].st \in {"down", "stopping"}
    BY <1>1, OwedIsLoaded
  <2>7. ~(rd[k].dem /\ cloud[k].st = "down") => (owed[k] > 0 => k \in forfeit' \cup P)
    BY <1>0, <2>1, <2>6 DEF InTransition
  <2>8. rd[k].dem /\ cloud[k].st = "down" => forfeit' = forfeit
    BY <2>1 DEF InTransition
  <2> HIDE DEF P, passed
  <2>9. /\ job' \in Jobs /\ job'.op = job.op /\ job'.pc = job.pc /\ job'.ok = job.ok
        /\ job'.todo = job.todo \ {k} /\ job'.pend = P
    BY <1>0, <2>1, <2>2, DoneFacts
  <2>10. CASE rd[k].dem /\ cloud[k].st = "down"
    <3>1. GiveBack(k, IF kind = "rds" THEN "starting" ELSE "up", IF kind = "rds" THEN 1 ELSE rd[k].size)
      BY <1>1, <1>3, <2>10 DEF RDSStart, StartBody
    <3> QED BY <1>0, <1>1, <2>2, <2>3, <2>4, <2>8, <2>9, <2>10, <3>1, WakeupKeyStep
  <2>11. CASE ~(rd[k].dem /\ cloud[k].st = "down")
    <3>1. UNCHANGED <<cloud, owed>>
      BY <1>3, <2>11 DEF RDSStart
    <3> QED BY <1>1, <2>2, <2>4, <2>5, <2>7, <2>9, <2>11, <3>1, WakeupKeyStep
  <2> QED BY <2>10, <2>11
<1> QED BY <1>2, <1>3

\* The goroutine of a pending database gives up.
LEMMA RDSPendingFailsStep ==
  ASSUME RunnerInv, NEW k \in Keys, RDSPendingFails(k)
  PROVE  RunnerInv'
<1>0. /\ TypeInv /\ JobInv /\ WakeupInv(k) /\ job \in Jobs /\ forfeit \subseteq Keys
      /\ budget \in [faults : Nat, kills : Nat, meddling : Nat]
  BY DEF RunnerInv, KeyInv, TypeInv
<1>1. /\ ExecutorFrame /\ UNCHANGED <<cloud, owed, unsaved, acc, budget>> /\ kind = "rds"
      /\ job' = [job EXCEPT !.pend = @ \ {k}] /\ job.pc = "await"
      /\ forfeit' = IF job.op = "wakeup" THEN forfeit \cup {k} ELSE forfeit
  BY DEF RDSPendingFails
<1>2. job.todo = {} /\ job.op \in {"shutdown", "wakeup"}
  BY <1>0, <1>1 DEF JobInv, Jobs
<1>3. /\ job' \in Jobs /\ job'.op = job.op /\ job'.pc = job.pc /\ job'.ok = job.ok
      /\ job'.todo = job.todo \ {k} /\ k \notin job'.pend
      /\ \A j \in Keys \ {k} : j \in job'.pend <=> j \in job.pend
  BY <1>0, <1>1, <1>2 DEF Jobs
<1>4. CASE job.op = "shutdown"
  <2>1. forfeit' = forfeit /\ budget' = budget
    BY <1>1, <1>4
  <2> QED BY <1>0, <1>1, <1>3, <1>4, <2>1, ShutdownKeyStep
<1>5. CASE job.op = "wakeup"
  <2>1. forfeit \subseteq forfeit' /\ forfeit' \subseteq Keys /\ k \in forfeit'
    BY <1>0, <1>1, <1>5
  <2> QED BY <1>1, <1>3, <1>5, <2>1, WakeupKeyStep
<1> QED BY <1>2, <1>4, <1>5

-----------------------------------------------------------------------------
(* EC2 and noop *)

\* EC2Shutdown reports all instances before it stops any.
LEMMA EC2ShutdownStep ==
  ASSUME RunnerInv, EC2Shutdown
  PROVE  RunnerInv'
<1>0. TypeInv /\ JobInv /\ StoreInv /\ \A k \in Keys : KeyInv(k)
  BY DEF RunnerInv
<1>1. /\ kind = "ec2" /\ job.op = "shutdown" /\ job.pc = "find"
      /\ UNCHANGED <<cloud, owed, unsaved, budget, forfeit>>
      /\ kind' = kind /\ await' = await /\ store' = store /\ restored' = restored
      /\ rd' = rd /\ plan' = plan /\ touched' = touched
  BY FrameFacts DEF EC2Shutdown, Running
<1>2. unsaved = {} /\ ~restored /\ job.ok /\ acc = NoEntries
  BY <1>0, <1>1 DEF JobInv
<1> DEFINE T == {k \in Keys : Up(k)}
<1>3. /\ job' \in Jobs /\ job'.op = "shutdown" /\ job'.pc = "work" /\ job'.ok /\ job'.todo = T
  <2>1. job' = [job EXCEPT !.pc = "work", !.todo = T] /\ T \in SUBSET Keys /\ job \in Jobs
    BY <1>0 DEF EC2Shutdown, Loop, TypeInv
  <2> HIDE DEF T
  <2> QED BY <1>1, <1>2, <2>1 DEF Jobs, Pcs
<1> DEFINE rep(k) == [has |-> TRUE, dem |-> Up(k), size |-> 1, stale |-> 0, reported |-> TRUE]
<1>4. ASSUME NEW k \in Keys
      PROVE  /\ rep(k) \in Entry /\ rep(k).has /\ rep(k).reported /\ rep(k).stale = 0
             /\ rep(k).size = 1 /\ (rep(k).dem <=> Up(k))
  <2> DEFINE u == Up(k)
  <2>1. u \in BOOLEAN
    BY DEF Up
  <2> HIDE DEF u
  <2>2. /\ [has |-> TRUE, dem |-> u, size |-> 1, stale |-> 0, reported |-> TRUE] \in Entry
        /\ [has |-> TRUE, dem |-> u, size |-> 1, stale |-> 0, reported |-> TRUE].dem = u
    BY <2>1 DEF Entry
  <2> QED BY <2>2 DEF u
<1>5. acc' = [k \in Keys |-> IF k \in Existing THEN rep(k) ELSE acc[k]]
  BY DEF EC2Shutdown, FindInstances
<1> HIDE DEF rep
<1>6. ASSUME NEW k \in Keys
      PROVE  \/ cloud[k].st # "gone" /\ acc'[k] = rep(k)
             \/ cloud[k].st = "gone" /\ acc'[k] = NoEntry
  BY <1>2, <1>5, NoEntryFacts DEF Existing
<1>7. acc' \in Accumulators
  <2>1. acc' \in [Keys -> Entry]
    BY <1>4, <1>5, <1>6, NoEntryType
  <2> QED BY <1>4, <1>6, <2>1, NoEntryFacts DEF Accumulators
<1>8. TypeInv'
  BY <1>0, <1>1, <1>3, <1>7 DEF TypeInv
<1>9. JobInv'
  BY <1>0, <1>1, <1>2, <1>3 DEF JobInv
<1>10. StoreInv'
  BY <1>0, <1>1, <1>3 DEF StoreInv
<1>11. ASSUME NEW k \in Keys PROVE KeyInv(k)'
  <2>1. CloudInv(k) /\ owed[k] \in Nat
    BY <1>0, KeyTypes DEF KeyInv
  <2>2. /\ acc'[k].dem => Up(k) /\ acc'[k].size = 1
        /\ Up(k) => acc'[k].has /\ acc'[k].dem
    BY <1>4, <1>6, NoEntryFacts DEF Up
  <2>3. SizeInv(k)'
    BY <1>1, <2>1, <2>2 DEF CloudInv, SizeInv, Positive
  <2>4. OwedInv(k)'
    <3>1. owed[k] > 0 => k \in forfeit \/ ~Up(k)
      BY <1>1, <2>1 DEF CloudInv, OwedInv, Up
    <3> QED BY <1>1, <1>2, <2>1, <2>2, <3>1 DEF CloudInv, OwedInv, Asked, Restorable, OutdatedSpec
  <2>5. AskedInv(k)'
    BY <1>1, <2>1, <2>2 DEF CloudInv, AskedInv, UpOrOwed, Asked, Up
  <2>6. PoolInv(k)'
    BY <1>1 DEF PoolInv
  <2>7. ShutdownInv(k)'
    BY <1>1, <1>3, <2>2 DEF ShutdownInv
  <2>8. WakeupInv(k)'
    BY <1>3 DEF WakeupInv
  <2> QED BY <2>3, <2>4, <2>5, <2>6, <2>7, <2>8 DEF KeyInv, CloudInv
<1> QED BY <1>8, <1>9, <1>10, <1>11 DEF RunnerInv

\* NoopShutdown reports what it does not take down.
LEMMA NoopShutdownStep ==
  ASSUME RunnerInv, NoopShutdown
  PROVE  RunnerInv'
<1>0. TypeInv /\ JobInv /\ StoreInv /\ \A k \in Keys : KeyInv(k)
  BY DEF RunnerInv
<1>1. /\ kind = "noop" /\ job.op = "shutdown" /\ job.pc = "find"
      /\ job' = [job EXCEPT !.pc = "flush"]
      /\ UNCHANGED <<cloud, owed, unsaved, budget, forfeit>>
      /\ kind' = kind /\ await' = await /\ store' = store /\ restored' = restored
      /\ rd' = rd /\ plan' = plan /\ touched' = touched
  BY FrameFacts DEF NoopShutdown, Running
<1>2. unsaved = {} /\ ~restored
  BY <1>0, <1>1 DEF JobInv
<1>3. job' \in Jobs /\ job'.op = "shutdown" /\ job'.pc = "flush"
  BY <1>0, <1>1 DEF TypeInv, Jobs, Pcs
<1>4. acc' \in Accumulators /\ \A k \in Keys : acc'[k] = acc[k] \/ ~acc'[k].dem
  <2> DEFINE e == [has |-> TRUE, dem |-> FALSE, size |-> 0, stale |-> 0, reported |-> TRUE]
  <2>1. acc' = [acc EXCEPT ![NoopKey] = e] /\ acc \in [Keys -> Entry] /\ acc \in Accumulators
    BY <1>0 DEF NoopShutdown, Report, Add, TypeInv, Accumulators
  <2>2. e \in Entry /\ e.has /\ e.reported /\ e.stale = 0 /\ ~e.dem
    BY DEF Entry
  <2> HIDE DEF e
  <2>3. acc' \in [Keys -> Entry] /\ \A j \in Keys : acc'[j] = IF j = NoopKey THEN e ELSE acc[j]
    BY <2>1, <2>2
  <2>4. acc' \in Accumulators
    BY <2>1, <2>2, <2>3 DEF Accumulators
  <2> QED BY <2>2, <2>3, <2>4
<1>5. TypeInv'
  BY <1>0, <1>1, <1>3, <1>4 DEF TypeInv
<1>6. JobInv'
  BY <1>0, <1>1, <1>2, <1>3 DEF JobInv
<1>7. StoreInv'
  BY <1>0, <1>1, <1>3 DEF StoreInv
<1>8. ASSUME NEW k \in Keys PROVE KeyInv(k)'
  <2>1. CloudInv(k)
    BY <1>0 DEF KeyInv
  <2>2. CASE acc'[k] = acc[k]
    <3>1. Quiet(k)
      BY <1>1, <2>2 DEF Quiet
    <3> QED BY <1>1, <1>2, <1>3, <2>1, <3>1, QuietKeeps DEF KeyInv, ShutdownInv, WakeupInv
  <2>3. CASE ~acc'[k].dem
    <3>1. CloudInv(k)'
      BY <1>0, <1>1, <1>2, <2>1, <2>3, ReportKeeps
    <3> QED BY <1>1, <1>2, <1>3, <3>1 DEF KeyInv, ShutdownInv, WakeupInv
  <2> QED BY <1>4, <2>2, <2>3
<1> QED BY <1>5, <1>6, <1>7, <1>8 DEF RunnerInv

\* StopInstances stops all instances that were running, or none.
LEMMA EC2StopStep ==
  ASSUME RunnerInv, EC2Stop
  PROVE  RunnerInv'
<1>0. TypeInv /\ JobInv /\ StoreInv /\ \A k \in Keys : KeyInv(k)
  BY DEF RunnerInv
<1>1. /\ kind = "ec2" /\ job.op = "shutdown" /\ job.pc = "work" /\ UNCHANGED <<acc, budget, forfeit>>
      /\ kind' = kind /\ await' = await /\ store' = store /\ restored' = restored
      /\ rd' = rd /\ plan' = plan /\ touched' = touched
  BY FrameFacts DEF EC2Stop, Running
<1> DEFINE stopped == {k \in job.todo : cloud[k].st \in {"up", "starting"}}
<1>2. ~restored /\ stopped \subseteq Keys
  BY <1>0, <1>1 DEF JobInv, TypeInv, Jobs
<1>3. /\ job' \in Jobs /\ job'.op = "shutdown" /\ job'.pc \in {"work", "flush"}
      /\ job'.todo = {} /\ (job'.pc = "work" => job'.ok)
  <2>1. CASE job' = Failed(job)
    BY <1>0, <1>1, <2>1, FailedFacts
  <2>2. CASE job' = [job EXCEPT !.todo = {}]
    BY <1>0, <1>1, <2>2 DEF TypeInv, Jobs, JobInv
  <2> QED BY <2>1, <2>2 DEF EC2Stop
<1>4. \/ UNCHANGED <<cloud, owed, unsaved>>
      \/ /\ cloud' = [k \in Keys |-> IF k \in stopped THEN [st |-> "stopping", size |-> 0] ELSE cloud[k]]
         /\ owed' = [k \in Keys |-> IF k \in stopped THEN 1 ELSE owed[k]]
         /\ unsaved' = unsaved \cup stopped
  BY DEF EC2Stop
<1>5. ASSUME NEW k \in Keys, k \in stopped
      PROVE  cloud[k].st \in {"up", "starting"} /\ acc[k].has /\ acc[k].dem /\ acc[k].size = 1
  <2>1. ShutdownInv(k) /\ k \in job.todo /\ cloud[k].st \in {"up", "starting"}
    BY <1>0, <1>5 DEF KeyInv
  <2> QED BY <1>1, <2>1 DEF ShutdownInv
<1> HIDE DEF stopped
<1>6. /\ cloud' \in [Keys -> [st : States, size : Nat]] /\ owed' \in [Keys -> Nat]
      /\ unsaved' \subseteq Keys
  <2>1. CASE UNCHANGED <<cloud, owed, unsaved>>
    BY <1>0, <2>1 DEF TypeInv
  <2>2. CASE /\ cloud' = [k \in Keys |-> IF k \in stopped THEN [st |-> "stopping", size |-> 0] ELSE cloud[k]]
             /\ owed' = [k \in Keys |-> IF k \in stopped THEN 1 ELSE owed[k]]
             /\ unsaved' = unsaved \cup stopped
    <3>1. [st |-> "stopping", size |-> 0] \in [st : States, size : Nat]
      BY DEF States
    <3>2. \A k \in Keys : cloud[k] \in [st : States, size : Nat] /\ owed[k] \in Nat
      BY <1>0, KeyTypes
    <3> QED BY <1>0, <1>2, <2>2, <3>1, <3>2 DEF TypeInv
  <2> QED BY <1>4, <2>1, <2>2
<1>7. TypeInv'
  BY <1>0, <1>1, <1>3, <1>6 DEF TypeInv
<1>8. JobInv'
  BY <1>0, <1>1, <1>2, <1>3 DEF JobInv
<1>9. StoreInv'
  BY <1>0, <1>1, <1>3 DEF StoreInv
<1>10. ASSUME NEW k \in Keys PROVE KeyInv(k)'
  <2>1. CloudInv(k)
    BY <1>0 DEF KeyInv
  <2>2. ShutdownInv(k)' /\ WakeupInv(k)'
    BY <1>3 DEF ShutdownInv, WakeupInv
  <2>3. CASE cloud'[k] = cloud[k] /\ owed'[k] = owed[k] /\ (k \in unsaved' <=> k \in unsaved)
    <3>1. Quiet(k)
      BY <1>1, <2>3 DEF Quiet
    <3> QED BY <2>1, <2>2, <3>1, QuietKeeps DEF KeyInv
  <2>4. CASE k \in stopped /\ cloud'[k] = [st |-> "stopping", size |-> 0] /\ owed'[k] = 1 /\ k \in unsaved'
    <3>1. cloud[k].st \in {"up", "starting"} /\ acc[k].has /\ acc[k].dem /\ acc[k].size = 1
      BY <1>5, <2>4
    <3>2. acc[k].stale = 0
      <4>1. acc \in Accumulators
        BY <1>0 DEF TypeInv
      <4> QED BY <3>1, <4>1 DEF Accumulators
    <3>3. Asked(acc[k])' /\ acc'[k].size = 1 /\ owed'[k] > 0
      BY <1>1, <2>4, <3>1, <3>2 DEF Asked
    <3>4. SizeInv(k)'
      BY <1>1, <2>1, <2>4 DEF CloudInv, SizeInv, Positive
    <3>5. OwedInv(k)'
      BY <1>1, <2>4, <3>3 DEF OwedInv
    <3>6. AskedInv(k)'
      BY <3>3 DEF AskedInv, UpOrOwed
    <3>7. PoolInv(k)'
      BY <1>1 DEF PoolInv
    <3> QED BY <2>2, <3>4, <3>5, <3>6, <3>7 DEF KeyInv, CloudInv
  <2> QED BY <1>4, <2>3, <2>4
<1> QED BY <1>7, <1>8, <1>9, <1>10 DEF RunnerInv

\* Starting instances: those that are missing are passed over.
LEMMA EC2StartStep ==
  ASSUME RunnerInv, EC2Start
  PROVE  RunnerInv'
<1>0. TypeInv /\ JobInv /\ StoreInv /\ \A k \in Keys : KeyInv(k)
  BY DEF RunnerInv
<1>1. /\ kind = "ec2" /\ job.op = "wakeup" /\ job.pc = "work" /\ UNCHANGED <<unsaved, acc, forfeit>>
      /\ kind' = kind /\ await' = await /\ store' = store /\ restored' = restored
      /\ rd' = rd /\ plan' = plan /\ touched' = touched
  BY FrameFacts DEF EC2Start, Running
<1>2. ~restored /\ unsaved = {} /\ acc = NoEntries
  BY <1>0, <1>1 DEF JobInv
<1> DEFINE present == job.todo \cap Existing
<1>3. PICK started \in SUBSET present :
        /\ \/ started = present /\ UNCHANGED budget /\ job' = [job EXCEPT !.todo = {}]
           \/ present # job.todo /\ started # present /\ Fault /\ job' = Failed(job)
        /\ cloud' = [k \in Keys |-> IF k \in started /\ ~Up(k)
                                    THEN [st |-> "starting", size |-> 1] ELSE cloud[k]]
        /\ owed' = [k \in Keys |-> IF k \in started THEN 0 ELSE owed[k]]
  BY DEF EC2Start
<1>4. budget' \in [faults : Nat, kills : Nat, meddling : Nat]
  BY <1>0, <1>3 DEF Fault, TypeInv
<1>5. /\ job' \in Jobs /\ job'.op = "wakeup" /\ job'.todo = {}
      /\ \/ job'.pc = "work" /\ job'.pend = job.pend /\ job'.ok /\ started = present
         \/ job'.pc = "end"
  <2>1. CASE job' = Failed(job)
    BY <1>0, <1>1, <2>1, FailedFacts
  <2>2. CASE job' = [job EXCEPT !.todo = {}] /\ started = present
    BY <1>0, <1>1, <2>2 DEF TypeInv, Jobs, JobInv
  <2> QED BY <1>3, <2>1, <2>2
<1>6. cloud' \in [Keys -> [st : States, size : Nat]] /\ owed' \in [Keys -> Nat]
  <2>1. [st |-> "starting", size |-> 1] \in [st : States, size : Nat]
    BY DEF States
  <2>2. \A k \in Keys : cloud[k] \in [st : States, size : Nat] /\ owed[k] \in Nat
    BY <1>0, KeyTypes
  <2> QED BY <1>3, <2>1, <2>2
<1>7. TypeInv'
  BY <1>0, <1>1, <1>4, <1>5, <1>6 DEF TypeInv
<1>8. JobInv'
  BY <1>0, <1>1, <1>2, <1>5 DEF JobInv
<1>9. StoreInv'
  BY <1>0, <1>1, <1>5 DEF StoreInv
<1>10. ASSUME NEW k \in Keys PROVE KeyInv(k)'
  <2>1. CloudInv(k) /\ WakeupInv(k) /\ owed[k] \in Nat
    BY <1>0, KeyTypes DEF KeyInv
  <2>2. ShutdownInv(k)'
    BY <1>5 DEF ShutdownInv
  <2>3. CASE k \notin started
    <3>1. Quiet(k)
      BY <1>1, <1>3, <2>3 DEF Quiet
    <3>2. CloudInv(k)'
      BY <2>1, <3>1, QuietKeeps
    <3>3. WakeupInv(k)'
      <4>1. owed[k] > 0 /\ k \notin forfeit => cloud[k].st # "gone"
        BY <1>1, OwedIsLoaded
      <4>2. k \in present <=> k \in job.todo /\ cloud[k].st # "gone"
        BY DEF Existing
      <4>3. owed'[k] = owed[k]
        BY <3>1 DEF Quiet
      <4> HIDE DEF present
      <4> QED BY <1>1, <1>5, <2>1, <2>3, <4>1, <4>2, <4>3 DEF WakeupInv
    <3> QED BY <2>2, <3>2, <3>3 DEF KeyInv
  <2>4. CASE k \in started
    <3>1. owed'[k] = 0 /\ (cloud'[k] = [st |-> "starting", size |-> 1] \/ (Up(k) /\ cloud'[k] = cloud[k]))
      BY <1>3, <2>4
    <3>2. cloud'[k].st \in {"up", "starting"} /\ cloud'[k].size > 0
      BY <2>1, <3>1 DEF CloudInv, SizeInv, Up
    <3>3. SizeInv(k)'
      BY <1>1, <2>1, <3>1, <3>2 DEF CloudInv, SizeInv, Positive
    <3>4. OwedInv(k)'
      BY <3>1 DEF OwedInv
    <3>5. AskedInv(k)'
      BY <3>2 DEF AskedInv, UpOrOwed
    <3>6. PoolInv(k)'
      BY <1>1 DEF PoolInv
    <3>7. WakeupInv(k)'
      BY <1>1, <1>5, <2>1, <3>1 DEF WakeupInv
    <3> QED BY <2>2, <3>3, <3>4, <3>5, <3>6, <3>7 DEF KeyInv, CloudInv
  <2> QED BY <2>3, <2>4
<1> QED BY <1>7, <1>8, <1>9, <1>10 DEF RunnerInv

-----------------------------------------------------------------------------
(* The flush and the ways a runner ends *)

\* What a flush makes of one entry: the report of this shutdown, or what an earlier
\* attempt of the cycle reported, or nothing a wakeup would act on.
LEMMA FlushedEntry ==
  ASSUME TypeInv, StoreInv, job.op = "shutdown", ~restored, NEW k \in Keys,
         Positive(acc[k]), Positive(store.entries[k])
  PROVE  LET e == SaveState(store, acc, plan.cycle).entries[k]
         IN /\ Positive(e)
            /\ \/ e = acc[k] /\ acc[k].has
                  /\ (store.live /\ store.entries[k].reported => acc[k].dem)
               \/ e = store.entries[k] /\ store.live
                  /\ (acc[k].has => ~acc[k].dem /\ store.entries[k].reported)
               \/ ~Asked(e) /\ ~acc[k].has /\ ~(store.live /\ store.entries[k].reported)
<1> DEFINE old == store.entries[k]
           r == SaveState(store, acc, plan.cycle).entries[k]
           same == store.cycle = plan.cycle
<1>1. KeptEntry(old) /\ old \in Entry /\ acc[k] \in Entry /\ (~acc[k].has => acc[k] = NoEntry)
  BY KeyTypes DEF KeptEntry
<1>2. /\ store.live => store.exists /\ same
      /\ store.exists /\ same => store.live
  BY DEF StoreInv
<1>3. ~Asked(NoEntry) /\ Positive(NoEntry)
  BY NoEntryFacts
<1>4. CASE ~store.exists
  <2>1. r = acc[k]
    BY <1>4 DEF SaveState, Saved
  <2> QED BY <1>1, <1>2, <1>3, <1>4, <2>1
<1>5. CASE store.exists /\ same /\ Reported(acc) = {}
  <2>1. r = old /\ ~acc[k].has
    BY <1>5 DEF SaveState, Reported
  <2> QED BY <1>2, <1>5, <2>1
<1>6. CASE store.exists /\ ~(same /\ Reported(acc) = {})
  <2>1. r = IF acc[k].has THEN MergeReported(old, acc[k], same) ELSE Unreported(old, same)
    BY <1>6 DEF SaveState, Saved, Merged
  <2>2. CASE acc[k].has
    <3>1. \/ r = acc[k] /\ (same /\ old.reported => acc[k].dem)
          \/ r = old /\ same /\ old.reported /\ ~acc[k].dem
      BY <2>1, <2>2 DEF MergeReported, UseNewValue
    <3> QED BY <1>2, <1>6, <2>2, <3>1
  <2>3. CASE ~acc[k].has /\ same /\ old.reported
    <3>1. r = old
      BY <1>1, <2>1, <2>3 DEF Unreported, KeptEntry
    <3> QED BY <1>2, <1>6, <2>3, <3>1
  <2>4. CASE ~acc[k].has /\ ~(same /\ old.reported)
    <3>1. ~Asked(r) /\ Positive(r)
      <4>1. CASE ~old.has \/ old.stale + 1 >= MaxStaleCount
        <5>1. r = NoEntry
          BY <2>1, <2>4, <4>1 DEF Unreported
        <5> QED BY <1>3, <5>1
      <4>2. CASE old.has /\ ~(old.stale + 1 >= MaxStaleCount)
        <5>1. r = [old EXCEPT !.stale = @ + 1, !.reported = FALSE]
          BY <2>1, <2>4, <4>2 DEF Unreported
        <5>2. r.stale # 0 /\ r.size = old.size /\ r.dem = old.dem /\ r.has = old.has
          BY <1>1, <5>1 DEF Entry
        <5> HIDE DEF r
        <5> QED BY <5>2 DEF Asked, Positive
      <4> QED BY <4>1, <4>2
    <3> QED BY <1>2, <1>6, <2>4, <3>1
  <2> QED BY <2>2, <2>3, <2>4
<1> QED BY <1>4, <1>5, <1>6

\* Flush: what was taken down moves from the accumulator to the restore data.
LEMMA FlushStep ==
  ASSUME RunnerInv, Flush
  PROVE  RunnerInv'
<1>0. TypeInv /\ JobInv /\ StoreInv /\ \A k \in Keys : KeyInv(k)
  BY DEF RunnerInv
<1>1. /\ job.pc = "flush" /\ store' = SaveState(store, acc, plan.cycle) /\ unsaved' = {}
      /\ acc' = NoEntries /\ job' = [job EXCEPT !.pc = "end"]
      /\ kind' = kind /\ await' = await /\ cloud' = cloud /\ owed' = owed
      /\ restored' = restored /\ rd' = rd /\ plan' = plan /\ budget' = budget
      /\ forfeit' = forfeit /\ touched' = touched
  BY DEF Flush, cloudVars
<1>2. job.op = "shutdown" /\ ~restored
  BY <1>0, <1>1 DEF JobInv
<1>3. job' \in Jobs /\ job'.op = "shutdown" /\ job'.pc = "end" /\ job'.todo = {}
  BY <1>0, <1>1, <1>2 DEF TypeInv, Jobs, Pcs, JobInv
<1>4. Kept(store')
  <2>1. Kept(store) /\ acc \in Accumulators /\ plan.cycle \in Nat
    BY <1>0 DEF TypeInv
  <2> QED BY <1>1, <2>1, SaveKeepsShape
<1>5. TypeInv'
  BY <1>0, <1>1, <1>3, <1>4, NoEntriesType DEF TypeInv
<1>6. JobInv'
  BY <1>1, <1>2, <1>3 DEF JobInv
<1>7. store'.live /\ store'.exists /\ store'.cycle = plan.cycle /\ plan.cycle # 0
  BY <1>0, <1>1, <1>2 DEF SaveState, Saved, StoreInv
<1>8. StoreInv'
  BY <1>1, <1>2, <1>7 DEF StoreInv
<1>9. ASSUME NEW k \in Keys PROVE KeyInv(k)'
  <2> DEFINE old == store.entries[k]
             e == store'.entries[k]
  <2>1. CloudInv(k) /\ owed[k] \in Nat /\ KeptEntry(old)
    BY <1>0, KeyTypes DEF KeyInv
  <2>2. Positive(acc[k]) /\ Positive(old)
    BY <2>1 DEF CloudInv, SizeInv
  <2>3. /\ Positive(e)
        /\ \/ e = acc[k] /\ acc[k].has /\ (store.live /\ old.reported => acc[k].dem)
           \/ e = old /\ store.live /\ (acc[k].has => ~acc[k].dem /\ old.reported)
           \/ ~Asked(e) /\ ~acc[k].has /\ ~(store.live /\ old.reported)
    BY <1>0, <1>1, <1>2, <2>2, FlushedEntry
  <2>4. acc'[k] = NoEntry /\ ~NoEntry.has /\ ~NoEntry.dem
    BY <1>1, NoEntryFacts
  <2>5. Asked(store.entries[k])' <=> Asked(e)
    BY <1>1 DEF Asked
  <2>6. Restorable(k) => old.has /\ old.stale = 0 /\ old.reported
    BY <2>1 DEF Restorable, KeptEntry
  <2>7. acc[k].has => acc[k].stale = 0
    BY <1>0 DEF TypeInv, Accumulators
  <2>8. SizeInv(k)'
    BY <1>1, <2>1, <2>3, <2>4 DEF CloudInv, SizeInv, Positive
  <2>9. ASSUME owed[k] > 0, k \notin forfeit
        PROVE  Restorable(k)'
    <3>1. CASE k \in unsaved
      <4>1. Asked(acc[k]) /\ acc[k].size = owed[k]
        BY <2>1, <2>9, <3>1 DEF CloudInv, OwedInv
      <4>2. acc[k].has /\ (acc[k].dem \/ kind = "karpenter")
        BY <4>1 DEF Asked
      <4>3. CASE e = acc[k]
        BY <1>1, <2>7, <4>1, <4>2, <4>3 DEF Restorable
      <4>4. CASE e = old /\ store.live /\ ~acc[k].dem /\ old.reported
        <5>1. old.has /\ old.stale = 0 /\ kind = "karpenter"
          BY <2>1, <4>2, <4>4 DEF KeptEntry, NoEntry
        <5>2. k \in touched \/ old.size = owed[k]
          BY <2>1, <2>9, <3>1, <4>4, <5>1 DEF CloudInv, PoolInv, Asked
        <5> QED BY <1>1, <4>4, <5>1, <5>2 DEF Restorable, OutdatedSpec
      <4> QED BY <2>3, <4>2, <4>3, <4>4
    <3>2. CASE k \notin unsaved
      <4>1. store.live /\ Restorable(k) /\ ~Asked(acc[k])
        BY <2>1, <2>9, <3>2 DEF CloudInv, OwedInv
      <4>2. ~(acc[k].has /\ acc[k].dem)
        BY <2>7, <4>1 DEF Asked
      <4>3. e = old
        BY <2>3, <2>6, <4>1, <4>2
      <4> QED BY <1>1, <4>1, <4>3 DEF Restorable, OutdatedSpec
    <3> QED BY <3>1, <3>2
  <2>10. OwedInv(k)'
    <3>1. ASSUME owed'[k] > 0, k \notin forfeit'
          PROVE  Restorable(k)'
      BY <1>1, <2>9, <3>1
    <3>2. owed'[k] > 0 => k \in forfeit' \/ IF kind' = "karpenter" THEN cloud'[k].st = "gone"
                                            ELSE cloud'[k].st \in {"down", "stopping"}
      BY <1>1, <2>1 DEF CloudInv, OwedInv
    <3>3. ~Asked(acc[k])'
      BY <2>4 DEF Asked
    <3> QED BY <1>1, <1>7, <3>1, <3>2, <3>3 DEF OwedInv
  <2>11. AskedInv(k)'
    <3>1. ASSUME k \notin touched \cup forfeit, Asked(e) PROVE UpOrOwed(k)
      BY <2>1, <2>3, <3>1 DEF CloudInv, AskedInv, Asked
    <3>2. UpOrOwed(k)' <=> UpOrOwed(k)
      BY <1>1 DEF UpOrOwed
    <3>3. ~Asked(acc[k])'
      BY <2>4 DEF Asked
    <3> QED BY <1>1, <2>5, <3>1, <3>2, <3>3 DEF AskedInv
  <2>12. PoolInv(k)'
    <3>1. ASSUME kind = "karpenter", k \notin touched, Asked(e), Up(k)
          PROVE  cloud[k].size = e.size
      BY <2>1, <2>3, <3>1 DEF CloudInv, PoolInv, Asked
    <3> QED BY <1>1, <2>4, <2>5, <3>1 DEF PoolInv, Up
  <2>13. ShutdownInv(k)' /\ WakeupInv(k)'
    BY <1>1, <1>3 DEF ShutdownInv, WakeupInv
  <2> QED BY <2>8, <2>10, <2>11, <2>12, <2>13 DEF KeyInv, CloudInv
<1> QED BY <1>5, <1>6, <1>8, <1>9 DEF RunnerInv

\* FlushFails and Killed: what the accumulator held is forfeited.
LEMMA LostStep ==
  ASSUME RunnerInv, FlushFails \/ Killed
  PROVE  RunnerInv'
<1>0. TypeInv /\ JobInv /\ StoreInv /\ \A k \in Keys : KeyInv(k)
  BY DEF RunnerInv
<1>1. /\ budget.kills > 0 /\ budget' = [budget EXCEPT !.kills = @ - 1]
      /\ forfeit' = forfeit \cup unsaved /\ unsaved' = {} /\ acc' = NoEntries
      /\ job.pc \notin {"idle", "end"}
      /\ kind' = kind /\ await' = await /\ cloud' = cloud /\ owed' = owed
      /\ store' = store /\ restored' = restored /\ rd' = rd /\ plan' = plan /\ touched' = touched
  BY DEF FlushFails, Killed, cloudVars, storeVars
<1>2. job' \in Jobs /\ job'.op = job.op /\ job'.pc = "end" /\ job'.todo = {}
  <2>1. CASE FlushFails
    BY <1>0, <2>1 DEF FlushFails, TypeInv, Jobs, Pcs, JobInv
  <2>2. CASE Killed
    BY <1>0, <2>2 DEF Killed, TypeInv, Jobs, Pcs
  <2> QED BY <2>1, <2>2
<1>3. ~restored /\ job.op # "none"
  BY <1>0, <1>1 DEF JobInv
<1>4. TypeInv'
  <2>1. budget' \in [faults : Nat, kills : Nat, meddling : Nat]
    BY <1>0, <1>1 DEF TypeInv
  <2> QED BY <1>0, <1>1, <1>2, <2>1, NoEntriesType DEF TypeInv
<1>5. JobInv'
  BY <1>1, <1>2, <1>3 DEF JobInv
<1>6. StoreInv'
  BY <1>0, <1>1, <1>2 DEF StoreInv
<1>7. ASSUME NEW k \in Keys PROVE KeyInv(k)'
  <2>1. CloudInv(k)
    BY <1>0 DEF KeyInv
  <2>2. acc'[k] = NoEntry /\ ~NoEntry.has /\ ~NoEntry.dem
    BY <1>1, NoEntryFacts
  <2>3. SizeInv(k)'
    BY <1>1, <2>1, <2>2 DEF CloudInv, SizeInv, Positive
  <2>4. OwedInv(k)'
    BY <1>1, <2>1, <2>2 DEF CloudInv, OwedInv, Asked, Restorable, OutdatedSpec
  <2>5. AskedInv(k)'
    BY <1>1, <2>1, <2>2 DEF CloudInv, AskedInv, UpOrOwed, Asked
  <2>6. PoolInv(k)'
    BY <1>1, <2>1, <2>2 DEF CloudInv, PoolInv, Asked, Up
  <2>7. ShutdownInv(k)' /\ WakeupInv(k)'
    BY <1>2 DEF ShutdownInv, WakeupInv
  <2> QED BY <2>3, <2>4, <2>5, <2>6, <2>7 DEF KeyInv, CloudInv
<1> QED BY <1>4, <1>5, <1>6, <1>7 DEF RunnerInv

\* Mark: nothing is owed any more, and the data is no longer live.
LEMMA MarkStep ==
  ASSUME RunnerInv, Mark
  PROVE  RunnerInv'
<1>0. TypeInv /\ JobInv /\ StoreInv /\ \A k \in Keys : KeyInv(k)
  BY DEF RunnerInv
<1>1. /\ job.pc = "mark" /\ job' = [job EXCEPT !.pc = "end"]
      /\ kind' = kind /\ await' = await /\ cloud' = cloud /\ owed' = owed
      /\ acc' = acc /\ rd' = rd /\ plan' = plan
      /\ unsaved' = unsaved /\ forfeit' = forfeit /\ touched' = touched
      /\ \/ restored' = TRUE /\ store' = Consumed(store) /\ budget' = budget
         \/ Fault /\ store' = store /\ restored' = restored
  BY DEF Mark, cloudVars, obsVars, storeVars
<1>2. /\ job.op = "wakeup" /\ unsaved = {} /\ acc = NoEntries /\ ~restored /\ job.ok
      /\ job' \in Jobs /\ job'.op = "wakeup" /\ job'.pc = "end" /\ job'.ok /\ job'.todo = {}
  BY <1>0, <1>1 DEF JobInv, TypeInv, Jobs, Pcs
<1>3. /\ Kept(store') /\ store'.entries = store.entries /\ store'.exists = store.exists
      /\ store'.cycle = store.cycle
      /\ store'.live = (IF restored' THEN FALSE ELSE store.live)
  <2>1. Kept(store) /\ store \in Data
    BY <1>0 DEF TypeInv, Kept
  <2>2. CASE restored' = TRUE /\ store' = Consumed(store)
    <3>1. Kept(Consumed(store))
      BY <2>1, OthersKeepShape
    <3> QED BY <2>1, <2>2, <3>1 DEF Consumed, Data
  <2>3. CASE store' = store /\ restored' = restored
    BY <1>2, <2>1, <2>3
  <2> QED BY <1>1, <2>2, <2>3
<1>4. TypeInv'
  <2>1. budget' \in [faults : Nat, kills : Nat, meddling : Nat]
    BY <1>0, <1>1 DEF TypeInv, Fault
  <2>2. restored' \in BOOLEAN
    BY <1>0, <1>1 DEF TypeInv
  <2> QED BY <1>0, <1>1, <1>2, <1>3, <2>1, <2>2 DEF TypeInv
<1>5. JobInv'
  BY <1>1, <1>2 DEF JobInv
<1>6. StoreInv'
  BY <1>0, <1>2, <1>3 DEF StoreInv
<1>7. ASSUME NEW k \in Keys PROVE KeyInv(k)'
  <2>1. CloudInv(k) /\ (owed[k] > 0 => k \in forfeit)
    BY <1>0, <1>1, <1>2 DEF KeyInv, WakeupInv
  <2>2. SizeInv(k)'
    BY <1>1, <1>3, <2>1 DEF CloudInv, SizeInv, Positive
  <2>3. OwedInv(k)'
    BY <1>1, <1>2, <2>1 DEF OwedInv
  <2>4. AskedInv(k)'
    BY <1>1, <1>3, <2>1 DEF CloudInv, AskedInv, UpOrOwed, Asked
  <2>5. PoolInv(k)'
    BY <1>1, <1>3, <2>1 DEF CloudInv, PoolInv, Asked, Up
  <2>6. ShutdownInv(k)' /\ WakeupInv(k)'
    BY <1>2 DEF ShutdownInv, WakeupInv
  <2> QED BY <2>2, <2>3, <2>4, <2>5, <2>6 DEF KeyInv, CloudInv
<1> QED BY <1>4, <1>5, <1>6, <1>7 DEF RunnerInv

-----------------------------------------------------------------------------
(* The controller, the resources and their owners *)

\* StartWakeup and Retry: a pod starts with nothing in memory.
LEMMA StartStep ==
  ASSUME RunnerInv, StartWakeup \/ Retry
  PROVE  RunnerInv'
<1>0. TypeInv /\ JobInv /\ StoreInv /\ \A k \in Keys : KeyInv(k)
  BY DEF RunnerInv
<1>1. /\ Still /\ await' = await /\ restored' = restored /\ forfeit' = forfeit /\ budget' = budget
      /\ rd' = rd \/ rd' = NoEntries
  BY DEF StartWakeup, Retry, Still, cloudVars, storeVars, obsVars
<1>2. /\ job' \in Jobs /\ job'.op \in {"shutdown", "wakeup"} /\ job'.pc = "start" /\ job'.ok
      /\ job'.todo = {} /\ job'.pend = {}
      /\ job'.op = "shutdown" => job.op = "shutdown" /\ job.pc = "end"
      /\ ~restored
  <2>1. CASE StartWakeup
    BY <1>0, <2>1 DEF StartWakeup, Job, Idle, Jobs, Pcs, JobInv
  <2>2. CASE Retry
    <3>1. job.op \in {"shutdown", "wakeup"}
      BY <1>0, <2>2 DEF Retry, JobInv, TypeInv, Jobs
    <3> QED BY <1>0, <2>2, <3>1 DEF Retry, Job, Idle, Jobs, Pcs, JobInv
  <2> QED BY <2>1, <2>2
<1>3. plan' \in [phase : {"Active", "Hibernating", "Hibernated", "WakingUp"},
                 cycle : Nat, last : Nat, tries : Nat] /\ plan'.cycle = plan.cycle
  <2>1. plan \in [phase : {"Active", "Hibernating", "Hibernated", "WakingUp"},
                  cycle : Nat, last : Nat, tries : Nat]
    BY <1>0 DEF TypeInv
  <2>2. CASE StartWakeup
    BY <2>1, <2>2 DEF StartWakeup
  <2>3. CASE Retry
    BY <2>1, <2>3 DEF Retry
  <2> QED BY <2>2, <2>3
<1>4. TypeInv'
  BY <1>0, <1>1, <1>2, <1>3, NoEntriesType DEF TypeInv, Still
<1>5. JobInv'
  <2>1. unsaved = {} /\ acc = NoEntries
    BY <1>0, <1>2 DEF StartWakeup, Retry, JobInv
  <2> QED BY <1>1, <1>2, <2>1 DEF JobInv, Still
<1>6. StoreInv'
  BY <1>0, <1>1, <1>2, <1>3 DEF StoreInv, Still
<1>7. ASSUME NEW k \in Keys PROVE ShutdownInv(k)' /\ WakeupInv(k)'
  BY <1>2 DEF ShutdownInv, WakeupInv
<1> QED BY <1>1, <1>4, <1>5, <1>6, <1>7, StillKeeps DEF RunnerInv, KeyInv

\* StartShutdown: live data is of the cycle that begins; with other data nothing
\* is owed that is not forfeited.
LEMMA StartShutdownStep ==
  ASSUME RunnerInv, StartShutdown
  PROVE  RunnerInv'
<1>0. TypeInv /\ JobInv /\ StoreInv /\ \A k \in Keys : KeyInv(k)
  BY DEF RunnerInv
<1> DEFINE old == ExistingCycle(store)
<1>1. /\ job.pc = "idle"
      /\ plan' = [phase |-> "Hibernating", cycle |-> IF old # 0 THEN old ELSE plan.last + 1,
                  last |-> IF old # 0 THEN plan.last ELSE plan.last + 1, tries |-> 1]
      /\ touched' = IF old # 0 THEN touched ELSE {}
      /\ job' = Job("shutdown")
      /\ kind' = kind /\ await' = await /\ cloud' = cloud /\ owed' = owed
      /\ store' = store /\ restored' = restored /\ acc' = acc /\ rd' = rd /\ budget' = budget
      /\ unsaved' = unsaved /\ forfeit' = forfeit
  BY DEF StartShutdown, cloudVars, storeVars
<1>2. old \in Nat /\ (store.live <=> old # 0) /\ (old # 0 => old = store.cycle)
  <2>1. store \in Data
    BY <1>0 DEF TypeInv, Kept
  <2> QED BY <1>0, <2>1 DEF ExistingCycle, StoreInv, Data
<1>3. plan.last \in Nat
  BY <1>0 DEF TypeInv
<1> HIDE DEF old
<1>4. job' \in Jobs /\ job'.op = "shutdown" /\ job'.pc = "start" /\ job'.ok /\ job'.todo = {} /\ job'.pend = {}
  BY <1>1 DEF Job, Idle, Jobs, Pcs
<1>5. unsaved = {} /\ acc = NoEntries /\ ~restored
  BY <1>0, <1>1 DEF JobInv
<1>6. plan'.cycle # 0 /\ (store.live => store.cycle = plan'.cycle)
  BY <1>1, <1>2, <1>3
<1>7. TypeInv'
  <2>1. plan' \in [phase : {"Active", "Hibernating", "Hibernated", "WakingUp"},
                   cycle : Nat, last : Nat, tries : Nat]
    BY <1>1, <1>2, <1>3
  <2>2. touched' \subseteq Keys
    BY <1>0, <1>1 DEF TypeInv
  <2> QED BY <1>0, <1>1, <1>4, <2>1, <2>2 DEF TypeInv
<1>8. JobInv'
  BY <1>1, <1>4, <1>5 DEF JobInv
<1>9. StoreInv'
  BY <1>0, <1>1, <1>4, <1>6 DEF StoreInv
<1>10. ASSUME NEW k \in Keys PROVE KeyInv(k)'
  <2>1. CloudInv(k)
    BY <1>0 DEF KeyInv
  <2>2. acc[k] = NoEntry /\ ~NoEntry.has /\ ~NoEntry.dem
    BY <1>5, NoEntryFacts
  <2>3. ShutdownInv(k)' /\ WakeupInv(k)'
    BY <1>4 DEF ShutdownInv, WakeupInv
  <2>4. CASE store.live
    <3>1. touched' = touched
      BY <1>1, <1>2, <2>4
    <3>2. Quiet(k)
      BY <1>1, <3>1 DEF Quiet
    <3> QED BY <2>1, <2>3, <3>2, QuietKeeps DEF KeyInv
  <2>5. CASE ~store.live
    <3>1. SizeInv(k)'
      BY <1>1, <2>1 DEF CloudInv, SizeInv, Positive
    <3>2. OwedInv(k)'
      BY <1>1, <1>5, <2>1, <2>2, <2>5 DEF CloudInv, OwedInv, Asked
    <3>3. AskedInv(k)'
      BY <1>1, <2>2, <2>5 DEF AskedInv, Asked
    <3>4. PoolInv(k)'
      BY <1>1, <2>2, <2>5 DEF PoolInv
    <3> QED BY <2>3, <3>1, <3>2, <3>3, <3>4 DEF KeyInv, CloudInv
  <2> QED BY <2>4, <2>5
<1> QED BY <1>7, <1>8, <1>9, <1>10 DEF RunnerInv

\* Finalize unlocks only data that is no longer live.
LEMMA FinalizeStep ==
  ASSUME RunnerInv, Finalize
  PROVE  RunnerInv'
<1>0. TypeInv /\ JobInv /\ StoreInv /\ \A k \in Keys : KeyInv(k)
  BY DEF RunnerInv
<1>1. /\ job.pc = "end" /\ job' = Idle /\ rd' = NoEntries
      /\ kind' = kind /\ await' = await /\ cloud' = cloud /\ owed' = owed
      /\ acc' = acc /\ budget' = budget
      /\ unsaved' = unsaved /\ forfeit' = forfeit /\ touched' = touched
      /\ plan' = [plan EXCEPT !.phase = IF job.op = "shutdown" THEN "Hibernated" ELSE "Active"]
      /\ \/ restored /\ store' = Unlocked(store) /\ restored' = FALSE
         \/ ~(job.op = "wakeup" /\ restored) /\ store' = store /\ restored' = restored
  BY DEF Finalize, cloudVars, storeVars, obsVars
<1>2. unsaved = {} /\ acc = NoEntries /\ (restored => job.op = "wakeup" /\ ~store.live)
  BY <1>0, <1>1 DEF JobInv, StoreInv
<1>3. job' \in Jobs /\ job'.op = "none" /\ job'.pc = "idle" /\ job'.todo = {}
  BY <1>1 DEF Idle, Jobs, Pcs
<1>4. /\ Kept(store') /\ store'.entries = store.entries /\ store'.exists = store.exists
      /\ store'.live = store.live /\ restored' = FALSE
      /\ store'.cycle = (IF restored THEN 0 ELSE store.cycle)
  <2>1. Kept(store) /\ store \in Data /\ restored \in BOOLEAN
    BY <1>0 DEF TypeInv, Kept
  <2>2. CASE restored /\ store' = Unlocked(store) /\ restored' = FALSE
    <3>1. Kept(Unlocked(store))
      BY <2>1, OthersKeepShape
    <3> QED BY <2>1, <2>2, <3>1 DEF Unlocked, Data
  <2>3. CASE ~(job.op = "wakeup" /\ restored) /\ store' = store /\ restored' = restored
    BY <1>2, <2>1, <2>3
  <2> QED BY <1>1, <2>2, <2>3
<1>5. plan' \in [phase : {"Active", "Hibernating", "Hibernated", "WakingUp"},
                 cycle : Nat, last : Nat, tries : Nat]
  BY <1>0, <1>1 DEF TypeInv
<1>6. TypeInv'
  BY <1>0, <1>1, <1>3, <1>4, <1>5, NoEntriesType DEF TypeInv
<1>7. JobInv'
  BY <1>1, <1>2, <1>3, <1>4 DEF JobInv
<1>8. StoreInv'
  BY <1>0, <1>2, <1>3, <1>4 DEF StoreInv
<1>9. ASSUME NEW k \in Keys PROVE KeyInv(k)'
  <2>1. CloudInv(k)
    BY <1>0 DEF KeyInv
  <2>2. Quiet(k)
    BY <1>1, <1>4 DEF Quiet
  <2>3. ShutdownInv(k)' /\ WakeupInv(k)'
    BY <1>3 DEF ShutdownInv, WakeupInv
  <2> QED BY <2>1, <2>2, <2>3, QuietKeeps DEF KeyInv
<1> QED BY <1>6, <1>7, <1>8, <1>9 DEF RunnerInv

\* What a resource or its owner does concerns that resource only.
LEMMA ResourceStep ==
  ASSUME RunnerInv, NEW k \in Keys, Settle(k) \/ OwnerChanges(k)
  PROVE  RunnerInv'
<1>0. TypeInv /\ JobInv /\ StoreInv /\ \A j \in Keys : KeyInv(j)
  BY DEF RunnerInv
<1>1. /\ kind' = kind /\ await' = await /\ store' = store /\ restored' = restored /\ job' = job
      /\ acc' = acc /\ rd' = rd /\ plan' = plan /\ unsaved' = unsaved /\ forfeit' = forfeit
  BY DEF Settle, OwnerChanges, storeVars, obsVars
<1>2. cloud \in [Keys -> [st : States, size : Nat]] /\ owed \in [Keys -> Nat] /\ touched \subseteq Keys
  BY <1>0 DEF TypeInv
<1>3. PICK c \in [st : States, size : Nat] :
        /\ cloud' = [cloud EXCEPT ![k] = c]
        /\ \/ /\ cloud[k].st \in {"stopping", "starting"} /\ owed' = owed /\ touched' = touched /\ budget' = budget
              /\ c.size = cloud[k].size
              /\ c.st = IF cloud[k].st = "stopping" THEN "down" ELSE "up"
           \/ /\ owed' = [owed EXCEPT ![k] = 0] /\ touched' = touched \cup {k}
              /\ budget.meddling > 0 /\ budget' = [budget EXCEPT !.meddling = @ - 1]
              /\ c.st \in {"up", "down", "gone"}
              /\ c.st = "up" => c.size > 0 /\ (kind = "rds" => c.size = 1)
  <2>1. CASE Settle(k)
    <3> DEFINE c == [cloud[k] EXCEPT !.st = IF @ = "stopping" THEN "down" ELSE "up"]
    <3>1. cloud' = [cloud EXCEPT ![k] = c]
      BY <1>2, <2>1 DEF Settle
    <3>2. /\ c \in [st : States, size : Nat] /\ c.size = cloud[k].size
          /\ c.st = IF cloud[k].st = "stopping" THEN "down" ELSE "up"
      BY <1>2 DEF States
    <3>3. owed' = owed /\ touched' = touched /\ budget' = budget /\ cloud[k].st \in {"stopping", "starting"}
      BY <2>1 DEF Settle, InTransition, obsVars
    <3> HIDE DEF c
    <3> QED BY <3>1, <3>2, <3>3
  <2>2. CASE OwnerChanges(k)
    <3>1. PICK c \in OwnerStates : cloud' = [cloud EXCEPT ![k] = c]
      BY <2>2 DEF OwnerChanges
    <3>2. /\ c \in [st : States, size : Nat] /\ c.st \in {"up", "down", "gone"}
          /\ c.st = "up" => c.size > 0 /\ (kind = "rds" => c.size = 1)
      <4>1. \/ c \in [st : {"up"}, size : SizesOf(kind)]
            \/ c = [st |-> "down", size |-> 0]
            \/ c = [st |-> "gone", size |-> 0]
        BY DEF OwnerStates
      <4>2. SizesOf(kind) \subseteq Nat \ {0} /\ (kind = "rds" => SizesOf(kind) = {1})
        BY JobAssumption DEF SizesOf, Slow
      <4> QED BY <4>1, <4>2 DEF States
    <3>3. /\ owed' = [owed EXCEPT ![k] = 0] /\ touched' = touched \cup {k}
          /\ budget.meddling > 0 /\ budget' = [budget EXCEPT !.meddling = @ - 1]
      BY <2>2 DEF OwnerChanges
    <3> QED BY <3>1, <3>2, <3>3
  <2> QED BY <2>1, <2>2
<1>4. TypeInv'
  <2>1. cloud' \in [Keys -> [st : States, size : Nat]] /\ owed' \in [Keys -> Nat] /\ touched' \subseteq Keys
    BY <1>2, <1>3
  <2>2. budget' \in [faults : Nat, kills : Nat, meddling : Nat]
    BY <1>0, <1>3 DEF TypeInv
  <2> QED BY <1>0, <1>1, <2>1, <2>2 DEF TypeInv
<1>5. JobInv'
  BY <1>0, <1>1 DEF JobInv
<1>6. StoreInv'
  BY <1>0, <1>1 DEF StoreInv
<1>7. ASSUME NEW j \in Keys, j # k PROVE KeyInv(j)'
  <2>1. CloudInv(j) /\ ShutdownInv(j) /\ WakeupInv(j)
    BY <1>0 DEF KeyInv
  <2>2. Quiet(j)
    BY <1>1, <1>2, <1>3, <1>7 DEF Quiet
  <2>3. ShutdownInv(j)' /\ WakeupInv(j)'
    BY <1>1, <2>1, <2>2 DEF ShutdownInv, WakeupInv, Quiet
  <2> QED BY <2>1, <2>2, <2>3, QuietKeeps DEF KeyInv
<1>8. KeyInv(k)'
  <2>1. CloudInv(k) /\ ShutdownInv(k) /\ WakeupInv(k) /\ owed[k] \in Nat
    BY <1>0, KeyTypes DEF KeyInv
  <2>2. cloud'[k] = c /\ c \in [st : States, size : Nat]
    BY <1>2, <1>3
  <2>3. CASE /\ cloud[k].st \in {"stopping", "starting"} /\ owed' = owed /\ touched' = touched
             /\ c.size = cloud[k].size
             /\ c.st = IF cloud[k].st = "stopping" THEN "down" ELSE "up"
    <3>1. SizeInv(k)'
      BY <1>1, <2>1, <2>2, <2>3 DEF CloudInv, SizeInv, Positive
    <3>2. OwedInv(k)'
      BY <1>1, <2>1, <2>2, <2>3 DEF CloudInv, OwedInv, Asked, Restorable, OutdatedSpec
    <3>3. AskedInv(k)'
      BY <1>1, <2>1, <2>2, <2>3 DEF CloudInv, AskedInv, UpOrOwed, Asked
    <3>4. PoolInv(k)'
      <4>1. kind = "karpenter" => c.st = "down"
        BY <2>1, <2>3 DEF CloudInv, SizeInv
      <4> QED BY <1>1, <2>1, <2>2, <2>3, <4>1 DEF CloudInv, PoolInv, Up, Asked
    <3>5. ShutdownInv(k)' /\ WakeupInv(k)'
      BY <1>1, <2>1, <2>3 DEF ShutdownInv, WakeupInv
    <3> QED BY <3>1, <3>2, <3>3, <3>4, <3>5 DEF KeyInv, CloudInv
  <2>4. CASE /\ owed' = [owed EXCEPT ![k] = 0] /\ touched' = touched \cup {k}
             /\ c.st \in {"up", "down", "gone"}
             /\ c.st = "up" => c.size > 0 /\ (kind = "rds" => c.size = 1)
    <3>1. owed'[k] = 0 /\ k \in touched'
      BY <1>2, <2>4
    <3>2. SizeInv(k)'
      BY <1>1, <2>1, <2>2, <2>4, <3>1 DEF CloudInv, SizeInv, Positive
    <3>3. OwedInv(k)' /\ AskedInv(k)' /\ PoolInv(k)'
      BY <3>1 DEF OwedInv, AskedInv, PoolInv
    <3>4. ShutdownInv(k)' /\ WakeupInv(k)'
      BY <1>1, <2>1, <3>1 DEF ShutdownInv, WakeupInv
    <3> QED BY <3>2, <3>3, <3>4 DEF KeyInv, CloudInv
  <2> QED BY <1>3, <2>3, <2>4
<1> QED BY <1>4, <1>5, <1>6, <1>7, <1>8 DEF RunnerInv

-----------------------------------------------------------------------------
(* The theorems about Runner *)

\* Init: nothing is owed, and nothing is known.
LEMMA InitRunnerInv == Init => RunnerInv
<1> SUFFICES ASSUME Init PROVE RunnerInv
  OBVIOUS
<1>0. NoEntries \in Accumulators /\ NoEntries \in [Keys -> Entry] /\ Kept(NoData)
  BY NoEntriesType, OthersKeepShape
<1>1. SizesOf(kind) \subseteq Nat \ {0} /\ (kind = "rds" => SizesOf(kind) = {1})
  BY JobAssumption DEF SizesOf, Slow
<1>2. ASSUME NEW k \in Keys
      PROVE  /\ cloud[k] \in [st : States, size : Nat] /\ cloud[k].st \in {"up", "down", "gone"}
             /\ cloud[k].st = "up" => cloud[k].size > 0 /\ (kind = "rds" => cloud[k].size = 1)
  <2>1. \/ cloud[k] \in [st : {"up"}, size : SizesOf(kind)]
        \/ cloud[k] = [st |-> "down", size |-> 0]
        \/ cloud[k] = [st |-> "gone", size |-> 0]
    BY DEF Init, OwnerStates
  <2> QED BY <1>1, <2>1 DEF States
<1>3. TypeInv
  <2>1. cloud \in [Keys -> [st : States, size : Nat]]
    BY <1>2 DEF Init
  <2>2. job \in Jobs
    BY DEF Init, Idle, Jobs, Pcs
  <2>3. budget \in [faults : Nat, kills : Nat, meddling : Nat]
    BY JobAssumption DEF Init
  <2>4. await \in BOOLEAN
    BY DEF Init
  <2> QED BY <1>0, <2>1, <2>2, <2>3, <2>4 DEF Init, TypeInv
<1>4. JobInv /\ StoreInv
  BY DEF Init, Idle, JobInv, StoreInv, NoData
<1>5. ASSUME NEW k \in Keys PROVE KeyInv(k)
  <2>1. /\ acc[k] = NoEntry /\ store.entries[k] = NoEntry /\ ~NoEntry.has /\ ~NoEntry.dem
        /\ ~store.live /\ owed[k] = 0
    BY NoEntryFacts DEF Init, NoData
  <2>2. SizeInv(k)
    BY <1>2, <2>1 DEF SizeInv, Positive
  <2>3. OwedInv(k) /\ AskedInv(k) /\ PoolInv(k)
    BY <2>1 DEF OwedInv, AskedInv, PoolInv, Asked
  <2>4. ShutdownInv(k) /\ WakeupInv(k)
    BY DEF Init, Idle, ShutdownInv, WakeupInv
  <2> QED BY <2>2, <2>3, <2>4 DEF KeyInv, CloudInv
<1> QED BY <1>3, <1>4, <1>5 DEF RunnerInv

\* Every step keeps the invariant.
LEMMA NextRunnerInv == RunnerInv /\ [Next]_vars => RunnerInv'
<1> SUFFICES ASSUME RunnerInv, [Next]_vars PROVE RunnerInv'
  OBVIOUS
<1>1. CASE Prepare \/ ConnectorFails \/ LoadForWakeup \/ LoadFails \/ Await
  BY <1>1, PrepareStep
<1>2. CASE EC2Next
  BY <1>2, EC2ShutdownStep, EC2StopStep, FindSteps, EC2StartStep, LoopEndsStep, CallFailsStep
     DEF EC2Next, EC2Await
<1>3. CASE EKSNext
  BY <1>3, FindSteps, ScaleDownSteps, RestoreSteps, LoopEndsStep, CallFailsStep DEF EKSNext, EKSAwait
<1>4. CASE RDSNext
  BY <1>4, FindSteps, RDSStopSteps, RDSStartSteps, RDSPendingFailsStep, LoopEndsStep, CallFailsStep
     DEF RDSNext, RDSAwait
<1>5. CASE KarpenterNext
  BY <1>5, FindSteps, ScaleDownSteps, RestoreSteps, LoopEndsStep, CallFailsStep
     DEF KarpenterNext, KarpenterAwait
<1>6. CASE WorkloadNext
  BY <1>6, FindSteps, ScaleDownSteps, RestoreSteps, LoopEndsStep, CallFailsStep
     DEF WorkloadNext, WorkloadAwait
<1>7. CASE NoopNext
  BY <1>7, NoopShutdownStep, FindSteps, CallFailsStep DEF NoopNext
<1>8. CASE Flush \/ Mark \/ FlushFails \/ Killed
  BY <1>8, FlushStep, MarkStep, LostStep
<1>9. CASE StartShutdown \/ StartWakeup \/ Retry \/ Finalize
  BY <1>9, StartShutdownStep, StartStep, FinalizeStep
<1>10. CASE \E k \in Keys : Settle(k) \/ OwnerChanges(k)
  BY <1>10, ResourceStep
<1>11. CASE UNCHANGED vars
  <2>1. /\ Still /\ await' = await /\ restored' = restored /\ job' = job /\ rd' = rd /\ plan' = plan
        /\ budget' = budget /\ forfeit' = forfeit
    BY <1>11 DEF vars, Still
  <2>2. TypeInv' /\ JobInv' /\ StoreInv'
    BY <2>1 DEF RunnerInv, TypeInv, JobInv, StoreInv, Still
  <2>3. ASSUME NEW k \in Keys PROVE ShutdownInv(k)' /\ WakeupInv(k)'
    BY <2>1 DEF RunnerInv, KeyInv, ShutdownInv, WakeupInv, Still
  <2> QED BY <2>1, <2>2, <2>3, StillKeeps DEF RunnerInv, KeyInv
<1> QED BY <1>1, <1>2, <1>3, <1>4, <1>5, <1>6, <1>7, <1>8, <1>9, <1>10, <1>11
        DEF Next, RunnerNext, ExecutorNext

\* The inductive invariant holds of every shutdown and wakeup, of every type of
\* target: whatever fails, is killed or is changed by an owner, and when.
THEOREM RunnerInvariant == Spec => []RunnerInv
<1>1. Init => RunnerInv
  BY InitRunnerInv
<1>2. RunnerInv /\ [Next]_vars => RunnerInv'
  BY NextRunnerInv
<1> QED BY <1>1, <1>2, PTL DEF Spec

\* What a shutdown took down and no wakeup gave back is in the restore data, as it
\* was, unless a failed flush, a killed pod or the RDS executor lost it: for any
\* number of resources, cycles, attempts and faults.
THEOREM TakenDownStaysRestorable == Spec => []OwedIsRestorable
<1>1. RunnerInv => OwedIsRestorable
  BY DEF RunnerInv, KeyInv, CloudInv, OwedInv, OwedIsRestorable
<1> QED BY <1>1, RunnerInvariant, PTL

\* MarkTargetRestored is reached only with everything given back.
THEOREM MarkedOnlyWhenBack == Spec => []MarkedIsBack
<1>1. RunnerInv => MarkedIsBack
  <2> SUFFICES ASSUME RunnerInv, job.pc = "mark", NEW k \in Keys, owed[k] > 0 PROVE k \in forfeit
    BY DEF MarkedIsBack
  <2>1. job.op = "wakeup" /\ WakeupInv(k)
    BY DEF RunnerInv, JobInv, KeyInv
  <2> QED BY <2>1 DEF WakeupInv
<1> QED BY <1>1, RunnerInvariant, PTL

\* In a wakeup, an entry that was loaded and asks for the resource means that a
\* shutdown took it down, or that it is up.
LEMMA LoadedIsOwed ==
  ASSUME RunnerInv, job.op = "wakeup", job.pc \in {"work", "await"}, store.live, NEW k \in Keys,
         cloud[k].st \in {"down", "stopping", "gone"},
         rd[k].has, rd[k].dem \/ kind = "karpenter"
  PROVE  owed[k] > 0 \/ k \in touched \cup forfeit
<1>1. TypeInv /\ AskedInv(k) /\ rd = LoadRestoreData(store)
  BY DEF RunnerInv, KeyInv, CloudInv, JobInv
<1>2. Asked(store.entries[k])
  BY <1>1, LoadedEntry
<1> QED BY <1>1, <1>2 DEF AskedInv, UpOrOwed

\* Beside the owner, only these steps bring a resource up.
LEMMA WhoBringsUp ==
  ASSUME RunnerInv, Next, NEW k \in Keys, job.op = "wakeup", budget'.meddling = budget.meddling,
         cloud[k].st \in {"down", "stopping", "gone"}, cloud'[k].st \in {"up", "starting"}
  PROVE  job.pc \in {"work", "await"} /\ rd[k].has /\ (rd[k].dem \/ kind = "karpenter")
<1>0. TypeInv /\ JobInv /\ \A j \in Keys : WakeupInv(j)
  BY DEF RunnerInv, KeyInv
<1>1. cloud \in [Keys -> [st : States, size : Nat]] /\ budget \in [faults : Nat, kills : Nat, meddling : Nat]
  BY <1>0 DEF TypeInv
<1>2. cloud' # cloud
  OBVIOUS
<1>3. ASSUME NEW j \in Keys, NEW st, NEW size, GiveBack(j, st, size)
      PROVE  j = k
  BY <1>1, <1>3 DEF GiveBack
<1>4. ASSUME NEW j \in Keys, j \in job.pend, job.pc \in {"work", "await"} PROVE rd[j].dem /\ rd[j].has
  <2>1. rd[j].dem /\ rd = LoadRestoreData(store)
    BY <1>0, <1>4 DEF WakeupInv, JobInv
  <2> QED BY <1>0, <2>1, LoadedEntry
<1>5. ASSUME NEW j \in Keys, j \in job.todo, job.pc = "work"
      PROVE rd[j].has /\ (kind = "ec2" => rd[j].dem)
  BY <1>0, <1>5 DEF WakeupInv
<1>6. CASE EC2Next
  <2>1. EC2Start
    BY <1>2, <1>6 DEF EC2Next, EC2Shutdown, EC2Stop, EC2WakeUp, EC2Await, LoopEnds, CallFails, Running
  <2>2. PICK S \in SUBSET job.todo :
          cloud' = [j \in Keys |-> IF j \in S /\ ~Up(j) THEN [st |-> "starting", size |-> 1] ELSE cloud[j]]
    BY <2>1 DEF EC2Start
  <2>3. k \in S
    BY <2>2
  <2> QED BY <1>5, <2>1, <2>2, <2>3 DEF EC2Start, Running
<1>7. CASE EKSNext
  <2>1. PICK j \in Keys : RestoreNodeGroup(j)
    BY <1>2, <1>7 DEF EKSNext, EKSShutdown, EKSWakeUp, EKSAwait, LoopEnds, CallFails,
                      ScaleNodeGroupToZero, Running
  <2>2. rd[j].dem /\ GiveBack(j, "up", rd[j].size) /\ j \in job.todo /\ job.pc = "work"
    BY <1>2, <2>1 DEF RestoreNodeGroup, Running
  <2> QED BY <1>3, <1>5, <2>2
<1>8. CASE RDSNext
  <2>1. PICK j \in Keys : RDSStart(j) \/ RDSPendingStart(j)
    BY <1>2, <1>8 DEF RDSNext, RDSShutdown, RDSWakeUp, RDSAwait, LoopEnds, CallFails, RDSStop,
                      RDSPendingStop, RDSPendingFails, Running
  <2>2. CASE RDSStart(j)
    <3>1. rd[j].dem /\ GiveBack(j, "starting", 1) /\ j \in job.todo /\ job.pc = "work"
      BY <1>2, <2>2 DEF RDSStart, StartBody, Running
    <3> QED BY <1>3, <1>5, <3>1
  <2>3. CASE RDSPendingStart(j)
    <3>1. GiveBack(j, "starting", 1) /\ j \in job.pend /\ job.pc = "await"
      BY <2>3 DEF RDSPendingStart, StartBody, Running
    <3> QED BY <1>3, <1>4, <3>1
  <2> QED BY <2>1, <2>2, <2>3
<1>9. CASE KarpenterNext
  <2>1. PICK j \in Keys : RestoreNodePool(j)
    BY <1>2, <1>9 DEF KarpenterNext, KarpenterShutdown, KarpenterWakeUp, KarpenterAwait, LoopEnds,
                      CallFails, ScaleDownNodePool, Running
  <2>2. GiveBack(j, "up", rd[j].size) /\ j \in job.todo /\ job.pc = "work" /\ kind = "karpenter"
    BY <1>2, <2>1 DEF RestoreNodePool, Running
  <2> QED BY <1>3, <1>5, <2>2
<1>10. CASE WorkloadNext
  <2>1. PICK j \in Keys : RestoreWorkload(j)
    BY <1>2, <1>10 DEF WorkloadNext, WorkloadShutdown, WorkloadWakeUp, WorkloadAwait, LoopEnds,
                       CallFails, ScaleDownWorkload, GetScaleFails, Running
  <2>2. rd[j].dem /\ GiveBack(j, "up", rd[j].size) /\ j \in job.todo /\ job.pc = "work"
    BY <1>2, <2>1 DEF RestoreWorkload, Running
  <2> QED BY <1>3, <1>5, <2>2
<1>11. ASSUME NEW j \in Keys, Settle(j) \/ OwnerChanges(j)
       PROVE  FALSE
  <2>1. CASE Settle(j)
    <3>1. cloud[j].st \in {"stopping", "starting"} /\
          cloud' = [cloud EXCEPT ![j].st = IF @ = "stopping" THEN "down" ELSE "up"]
      BY <2>1 DEF Settle, InTransition
    <3>2. cloud'[k].st = IF k = j THEN IF cloud[k].st = "stopping" THEN "down" ELSE "up" ELSE cloud[k].st
      BY <1>1, <3>1
    <3> QED BY <3>1, <3>2
  <2>2. CASE OwnerChanges(j)
    BY <1>1, <2>2 DEF OwnerChanges
  <2> QED BY <1>11, <2>1, <2>2
<1>12. Next => EC2Next \/ EKSNext \/ RDSNext \/ KarpenterNext \/ WorkloadNext
               \/ \E j \in Keys : Settle(j) \/ OwnerChanges(j)
  BY <1>2 DEF Next, RunnerNext, ExecutorNext, NoopNext, NoopShutdown, NoopWakeUp, CallFails, Prepare,
              ConnectorFails, LoadForWakeup, LoadFails, Await, Flush, Mark, FlushFails, Killed, StartShutdown,
              StartWakeup, Retry, Finalize, cloudVars
<1> QED BY <1>6, <1>7, <1>8, <1>9, <1>10, <1>11, <1>12

\* A wakeup brings up only what a shutdown took down, with live data and for what
\* no owner touched since the cycle began and nothing forfeited.
THEOREM WakeupsAreAsked == Spec => NeverUnasked
<1>1. RunnerInv /\ [Next]_vars =>
        [\A k \in Keys :
           /\ job.op = "wakeup" /\ store.live /\ budget'.meddling = budget.meddling
           /\ cloud[k].st \in {"down", "stopping", "gone"} /\ cloud'[k].st \in {"up", "starting"}
           => owed[k] > 0 \/ k \in touched \cup forfeit]_vars
  <2> SUFFICES ASSUME RunnerInv, Next, NEW k \in Keys, job.op = "wakeup", store.live,
                      budget'.meddling = budget.meddling,
                      cloud[k].st \in {"down", "stopping", "gone"}, cloud'[k].st \in {"up", "starting"}
               PROVE  owed[k] > 0 \/ k \in touched \cup forfeit
    OBVIOUS
  <2>1. job.pc \in {"work", "await"} /\ rd[k].has /\ (rd[k].dem \/ kind = "karpenter")
    BY WhoBringsUp
  <2> QED BY <2>1, LoadedIsOwed
<1> QED BY <1>1, RunnerInvariant, PTL DEF Spec, NeverUnasked
=============================================================================
