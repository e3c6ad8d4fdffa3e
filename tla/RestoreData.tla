---------------------------- MODULE RestoreData ----------------------------
(***************************************************************************)
(* The restore data of one target, as internal/restore keeps it in the     *)
(* plan's ConfigMap and cmd/runner/state reads and writes it: what a       *)
(* shutdown reported about each resource (State and Status, here one entry *)
(* per key), which cycle wrote it and whether it is live.                  *)
(*                                                                         *)
(* All operators are pure: every write of the ConfigMap is one API call,   *)
(* made of the value one read returned.                                    *)
(***************************************************************************)
EXTENDS Naturals

CONSTANTS
  Keys,           \* resources of the target
  MaxStaleCount   \* flush: saves without a report after which a key is evicted

ASSUME RestoreAssumption == MaxStaleCount \in Nat \ {0}

-----------------------------------------------------------------------------
(* Data *)

\* One key of State and of Status. dem: wasRunning or wasScaled is true;
\* size: the replicas, the desired size or the spec to go back to;
\* reported: LastReportedAt is set.
Entry == [has : BOOLEAN, dem : BOOLEAN, size : Nat, stale : Nat, reported : BOOLEAN]

NoEntry == [has |-> FALSE, dem |-> FALSE, size |-> 0, stale |-> 0, reported |-> FALSE]

NoEntries == [k \in Keys |-> NoEntry]

\* cycle 0 stands for the empty CycleID.
Data == [exists : BOOLEAN, cycle : Nat, live : BOOLEAN, entries : [Keys -> Entry]]

NoData == [exists |-> FALSE, cycle |-> 0, live |-> FALSE, entries |-> NoEntries]

-----------------------------------------------------------------------------
(* Accumulator *)

\* Accumulator.add: in memory only; a second report of a key replaces the first.
Add(acc, k, dem, size) ==
  [acc EXCEPT ![k] = [has |-> TRUE, dem |-> dem, size |-> size, stale |-> 0, reported |-> TRUE]]

Reported(acc) == {k \in Keys : acc[k].has}

-----------------------------------------------------------------------------
(* SaveState *)

\* Slip: the latest report wins.
UseNewAlways(old, new, same) == TRUE

\* strategySelector.selectStrategy: a retry of the same cycle may only improve
\* on what an earlier attempt of it reported.
UseNewValue(old, new, same) == ~same \/ ~old.reported \/ new.dem

MergeReported(old, new, same) == IF UseNewValue(old, new, same) THEN new ELSE old

\* handleStaleResources, for a key this save has no report of.
Unreported(old, same) ==
  CASE ~old.has                        -> NoEntry
    [] old.has /\ same /\ old.reported -> old
    [] OTHER -> IF old.stale + 1 >= MaxStaleCount THEN NoEntry
                ELSE [old EXCEPT !.stale = @ + 1, !.reported = FALSE]

Merged(old, acc, same) ==
  [k \in Keys |-> IF acc[k].has THEN MergeReported(old[k], acc[k], same)
                  ELSE Unreported(old[k], same)]

\* Save: what is written replaces the target's data, live and of this cycle.
Saved(entries, cycle) == [exists |-> TRUE, cycle |-> cycle, live |-> TRUE, entries |-> entries]

\* flush and SaveState: one read and one write of the ConfigMap.
SaveState(d, acc, cycle) ==
  CASE ~d.exists -> Saved(acc, cycle)
    [] d.exists /\ d.cycle = cycle /\ Reported(acc) = {} -> d
    [] OTHER -> Saved(Merged(d.entries, acc, d.cycle = cycle), cycle)

-----------------------------------------------------------------------------
(* What is read from it and the marks of a wakeup *)

\* Slip: keys the last shutdown did not report are loaded too.
LoadWithStale(d) == d.entries

\* LoadRestoreData: a key the last shutdown did not report is left out.
LoadRestoreData(d) ==
  [k \in Keys |-> IF d.entries[k].stale > 0 THEN NoEntry ELSE d.entries[k]]

\* MarkTargetRestored, beside the annotation it sets.
Consumed(d) == [d EXCEPT !.live = FALSE]

\* UnlockRestoreData, beside the annotations it clears.
Unlocked(d) == [d EXCEPT !.cycle = 0]

\* getExistingCycleIDForHibernation; 0 when there is none to reuse.
ExistingCycle(d) == IF d.exists /\ d.live THEN d.cycle ELSE 0

=============================================================================
