------------------------------ MODULE Schedule ------------------------------
(***************************************************************************)
(* The schedule evaluator of internal/scheduler as operators of the time.  *)
(* Time is counted in units from an instant long past; Minute units make a *)
(* minute, the resolution of a window, so that the safety buffer (10 s)    *)
(* and the grace period (--schedule-buffer-duration) keep their order      *)
(* below and above a minute.  A day of MinutesPerDay and a week of         *)
(* DaysPerWeek are scaled down; every distance the code measures in hours  *)
(* or days is scaled with them.  The time zone is UTC.                     *)
(***************************************************************************)
EXTENDS Integers, Sequences, FiniteSets, FiniteSetsExt

CONSTANTS DaysPerWeek,    \* 7
          MinutesPerDay,  \* 24 * 60
          Minute,         \* units in a minute
          Buffer,         \* the schedule buffer, in units
          Safety          \* the safety buffer, in units

ASSUME TimeAssumption ==
  /\ {DaysPerWeek, MinutesPerDay, Minute, Safety} \subseteq Nat \ {0}
  /\ Buffer \in Nat

Days    == 0 .. DaysPerWeek - 1
Minutes == 0 .. MinutesPerDay - 1
DayLen  == MinutesPerDay * Minute
WeekLen == DaysPerWeek * DayLen
Zero    == 0            \* time.Time{}: before every time the clock can show

\* OffHourWindow: when it starts and ends, on the days it lists.
Window(s, e, d) == [start |-> s, end |-> e, days |-> d]

Day(t)       == (t \div DayLen) % DaysPerWeek
MinuteOf(t)  == (t % DayLen) \div Minute
\* Minute m of the day d days after the day of t.
At(t, d, m)  == (t \div DayLen + d) * DayLen + m * Minute
IsZero(t)    == t = Zero

EarlierTime(a, b) == IF IsZero(a) THEN b ELSE IF IsZero(b) THEN a ELSE Min({a, b})

-----------------------------------------------------------------------------
(* windows.go *)

Overnight(w) == w.end <= w.start

\* The part of isInTimeWindows and findSuspensionEnd for one window: its days
\* are matched against today only, for both halves of an overnight window.
InWindow(w, t) ==
  /\ Day(t) \in w.days
  /\ IF Overnight(w)
       THEN MinuteOf(t) >= w.start \/ MinuteOf(t) < w.end
       ELSE MinuteOf(t) >= w.start /\ MinuteOf(t) < w.end

IsInTimeWindows(ws, t) == \E i \in DOMAIN ws : InWindow(ws[i], t)

\* isInLeadTimeWindow: after noon tomorrow's windows count as well, and only
\* the time of day is compared.
IsInLeadTimeWindow(ws, t, lead) ==
  \E i \in DOMAIN ws :
    LET w     == ws[i]
        today == {Day(t)} \cup
                 IF MinuteOf(t) > MinutesPerDay \div 2 THEN {Day(t + DayLen)} ELSE {}
        open  == IF w.start < lead THEN w.start - lead + MinutesPerDay
                                   ELSE w.start - lead
    IN /\ today \cap w.days # {}
       /\ IF open < w.start
            THEN MinuteOf(t) >= open /\ MinuteOf(t) < w.start
            ELSE MinuteOf(t) >= open \/ MinuteOf(t) < w.start

MostRecentWeekday(t, day) == (Day(t) - day + DaysPerWeek) % DaysPerWeek

\* isInGraceTimeWindow, StartBoundary.
InStartGrace(ws, t) ==
  \E i \in DOMAIN ws : \E day \in ws[i].days :
    LET b == At(t, -MostRecentWeekday(t, day), ws[i].start)
    IN b <= t /\ t <= b + Buffer

\* isInGraceTimeWindow, EndBoundary: only on the listed day itself.
InEndGrace(ws, t) ==
  \E i \in DOMAIN ws :
    LET b == At(t, 0, ws[i].end)
    IN Day(t) \in ws[i].days /\ b <= t /\ t <= b + Buffer

\* ParseWindowToCron refuses a window without extent.
Parses(w) == w.start # w.end /\ w.days # {}

-----------------------------------------------------------------------------
(* schedule.go *)

\* The cron library: the next time strictly after t.
NextAt(t, m, days) ==
  Min({x \in {At(t, d, m) : d \in 0 .. DaysPerWeek} : x > t /\ Day(x) \in days})

\* findLastOccurrence: the last day first, then the last week.
FindLastOccurrence(t, m, days) ==
  LET Within(len) == {x \in {At(t, -d, m) : d \in 0 .. DaysPerWeek} :
                        x > t - len /\ x <= t /\ Day(x) \in days}
  IN CASE Within(DayLen) # {}  -> Max(Within(DayLen))
       [] Within(DayLen) = {} /\ Within(WeekLen) # {} -> Max(Within(WeekLen))
       [] OTHER -> Zero

NoEvaluation == [hibernate |-> FALSE, nextH |-> Zero, nextW |-> Zero,
                 grace |-> FALSE, graceEnd |-> Zero]
Error        == [NoEvaluation EXCEPT !.graceEnd = -1]

\* eval: the state between the last two occurrences, corrected by the grace
\* periods at both ends.
Eval(w, t) ==
  LET lastH  == FindLastOccurrence(t, w.start, w.days)
      lastW  == FindLastOccurrence(t, w.end, w.days)
      nextH  == NextAt(t, w.start, w.days)
      nextW  == NextAt(t, w.end, w.days)
      should == lastH > lastW
      continuous == lastW + Buffer >= lastH
      startGrace == Buffer > 0 /\ should /\ ~continuous /\ InStartGrace(<<w>>, t)
      endGrace   == Buffer > 0 /\ ~should /\ InEndGrace(<<w>>, t)
  IN CASE startGrace -> [hibernate |-> FALSE, nextH |-> Min({lastH + Buffer, nextH}),
                         nextW |-> nextW, grace |-> TRUE, graceEnd |-> lastH + Buffer]
       [] endGrace   -> [hibernate |-> TRUE, nextH |-> nextH,
                         nextW |-> Min({lastW + Buffer, nextW}),
                         grace |-> TRUE, graceEnd |-> lastW + Buffer]
       [] OTHER      -> [NoEvaluation EXCEPT !.hibernate = should,
                                             !.nextH = nextH, !.nextW = nextW]

\* The union evaluateWindows and applyExtend form of two results; the grace end
\* of a result that is not in grace is never looked at.
Combine(a, b) ==
  [hibernate |-> a.hibernate \/ b.hibernate,
   nextH     |-> EarlierTime(a.nextH, b.nextH),
   nextW     |-> EarlierTime(a.nextW, b.nextW),
   grace     |-> a.grace \/ b.grace,
   graceEnd  |-> EarlierTime(IF a.grace THEN a.graceEnd ELSE Zero,
                             IF b.grace THEN b.graceEnd ELSE Zero)]

EvaluateWindows(ws, t) ==
  IF \E i \in DOMAIN ws : ~Parses(ws[i]) THEN Error
  ELSE LET f[i \in 0 .. Len(ws)] ==
             IF i = 0 THEN NoEvaluation ELSE Combine(f[i - 1], Eval(ws[i], t))
       IN f[Len(ws)]

\* A base wakeup inside an extend window is skipped for the extend's own.
ExtendedBy(base, ext, ws) ==
  IF ext = Error THEN Error
  ELSE IF ~IsZero(base.nextW) /\ IsInTimeWindows(ws, base.nextW)
         THEN [Combine(base, ext) EXCEPT !.nextW = ext.nextW]
         ELSE Combine(base, ext)

ApplyExtend(base, ws, t) == ExtendedBy(base, EvaluateWindows(ws, t), ws)

\* findNextSuspensionStart: today and tomorrow.
FindNextSuspensionStart(ws, t) ==
  LET starts == {At(t, d, ws[i].start) : <<d, i>> \in
                   {<<d, i>> \in {0, 1} \X DOMAIN ws :
                      /\ Day(At(t, d, 0)) \in ws[i].days
                      /\ d = 0 => ws[i].start > MinuteOf(t)}}
  IN IF starts = {} THEN Zero ELSE Min(starts)

\* findSuspensionEnd: of the first window t is in.
FindSuspensionEnd(ws, t) ==
  LET within == {i \in DOMAIN ws : InWindow(ws[i], t)}
      w      == ws[Min(within)]
  IN CASE within = {} -> Zero
       [] within # {} /\ Overnight(w) /\ MinuteOf(t) >= w.start -> At(t, 1, w.end)
       [] OTHER -> At(t, 0, w.end)

\* Slip: the suspension ends where it began to be looked at.
ApplySuspendNoForwardLook(base, exc, t) ==
  LET in == IsInTimeWindows(exc.windows, t)
  IN [base EXCEPT !.hibernate = @ /\ ~in]

\* applySuspend.  The grace flag of the result is the suspension's, its end is
\* the base's.
ApplySuspend(base, exc, t) ==
  LET ws    == exc.windows
      in    == IsInTimeWindows(ws, t)
      grace == ~in /\ Buffer > 0 /\ InEndGrace(ws, t)
      lead  == exc.lead > 0 /\ IsInLeadTimeWindow(ws, t, exc.lead)
      start == FindNextSuspensionStart(ws, t)
      wakesBefore == ~IsZero(start) /\ ~IsZero(base.nextW) /\ base.nextW <= start
      should == base.hibernate /\ ~in /\ ~grace /\ (lead => wakesBefore)
      end   == FindSuspensionEnd(ws, t)
      nextH == IF (in \/ lead \/ grace) /\ ~IsZero(end) /\ end > t
                    /\ (end < base.nextH \/ IsZero(base.nextH))
                 THEN end ELSE base.nextH
      skip  == FindSuspensionEnd(ws, nextH)
  IN IF ws = <<>> THEN base
     ELSE [hibernate |-> should,
           nextH     |-> IF ~should /\ ~IsZero(nextH) /\ IsInTimeWindows(ws, nextH)
                              /\ ~IsZero(skip)
                           THEN skip ELSE nextH,
           nextW     |-> IF should THEN EarlierTime(base.nextW, start) ELSE base.nextW,
           grace     |-> grace,
           graceEnd  |-> base.graceEnd]

-----------------------------------------------------------------------------
(* evaluate.go and Evaluate *)

\* mergeByType: the windows of all exceptions of a type, the longest lead time.
MergeByType(excs, type) ==
  LET of == SelectSeq(excs, LAMBDA e : e.type = type)
      ws[i \in 0 .. Len(of)] == IF i = 0 THEN <<>> ELSE ws[i - 1] \o of[i].windows
  IN [some |-> of # <<>>, windows |-> ws[Len(of)],
      lead |-> Max({0} \cup {of[i].lead : i \in DOMAIN of})]

\* Evaluate on exceptions that are active: replace, then extend, then suspend.
Replaced(rep, base, t) == EvaluateWindows(IF rep.some THEN rep.windows ELSE base, t)
Extended(r, ext, t) == IF ext.some /\ r # Error THEN ApplyExtend(r, ext.windows, t) ELSE r
Suspended(r, sus, t) == IF sus.some /\ r # Error THEN ApplySuspend(r, sus, t) ELSE r

Evaluate(base, excs, t) ==
  Suspended(Extended(Replaced(MergeByType(excs, "replace"), base, t),
                     MergeByType(excs, "extend"), t),
            MergeByType(excs, "suspend"), t)

\* computeNextEvent (and NextRequeueTime, its relative form).
ComputeNextEvent(r) ==
  IF r.grace THEN r.graceEnd + Safety
  ELSE (IF r.hibernate THEN r.nextW ELSE r.nextH) + Buffer + Safety
=============================================================================
