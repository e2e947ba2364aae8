---------------------------- MODULE SeededWindows ----------------------------
(***************************************************************************)
(* The SLA windows the history script fills: days and weeks counted from   *)
(* the first day of the history, calendar months, each cut off at now.     *)
(* Every beat of a service is charged to the windows it overlaps, a        *)
(* degraded period at three tenths.                                        *)
(*                                                                         *)
(* The unit is half a day, and the history starts at 0.                    *)
(***************************************************************************)
EXTENDS Integers, FiniteSets

CONSTANTS
    HistoryDays,  \* 183 in the code
    MonthDays,    \* the length of a month: here they are all alike
    NoQuestion

\* The weeks the script makes start before the HistoryDays-th day: were that day
\* the first of a week, no week would have what has happened of it.
ASSUME WindowsAssumption ==
    /\ HistoryDays \in Nat \ {0} /\ HistoryDays % 7 # 0
    /\ MonthDays \in Nat \ {0}

VARIABLE ask  \* a question about the records: when now is, and one beat

windowsVars == <<ask>>

-----------------------------------------------------------------------------

Day == 2

Earlier(a, b) == IF a < b THEN a ELSE b
Later(a, b) == IF a > b THEN a ELSE b

\* buildRecord makes no record of a window that is empty.
Window(start, end, now) == {w \in {[start |-> start, end |-> Earlier(end, now)]} : w.end > w.start}

Daily(now) == UNION {Window(Day * d, Day * (d + 1), now) : d \in 0 .. HistoryDays - 1}

Weekly(now) ==
    UNION {Window(7 * Day * w, 7 * Day * (w + 1), now) : w \in {w \in 0 .. HistoryDays : 7 * w < HistoryDays}}

\* phase: how far into its first month the history starts, in days.
MonthStart(m, phase) == Day * (m * MonthDays - phase)

\* The mutated form: a month ends where its last day begins.
LastDayOf(m, phase) == MonthStart(m + 1, phase) - Day

NextMonth(m, phase) == MonthStart(m + 1, phase)

\* The first month starts with the history.
Monthly(now, phase) ==
    UNION {Window(Later(MonthStart(m, phase), 0), NextMonth(m, phase), now)
           : m \in 0 .. (HistoryDays \div MonthDays) + 1}

OverlapTime(aStart, aEnd, bStart, bEnd) == Later(0, Earlier(aEnd, bEnd) - Later(aStart, bStart))

\* Tenths of a unit.
DowntimeInWindow(b, w) ==
    (IF b.kind = "DEGRADED" THEN 3 ELSE 10) * OverlapTime(b.start, b.end, w.start, w.end)

\* The sum over the windows: every tenth is counted with the window that has it.
Charged(b, windows) ==
    Cardinality(UNION {{w} \X (1 .. DowntimeInWindow(b, w)) : w \in windows})

-----------------------------------------------------------------------------

\* Now is this day's midnight or its noon, HistoryDays after the first.
Nows == {Day * HistoryDays, Day * HistoryDays + 1}

\* Beats of every length up to a week at either end of the history, and across
\* the first end of a month.
WindowsInit ==
    \E now \in Nows, phase \in 0 .. MonthDays - 1, kind \in {"INCIDENT", "DEGRADED"}, n \in {1, Day, 7 * Day} :
      \E start \in {0, 1, Day * (MonthDays - phase) - 1, now - n} :
        ask = [now |-> now, phase |-> phase, beat |-> [kind |-> kind, start |-> start, end |-> start + n]]

\* A beat is charged once by the weeks and once by the months, however it lies
\* across them, and by the days but for what happened since midnight: the
\* history has no record of the day that is not over.
DowntimeIsChargedOnce ==
    ask # NoQuestion =>
    LET b == ask.beat
        all == [start |-> 0, end |-> ask.now]
        past == [start |-> 0, end |-> Day * HistoryDays]
    IN /\ Charged(b, Weekly(ask.now)) = DowntimeInWindow(b, all)
       /\ Charged(b, Monthly(ask.now, ask.phase)) = DowntimeInWindow(b, all)
       /\ Charged(b, Daily(ask.now)) = DowntimeInWindow(b, past)

=============================================================================
