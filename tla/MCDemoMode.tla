----------------------------- MODULE MCDemoMode -----------------------------
(* DemoMode for TLC.                                                          *)
EXTENDS DemoMode, TLC

CONSTANTS s1, s2, t1, t2, h1, h2, a1, a2, a3, null

MCScenarios == {s1}
MCTicks == {t1}
MCRequests == {h1}
MCAlerts == {a1, a2, a3}
MCNull == null


\* What a tick will still use of what it has read and found.
Use(t) ==
    LET seen == job[t].seen
        pc == job[t].pc
        writes == pc \in {"evaluate", "open", "write", "resolve", "create", "submit", "approve"}
    IN << pc,
          IF writes THEN seen.phase ELSE Null,
          IF pc \in {"evaluate", "begin"} THEN seen.scenario ELSE Null,
          writes /\ Final(seen),
          IF writes /\ (~Final(seen) \/ seen.phase = "DEGRADING") THEN seen.ticks ELSE 0,
          pc = "begin" /\ seen.autoLoop,
          pc = "write" /\ seen.phase = "DEGRADING" /\ job[t].found.hit,
          pc = "write" /\ seen.phase = "REMEDIATING" /\ job[t].found.resolved >>

\* An alert is its record and what names it: its id decides nothing.
Roles(a) ==
    << row.alert = a, {t \in Ticks : job[t].seen.alert = a},
       {t \in Ticks : job[t].found.alert = a} >>

View ==
    << [row EXCEPT !.alert = (@ # Null)],
       {<<alerts[a], Roles(a)>> : a \in Alerts \ Unused},
       [t \in Ticks |-> Use(t)], [h \in Requests |-> request[h].scenario],
       stale \cap {t \in Ticks : job[t].pc \notin {"off", "acknowledge", "mitigate"}},
       overwritten, disturbed >>

\* Nobody and nothing else meets the run: its ticks may be cut off, no more.
AloneNext ==
    \/ \E h \in Requests : Enable(h) \/ BeginByRequest(h)
    \/ \E t \in Ticks : Advance(t) \/ FailTick(t)

AloneSpec == Init /\ [][AloneNext]_vars /\ Fairness
=============================================================================
