----------------------------- MODULE SeededStory -----------------------------
(***************************************************************************)
(* How the history script makes up one incident: a beat of the narrative   *)
(* (a severity, a start and an end) becomes the incident's row, its        *)
(* timeline, the run of its runbook and its RCA report, without the        *)
(* services that keep those consistent in the API.                         *)
(*                                                                         *)
(* Times are in half minutes from the start of the beat.  The words of a   *)
(* story, and which service it is about, are left out.                     *)
(***************************************************************************)
EXTENDS Severity, Integers

CONSTANTS
    NotYet,       \* a time that is not set
    Responders,   \* the people the history script has made, by role
    Commanders,
    Drawn(_, _),  \* the draws that are looked at, of the range from one number to another
    Ages,         \* minutes since the end of a beat that is over
    Leads         \* minutes since the start of a beat in progress

\* A beat that is over began the day before yesterday at the latest, and lasted
\* three hours at the most.  One in progress began at some minute of today, which
\* may still be to come.
ASSUME StoryAssumption ==
    /\ Responders \cap Commanders = {}
    /\ \A age \in Ages : age \in Nat /\ age > 60 * 21
    /\ Leads \subseteq -(60 * 24 - 1) .. 60 * 24 - 1

VARIABLES beat, story, parts

storyVars == <<beat, story, parts>>

-----------------------------------------------------------------------------

Minutes(n) == 2 * n
Hours(n) == 120 * n

\* Any number of the range, ends included.
RandInt(low, high) == (low .. high) \cap Drawn(low, high)

\* The narrative: how long an incident of each severity lasts.
SeverityDurationMinutes ==
    [SEV1 |-> RandInt(60, 180), SEV2 |-> RandInt(45, 150),
     SEV3 |-> RandInt(20, 90),  SEV4 |-> RandInt(10, 45)]

DetectionDelayMinutes ==
    [SEV1 |-> RandInt(1, 4),  SEV2 |-> RandInt(2, 8),
     SEV3 |-> RandInt(5, 15), SEV4 |-> RandInt(10, 30)]

AckSla(severity) == Minutes(5 * SeverityLevels[severity].ackSla)
EscalateAfter(severity) == Minutes(5 * SeverityLevels[severity].escalateAfter)

BeatOver(s, d, age) ==
    [severity |-> s, inProgress |-> FALSE, end |-> Minutes(d), now |-> Minutes(d + age)]

\* A beat in progress ends now.
BeatUnderway(n) == [severity |-> "SEV2", inProgress |-> TRUE, end |-> Minutes(n), now |-> Minutes(n)]

BuildBeat ==
    \/ \E n \in Leads : beat = BeatUnderway(n)
    \/ \E s \in Severity : \E d \in SeverityDurationMinutes[s], age \in Ages :
         beat = BeatOver(s, d, age)

NoStory ==
    [ firstAlertFiredAt |-> 0, openedAt |-> 0, acknowledgedAt |-> 0, ackBreach |-> FALSE,
      escalationLevel |-> 0, lastEscalatedAt |-> NotYet, mitigatedAt |-> NotYet,
      resolvedAt |-> NotYet, closedAt |-> NotYet, status |-> "ACKNOWLEDGED",
      rca |-> "NONE", author |-> NotYet, reviewer |-> NotYet, publishedAt |-> NotYet,
      executedAt |-> <<>> ]

StoryInit ==
    /\ BuildBeat
    /\ story = NoStory
    /\ parts = 0

\* The parts of the row are made up one after the other, none before n others.
Part(n) == parts = n /\ parts' = n + 1 /\ beat' = beat

AtMost(a, b) == IF a < b THEN a ELSE b
AtLeast(a, b) == IF a > b THEN a ELSE b

-----------------------------------------------------------------------------

\* The earliest alert of an archetype fires two minutes before the beat, with
\* it or two minutes into it.
OpenStory ==
    /\ Part(0)
    /\ \E offset \in {-2, 0, 2}, delay \in DetectionDelayMinutes[beat.severity] :
         story' = [story EXCEPT !.firstAlertFiredAt = Minutes(offset),
                                !.openedAt = Minutes(offset) + Minutes(delay)]

\* Tenths of the acknowledgement SLA until somebody acknowledges.
AckTenths(breach) == IF breach THEN RandInt(13, 30) ELSE RandInt(2, 9)

\* No acknowledgement comes later than a minute before the end of the beat,
\* or a minute after the incident is opened if that is later.
Clipped(ack) ==
    IF ack > beat.end - Minutes(1)
    THEN AtLeast(story.openedAt + Minutes(1), beat.end - Minutes(1))
    ELSE ack

AcknowledgeStory ==
    /\ Part(1)
    /\ \/ /\ beat.inProgress
          /\ \E n \in RandInt(1, 4) :
               story' = [story EXCEPT !.acknowledgedAt = Clipped(story.openedAt + Minutes(n))]
       \/ /\ ~beat.inProgress
          /\ \E breach \in BOOLEAN : \E n \in AckTenths(breach) :
               story' = [story EXCEPT !.ackBreach = breach,
                           !.acknowledgedAt = Clipped(story.openedAt + (AckSla(beat.severity) * n) \div 10)]

\* The mutated form: the escalation is never moved before the acknowledgement.
EscalatedOnSchedule(candidate) == candidate

\* Half a minute before the acknowledgement at the latest.
EscalatedAt(candidate) == AtMost(candidate, story.acknowledgedAt - 1)

EscalateStory ==
    /\ Part(2)
    /\ IF story.ackBreach
       THEN \E n \in RandInt(1, 2) :
              LET level == AtMost(n, SeverityLevels[beat.severity].chain)
                  candidate == story.openedAt + AckSla(beat.severity) + EscalateAfter(beat.severity) * level
              IN story' = [story EXCEPT !.escalationLevel = level,
                                        !.lastEscalatedAt = EscalatedAt(candidate)]
       ELSE UNCHANGED story

\* Within five minutes of the end of the beat, and closed after a turnaround
\* which is longer when an RCA is needed, if that is over by now.
ResolveStory ==
    /\ Part(3)
    /\ IF beat.inProgress
       THEN UNCHANGED story
       ELSE \E n \in RandInt(0, 5),
               hours \in IF RequiresRcaToClose(beat.severity) THEN RandInt(24, 120) ELSE RandInt(1, 48) :
              LET resolved == AtMost(beat.end + Minutes(n), beat.now)
                  closed == resolved + Hours(hours)
              IN story' = [story EXCEPT !.resolvedAt = resolved,
                                        !.closedAt = IF closed <= beat.now THEN closed ELSE NotYet,
                                        !.status = IF closed <= beat.now THEN "CLOSED" ELSE "RESOLVED"]

\* The timeline's mitigation: six tenths of the way to the resolution, rounded
\* to a millisecond in the code; a few minutes ago while in progress.
MitigateStory ==
    /\ Part(4)
    /\ IF beat.inProgress
       THEN \E n \in RandInt(2, 10) : story' = [story EXCEPT !.mitigatedAt = beat.now - Minutes(n)]
       ELSE story' = [story EXCEPT !.mitigatedAt =
                        story.acknowledgedAt + ((story.resolvedAt - story.acknowledgedAt) * 6) \div 10]

\* A run halfway, and another two minutes before the resolution if the first
\* helped in part only; or none at all, for a SEV4 or a runbook that is missing.
RunRunbook ==
    LET half == story.acknowledgedAt
                  + ((IF story.resolvedAt = NotYet THEN beat.now ELSE story.resolvedAt)
                       - story.acknowledgedAt) \div 2
    IN /\ Part(5)
       /\ \/ story' = [story EXCEPT !.executedAt = <<half>>]
          \/ ~beat.inProgress /\ story' = [story EXCEPT !.executedAt = <<half, story.resolvedAt - Minutes(2)>>]
          \/ beat.severity = "SEV4" /\ UNCHANGED story

ReportStatus == IF story.status = "CLOSED" THEN {"APPROVED"} ELSE {"IN_REVIEW", "DRAFT"}

\* Written by a responder, reviewed by a commander: a report that is not
\* approved may have a reviewer too.
WriteReport ==
    /\ Part(6)
    /\ \/ /\ story.resolvedAt # NotYet
          /\ \E status \in ReportStatus, author \in Responders, reviewer \in Commanders :
             \E named \in BOOLEAN :
               /\ status = "APPROVED" => named
               /\ story' = [story EXCEPT !.rca = status, !.author = author,
                              !.reviewer = IF named THEN reviewer ELSE NotYet,
                              !.publishedAt = IF status = "APPROVED" THEN story.closedAt ELSE NotYet]
       \/ /\ story.resolvedAt = NotYet \/ ~RequiresRcaToClose(beat.severity)
          /\ UNCHANGED story

StoryNext ==
    \/ OpenStory \/ AcknowledgeStory \/ EscalateStory \/ ResolveStory
    \/ MitigateStory \/ RunRunbook \/ WriteReport

-----------------------------------------------------------------------------
(* Properties of a story that is complete.                                 *)

Complete == parts = 7

\* The mitigation lies between the acknowledgement and the resolution, or now.
\* But for an incident in progress that was acknowledged in the last ten
\* minutes: its mitigation is stamped two to ten minutes ago all the same, even
\* before the incident was opened (incidents-gen.ts:244-250).
MitigatedInTurn ==
    \/ story.mitigatedAt \in story.acknowledgedAt ..
                               (IF beat.inProgress THEN beat.now ELSE story.resolvedAt)
    \/ beat.inProgress /\ story.acknowledgedAt > beat.now - Minutes(10)

\* The made-up stamps tell a story that could have happened: the incident is
\* alerted, opened, escalated (when it was not acknowledged in time), then
\* acknowledged, mitigated, resolved and closed.  But for a story with too
\* little time to happen in: a mitigation as above; and all that follows the
\* opening if the incident was opened within a minute of the end of its beat or
\* later, with SEV4's slow detection or because today's hour is still to come:
\* that one is resolved before it is acknowledged.
OnlyRushedStoriesBreakOrder ==
    Complete =>
      \/ /\ story.firstAlertFiredAt <= story.openedAt
         /\ story.openedAt <= story.acknowledgedAt
         /\ story.escalationLevel # 0 =>
              story.lastEscalatedAt \in story.openedAt .. story.acknowledgedAt
         /\ beat.inProgress => story.acknowledgedAt <= beat.now
         /\ MitigatedInTurn
         /\ story.closedAt # NotYet => story.resolvedAt <= story.closedAt
      \/ story.openedAt + Minutes(1) > beat.end

=============================================================================
