------------------------------ MODULE Runbooks ------------------------------
(***************************************************************************)
(* Runbooks: people write and edit procedures, link one to an incident     *)
(* before anyone runs it, and record once how it went.  Every edit is a    *)
(* new version, and a link keeps the number of the version it was made     *)
(* with.  A handler is one async function without a transaction; others    *)
(* run at each of its awaits.  A refused request changes nothing and is no *)
(* step, and the audit entries are left out.                               *)
(*                                                                         *)
(* What a runbook says is the number of the edit that wrote it, counted by *)
(* the history written, so that two texts are never the same.  Whether a   *)
(* runbook is retired is part of that: nothing here asks, links included.  *)
(***************************************************************************)
EXTENDS Naturals, FiniteSets

CONSTANTS
    Runbooks,      \* runbook ids (a bound)
    RunbookSlugs,
    Links,         \* ids of incident_runbooks rows (a bound)
    Linkable,      \* the incidents there are
    Users,
    Handlers,      \* requests that may be served side by side
    MaxEdits,      \* bounds the edits of a runbook
    Null           \* null

ASSUME RunbooksAssumption ==
    /\ MaxEdits \in Nat
    /\ Null \notin RunbookSlugs \cup Runbooks \cup Links \cup Linkable \cup Users

VARIABLES
    runbooks,  \* the runbooks table
    links,     \* the incident_runbooks table
    handler,   \* where each handler is
    written,   \* history: the texts every runbook has had, in order of writing
    seen,      \* history: the text of the runbook as the handler of a link read it
    overtaken  \* history: handlers about to record on a link recorded meanwhile

runbookVars == <<runbooks, links, handler, written, seen, overtaken>>

-----------------------------------------------------------------------------

Outcome == {"SUCCESS", "FAILURE", "PARTIAL"}

\* text: the trigger condition and the steps.
NoRunbook == [slug |-> Null, version |-> 0, text |-> 0]

NoLink == [runbook |-> Null, version |-> 0, incident |-> Null, outcome |-> "NONE",
           by |-> Null]

Resting == [pc |-> "idle", runbook |-> Null, slug |-> Null, version |-> 0, text |-> 0,
            incident |-> Null, link |-> Null, outcome |-> "NONE", user |-> Null]

RunbooksInit ==
    /\ runbooks = [b \in Runbooks |-> NoRunbook]
    /\ links = [l \in Links |-> NoLink]
    /\ handler = [r \in Handlers |-> Resting]
    /\ written = [b \in Runbooks |-> 0]
    /\ seen = [l \in Links |-> 0]
    /\ overtaken = {}

-----------------------------------------------------------------------------

Written(b) == runbooks[b].slug # Null

HandlerAt(r, v) == handler' = [handler EXCEPT ![r] = v]
Leaves(r) == HandlerAt(r, Resting) /\ overtaken' = overtaken \ {r}

\* findBySlug.
SlugTaken(slug) == \E b \in Runbooks : runbooks[b].slug = slug

CreateRunbook(r, slug) ==
    /\ handler[r].pc = "idle" /\ ~SlugTaken(slug)
    /\ HandlerAt(r, [Resting EXCEPT !.pc = "create", !.slug = slug])
    /\ UNCHANGED <<runbooks, links, written, seen, overtaken>>

\* The unique index rejects a slug that was taken meanwhile.
InsertRunbook(r) ==
    LET slug == handler[r].slug IN
    /\ handler[r].pc = "create"
    /\ \/ SlugTaken(slug) /\ UNCHANGED <<runbooks, written>>
       \/ /\ ~SlugTaken(slug)
          /\ \E b \in Runbooks :
               /\ ~Written(b)
               /\ runbooks' = [runbooks EXCEPT ![b] = [NoRunbook EXCEPT !.slug = slug,
                                                                       !.version = 1]]
               /\ written' = [written EXCEPT ![b] = 1]
    /\ Leaves(r)
    /\ UNCHANGED <<links, seen>>

\* update: the runbook is read only to see that it is there.
Edit(r, b) ==
    /\ handler[r].pc = "idle" /\ Written(b)
    /\ HandlerAt(r, [Resting EXCEPT !.pc = "edit", !.runbook = b, !.version = runbooks[b].version])
    /\ UNCHANGED <<runbooks, links, written, seen, overtaken>>

\* The mutated form: the version is that read before, plus one.
WriteEditFromRead(r) ==
    LET b == handler[r].runbook IN
    /\ handler[r].pc = "edit" /\ written[b] <= MaxEdits
    /\ runbooks' = [runbooks EXCEPT ![b].version = handler[r].version + 1,
                                    ![b].text = written[b]]
    /\ written' = [written EXCEPT ![b] = @ + 1]
    /\ Leaves(r)
    /\ UNCHANGED <<links, seen>>

\* The database increments the version.
WriteEdit(r) ==
    LET b == handler[r].runbook IN
    /\ handler[r].pc = "edit" /\ written[b] <= MaxEdits
    /\ runbooks' = [runbooks EXCEPT ![b].version = @ + 1,
                                    ![b].text = written[b]]
    /\ written' = [written EXCEPT ![b] = @ + 1]
    /\ Leaves(r)
    /\ UNCHANGED <<links, seen>>

\* The runbook is read, with its version; then the incident is looked up.
LinkToIncident(r, b, i) ==
    /\ handler[r].pc = "idle" /\ Written(b)
    /\ HandlerAt(r, [Resting EXCEPT !.pc = "link", !.runbook = b, !.incident = i,
                          !.version = runbooks[b].version, !.text = runbooks[b].text])
    /\ UNCHANGED <<runbooks, links, written, seen, overtaken>>

InsertLink(r) ==
    LET v == handler[r] IN
    /\ v.pc = "link"
    /\ \E l \in Links :
         /\ links[l].outcome = "NONE"
         /\ links' = [links EXCEPT ![l] = [NoLink EXCEPT !.runbook = v.runbook,
                        !.version = v.version, !.incident = v.incident,
                        !.outcome = "PENDING"]]
         /\ seen' = [seen EXCEPT ![l] = v.text]
    /\ Leaves(r)
    /\ UNCHANGED <<runbooks, written>>

\* The mutated form: what was recorded before is not looked at.
RecordAnyOutcome(r, l, outcome, user) ==
    /\ handler[r].pc = "idle" /\ links[l].outcome # "NONE"
    /\ HandlerAt(r, [Resting EXCEPT !.pc = "record", !.link = l, !.outcome = outcome, !.user = user])
    /\ UNCHANGED <<runbooks, links, written, seen, overtaken>>

\* Only a link without an outcome is recorded on.
RecordOutcome(r, l, outcome, user) ==
    /\ handler[r].pc = "idle" /\ links[l].outcome = "PENDING"
    /\ HandlerAt(r, [Resting EXCEPT !.pc = "record", !.link = l, !.outcome = outcome, !.user = user])
    /\ UNCHANGED <<runbooks, links, written, seen, overtaken>>

\* The UPDATE names only the link's id.
WriteOutcome(r) ==
    LET l == handler[r].link IN
    /\ handler[r].pc = "record"
    /\ links' = [links EXCEPT ![l].outcome = handler[r].outcome, ![l].by = handler[r].user]
    /\ HandlerAt(r, Resting)
    /\ overtaken' = (overtaken \cup {p \in Handlers : handler[p].pc = "record"
                                                     /\ handler[p].link = l}) \ {r}
    /\ UNCHANGED <<runbooks, written, seen>>

\* An await rejects or the process dies.
AbortRunbookHandler(r) ==
    /\ handler[r].pc # "idle"
    /\ Leaves(r)
    /\ UNCHANGED <<runbooks, links, written, seen>>

RunbooksStep(r) ==
    \/ \E slug \in RunbookSlugs : CreateRunbook(r, slug)
    \/ InsertRunbook(r)
    \/ \E b \in Runbooks : Edit(r, b)
    \/ WriteEdit(r)
    \/ \E b \in Runbooks, i \in Linkable : LinkToIncident(r, b, i)
    \/ InsertLink(r)
    \/ \E l \in Links, outcome \in Outcome, u \in Users : RecordOutcome(r, l, outcome, u)
    \/ WriteOutcome(r)
    \/ AbortRunbookHandler(r)

RunbooksNext == \E r \in Handlers : RunbooksStep(r)

-----------------------------------------------------------------------------
(* What must hold.                                                         *)

\* "A later edit never silently rewrites what an incident's history says
\* actually happened" (runbooks.repository.ts:68): no two texts of a runbook
\* have had the same version, whatever edits overlap, so the version a link
\* keeps names the one text that was read for it; text n is version n + 1.
VersionNamesItsText ==
    /\ \A b \in Runbooks : Written(b) => runbooks[b].version = runbooks[b].text + 1
    /\ \A l \in Links : links[l].outcome # "NONE" => links[l].version = seen[l] + 1

\* An outcome is recorded once (runbooks.service.ts:89): it changes only from
\* PENDING, except by a handler that had read the link before another recorded
\* on it; and who recorded it changes only with it.
OnlyOvertakenHandlersRewriteOutcomes ==
    [][\A l \in Links :
         links'[l] # links[l] =>
           \/ links[l].outcome = "NONE" /\ links'[l].outcome = "PENDING"
           \/ links[l].outcome = "PENDING" /\ links'[l].outcome \in Outcome
           \/ \E r \in overtaken : handler[r].link = l]_runbookVars

=============================================================================
