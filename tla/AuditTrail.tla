----------------------------- MODULE AuditTrail -----------------------------
(***************************************************************************)
(* The audit log: rows that are only ever added, and an administrator who  *)
(* reads them page by page, newest first, each page beginning below the    *)
(* last identifier of the one before, while rows go on being added.        *)
(*                                                                         *)
(* Identifiers come from a sequence of the database: a row has its         *)
(* identifier before it is committed, so rows become visible in any order  *)
(* and a failed insert leaves a gap.                                       *)
(***************************************************************************)
EXTENDS Naturals, FiniteSets, FiniteSetsExt

CONSTANTS
    Actor,      \* who rows are about
    AnyActor,   \* the filter that lets every row through
    Limit,      \* the rows of a page
    MaxRows     \* bound: identifiers given out

\* The schema of the query admits no page of less than one row.
ASSUME TrailAssumption == Limit \in Nat \ {0} /\ MaxRows \in Nat

VARIABLES
    trail,      \* the committed rows: the actor of each identifier
    writing,    \* rows with an identifier, not committed yet
    nextId,     \* the sequence
    walk,       \* the reading under way: filter, cursor, and how often each row was seen
    begun       \* the rows that were there to be read when it began

trailVars == <<trail, writing, nextId, walk, begun>>

RowId == 1 .. MaxRows

NoWalk == [reading |-> FALSE, filter |-> AnyActor, cursor |-> MaxRows + 1,
           seen |-> [id \in RowId |-> 0]]

\* The rows below a cursor that a filter lets through.
Below(cursor, filter) ==
    {id \in DOMAIN trail : id < cursor /\ filter \in {AnyActor, trail[id]}}

TrailInit ==
    /\ trail = [id \in {} |-> AnyActor]
    /\ writing = [id \in {} |-> AnyActor]
    /\ nextId = 1
    /\ walk = NoWalk
    /\ begun = {}

\* PrismaAuditLogger.record: the insert takes the next identifier ...
Record(actor) ==
    /\ nextId <= MaxRows
    /\ writing' = [id \in DOMAIN writing \cup {nextId} |->
                      IF id = nextId THEN actor ELSE writing[id]]
    /\ nextId' = nextId + 1
    /\ UNCHANGED <<trail, walk, begun>>

\* ... and becomes visible, or fails.
Commit(id) ==
    /\ id \in DOMAIN writing
    /\ writing' = [other \in DOMAIN writing \ {id} |-> writing[other]]
    /\ \/ trail' = [other \in DOMAIN trail \cup {id} |->
                       IF other = id THEN writing[id] ELSE trail[other]]
       \/ trail' = trail
    /\ UNCHANGED <<nextId, walk, begun>>

StartWalk(filter) ==
    /\ ~walk.reading
    /\ walk' = [NoWalk EXCEPT !.reading = TRUE, !.filter = filter]
    /\ begun' = Below(NoWalk.cursor, filter)
    /\ UNCHANGED <<trail, writing, nextId>>

\* The newest rows of a set, a page of them: less than Limit are newer.
Page(rows) == {id \in rows : Cardinality({other \in rows : other > id}) < Limit}

Seeing(page) == [id \in RowId |-> IF id \in page THEN walk.seen[id] + 1 ELSE walk.seen[id]]

\* The mutated form: pages are counted from the newest row.
ReadPageByOffset ==
    LET rows == Below(NoWalk.cursor, walk.filter)
        offset == Cardinality({id \in RowId : walk.seen[id] > 0})
        page == Page({id \in rows : Cardinality({other \in rows : other > id}) >= offset})
    IN  /\ walk.reading
        /\ walk' = [walk EXCEPT !.seen = Seeing(page), !.reading = Cardinality(page) = Limit]
        /\ UNCHANGED <<trail, writing, nextId, begun>>

\* A full page names its last row as the next cursor, and a short one is the
\* last.
ReadPage ==
    LET page == Page(Below(walk.cursor, walk.filter))
        full == Cardinality(page) = Limit
    IN  /\ walk.reading
        /\ walk' = [walk EXCEPT !.seen = Seeing(page), !.reading = full,
                                !.cursor = IF full THEN Min(page) ELSE @]
        /\ UNCHANGED <<trail, writing, nextId, begun>>

TrailNext ==
    \/ \E actor \in Actor : Record(actor)
    \/ \E id \in DOMAIN writing : Commit(id)
    \/ \E filter \in Actor \cup {AnyActor} : StartWalk(filter)
    \/ ReadPage

-----------------------------------------------------------------------------

\* Whatever is added while the log is read, the reader sees no row twice, and
\* in the end has seen every row that was there when the reading began.  (A
\* row added meanwhile may be missed, also one below a row that was seen.)
WalkSeesEachRowOnce ==
    /\ \A id \in RowId : walk.seen[id] <= 1
    /\ ~walk.reading => \A id \in begun : walk.seen[id] = 1

=============================================================================
