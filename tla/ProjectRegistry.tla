---------------------------- MODULE ProjectRegistry ----------------------------
(***************************************************************************)
(* The projects of one user and the rows that hang on them: create, import,*)
(* update and delete of a project, the addition of a memory of a project   *)
(* or of the user, and MCP's sistem_log_event.  A handler first selects a  *)
(* row, then commits, then reads its row back (session.refresh); other     *)
(* requests run between these three.                                       *)
(***************************************************************************)
EXTENDS Naturals

CONSTANTS
    Ids,        \* primary keys the database may draw
    Slugs,      \* values of project.id in a pack
    KeyShaped,  \* those that UUID() parses
    Names,      \* values of project.name, and likewise niche and status
    Requests,   \* HTTP requests
    None,       \* no row
    TagsFit     \* whether the tags of a memory take the JSON the ORM binds:
                \* in tables made from models.py, not the TEXT[] of schema.sql

ASSUME KeyShapedAssumption == KeyShaped \subseteq Slugs
ASSUME TagsFitAssumption == TagsFit \in BOOLEAN

VARIABLES
    row,        \* row[i]: the project with key i
    used,       \* keys ever inserted
    entry,      \* entry[q]: the memory or audit row that q inserted
    pc,         \* pc[q]: where the handler of request q stands
    op,         \* op[q]: what the request asks
    found,      \* found[q]: key of the row the handler holds
    loaded,     \* loaded[q]: that row as it was selected
    reply,      \* reply[q]: HTTP status
    stale       \* updates that committed over a row newer than they loaded

vars == <<row, used, entry, pc, op, found, loaded, reply, stale>>

Packs == [id : Slugs, name : Names]
Rows == [slug : Slugs, name : Names, pack : Packs]
Entries == [table : {"memory", "audit"}, project : Ids \cup {None}]

\* A path names a project by slug or by key.
Paths == Slugs \cup Ids
Ops == [kind : {"create"}, pack : Packs]
       \cup [kind : {"update"}, path : Paths, pack : Packs]
       \cup [kind : {"delete", "remember", "log"}, path : Paths]
       \cup [kind : {"note", "log"}, path : {None}]

ASSUME NoneAssumption ==
    None \notin Ids \cup Slugs /\ None \notin Rows \cup Entries \cup Ops

Live == {i \in Ids : row[i] # None}
WithSlug(s) == {i \in Live : row[i].slug = s}

\* A path that could be a key is looked up as one, and not as a slug.
Matches(path) == IF path \in Ids \cup KeyShaped THEN Live \cap {path} ELSE WithSlug(path)

Init ==
    /\ row = [i \in Ids |-> None]
    /\ used = {}
    /\ entry = [q \in Requests |-> None]
    /\ pc = [q \in Requests |-> "idle"]
    /\ op = [q \in Requests |-> None]
    /\ found = [q \in Requests |-> None]
    /\ loaded = [q \in Requests |-> None]
    /\ reply = [q \in Requests |-> "none"]
    /\ stale = {}

Answer(q, code) ==
    /\ pc' = [pc EXCEPT ![q] = "done"]
    /\ reply' = [reply EXCEPT ![q] = code]

Goto(q, label) ==
    /\ pc' = [pc EXCEPT ![q] = label]
    /\ UNCHANGED reply

-----------------------------------------------------------------------------
(* The first SELECT *)

\* create_project, and import_yaml through it, look for the slug.
SelectSlug(q, o) ==
    /\ pc[q] = "idle"
    /\ o.kind = "create"
    /\ op' = [op EXCEPT ![q] = o]
    /\ IF WithSlug(o.pack.id) = {} THEN Goto(q, "commit") ELSE Answer(q, "409")
    /\ UNCHANGED <<row, used, entry, found, loaded, stale>>

\* _lookup, and _resolve_project of the memory API, load the row.
SelectRow(q, o, i) ==
    /\ pc[q] = "idle"
    /\ o.kind # "create"
    /\ i \in Matches(o.path)
    /\ op' = [op EXCEPT ![q] = o]
    /\ found' = [found EXCEPT ![q] = i]
    /\ loaded' = [loaded EXCEPT ![q] = row[i]]
    /\ Goto(q, "commit")
    /\ UNCHANGED <<row, used, entry, stale>>

SelectNothing(q, o) ==
    /\ pc[q] = "idle"
    /\ o.kind # "create"
    /\ o.path # None
    /\ Matches(o.path) = {}
    /\ op' = [op EXCEPT ![q] = o]
    /\ Answer(q, "404")
    /\ UNCHANGED <<row, used, entry, found, loaded, stale>>

\* A memory of the user, or an event that names no project.
SelectNeeded(q, o) ==
    /\ pc[q] = "idle"
    /\ o.kind # "create"
    /\ o.path = None
    /\ op' = [op EXCEPT ![q] = o]
    /\ Goto(q, "commit")
    /\ UNCHANGED <<row, used, entry, found, loaded, stale>>

-----------------------------------------------------------------------------
(* The commit *)

Committing(q, kinds) == pc[q] = "commit" /\ op[q].kind \in kinds

\* A commit that the database or the session refuses ends in a 500; the MCP
\* endpoint tells it in an error of its own.
Fail(q) ==
    /\ Answer(q, IF op[q].kind = "log" THEN "error" ELSE "500")
    /\ UNCHANGED <<row, used, entry, op, found, loaded, stale>>

\* Mutant: the table has no UNIQUE (user_id, slug).
SlugNeverTaken(s) == s \notin Slugs

SlugTaken(s) == \E i \in Live : row[i].slug = s

\* Mutant: the slug column takes the name.
RowByName(p) == [slug |-> p.name, name |-> p.name, pack |-> p]

RowOf(p) == [slug |-> p.id, name |-> p.name, pack |-> p]

Insert(q, i) ==
    /\ Committing(q, {"create"})
    /\ i \notin used
    /\ ~SlugTaken(op[q].pack.id)
    /\ row' = [row EXCEPT ![i] = RowOf(op[q].pack)]
    /\ used' = used \cup {i}
    /\ found' = [found EXCEPT ![q] = i]
    /\ Goto(q, "refresh")
    /\ UNCHANGED <<entry, op, loaded, stale>>

\* Another create of the slug was first: UNIQUE (user_id, slug).
InsertRejected(q) ==
    /\ Committing(q, {"create"})
    /\ SlugTaken(op[q].pack.id)
    /\ Fail(q)

\* Mutant: the columns beside the pack are not updated.
MergedPack(current, old, p, secrets) ==
    [current EXCEPT !.pack = IF p # old.pack \/ secrets = "some" THEN p ELSE @]

\* The UPDATE of the session names the columns whose value differs from the
\* loaded one, no others, and the slug is never among them.  A pack with
\* secrets differs in any case: they are sealed with a new nonce.
Merged(current, old, p, secrets) ==
    [current EXCEPT !.name = IF p.name # old.name THEN p.name ELSE @,
                    !.pack = IF p # old.pack \/ secrets = "some" THEN p ELSE @]

Update(q) ==
    LET i == found[q] IN
    /\ Committing(q, {"update"})
    /\ i \in Live
    /\ \E secrets \in {"none", "some"} :
          row' = [row EXCEPT ![i] = Merged(@, loaded[q], op[q].pack, secrets)]
    /\ stale' = IF row[i] # loaded[q] THEN stale \cup {q} ELSE stale
    /\ Goto(q, "refresh")
    /\ UNCHANGED <<used, entry, op, found, loaded>>

\* The row was deleted since: StaleDataError, or no row to refresh.
UpdateRejected(q) ==
    /\ Committing(q, {"update"})
    /\ found[q] \notin Live
    /\ Fail(q)

\* Mutant: the events of a project go with it.
CascadeAll(e, i) == IF e.project = i THEN None ELSE e

\* What a row becomes when project i goes: ON DELETE CASCADE of a memory, ON
\* DELETE SET NULL of an event.
Cascade(e, i) ==
    CASE e.project # i -> e
      [] e.table = "memory" -> None
      [] e.table = "audit" -> [e EXCEPT !.project = None]

\* Deleting a row that is gone already is a warning in the log and a 204 for
\* the client.
Delete(q) ==
    LET i == found[q] IN
    /\ Committing(q, {"delete"})
    /\ row' = [row EXCEPT ![i] = None]
    /\ entry' = [e \in Requests |-> IF entry[e] = None THEN None ELSE Cascade(entry[e], i)]
    /\ Answer(q, "204")
    /\ UNCHANGED <<used, op, found, loaded, stale>>

\* Mutant: the tables have no foreign key to projects.
RefersAnywhere(q) == found[q] \in Ids \cup {None}

ForeignKeyHolds(q) == found[q] = None \/ found[q] \in Live

\* add_project_memory and add_universal; only memories have tags.
Remember(q) ==
    /\ Committing(q, {"remember", "note"})
    /\ TagsFit
    /\ ForeignKeyHolds(q)
    /\ entry' = [entry EXCEPT ![q] = [table |-> "memory", project |-> found[q]]]
    /\ Goto(q, "refresh")
    /\ UNCHANGED <<row, used, op, found, loaded, stale>>

RememberRejected(q) ==
    /\ Committing(q, {"remember", "note"})
    /\ ~TagsFit \/ ~ForeignKeyHolds(q)
    /\ Fail(q)

\* sistem_log_event reads nothing back.
LogEvent(q) ==
    /\ Committing(q, {"log"})
    /\ ForeignKeyHolds(q)
    /\ entry' = [entry EXCEPT ![q] = [table |-> "audit", project |-> found[q]]]
    /\ Answer(q, "200")
    /\ UNCHANGED <<row, used, op, found, loaded, stale>>

LogEventRejected(q) ==
    /\ Committing(q, {"log"})
    /\ ~ForeignKeyHolds(q)
    /\ Fail(q)

-----------------------------------------------------------------------------
(* The refresh *)

\* The row the handler reads back: its memory, or its project.
StillThere(q) ==
    IF op[q].kind \in {"remember", "note"} THEN entry[q] # None ELSE found[q] \in Live

Refresh(q) ==
    /\ pc[q] = "refresh"
    /\ StillThere(q)
    /\ Answer(q, IF op[q].kind = "update" THEN "200" ELSE "201")
    /\ UNCHANGED <<row, used, entry, op, found, loaded, stale>>

RefreshRejected(q) ==
    /\ pc[q] = "refresh"
    /\ ~StillThere(q)
    /\ Fail(q)

Next ==
    \E q \in Requests :
        \/ \E o \in Ops :
             \/ SelectSlug(q, o)
             \/ SelectNothing(q, o)
             \/ SelectNeeded(q, o)
             \/ \E i \in Ids : SelectRow(q, o, i)
        \/ \E i \in Ids : Insert(q, i)
        \/ InsertRejected(q)
        \/ Update(q) \/ UpdateRejected(q)
        \/ Delete(q)
        \/ Remember(q) \/ RememberRejected(q)
        \/ LogEvent(q) \/ LogEventRejected(q)
        \/ Refresh(q) \/ RefreshRejected(q)

Spec == Init /\ [][Next]_vars

-----------------------------------------------------------------------------
(* Properties *)

TypeOK ==
    /\ row \in [Ids -> Rows \cup {None}]
    /\ used \subseteq Ids
    /\ entry \in [Requests -> Entries \cup {None}]
    /\ pc \in [Requests -> {"idle", "commit", "refresh", "done"}]
    /\ op \in [Requests -> Ops \cup {None}]
    /\ found \in [Requests -> Ids \cup {None}]
    /\ loaded \in [Requests -> Rows \cup {None}]
    /\ reply \in [Requests -> {"none", "200", "201", "204", "404", "409", "500", "error"}]
    /\ stale \subseteq Requests

\* A path by slug means one project: two creates that both found the slug free
\* do not both insert, and no update makes a second row with a slug.
OneProjectPerSlug ==
    \A i, j \in Live : row[i].slug = row[j].slug => i = j

\* A 204 is final: no update, memory or event whose handler had loaded the
\* project before brings the row, or a reference to it, back.
DeleteIsFinal ==
    \A q \in Requests : reply[q] = "204" =>
        /\ found[q] \notin Live
        /\ \A e \in Requests : entry[e] # None => entry[e].project # found[q]

\* What the list shows of a project (the columns) agrees with its pack, except
\* after one history: an update that keeps the name it loaded overwrites the
\* pack of an update that changed it meanwhile.
ColumnsMatchPack ==
    \A i \in Live : row[i].name # row[i].pack.name =>
        \E q \in stale : found[q] = i /\ op[q].pack.name = loaded[q].name

\* sistem_log_event tells the truth whatever becomes of the project: the event
\* of a caller that heard success is in the audit log for good, even after its
\* project is deleted, and the event of one that heard an error never is.
LoggedMeansKept ==
    \A q \in Requests : (op[q] # None /\ op[q].kind = "log") =>
        (reply[q] = "200" <=> entry[q] # None)
=============================================================================
