------------------------- MODULE ProjectRegistryProofs -------------------------
(***************************************************************************)
(* Proofs about ProjectRegistry, for every number of requests, keys, slugs *)
(* and names, and for both definitions of the tables.                      *)
(***************************************************************************)
EXTENDS ProjectRegistry, TLAPS

\* Every action of the specification, one disjunct each.
LEMMA NextSplit ==
    ASSUME Next
    PROVE  \E q \in Requests :
             \/ \E o \in Ops : \/ SelectSlug(q, o) \/ SelectNothing(q, o) \/ SelectNeeded(q, o)
                               \/ \E i \in Ids : SelectRow(q, o, i)
             \/ \E i \in Ids : Insert(q, i)
             \/ InsertRejected(q) \/ Update(q) \/ UpdateRejected(q) \/ Delete(q)
             \/ Remember(q) \/ RememberRejected(q) \/ LogEvent(q) \/ LogEventRejected(q)
             \/ Refresh(q) \/ RefreshRejected(q)
  BY DEF Next

\* A rejection, and a refresh, changes nothing but the answer.
LEMMA AnswerOnly ==
    ASSUME NEW q \in Requests,
           \/ InsertRejected(q) \/ UpdateRejected(q) \/ RememberRejected(q)
           \/ LogEventRejected(q) \/ Refresh(q) \/ RefreshRejected(q)
    PROVE  /\ pc[q] \in {"commit", "refresh"} /\ pc' = [pc EXCEPT ![q] = "done"]
           /\ \E code \in {"200", "201", "500", "error"} :
                /\ reply' = [reply EXCEPT ![q] = code]
                /\ op[q].kind = "log" /\ pc[q] = "commit" => code = "error"
           /\ UNCHANGED <<row, used, entry, op, found, loaded, stale>>
  BY DEF InsertRejected, UpdateRejected, RememberRejected, LogEventRejected, Refresh,
     RefreshRejected, Fail, Answer, Committing

-----------------------------------------------------------------------------
(* Type correctness, and where a handler stands *)

\* What a handler has in each phase: nothing before its SELECT, and no row, answer or
\* place among the stale before its commit.
Phases ==
    \A q \in Requests :
        /\ pc[q] = "idle" => op[q] = None /\ found[q] = None /\ loaded[q] = None
        /\ pc[q] # "idle" => op[q] \in Ops
        /\ pc[q] \in {"idle", "commit"} => entry[q] = None /\ reply[q] = "none" /\ q \notin stale
        /\ pc[q] = "refresh" => reply[q] = "none" /\ op[q].kind # "log"

\* A row that a handler goes on to change or to delete is one that it has loaded.
HeldRows ==
    \A q \in Requests :
        /\ found[q] \in used \cup {None}
        /\ pc[q] = "commit" /\ op[q].kind \in {"update", "delete"} =>
              found[q] \in used /\ loaded[q] \in Rows

HandlerInv == TypeOK /\ Live \subseteq used /\ Phases /\ HeldRows

\* The fields of what is asked.
LEMMA OpFields ==
    ASSUME NEW o \in Ops
    PROVE  /\ o.kind \in {"create", "update", "delete", "remember", "note", "log"}
           /\ o.kind \in {"create", "update"} => o.pack \in Packs
           /\ o.kind \in {"update", "delete", "remember"} => o.path \in Paths /\ o.path # None
           /\ o.kind = "note" => o.path = None
  BY NoneAssumption DEF Ops, Paths

\* The row after an update: a column has the value that was sent, unless that is the
\* value that was loaded; the slug stays.
LEMMA MergedFields ==
    ASSUME NEW current \in Rows, NEW old, NEW p \in Packs, NEW secrets
    PROVE  /\ Merged(current, old, p, secrets) \in Rows
           /\ Merged(current, old, p, secrets).slug = current.slug
           /\ Merged(current, old, p, secrets).name = IF p.name # old.name THEN p.name ELSE current.name
           /\ Merged(current, old, p, secrets).pack = IF p # old.pack \/ secrets = "some" THEN p ELSE current.pack
  <1> DEFINE n == IF p.name # old.name THEN p.name ELSE current.name
             k == IF p # old.pack \/ secrets = "some" THEN p ELSE current.pack
  <1>1. n \in Names /\ k \in Packs
    BY DEF Rows, Packs
  <1>2. Merged(current, old, p, secrets) = [current EXCEPT !.name = n, !.pack = k]
    BY DEF Merged
  <1> HIDE DEF n, k
  <1>3. [current EXCEPT !.name = n] \in Rows
    BY <1>1 DEF Rows
  <1>4. Merged(current, old, p, secrets) = [[current EXCEPT !.name = n] EXCEPT !.pack = k]
    BY <1>2
  <1>5. /\ Merged(current, old, p, secrets) \in Rows
        /\ Merged(current, old, p, secrets).slug = current.slug
        /\ Merged(current, old, p, secrets).name = n
        /\ Merged(current, old, p, secrets).pack = k
    BY <1>1, <1>3, <1>4 DEF Rows
  <1> QED
    BY <1>5 DEF n, k

LEMMA MergedKeepsSlug ==
    ASSUME NEW current \in Rows, NEW old, NEW p \in Packs, NEW secrets
    PROVE  /\ Merged(current, old, p, secrets) \in Rows
           /\ Merged(current, old, p, secrets).slug = current.slug
  BY MergedFields

LEMMA HandlerInit == Init => HandlerInv
  BY DEF Init, HandlerInv, TypeOK, Live, Phases, HeldRows

LEMMA HandlerStep == HandlerInv /\ [Next]_vars => HandlerInv'
  <1> SUFFICES ASSUME HandlerInv, [Next]_vars PROVE HandlerInv'
    OBVIOUS
  <1> USE DEF HandlerInv, TypeOK, Phases, HeldRows, Live
  <1>1. ASSUME NEW q \in Requests, NEW o \in Ops, SelectSlug(q, o) PROVE HandlerInv'
    BY <1>1 DEF SelectSlug, Goto, Answer
  <1>2. ASSUME NEW q \in Requests, NEW o \in Ops, NEW i \in Ids, SelectRow(q, o, i)
        PROVE  HandlerInv'
    BY <1>2, NoneAssumption DEF SelectRow, Goto, Matches, WithSlug
  <1>3. ASSUME NEW q \in Requests, NEW o \in Ops, SelectNothing(q, o) PROVE HandlerInv'
    BY <1>3 DEF SelectNothing, Answer
  <1>4. ASSUME NEW q \in Requests, NEW o \in Ops, SelectNeeded(q, o) PROVE HandlerInv'
    BY <1>4, OpFields DEF SelectNeeded, Goto
  <1>5. ASSUME NEW q \in Requests, NEW i \in Ids, Insert(q, i) PROVE HandlerInv'
    <2>1. RowOf(op[q].pack) \in Rows
      BY <1>5, OpFields DEF Insert, Committing, RowOf, Rows, Packs
    <2> QED
      BY <1>5, <2>1, NoneAssumption DEF Insert, Committing, Goto
  <1>6. ASSUME NEW q \in Requests,
               \/ InsertRejected(q) \/ UpdateRejected(q) \/ RememberRejected(q)
               \/ LogEventRejected(q) \/ Refresh(q) \/ RefreshRejected(q)
        PROVE  HandlerInv'
    BY <1>6, AnswerOnly
  <1>7. ASSUME NEW q \in Requests, Update(q) PROVE HandlerInv'
    <2> DEFINE i == found[q]
    <2>1. i \in Ids /\ row[i] \in Rows /\ op[q].pack \in Packs
      BY <1>7, OpFields DEF Update, Committing
    <2>2. \A secrets \in {"none", "some"} : Merged(row[i], loaded[q], op[q].pack, secrets) \in Rows
      BY <2>1, MergedFields
    <2> QED
      BY <1>7, <2>1, <2>2 DEF Update, Committing, Goto
  <1>8. ASSUME NEW q \in Requests, Delete(q) PROVE HandlerInv'
    <2>1. \A e \in Entries, i \in Ids : Cascade(e, i) \in Entries \cup {None}
      BY DEF Cascade, Entries
    <2> QED
      BY <1>8, <2>1 DEF Delete, Committing, Answer
  <1>9. ASSUME NEW q \in Requests, Remember(q) PROVE HandlerInv'
    <2>1. [table |-> "memory", project |-> found[q]] \in Entries
      BY DEF Entries
    <2> QED
      BY <1>9, <2>1 DEF Remember, Committing, Goto
  <1>10. ASSUME NEW q \in Requests, LogEvent(q) PROVE HandlerInv'
    <2>1. [table |-> "audit", project |-> found[q]] \in Entries
      BY DEF Entries
    <2> QED
      BY <1>10, <2>1 DEF LogEvent, Committing, Answer
  <1>11. CASE UNCHANGED vars
    BY <1>11 DEF vars
  <1> QED
    BY NextSplit, <1>1, <1>2, <1>3, <1>4, <1>5, <1>6, <1>7, <1>8, <1>9, <1>10, <1>11

\* Type correctness of the tables and the handlers.
THEOREM TypeCorrect == Spec => []TypeOK
  <1>1. HandlerInv => TypeOK
    BY DEF HandlerInv
  <1> QED
    BY <1>1, HandlerInit, HandlerStep, PTL DEF Spec

-----------------------------------------------------------------------------
(* Slugs, deletions and what refers to a project *)

\* A memory or an event refers to a project that is there, or to none.
References == \A q \in Requests : entry[q] # None => entry[q].project \in Live \cup {None}

\* The project of a 204 was there, and its key is not drawn again.
DeletedWasThere ==
    \A q \in Requests : reply[q] = "204" => found[q] \in used /\ found[q] \notin Live

RegistryInv == HandlerInv /\ OneProjectPerSlug /\ References /\ DeletedWasThere

LEMMA RegistryInit == Init => RegistryInv
  BY HandlerInit
  DEF RegistryInv, Init, OneProjectPerSlug, References, DeletedWasThere, Live

\* Each commit checks what the others rely on: the INSERT that the slug is free, the
\* rows that refer to a project that it is there, and keys are drawn once.
LEMMA RegistryStep == RegistryInv /\ [Next]_vars => RegistryInv'
  <1> DEFINE Goal == OneProjectPerSlug' /\ References' /\ DeletedWasThere'
  <1> SUFFICES ASSUME RegistryInv, [Next]_vars PROVE Goal
    BY HandlerStep DEF RegistryInv
  <1>a. TypeOK /\ Live \subseteq used /\ Phases /\ HeldRows
    BY DEF RegistryInv, HandlerInv
  <1>b. OneProjectPerSlug /\ References /\ DeletedWasThere
    BY DEF RegistryInv
  <1>c. ASSUME UNCHANGED <<row, used, entry>>,
               \A q \in Requests : reply'[q] = "204" => reply[q] = "204" /\ found'[q] = found[q]
        PROVE  Goal
    BY <1>b, <1>c DEF OneProjectPerSlug, References, DeletedWasThere, Live
  <1> USE DEF TypeOK, Phases, HeldRows
  <1>1. ASSUME NEW q \in Requests, NEW o \in Ops,
               SelectSlug(q, o) \/ SelectNothing(q, o) \/ SelectNeeded(q, o)
        PROVE  Goal
    BY <1>a, <1>c, <1>1 DEF SelectSlug, SelectNothing, SelectNeeded, Goto, Answer
  <1>2. ASSUME NEW q \in Requests, NEW o \in Ops, NEW i \in Ids, SelectRow(q, o, i)
        PROVE  Goal
    BY <1>a, <1>c, <1>2 DEF SelectRow, Goto
  <1>3. ASSUME NEW q \in Requests, NEW i \in Ids, Insert(q, i) PROVE Goal
    <2>1. /\ row' = [row EXCEPT ![i] = RowOf(op[q].pack)] /\ used' = used \cup {i}
          /\ i \notin used /\ ~SlugTaken(op[q].pack.id) /\ op[q].pack \in Packs
      BY <1>a, <1>3, OpFields DEF Insert, Committing
    <2>2. RowOf(op[q].pack) \in Rows /\ RowOf(op[q].pack).slug = op[q].pack.id
      BY <2>1 DEF RowOf, Rows, Packs
    <2>3. Live' = Live \cup {i} /\ i \notin Live
      BY <1>a, <2>1, <2>2, NoneAssumption DEF Live
    <2>4. /\ \A j \in Live : row'[j] = row[j] /\ row[j].slug # op[q].pack.id
          /\ row'[i].slug = op[q].pack.id
      BY <1>a, <2>1, <2>2, <2>3 DEF Live, SlugTaken
    <2>5. OneProjectPerSlug'
      BY <1>b, <2>3, <2>4 DEF OneProjectPerSlug
    <2>6. References'
      BY <1>b, <1>3, <2>3 DEF References, Insert
    <2>7. DeletedWasThere'
      BY <1>a, <1>b, <1>3, <2>1, <2>3 DEF DeletedWasThere, Insert, Committing, Goto
    <2> QED
      BY <2>5, <2>6, <2>7
  <1>4. ASSUME NEW q \in Requests,
               \/ InsertRejected(q) \/ UpdateRejected(q) \/ RememberRejected(q)
               \/ LogEventRejected(q) \/ Refresh(q) \/ RefreshRejected(q)
        PROVE  Goal
    BY <1>a, <1>c, <1>4, AnswerOnly
  <1>5. ASSUME NEW q \in Requests, Update(q) PROVE Goal
    <2> DEFINE i == found[q]
    <2>1. PICK secrets \in {"none", "some"} :
             /\ i \in Live /\ row[i] \in Rows /\ op[q].pack \in Packs
             /\ row' = [row EXCEPT ![i] = Merged(row[i], loaded[q], op[q].pack, secrets)]
      <3>1. PICK secrets \in {"none", "some"} :
               row' = [row EXCEPT ![i] = Merged(row[i], loaded[q], op[q].pack, secrets)]
        BY <1>5 DEF Update
      <3> QED
        BY <1>a, <1>5, <3>1, OpFields DEF Update, Committing, Live
    <2>2. row'[i] \in Rows /\ row'[i].slug = row[i].slug
      <3>1. row'[i] = Merged(row[i], loaded[q], op[q].pack, secrets)
        BY <1>a, <2>1 DEF Live
      <3>2. /\ Merged(row[i], loaded[q], op[q].pack, secrets) \in Rows
            /\ Merged(row[i], loaded[q], op[q].pack, secrets).slug = row[i].slug
        BY <2>1, MergedKeepsSlug
      <3> QED
        BY <3>1, <3>2
    <2>3. Live' = Live /\ \A j \in Live : row'[j].slug = row[j].slug
      BY <1>a, <2>1, <2>2, NoneAssumption DEF Live
    <2>4. OneProjectPerSlug'
      BY <1>b, <2>3 DEF OneProjectPerSlug
    <2> QED
      BY <1>b, <1>5, <2>3, <2>4 DEF References, DeletedWasThere, Update, Goto
  <1>6. ASSUME NEW q \in Requests, Delete(q) PROVE Goal
    <2> DEFINE i == found[q]
    <2>1. i \in used /\ i \in Ids /\ row' = [row EXCEPT ![i] = None]
      BY <1>a, <1>6 DEF Delete, Committing
    <2>2. Live' = Live \ {i} /\ \A j \in Live' : row'[j] = row[j]
      BY <1>a, <2>1 DEF Live
    <2>3. ASSUME NEW e \in Requests, entry'[e] # None
          PROVE  entry'[e].project \in Live' \cup {None}
      <3>1. entry[e] \in Entries /\ entry'[e] = Cascade(entry[e], i)
        BY <1>a, <1>6, <2>3 DEF Delete
      <3>2. entry[e].project \in Live \cup {None}
        BY <1>b, <3>1, NoneAssumption DEF References
      <3> QED
        BY <2>2, <2>3, <3>1, <3>2 DEF Cascade, Entries
    <2>4. OneProjectPerSlug'
      BY <1>b, <2>2 DEF OneProjectPerSlug
    <2>5. DeletedWasThere'
      BY <1>a, <1>b, <1>6, <2>1, <2>2 DEF DeletedWasThere, Delete, Answer
    <2> QED
      BY <2>3, <2>4, <2>5 DEF References
  <1>7. ASSUME NEW q \in Requests, Remember(q) \/ LogEvent(q) PROVE Goal
    <2>1. found[q] \in Live \cup {None}
      BY <1>7 DEF Remember, LogEvent, ForeignKeyHolds
    <2>2. \A e \in Requests : entry'[e] = entry[e] \/ entry'[e].project = found[q]
      BY <1>a, <1>7 DEF Remember, LogEvent
    <2>3. Live' = Live
      BY <1>7 DEF Remember, LogEvent, Live
    <2>4. References'
      BY <1>b, <2>1, <2>2, <2>3 DEF References
    <2> QED
      BY <1>a, <1>b, <1>7, <2>3, <2>4
      DEF OneProjectPerSlug, DeletedWasThere, Remember, LogEvent, Goto, Answer
  <1>8. CASE UNCHANGED vars
    BY <1>c, <1>8 DEF vars
  <1> HIDE DEF Goal
  <1> QED
    BY NextSplit, <1>1, <1>2, <1>3, <1>4, <1>5, <1>6, <1>7, <1>8

\* A slug names one project, however creates of it interleave.
THEOREM SlugsUnique == Spec => []OneProjectPerSlug
  <1>1. RegistryInv => OneProjectPerSlug
    BY DEF RegistryInv
  <1> QED
    BY <1>1, RegistryInit, RegistryStep, PTL DEF Spec

\* No handler that had loaded a project brings it, or a reference to it, back after the
\* 204 of its deletion.
THEOREM DeletesFinal == Spec => []DeleteIsFinal
  <1>1. ASSUME RegistryInv PROVE DeleteIsFinal
    <2>1. \A q \in Requests : reply[q] = "204" => found[q] \in Ids /\ found[q] \notin Live
      BY <1>1 DEF RegistryInv, HandlerInv, TypeOK, DeletedWasThere
    <2> QED
      BY <1>1, <2>1, NoneAssumption DEF RegistryInv, References, DeleteIsFinal
  <1> QED
    BY <1>1, RegistryInit, RegistryStep, PTL DEF Spec

-----------------------------------------------------------------------------
(* Logged events *)

\* The row of a logged event is one of the audit log, which no deletion takes.
LogsAreAudit ==
    \A q \in Requests : entry[q] # None /\ op[q].kind = "log" => entry[q].table = "audit"

LogInv == HandlerInv /\ LogsAreAudit /\ LoggedMeansKept

LEMMA LogInit == Init => LogInv
  BY HandlerInit DEF LogInv, Init, LogsAreAudit, LoggedMeansKept

LEMMA LogStep == LogInv /\ [Next]_vars => LogInv'
  <1> DEFINE Goal == LogsAreAudit' /\ LoggedMeansKept'
  <1> SUFFICES ASSUME LogInv, [Next]_vars PROVE Goal
    BY HandlerStep DEF LogInv
  <1>a. TypeOK /\ Phases /\ LogsAreAudit /\ LoggedMeansKept
    BY DEF LogInv, HandlerInv
  <1> USE DEF TypeOK, Phases, LogsAreAudit, LoggedMeansKept
  <1>1. ASSUME NEW q \in Requests, NEW o \in Ops,
               \/ SelectSlug(q, o) \/ SelectNothing(q, o) \/ SelectNeeded(q, o)
               \/ \E i \in Ids : SelectRow(q, o, i)
        PROVE  Goal
    BY <1>a, <1>1 DEF SelectSlug, SelectNothing, SelectNeeded, SelectRow, Goto, Answer
  <1>2. ASSUME NEW q \in Requests, (\E i \in Ids : Insert(q, i)) \/ Update(q) PROVE Goal
    BY <1>a, <1>2 DEF Insert, Update, Goto
  <1>3. ASSUME NEW q \in Requests,
               \/ InsertRejected(q) \/ UpdateRejected(q) \/ RememberRejected(q)
               \/ LogEventRejected(q) \/ Refresh(q) \/ RefreshRejected(q)
        PROVE  Goal
    BY <1>a, <1>3, AnswerOnly
  <1>4. ASSUME NEW q \in Requests, Delete(q) PROVE Goal
    <2>1. ASSUME NEW e \in Requests, entry[e] # None, op[e].kind = "log"
          PROVE  entry'[e] # None /\ entry'[e].table = "audit"
      <3>1. entry[e] \in Entries /\ entry[e].table = "audit"
        BY <1>a, <2>1
      <3>2. entry'[e] = Cascade(entry[e], found[q])
        BY <1>4, <2>1 DEF Delete
      <3>3. Cascade(entry[e], found[q]) \in {entry[e], [entry[e] EXCEPT !.project = None]}
        BY <3>1 DEF Cascade
      <3>4. [entry[e] EXCEPT !.project = None] \in Entries
            /\ [entry[e] EXCEPT !.project = None].table = "audit"
        BY <3>1 DEF Entries
      <3> QED
        BY <3>1, <3>2, <3>3, <3>4, NoneAssumption
    <2>2. \A e \in Requests : entry[e] = None => entry'[e] = None
      BY <1>4 DEF Delete
    <2> QED
      BY <1>a, <1>4, <2>1, <2>2 DEF Delete, Committing, Answer
  <1>5. ASSUME NEW q \in Requests, Remember(q) PROVE Goal
    BY <1>a, <1>5 DEF Remember, Committing, Goto
  <1>6. ASSUME NEW q \in Requests, LogEvent(q) PROVE Goal
    <2>1. [table |-> "audit", project |-> found[q]] # None
      BY <1>a, NoneAssumption DEF Entries
    <2> QED
      BY <1>a, <1>6, <2>1 DEF LogEvent, Committing, Answer
  <1>7. CASE UNCHANGED vars
    BY <1>a, <1>7 DEF vars
  <1> HIDE DEF Goal
  <1> QED
    BY NextSplit, <1>1, <1>2, <1>3, <1>4, <1>5, <1>6, <1>7

\* An event is in the audit log exactly if its caller was told so, whatever becomes of
\* the project meanwhile.
THEOREM LoggedKept == Spec => []LoggedMeansKept
  <1>1. LogInv => LoggedMeansKept
    BY DEF LogInv
  <1> QED
    BY <1>1, LogInit, LogStep, PTL DEF Spec

-----------------------------------------------------------------------------
(* Columns and packs *)

\* An update that kept the name it had loaded went over a newer row of project i.
Overwrote(i) == \E q \in stale : found[q] = i /\ op[q].pack.name = loaded[q].name

\* What holds of the row holds of each row that an update still works from.
LoadedMatches ==
    \A q \in Requests :
        (/\ pc[q] = "commit" /\ op[q].kind = "update"
         /\ loaded[q].name # loaded[q].pack.name) => Overwrote(found[q])

ColumnsInv == HandlerInv /\ LoadedMatches /\ ColumnsMatchPack

LEMMA ColumnsInit == Init => ColumnsInv
  BY HandlerInit DEF ColumnsInv, Init, LoadedMatches, ColumnsMatchPack, Live

\* The history of an overwritten pack is not forgotten.
LEMMA OverwroteStays ==
    ASSUME HandlerInv, [Next]_vars, NEW i, Overwrote(i)
    PROVE  Overwrote(i)'
  <1>a. TypeOK /\ Phases
    BY DEF HandlerInv
  <1>1. PICK w \in stale : found[w] = i /\ op[w].pack.name = loaded[w].name
    BY DEF Overwrote
  <1>2. w \in Requests /\ pc[w] \notin {"idle", "commit"}
    BY <1>a DEF TypeOK, Phases
  <1> DEFINE Stays == /\ w \in stale' /\ found'[w] = found[w]
                      /\ op'[w] = op[w] /\ loaded'[w] = loaded[w]
  <1>3. Stays
    <2> USE <1>a, <1>1, <1>2 DEF TypeOK
    <2>1. ASSUME NEW q \in Requests, NEW o \in Ops,
                 \/ SelectSlug(q, o) \/ SelectNothing(q, o) \/ SelectNeeded(q, o)
                 \/ \E j \in Ids : SelectRow(q, o, j)
          PROVE  Stays
      BY <2>1 DEF SelectSlug, SelectNothing, SelectNeeded, SelectRow
    <2>2. ASSUME NEW q \in Requests,
                 (\E j \in Ids : Insert(q, j)) \/ Update(q) \/ Delete(q) \/ Remember(q) \/ LogEvent(q)
          PROVE  Stays
      BY <2>2 DEF Insert, Update, Delete, Remember, LogEvent, Committing
    <2>3. ASSUME NEW q \in Requests,
                 \/ InsertRejected(q) \/ UpdateRejected(q) \/ RememberRejected(q)
                 \/ LogEventRejected(q) \/ Refresh(q) \/ RefreshRejected(q)
          PROVE  Stays
      BY <2>3, AnswerOnly
    <2> QED
      BY NextSplit, <2>1, <2>2, <2>3 DEF vars
  <1> QED
    BY <1>1, <1>3 DEF Overwrote

\* What an update leaves of row i, when it had loaded the row old: name and pack differ
\* only if it wrote neither, for it kept the name, or both came from old.
LEMMA MergedMatches ==
    ASSUME NEW current \in Rows, NEW old \in Rows, NEW p \in Packs, NEW secrets,
           Merged(current, old, p, secrets).name # Merged(current, old, p, secrets).pack.name
    PROVE  /\ current # old
           /\ p.name = old.name \/ old.name # old.pack.name
  <1>1. /\ Merged(current, old, p, secrets).name = IF p.name # old.name THEN p.name ELSE current.name
        /\ Merged(current, old, p, secrets).pack = IF p # old.pack \/ secrets = "some" THEN p ELSE current.pack
    BY MergedFields
  <1>2. CASE p.name # old.name
    BY <1>1, <1>2 DEF Rows, Packs
  <1>3. CASE p.name = old.name
    BY <1>1, <1>3 DEF Rows, Packs
  <1> QED
    BY <1>2, <1>3

LEMMA ColumnsStep == ColumnsInv /\ [Next]_vars => ColumnsInv'
  <1> DEFINE Goal == LoadedMatches' /\ ColumnsMatchPack'
  <1> SUFFICES ASSUME ColumnsInv, [Next]_vars PROVE Goal
    BY HandlerStep DEF ColumnsInv
  <1>a. TypeOK /\ Phases /\ HeldRows /\ Live \subseteq used /\ HandlerInv
    BY DEF ColumnsInv, HandlerInv
  <1>b. /\ \A q \in Requests :
              (/\ pc[q] = "commit" /\ op[q].kind = "update"
               /\ loaded[q].name # loaded[q].pack.name) => Overwrote(found[q])
        /\ \A i \in Live : row[i].name # row[i].pack.name => Overwrote(i)
    BY DEF ColumnsInv, LoadedMatches, ColumnsMatchPack, Overwrote
  <1>c. \A i : Overwrote(i) => Overwrote(i)'
    BY <1>a, OverwroteStays
  <1>d. ASSUME \A q \in Requests :
                  (/\ pc'[q] = "commit" /\ op'[q].kind = "update"
                   /\ loaded'[q].name # loaded'[q].pack.name) =>
                      Overwrote(found'[q]),
               \A i \in Live' : row'[i].name # row'[i].pack.name =>
                      Overwrote(i) \/ Overwrote(i)'
        PROVE  Goal
    BY <1>c, <1>d DEF LoadedMatches, ColumnsMatchPack, Overwrote
  <1> USE DEF TypeOK, Phases
  <1>1. ASSUME NEW q \in Requests, NEW o \in Ops,
               SelectSlug(q, o) \/ SelectNothing(q, o) \/ SelectNeeded(q, o)
        PROVE  Goal
    <2>1. \A r \in Requests : pc'[r] = "commit" /\ op'[r].kind = "update" => r # q
      BY <1>a, <1>1, OpFields DEF SelectSlug, SelectNothing, SelectNeeded, Goto, Answer
    <2> QED
      BY <1>a, <1>b, <1>d, <1>1, <2>1
      DEF SelectSlug, SelectNothing, SelectNeeded, Goto, Answer, Live
  <1>2. ASSUME NEW q \in Requests, NEW o \in Ops, NEW i \in Ids, SelectRow(q, o, i)
        PROVE  Goal
    <2>1. i \in Live /\ found'[q] = i /\ loaded'[q] = row[i] /\ UNCHANGED <<row, stale>>
      BY <1>a, <1>2 DEF SelectRow, Matches, WithSlug
    <2>2. \A r \in Requests : r # q =>
            /\ pc'[r] = pc[r] /\ op'[r] = op[r] /\ found'[r] = found[r] /\ loaded'[r] = loaded[r]
      BY <1>a, <1>2 DEF SelectRow, Goto
    <2>3. Live' = Live
      BY <2>1 DEF Live
    <2> QED
      BY <1>b, <1>d, <2>1, <2>2, <2>3
  <1>3. ASSUME NEW q \in Requests, NEW i \in Ids, Insert(q, i) PROVE Goal
    <2>1. op[q].pack \in Packs /\ row' = [row EXCEPT ![i] = RowOf(op[q].pack)]
      BY <1>a, <1>3, OpFields DEF Insert, Committing
    <2>2. row'[i].name = row'[i].pack.name
      BY <1>a, <2>1 DEF RowOf
    <2>3. \A j \in Live' : row'[j].name # row'[j].pack.name => Overwrote(j)
      BY <1>a, <1>b, <2>1, <2>2 DEF Live
    <2>4. \A r \in Requests : pc'[r] = "commit" => r # q
      BY <1>a, <1>3 DEF Insert, Goto
    <2> QED
      BY <1>a, <1>b, <1>d, <1>3, <2>3, <2>4 DEF Insert, Goto
  <1>4. ASSUME NEW q \in Requests,
               \/ InsertRejected(q) \/ UpdateRejected(q) \/ RememberRejected(q)
               \/ LogEventRejected(q) \/ Refresh(q) \/ RefreshRejected(q)
        PROVE  Goal
    BY <1>a, <1>b, <1>d, <1>4, AnswerOnly DEF Live
  <1>5. ASSUME NEW q \in Requests, Update(q) PROVE Goal
    <2> DEFINE i == found[q]
               p == op[q].pack
    <2>1. PICK secrets \in {"none", "some"} :
             /\ i \in Live /\ row[i] \in Rows /\ loaded[q] \in Rows /\ p \in Packs
             /\ row' = [row EXCEPT ![i] = Merged(row[i], loaded[q], p, secrets)]
             /\ row[i] # loaded[q] => q \in stale'
             /\ pc[q] = "commit" /\ op[q].kind = "update"
             /\ UNCHANGED <<op, found, loaded>>
      <3>1. PICK secrets \in {"none", "some"} : row' = [row EXCEPT ![i] = Merged(row[i], loaded[q], p, secrets)]
        BY <1>5 DEF Update
      <3> QED
        BY <1>a, <1>5, <3>1, OpFields DEF Update, Committing, Live, HeldRows
    <2>2. ASSUME row'[i].name # row'[i].pack.name PROVE Overwrote(i) \/ Overwrote(i)'
      <3>1. row'[i] = Merged(row[i], loaded[q], p, secrets)
        BY <1>a, <2>1 DEF Live
      <3>2. row[i] # loaded[q] /\ (p.name = loaded[q].name \/ loaded[q].name # loaded[q].pack.name)
        BY <2>1, <2>2, <3>1, MergedMatches
      <3>3. CASE p.name = loaded[q].name
        BY <2>1, <3>2, <3>3 DEF Overwrote
      <3>4. CASE loaded[q].name # loaded[q].pack.name
        BY <1>b, <2>1, <3>4
      <3> QED
        BY <3>2, <3>3, <3>4
    <2>3. \A j \in Live' : row'[j].name # row'[j].pack.name => Overwrote(j) \/ Overwrote(j)'
      BY <1>a, <1>b, <2>1, <2>2 DEF Live
    <2>4. \A r \in Requests : pc'[r] = "commit" => pc[r] = "commit"
      BY <1>a, <1>5 DEF Update, Goto
    <2> QED
      BY <1>b, <1>d, <2>1, <2>3, <2>4
  <1>6. ASSUME NEW q \in Requests, Delete(q) PROVE Goal
    BY <1>a, <1>b, <1>d, <1>6, NoneAssumption DEF Delete, Answer, Committing, Live
  <1>7. ASSUME NEW q \in Requests, Remember(q) \/ LogEvent(q) PROVE Goal
    BY <1>a, <1>b, <1>d, <1>7 DEF Remember, LogEvent, Goto, Answer, Live
  <1>8. CASE UNCHANGED vars
    BY <1>b, <1>d, <1>8 DEF vars, Live
  <1> HIDE DEF Goal
  <1> QED
    BY NextSplit, <1>1, <1>2, <1>3, <1>4, <1>5, <1>6, <1>7, <1>8

\* The columns agree with the pack but for updates that kept a name they had loaded.
THEOREM ColumnsAgree == Spec => []ColumnsMatchPack
  <1>1. ColumnsInv => ColumnsMatchPack
    BY DEF ColumnsInv
  <1> QED
    BY <1>1, ColumnsInit, ColumnsStep, PTL DEF Spec
=============================================================================
