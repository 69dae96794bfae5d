------------------------------- MODULE Bootstrap -------------------------------
(***************************************************************************)
(* The start of the api: every uvicorn worker runs bootstrap() in a        *)
(* transaction of its own and serves requests afterwards, whether or not   *)
(* it went well.  Transactions are READ COMMITTED; the session flushes     *)
(* what it has pending before its next SELECT, and an INSERT waits for the *)
(* end of a transaction that inserted the same unique key.                 *)
(***************************************************************************)
EXTENDS Naturals

CONSTANTS
    Procs,      \* uvicorn worker processes
    Skills,     \* names in DEFAULT_SKILLS
    MaxStarts,  \* bound: how often a process starts
    Faults      \* "crash", and "operator": edits of the tables by hand

ASSUME SkillsAssumption == {"user", "sub", "host"} \cap Skills = {}
ASSUME MaxStartsAssumption == MaxStarts \in Nat
ASSUME FaultsAssumption == Faults \subseteq {"crash", "operator"}

\* Rows that bootstrap provides, by unique key: the owner, the subscription,
\* the default host, and the skills.
Keys == {"user", "sub", "host"} \cup Skills

VARIABLES
    tagsFit,   \* whether bridge_vps_hosts.allow_cmds takes the JSON the ORM
               \* binds: in tables made from models.py, not the TEXT[] of
               \* schema.sql; the tables stay as they were made
    rows,      \* committed rows
    password,  \* users.password_hash of the owner, if there is one
    removed,   \* keys that an operator deleted
    starts,    \* starts[p]: how often process p was started
    pc,        \* pc[p]: where its lifespan stands
    missing,   \* missing[p]: keys it found missing and has not inserted
    inserted,  \* inserted[p]: rows of its open transaction
    rehash     \* rehash[p]: whether it holds a new hash for the owner

procVars == <<starts, pc, missing, inserted, rehash>>
vars == <<tagsFit, rows, password, removed, procVars>>

\* The schema's seed has the owner with a placeholder, and the subscription; a
\* later start finds more, and one of a new release not all of its skills.  In
\* the tables of schema.sql the host is there if it was put in by hand.
Init ==
    /\ tagsFit \in BOOLEAN
    /\ \/ rows = {} /\ password = "none"
       \/ rows = {"user", "sub"} /\ password = "placeholder"
       \/ \E old \in SUBSET Skills :
            rows = {"user", "sub", "host"} \cup old /\ password = "set"
    /\ removed = {}
    /\ starts = [p \in Procs |-> 0]
    /\ pc = [p \in Procs |-> "off"]
    /\ missing = [p \in Procs |-> {}]
    /\ inserted = [p \in Procs |-> {}]
    /\ rehash = [p \in Procs |-> FALSE]

Start(p) ==
    /\ pc[p] = "off"
    /\ starts[p] < MaxStarts
    /\ starts' = [starts EXCEPT ![p] = @ + 1]
    /\ pc' = [pc EXCEPT ![p] = "user"]
    /\ UNCHANGED <<tagsFit, rows, password, removed, missing, inserted, rehash>>

-----------------------------------------------------------------------------
(* The transaction *)

\* What a SELECT of p sees.
Sees(p) == rows \cup inserted[p]

Free(p, keys) == \A q \in Procs \ {p} : inserted[q] \cap keys = {}
RowLocked(p) == \E q \in Procs \ {p} : rehash[q] /\ pc[q] # "user_flush"

\* The transaction is rolled back.
Rollback(p, next) ==
    /\ pc' = [pc EXCEPT ![p] = next]
    /\ missing' = [missing EXCEPT ![p] = {}]
    /\ inserted' = [inserted EXCEPT ![p] = {}]
    /\ rehash' = [rehash EXCEPT ![p] = FALSE]
    /\ UNCHANGED <<tagsFit, rows, password, removed, starts>>

\* What a SELECT finds missing of the keys.
Find(p, at, keys, next) ==
    /\ pc[p] = at
    /\ missing' = [missing EXCEPT ![p] = keys \ Sees(p)]
    /\ pc' = [pc EXCEPT ![p] = next]
    /\ UNCHANGED <<tagsFit, rows, password, removed, starts, inserted>>

\* One INSERT statement for what p found missing of the keys, if anything.
Fits(keys) == "host" \in keys => tagsFit

Insert(p, at, keys, next) ==
    LET new == missing[p] \cap keys IN
    /\ pc[p] = at
    /\ Free(p, new)
    /\ new \cap rows = {} /\ Fits(new)
    /\ inserted' = [inserted EXCEPT ![p] = @ \cup new]
    /\ missing' = [missing EXCEPT ![p] = @ \ new]
    /\ pc' = [pc EXCEPT ![p] = next]
    /\ UNCHANGED <<tagsFit, rows, password, removed, starts, rehash>>

\* A unique violation, or a type the column does not take: an exception, after
\* which the process serves anyway.
InsertRejected(p, at, keys) ==
    LET new == missing[p] \cap keys IN
    /\ pc[p] = at
    /\ Free(p, new)
    /\ ~(new \cap rows = {} /\ Fits(new))
    /\ Rollback(p, "skipped")

\* Mutant: an owner who is there is taken as he is.
HashForNewOnly == "user" \notin rows

NeedsHash == "user" \notin rows \/ password = "placeholder"

SelectUser(p) ==
    /\ Find(p, "user", {"user"}, "user_flush")
    /\ rehash' = [rehash EXCEPT ![p] = NeedsHash]

\* The INSERT of the owner, or the UPDATE of the hash, which waits for another
\* one and then overwrites it with a hash of the same password.
FlushUser(p) ==
    /\ rehash[p] => ~RowLocked(p)
    /\ Insert(p, "user_flush", {"user"}, "sub")

FlushUserRejected(p) == InsertRejected(p, "user_flush", {"user"})

SelectSub(p) == Find(p, "sub", {"sub"}, "sub_flush") /\ UNCHANGED rehash
FlushSub(p) == Insert(p, "sub_flush", {"sub"}, "host")
FlushSubRejected(p) == InsertRejected(p, "sub_flush", {"sub"})

SelectHost(p) == Find(p, "host", {"host"}, "host_flush") /\ UNCHANGED rehash
FlushHost(p) == Insert(p, "host_flush", {"host"}, "skills")
FlushHostRejected(p) == InsertRejected(p, "host_flush", {"host"})

\* Mutant: the table is taken to be complete if it has any skill.
WantedIfNone(p) == IF Skills \cap Sees(p) = {} THEN Skills ELSE {}

\* Each skill is looked for by its name.
Wanted(p) == Skills \ Sees(p)

SelectSkills(p) == Find(p, "skills", Wanted(p), "skills_flush") /\ UNCHANGED rehash
FlushSkills(p) == Insert(p, "skills_flush", Skills, "commit")
FlushSkillsRejected(p) == InsertRejected(p, "skills_flush", Skills)

\* Mutant: the owner is stored without a hash.
PasswordKept(p) == IF pc[p] = "commit" THEN password ELSE "set"

PasswordAfter(p) == IF rehash[p] THEN "set" ELSE password

Commit(p) ==
    /\ pc[p] = "commit"
    /\ rows' = rows \cup inserted[p]
    /\ password' = PasswordAfter(p)
    /\ removed' = removed \ inserted[p]
    /\ inserted' = [inserted EXCEPT ![p] = {}]
    /\ rehash' = [rehash EXCEPT ![p] = FALSE]
    /\ pc' = [pc EXCEPT ![p] = "ready"]
    /\ UNCHANGED <<tagsFit, starts, missing>>

-----------------------------------------------------------------------------
(* The environment *)

\* The process stops, at the end of its service or in its transaction.
Stop(p) ==
    /\ pc[p] # "off"
    /\ "crash" \in Faults
    /\ Rollback(p, "off")

\* An operator deletes a row other than the owner's, or sets another password.
DeleteRow(k) ==
    /\ "operator" \in Faults
    /\ k \in rows \ {"user"}
    /\ rows' = rows \ {k}
    /\ removed' = removed \cup {k}
    /\ UNCHANGED <<tagsFit, password, procVars>>

\* The host is put in by hand, as tables that do not take it from bootstrap()
\* need it; no worker runs meanwhile.
AddHost ==
    /\ "operator" \in Faults
    /\ \A p \in Procs : pc[p] = "off"
    /\ "user" \in rows /\ "host" \notin rows
    /\ rows' = rows \cup {"host"}
    /\ removed' = removed \ {"host"}
    /\ UNCHANGED <<tagsFit, password, procVars>>

SetPassword ==
    /\ "operator" \in Faults
    /\ "user" \in rows
    /\ ~\E p \in Procs : rehash[p] /\ pc[p] # "user_flush"
    /\ password' = "own"
    /\ UNCHANGED <<tagsFit, rows, removed, procVars>>

Step(p) ==
    \/ SelectUser(p) \/ FlushUser(p) \/ FlushUserRejected(p)
    \/ SelectSub(p) \/ FlushSub(p) \/ FlushSubRejected(p)
    \/ SelectHost(p) \/ FlushHost(p) \/ FlushHostRejected(p)
    \/ SelectSkills(p) \/ FlushSkills(p) \/ FlushSkillsRejected(p)
    \/ Commit(p)

Next ==
    \/ \E p \in Procs : Start(p) \/ Step(p) \/ Stop(p)
    \/ \E k \in Keys : DeleteRow(k)
    \/ AddHost
    \/ SetPassword

Spec == Init /\ [][Next]_vars

-----------------------------------------------------------------------------
(* Properties *)

\* Type correctness of the tables and the transactions.
TypeOK ==
    /\ tagsFit \in BOOLEAN
    /\ rows \subseteq Keys
    /\ password \in {"none", "placeholder", "set", "own"}
    /\ (password = "none") = ("user" \notin rows)
    /\ removed \subseteq Keys \ rows
    /\ starts \in [Procs -> 0..MaxStarts]
    /\ pc \in [Procs -> {"off", "user", "user_flush", "sub", "sub_flush", "host",
                         "host_flush", "skills", "skills_flush", "commit",
                         "ready", "skipped"}]
    /\ missing \in [Procs -> SUBSET Keys]
    /\ inserted \in [Procs -> SUBSET Keys]
    /\ rehash \in [Procs -> BOOLEAN]

\* When one process has come through, everything is there that an operator has
\* not deleted, although another one may have rolled back, and though each
\* relied on what it had selected earlier.
ReadyMeansComplete ==
    (\E p \in Procs : pc[p] = "ready") =>
        Keys \ removed \subseteq rows /\ password # "placeholder"

\* Workers that start together do not fail each other for good: when one has
\* rolled back, its rival has committed all that it would have, so it may serve
\* all the same.  Only where the host is missing, and the tables do not take it,
\* is a worker that has rolled back left with less.
SkippedIsProvidedFor ==
    (\E p \in Procs : pc[p] = "skipped") =>
        \/ Keys \ removed \subseteq rows /\ password \notin {"none", "placeholder"}
        \/ ~tagsFit /\ "host" \notin rows
=============================================================================
