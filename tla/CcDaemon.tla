------------------------------- MODULE CcDaemon -------------------------------
(***************************************************************************)
(* The Claude Code daemon: POST /run takes a snapshot of the workspace,    *)
(* starts `claude` in it, takes a second snapshot when the process ends,   *)
(* and reports the difference.  Its event loop runs one handler at a time, *)
(* but the processes of other runs write to the same workspace all the     *)
(* while, and so do those that the run's own process has left behind.      *)
(***************************************************************************)
EXTENDS Naturals

CONSTANTS
    Runs,       \* calls of /run whose cwd is one workspace
    Files,      \* paths in it, at most five levels deep
    Contents,   \* contents of a file
    Large,      \* those of more than 5 000 000 bytes
    Missing     \* no file, and no content

VARIABLES
    disk,      \* disk[f]: the file f
    pc,        \* pc[r]: where the handler of run r stands
    left,      \* left[r]: files the snapshot under way has not come to
    file,      \* file[r]: the file it is at, having seen that it exists
    sized,     \* runs that have found that file small enough to read
    before,    \* before[r]: the first snapshot, hash by file
    after,     \* after[r]: the second snapshot
    reply,     \* reply[r]: HTTP status
    changed,   \* changed[r]: files_changed
    spawned,   \* runs whose process was started
    first,     \* first[r]: what of the disk counts, when run r began
    truth,     \* truth[r]: what had changed of it when r was answered with 200
    disturbed  \* disturbed[r]: files written beside run r, by others since it
               \* began or by its own processes after the first of them ended

snapVars == <<left, file, sized, before, after>>
replyVars == <<reply, changed>>
ghostVars == <<first, truth, disturbed>>
vars == <<disk, pc, snapVars, replyVars, spawned, ghostVars>>

Disks == [Files -> Contents \cup {Missing}]
Empty == [f \in Files |-> Missing]

Init ==
    /\ disk \in Disks
    /\ pc = [r \in Runs |-> "idle"]
    /\ left = [r \in Runs |-> {}]
    /\ file \in [Runs -> {Missing}]
    /\ sized = {}
    /\ before = [r \in Runs |-> Empty]
    /\ after = [r \in Runs |-> Empty]
    /\ reply = [r \in Runs |-> "none"]
    /\ changed = [r \in Runs |-> {}]
    /\ spawned = {}
    /\ first = [r \in Runs |-> Empty]
    /\ truth = [r \in Runs |-> {}]
    /\ disturbed = [r \in Runs |-> {}]

\* The loop is free: _snapshot has no await, so no handler runs beside it.
Snapping(r) == pc[r] \in {"before", "after"}
LoopFree == \A r \in Runs : ~Snapping(r)

\* The files as the daemon counts them: a large one is none.  What has changed
\* between two such views, whatever the snapshots say of it.
Counted == [f \in Files |-> IF disk[f] \in Large THEN Missing ELSE disk[f]]

Changes(was, is) ==
    {<<IF is[f] = Missing THEN "-" ELSE "+", f>> : f \in {g \in Files : is[g] # was[g]}}

\* The handler is over, and its locals with it.
Finish(r, code) ==
    /\ pc' = [pc EXCEPT ![r] = "done"]
    /\ reply' = [reply EXCEPT ![r] = code]
    /\ left' = [left EXCEPT ![r] = {}]
    /\ file' = [file EXCEPT ![r] = Missing]
    /\ before' = [before EXCEPT ![r] = Empty]
    /\ after' = [after EXCEPT ![r] = Empty]
    /\ first' = [first EXCEPT ![r] = Empty]
    /\ UNCHANGED <<disk, sized, spawned, disturbed>>

BeginSnapshot(r, which) ==
    /\ pc' = [pc EXCEPT ![r] = which]
    /\ left' = [left EXCEPT ![r] = Files]
    /\ UNCHANGED <<disk, file, sized, before, after, replyVars, spawned, truth, disturbed>>

\* The secret and the timeout are checked, then the snapshot begins.
Start(r) ==
    /\ pc[r] = "idle" /\ LoopFree
    /\ BeginSnapshot(r, "before")
    /\ first' = [first EXCEPT ![r] = Counted]

\* A timeout or cwd out of range, a wrong secret, a daemon that has none.
Refuse(r) ==
    /\ pc[r] = "idle" /\ LoopFree
    /\ \E code \in {"400", "401", "500"} : Finish(r, code)
    /\ UNCHANGED <<changed, truth>>

-----------------------------------------------------------------------------
(* _snapshot *)

\* The next path of rglob: it is_file(), or it is passed over.
Visit(r, f) ==
    /\ Snapping(r) /\ file[r] = Missing
    /\ f \in left[r]
    /\ left' = [left EXCEPT ![r] = @ \ {f}]
    /\ file' = [file EXCEPT ![r] = IF disk[f] = Missing THEN Missing ELSE f]
    /\ UNCHANGED <<disk, pc, sized, before, after, replyVars, spawned, ghostVars>>

\* Mutant: a large file is an error.
GoneOrLarge(r) == disk[file[r]] \in Large \cup {Missing}

\* It was removed after is_file().
Gone(r) == disk[file[r]] = Missing

\* stat(): a large file is left out.
Stat(r) ==
    /\ Snapping(r) /\ file[r] # Missing /\ r \notin sized
    /\ ~Gone(r)
    /\ IF disk[file[r]] \in Large
         THEN file' = [file EXCEPT ![r] = Missing] /\ UNCHANGED sized
         ELSE sized' = sized \cup {r} /\ UNCHANGED file
    /\ UNCHANGED <<disk, pc, left, before, after, replyVars, spawned, ghostVars>>

\* stat() of a file that is gone ends the request.
StatFails(r) ==
    /\ Snapping(r) /\ file[r] # Missing /\ r \notin sized
    /\ Gone(r)
    /\ Finish(r, "500")
    /\ UNCHANGED <<changed, truth>>

\* read_bytes(): whatever the file is by now; if it is gone, it is left out.
Read(r) ==
    LET f == file[r] IN
    /\ r \in sized
    /\ IF pc[r] = "before"
         THEN before' = [before EXCEPT ![r][f] = disk[f]] /\ UNCHANGED after
         ELSE after' = [after EXCEPT ![r][f] = disk[f]] /\ UNCHANGED before
    /\ file' = [file EXCEPT ![r] = Missing]
    /\ sized' = sized \ {r}
    /\ UNCHANGED <<disk, pc, left, replyVars, spawned, ghostVars>>

SnapshotTaken(r) == left[r] = {} /\ file[r] = Missing

-----------------------------------------------------------------------------
(* The process *)

Spawn(r) ==
    /\ pc[r] = "before" /\ SnapshotTaken(r)
    /\ pc' = [pc EXCEPT ![r] = "running"]
    /\ spawned' = spawned \cup {r}
    /\ UNCHANGED <<disk, snapVars, replyVars, ghostVars>>

\* No `claude` in PATH.
SpawnFails(r) ==
    /\ pc[r] = "before" /\ SnapshotTaken(r)
    /\ Finish(r, "500")
    /\ UNCHANGED <<changed, truth>>

\* Whether a write of run r comes to run q from beside it.
Disturbs(r, q) ==
    IF q = r THEN pc[r] = "after" ELSE pc[q] \notin {"idle", "done"}

\* A process of the run writes or removes a file.  kill() ends one process, and
\* communicate() waits for one: what it has put into the background goes on
\* during the second snapshot and after the answer.
WriteFile(r, f, v) ==
    /\ r \in spawned
    /\ v # disk[f]
    /\ disk' = [disk EXCEPT ![f] = v]
    /\ disturbed' = [q \in Runs |-> IF Disturbs(r, q) THEN disturbed[q] \cup {f}
                                                      ELSE disturbed[q]]
    /\ UNCHANGED <<pc, snapVars, replyVars, spawned, first, truth>>

\* Mutant: the second snapshot is taken in a thread.
ExitInThread(r) == pc[r] = "running" /\ BeginSnapshot(r, "after") /\ UNCHANGED first

\* communicate() returns.
Exit(r) == pc[r] = "running" /\ LoopFree /\ BeginSnapshot(r, "after") /\ UNCHANGED first

Timeout(r) ==
    /\ pc[r] = "running" /\ LoopFree
    /\ Finish(r, "408")
    /\ UNCHANGED <<changed, truth>>

-----------------------------------------------------------------------------
(* _diff and the response *)

\* Mutant: files are compared by presence only.
DiffPresence(b, a) ==
    {<<"+", f>> : f \in {g \in Files : a[g] # Missing /\ b[g] = Missing}}
    \cup {<<"-", f>> : f \in {g \in Files : a[g] = Missing /\ b[g] # Missing}}

\* Added or changed files, and removed ones with a minus sign.
Diff(b, a) ==
    {<<"+", f>> : f \in {g \in Files : a[g] # Missing /\ a[g] # b[g]}}
    \cup {<<"-", f>> : f \in {g \in Files : a[g] = Missing /\ b[g] # Missing}}

Respond(r) ==
    /\ pc[r] = "after" /\ SnapshotTaken(r)
    /\ changed' = [changed EXCEPT ![r] = Diff(before[r], after[r])]
    /\ truth' = [truth EXCEPT ![r] = Changes(first[r], Counted)]
    /\ Finish(r, "200")

Next ==
    \E r \in Runs :
        \/ Start(r) \/ Refuse(r)
        \/ \E f \in Files : Visit(r, f)
        \/ Stat(r) \/ StatFails(r) \/ Read(r)
        \/ Spawn(r) \/ SpawnFails(r)
        \/ \E f \in Files, v \in Contents \cup {Missing} : WriteFile(r, f, v)
        \/ Exit(r) \/ Timeout(r)
        \/ Respond(r)

Spec == Init /\ [][Next]_vars

-----------------------------------------------------------------------------
(* Properties *)

\* Type correctness, with one snapshot under way at a time.
TypeOK ==
    /\ disk \in Disks
    /\ pc \in [Runs -> {"idle", "before", "running", "after", "done"}]
    /\ left \in [Runs -> SUBSET Files]
    /\ file \in [Runs -> Files \cup {Missing}]
    /\ sized \subseteq Runs /\ spawned \subseteq Runs
    /\ \A r \in sized : Snapping(r) /\ file[r] # Missing
    /\ before \in [Runs -> Disks] /\ after \in [Runs -> Disks]
    /\ reply \in [Runs -> {"none", "200", "400", "401", "408", "500"}]
    /\ changed \in [Runs -> SUBSET ({"+", "-"} \X Files)]
    /\ first \in [Runs -> Disks]
    /\ truth \in [Runs -> SUBSET ({"+", "-"} \X Files)]
    /\ disturbed \in [Runs -> SUBSET Files]
    /\ \A q, r \in Runs : Snapping(q) /\ Snapping(r) => q = r

\* However many runs share the workspace and whatever they leave running there, a
\* file that nobody wrote beside this run is reported exactly when the run left it
\* different, where a large content counts as no file; and so no report invents a
\* change.
UndisturbedFilesAreExact ==
    \A r \in Runs : reply[r] = "200" =>
        \A f \in Files \ disturbed[r], sign \in {"+", "-"} :
            <<sign, f>> \in changed[r] <=> <<sign, f>> \in truth[r]

\* A run whose process was started loses its answer in the second snapshot only
\* to a write beside it: one that has its workspace to itself and leaves nothing
\* running there is answered, whatever the sizes of its files.
OnlyWritesBreakSnapshots ==
    \A r \in spawned : reply[r] = "500" => disturbed[r] # {}
=============================================================================
