------------------------- MODULE BridgeToDaemonProofs -------------------------
(***************************************************************************)
(* Proofs about the bridges, the Claude Code daemon and the two together,  *)
(* for every number of calls, runs, files and contents and every fault.    *)
(***************************************************************************)
EXTENDS BridgeToDaemon, TLAPS

USE DEF D!snapVars, D!replyVars, D!ghostVars

-----------------------------------------------------------------------------
(* The bridges *)

\* How far the audit log is follows from where the handler stands, and an outcome
\* that is not a refusal is the answer of the other machine, which keeps it.
Progress(c) ==
    /\ pc[c] = "idle" => remote[c] = "none"
    /\ pc[c] \in {"idle", "calling"} => outcome[c] = "none"
    /\ pc[c] = "record" => outcome[c] # "none"
    /\ outcome[c] \in {"ok", "failed"} => remote[c] = outcome[c]
    /\ \A o \in Outcomes : audit[c][o] > 0 <=>
          pc[c] = "done" /\ body[c].door = "rest" /\ outcome[c] = o
    /\ pc[c] = "done" => outcome[c] # "none"

BridgesInv == TypeOK /\ \A c \in Calls : Progress(c)

\* Every action of the bridges, those that do not touch the handler last.
LEMMA NextSplit ==
    ASSUME Next
    PROVE  \/ \E c \in Calls : \/ Admit(c) \/ Reject(c) \/ RaiseInLookup(c)
                               \/ Return(c) \/ GiveUp(c) \/ Record(c) \/ Tell(c)
                               \/ RecordRejected(c) \/ ApiCrash(c) \/ GatewayTimeout(c)
                               \/ RemoteStart(c) \/ RemoteAnswers(c) \/ RemoteEnd(c)
           \/ \E t \in Targets : Toggle(t)
  BY DEF Next, HandlerStep

LEMMA BridgesInit == Init => BridgesInv
  BY DEF Init, BridgesInv, TypeOK, Progress, Outcomes

\* A step of one call leaves what the others have come to.
LEMMA OthersKeepProgress ==
    ASSUME BridgesInv, NEW c \in Calls, UNCHANGED body,
           \A d \in Calls \ {c} : UNCHANGED <<pc[d], outcome[d], remote[d], audit[d]>>,
           Progress(c)'
    PROVE  \A d \in Calls : Progress(d)'
  BY DEF BridgesInv, Progress

LEMMA BridgesStep == BridgesInv /\ [Next]_vars => BridgesInv'
  <1> SUFFICES ASSUME BridgesInv, [Next]_vars PROVE BridgesInv'
    OBVIOUS
  <1>a. TypeOK /\ \A c \in Calls : Progress(c)
    BY DEF BridgesInv
  <1> USE DEF TypeOK, End, Settle
  <1>1. ASSUME NEW c \in Calls, Admit(c) PROVE BridgesInv'
    <2>1. TypeOK'
      BY <1>1, <1>a DEF Admit, Outcomes
    <2>2. Progress(c)'
      BY <1>1, <1>a DEF Admit, Progress, Outcomes
    <2> QED
      BY <1>1, <1>a, <2>1, <2>2, OthersKeepProgress DEF Admit, BridgesInv
  <1>2. ASSUME NEW c \in Calls, Reject(c) PROVE BridgesInv'
    <2>1. TypeOK'
      BY <1>2, <1>a DEF Reject, Outcomes
    <2>2. Progress(c)'
      BY <1>2, <1>a DEF Reject, Progress, Outcomes
    <2> QED
      BY <1>2, <1>a, <2>1, <2>2, OthersKeepProgress DEF Reject, BridgesInv
  <1>3. ASSUME NEW c \in Calls, RaiseInLookup(c) PROVE BridgesInv'
    <2>1. TypeOK'
      BY <1>3, <1>a DEF RaiseInLookup, Outcomes
    <2>2. Progress(c)'
      BY <1>3, <1>a DEF RaiseInLookup, Progress, Outcomes
    <2> QED
      BY <1>3, <1>a, <2>1, <2>2, OthersKeepProgress DEF RaiseInLookup, BridgesInv
  <1>4. ASSUME NEW c \in Calls, Return(c) PROVE BridgesInv'
    <2>1. TypeOK'
      BY <1>4, <1>a DEF Return, Outcomes
    <2>2. Progress(c)'
      BY <1>4, <1>a DEF Return, Progress
    <2> QED
      BY <1>4, <1>a, <2>1, <2>2, OthersKeepProgress DEF Return, BridgesInv
  <1>5. ASSUME NEW c \in Calls, GiveUp(c) PROVE BridgesInv'
    <2>1. TypeOK'
      BY <1>5, <1>a DEF GiveUp, Outcomes
    <2>2. Progress(c)'
      BY <1>5, <1>a DEF GiveUp, Progress
    <2> QED
      BY <1>5, <1>a, <2>1, <2>2, OthersKeepProgress DEF GiveUp, BridgesInv
  <1>6. ASSUME NEW c \in Calls, Record(c) PROVE BridgesInv'
    <2> DEFINE o == outcome[c]
    <2>1. /\ pc[c] = "record" /\ body[c].door = "rest" /\ o \in Outcomes /\ audit[c][o] = 0
          /\ audit' = [audit EXCEPT ![c] = [audit[c] EXCEPT ![o] = 1]]
          /\ pc' = [pc EXCEPT ![c] = "done"]
          /\ UNCHANGED <<enabled, body, remote, outcome>>
      <3>1. pc[c] = "record" /\ o \in Outcomes
        BY <1>6, <1>a DEF Record, RecordRows, Progress
      <3>2. audit[c] \in [Outcomes -> 0..1] /\ audit[c][o] = 0
        BY <1>a, <3>1 DEF Progress
      <3> QED
        BY <1>6, <1>a, <3>1, <3>2 DEF Record, RecordRows
    <2>2. TypeOK'
      BY <1>6, <1>a, <2>1 DEF Record, RecordRows, Code
    <2>3. Progress(c)'
      BY <1>a, <2>1 DEF Progress
    <2> QED
      BY <1>a, <2>1, <2>2, <2>3, OthersKeepProgress DEF BridgesInv
  <1>7. ASSUME NEW c \in Calls, Tell(c) PROVE BridgesInv'
    <2>1. TypeOK'
      BY <1>7, <1>a DEF Tell, Outcomes
    <2>2. Progress(c)'
      BY <1>7, <1>a DEF Tell, Progress
    <2> QED
      BY <1>7, <1>a, <2>1, <2>2, OthersKeepProgress DEF Tell, BridgesInv
  <1>8. ASSUME NEW c \in Calls, RecordRejected(c) PROVE BridgesInv'
    <2>1. TypeOK'
      BY <1>8, <1>a DEF RecordRejected, Outcomes
    <2>2. Progress(c)'
      BY <1>8, <1>a DEF RecordRejected, Progress
    <2> QED
      BY <1>8, <1>a, <2>1, <2>2, OthersKeepProgress DEF RecordRejected, BridgesInv
  <1>9. ASSUME NEW c \in Calls, ApiCrash(c) PROVE BridgesInv'
    <2>1. TypeOK'
      BY <1>9, <1>a DEF ApiCrash, Outcomes
    <2>2. Progress(c)'
      BY <1>9, <1>a DEF ApiCrash, Progress
    <2> QED
      BY <1>9, <1>a, <2>1, <2>2, OthersKeepProgress DEF ApiCrash, BridgesInv
  <1>10. ASSUME NEW c \in Calls, GatewayTimeout(c) PROVE BridgesInv'
    <2>1. TypeOK'
      BY <1>10, <1>a DEF GatewayTimeout, Outcomes
    <2>2. Progress(c)'
      BY <1>10, <1>a DEF GatewayTimeout, Progress
    <2> QED
      BY <1>10, <1>a, <2>1, <2>2, OthersKeepProgress DEF GatewayTimeout, BridgesInv
  <1>11. ASSUME NEW c \in Calls, RemoteStart(c) PROVE BridgesInv'
    <2>1. TypeOK'
      BY <1>11, <1>a DEF RemoteStart, Outcomes
    <2>2. Progress(c)'
      BY <1>11, <1>a DEF RemoteStart, Progress
    <2> QED
      BY <1>11, <1>a, <2>1, <2>2, OthersKeepProgress DEF RemoteStart, BridgesInv
  <1>12. ASSUME NEW c \in Calls, RemoteEnd(c) PROVE BridgesInv'
    <2>1. TypeOK'
      BY <1>12, <1>a DEF RemoteEnd, Outcomes
    <2>2. Progress(c)'
      BY <1>12, <1>a DEF RemoteEnd, Progress
    <2> QED
      BY <1>12, <1>a, <2>1, <2>2, OthersKeepProgress DEF RemoteEnd, BridgesInv
  <1>13. ASSUME NEW t \in Targets, Toggle(t) PROVE BridgesInv'
    BY <1>13, <1>a DEF Toggle, BridgesInv, Progress
  <1>14. ASSUME NEW c \in Calls, RemoteAnswers(c) PROVE BridgesInv'
    <2>1. TypeOK'
      BY <1>14, <1>a DEF RemoteAnswers, Outcomes
    <2>2. Progress(c)'
      BY <1>14, <1>a DEF RemoteAnswers, Progress
    <2> QED
      BY <1>14, <1>a, <2>1, <2>2, OthersKeepProgress DEF RemoteAnswers, BridgesInv
  <1>15. CASE UNCHANGED vars
    BY <1>15, <1>a DEF vars, BridgesInv, Progress
  <1> QED
    BY NextSplit, <1>1, <1>2, <1>3, <1>4, <1>5, <1>6, <1>7, <1>8, <1>9, <1>10,
       <1>11, <1>12, <1>13, <1>14, <1>15

\* A REST call that was carried through or refused has one audit row, that of
\* its outcome; one whose handler raised or died has none, whatever nginx told
\* the caller.
THEOREM RestAudited == Spec => []RestIsAudited
  <1>1. BridgesInv => RestIsAudited
    BY DEF BridgesInv, TypeOK, Progress, RestIsAudited, Rows
  <1> QED
    BY <1>1, BridgesInit, BridgesStep, PTL DEF Spec

\* The audit log never contradicts the other machine.
THEOREM AuditTrue == Spec => []AuditTellsWhatHappened
  <1>1. BridgesInv => AuditTellsWhatHappened
    BY DEF BridgesInv, Progress, AuditTellsWhatHappened, Outcomes
  <1> QED
    BY <1>1, BridgesInit, BridgesStep, PTL DEF Spec

-----------------------------------------------------------------------------
(* The daemon *)

\* Every action of the daemon.
LEMMA DaemonSplit ==
    ASSUME D!Next
    PROVE  \E r \in Runs : \/ D!Start(r) \/ D!Refuse(r)
                           \/ \E f \in Files : D!Visit(r, f)
                           \/ D!Stat(r) \/ D!StatFails(r) \/ D!Read(r)
                           \/ D!Spawn(r) \/ D!SpawnFails(r) \/ D!Exit(r) \/ D!Timeout(r)
                           \/ \E f \in Files, v \in Contents \cup {Missing} :
                                 D!WriteFile(r, f, v)
                           \/ D!Respond(r)
  BY DEF D!Next

\* A snapshot under way agrees with the files as they were when the run began, or
\* are now, where it has come to them, and knows nothing of the rest; only a file
\* that was written beside the run may differ.
Snapshot(r, snap, is) ==
    \A f \in Files :
        IF f \in left[r] \cup {file[r]} THEN snap[f] = Missing
        ELSE f \notin disturbed[r] => snap[f] = is[f]

\* What the handler of run r has at each point.
Run(r) ==
    /\ at[r] = "idle" => before[r] = D!Empty
    /\ at[r] \in {"idle", "before", "running"} => after[r] = D!Empty
    /\ at[r] \in {"idle", "running"} => file[r] = Missing
    /\ file[r] \notin left[r]
    /\ r \in spawned =>
          at[r] \notin {"idle", "before"} /\ answer[r] \notin {"400", "401"}
    /\ at[r] \in {"running", "after"} => r \in spawned
    /\ at[r] = "before" =>
          /\ \A f \in Files \ disturbed[r] : D!Counted[f] = first[r][f]
          /\ Snapshot(r, before[r], first[r])
    /\ at[r] \in {"running", "after"} =>
          \A f \in Files \ disturbed[r] : before[r][f] = first[r][f]
    /\ at[r] = "after" => Snapshot(r, after[r], D!Counted)
    /\ D!Snapping(r) /\ file[r] # Missing =>
          file[r] \in disturbed[r] \/ disk[file[r]] # Missing
    /\ r \in sized => file[r] \in disturbed[r] \/ disk[file[r]] \notin Large
    /\ answer[r] = "none" <=> at[r] # "done"

\* The report of an answered run, and the excuse of one that lost its answer.
Exact(r) ==
    answer[r] = "200" =>
        \A f \in Files \ disturbed[r], sign \in {"+", "-"} :
            <<sign, f>> \in changed[r] <=> <<sign, f>> \in truth[r]
Excused(r) == r \in spawned /\ answer[r] = "500" => disturbed[r] # {}

DaemonInv == D!TypeOK /\ \A r \in Runs : Run(r) /\ Exact(r) /\ Excused(r)

LEMMA DaemonTypeInit == D!Init => D!TypeOK
  BY DEF D!Init, D!TypeOK, D!Disks, D!Empty, D!Snapping

LEMMA CountedKept == ASSUME UNCHANGED disk PROVE D!Counted' = D!Counted
  BY DEF D!Counted

LEMMA CountedType == D!TypeOK => D!Counted \in D!Disks
  BY DEF D!TypeOK, D!Disks, D!Counted

\* One handler takes a snapshot at a time, since each begins when no other is at it.
LEMMA DaemonTypeStep == D!TypeOK /\ [D!Next]_daemonVars => D!TypeOK'
  <1> SUFFICES ASSUME D!TypeOK, [D!Next]_daemonVars PROVE D!TypeOK'
    OBVIOUS
  <1>a. D!Empty \in D!Disks
    BY DEF D!Empty, D!Disks
  <1> USE DEF D!TypeOK, D!Snapping
  <1>1. ASSUME NEW r \in Runs, D!Start(r) PROVE D!TypeOK'
    BY <1>1, CountedType DEF D!Start, D!BeginSnapshot, D!LoopFree
  <1>2. ASSUME NEW r \in Runs, D!Refuse(r) PROVE D!TypeOK'
    BY <1>2, <1>a DEF D!Refuse, D!Finish
  <1>3. ASSUME NEW r \in Runs, NEW f \in Files, D!Visit(r, f) PROVE D!TypeOK'
    BY <1>3 DEF D!Visit
  <1>4. ASSUME NEW r \in Runs, D!Stat(r) PROVE D!TypeOK'
    BY <1>4 DEF D!Stat
  <1>5. ASSUME NEW r \in Runs, D!StatFails(r) PROVE D!TypeOK'
    BY <1>5, <1>a DEF D!StatFails, D!Finish
  <1>6. ASSUME NEW r \in Runs, D!Read(r) PROVE D!TypeOK'
    <2> DEFINE f == file[r]
               v == disk[f]
    <2>1. f \in Files /\ v \in Contents \cup {Missing}
      BY <1>6 DEF D!Read, D!Disks
    <2> HIDE DEF v
    <2>2. /\ \/ before' = [before EXCEPT ![r] = [before[r] EXCEPT ![f] = v]] /\ UNCHANGED after
             \/ after' = [after EXCEPT ![r] = [after[r] EXCEPT ![f] = v]] /\ UNCHANGED before
          /\ file' = [file EXCEPT ![r] = Missing] /\ sized' = sized \ {r}
          /\ UNCHANGED <<disk, at, left, answer, changed, spawned, first, truth, disturbed>>
      BY <1>6 DEF D!Read, v
    <2>3. [before[r] EXCEPT ![f] = v] \in D!Disks /\ [after[r] EXCEPT ![f] = v] \in D!Disks
      BY <2>1 DEF D!Disks
    <2>4. before' \in [Runs -> D!Disks] /\ after' \in [Runs -> D!Disks]
      BY <2>2, <2>3
    <2> QED
      BY <2>2, <2>4
  <1>7. ASSUME NEW r \in Runs, D!Spawn(r) PROVE D!TypeOK'
    BY <1>7 DEF D!Spawn, D!SnapshotTaken
  <1>8. ASSUME NEW r \in Runs, D!SpawnFails(r) \/ D!Timeout(r) PROVE D!TypeOK'
    BY <1>8, <1>a DEF D!SpawnFails, D!Timeout, D!Finish, D!SnapshotTaken
  <1>9. ASSUME NEW r \in Runs, NEW f \in Files, NEW v \in Contents \cup {Missing},
               D!WriteFile(r, f, v)
        PROVE  D!TypeOK'
    <2>1. disk' \in D!Disks
      BY <1>9 DEF D!WriteFile, D!Disks
    <2> QED
      BY <1>9, <2>1 DEF D!WriteFile
  <1>10. ASSUME NEW r \in Runs, D!Exit(r) PROVE D!TypeOK'
    BY <1>10 DEF D!Exit, D!BeginSnapshot, D!LoopFree
  <1>11. ASSUME NEW r \in Runs, D!Respond(r) PROVE D!TypeOK'
    <2>1. /\ D!Diff(before[r], after[r]) \subseteq {"+", "-"} \X Files
          /\ D!Changes(first[r], D!Counted) \subseteq {"+", "-"} \X Files
      BY DEF D!Diff, D!Changes
    <2>2. /\ changed' \in [Runs -> SUBSET ({"+", "-"} \X Files)]
          /\ truth' \in [Runs -> SUBSET ({"+", "-"} \X Files)]
      BY <1>11, <2>1 DEF D!Respond
    <2> QED
      BY <1>11, <1>a, <2>2 DEF D!Respond, D!Finish, D!SnapshotTaken
  <1>12. CASE UNCHANGED daemonVars
    BY <1>12 DEF daemonVars
  <1> QED
    BY DaemonSplit, <1>1, <1>2, <1>3, <1>4, <1>5, <1>6, <1>7, <1>8, <1>9, <1>10, <1>11, <1>12

LEMMA DaemonInit == D!Init => DaemonInv
  BY DaemonTypeInit
  DEF D!Init, DaemonInv, Run, Exact, Excused, Snapshot, D!Snapping

\* A step that leaves the workspace alone concerns one run.
LEMMA OthersKeepRun ==
    ASSUME DaemonInv, D!TypeOK', NEW r \in Runs, UNCHANGED disk,
           \A q \in Runs \ {r} :
              UNCHANGED <<at[q], left[q], file[q], q \in sized, before[q], after[q],
                          answer[q], changed[q], q \in spawned, first[q], truth[q],
                          disturbed[q]>>,
           Run(r)', Exact(r)', Excused(r)'
    PROVE  DaemonInv'
  <1> SUFFICES ASSUME NEW q \in Runs, q # r PROVE Run(q)' /\ Exact(q)' /\ Excused(q)'
    BY DEF DaemonInv
  <1>1. Run(q) /\ Exact(q) /\ Excused(q) /\ D!Counted' = D!Counted
    BY DEF DaemonInv, D!Counted
  <1> QED
    BY <1>1 DEF Run, Exact, Excused, Snapshot, D!Snapping

\* A write disturbs every run that could see it, but for one whose own process is
\* still running.
LEMMA WriteStep ==
    ASSUME DaemonInv, D!TypeOK', NEW r \in Runs, NEW f \in Files,
           NEW v \in Contents \cup {Missing}, D!WriteFile(r, f, v)
    PROVE  DaemonInv'
  <1> SUFFICES ASSUME NEW q \in Runs PROVE Run(q)' /\ Exact(q)' /\ Excused(q)'
    BY DEF DaemonInv
  <1>1. /\ D!TypeOK /\ Run(q) /\ Exact(q) /\ Excused(q) /\ Run(r) /\ r \in spawned
        /\ UNCHANGED <<at, left, file, sized, before, after, answer, changed, spawned,
                       first, truth>>
    BY DEF DaemonInv, D!WriteFile
  <1>2. \A g \in Files : g # f => disk'[g] = disk[g] /\ D!Counted'[g] = D!Counted[g]
    BY <1>1 DEF D!WriteFile, D!TypeOK, D!Disks, D!Counted
  <1>3. CASE D!Disturbs(r, q)
    <2>1. disturbed'[q] = disturbed[q] \cup {f} /\ at[q] \notin {"idle", "done"}
      BY <1>1, <1>3 DEF D!WriteFile, D!TypeOK, D!Disturbs
    <2>2. \A g \in Files \ disturbed'[q] :
             disk'[g] = disk[g] /\ D!Counted'[g] = D!Counted[g] /\ g \notin disturbed[q]
      BY <1>2, <2>1
    <2>3. /\ at[q] = "before" => Snapshot(q, before[q], first[q])'
          /\ at[q] = "after" => Snapshot(q, after[q], D!Counted)'
      BY <1>1, <2>1, <2>2 DEF Run, Snapshot
    <2> QED
      BY <1>1, <1>2, <2>1, <2>2, <2>3 DEF Run, Exact, Excused, D!Snapping, D!TypeOK
  <1>4. CASE ~D!Disturbs(r, q)
    <2>1. disturbed'[q] = disturbed[q] /\ at[q] \notin {"before", "after"}
      BY <1>1, <1>4 DEF D!WriteFile, D!TypeOK, D!Disturbs, Run
    <2>2. q \notin sized
      BY <1>1, <2>1 DEF D!TypeOK, D!Snapping
    <2> QED
      BY <1>1, <2>1, <2>2 DEF Run, Exact, Excused, D!Snapping
  <1> QED
    BY <1>3, <1>4

\* A run that is over has let go of everything.
LEMMA FinishKeeps ==
    ASSUME DaemonInv, D!TypeOK', NEW r \in Runs, NEW code, D!Finish(r, code),
           code # "none", r \notin sized,
           \A q \in Runs \ {r} : changed'[q] = changed[q] /\ truth'[q] = truth[q],
           r \in spawned => code \notin {"400", "401"},
           Exact(r)', Excused(r)'
    PROVE  DaemonInv'
  <1>1. D!TypeOK /\ Run(r)
    BY DEF DaemonInv
  <1>2. /\ at'[r] = "done" /\ answer'[r] = code /\ file'[r] = Missing /\ left'[r] = {}
        /\ r \notin sized' /\ spawned' = spawned /\ UNCHANGED disk
    BY <1>1 DEF D!Finish, D!TypeOK
  <1>3. Run(r)'
    BY <1>2 DEF Run, D!Snapping
  <1> QED
    BY <1>1, <1>3, OthersKeepRun DEF D!Finish, D!TypeOK

LEMMA DaemonStepKeeps == DaemonInv /\ [D!Next]_daemonVars => DaemonInv'
  <1> SUFFICES ASSUME DaemonInv, [D!Next]_daemonVars PROVE DaemonInv'
    OBVIOUS
  <1>a. D!TypeOK /\ D!TypeOK' /\ \A r \in Runs : Run(r) /\ Exact(r) /\ Excused(r)
    BY DaemonTypeStep DEF DaemonInv
  <1> USE DEF D!TypeOK, D!BeginSnapshot
  <1>1. ASSUME NEW r \in Runs, D!Start(r) PROVE DaemonInv'
    <2>1. D!Counted' = D!Counted /\ UNCHANGED disk
      BY <1>1 DEF D!Start, D!Counted
    <2>2. Run(r)'
      BY <1>1, <1>a, <2>1, ContentsAssumption DEF D!Start, Run, Snapshot, D!Snapping, D!Empty
    <2>3. Exact(r)' /\ Excused(r)'
      BY <1>1, <1>a DEF D!Start, Run, Exact, Excused, D!Snapping
    <2> QED
      BY <1>1, <1>a, <2>1, <2>2, <2>3, OthersKeepRun DEF D!Start
  <1>2. ASSUME NEW r \in Runs, D!Refuse(r) PROVE DaemonInv'
    <2>1. PICK code \in {"400", "401", "500"} : D!Finish(r, code)
      BY <1>2 DEF D!Refuse
    <2>2. r \notin sized /\ r \notin spawned /\ UNCHANGED <<changed, truth>>
      BY <1>2, <1>a DEF D!Refuse, D!Snapping, Run
    <2>3. Exact(r)' /\ Excused(r)'
      BY <1>a, <2>1, <2>2 DEF D!Finish, Exact, Excused
    <2> QED
      BY <1>a, <2>1, <2>2, <2>3, FinishKeeps
  <1>3. ASSUME NEW r \in Runs, NEW f \in Files, D!Visit(r, f) PROVE DaemonInv'
    <2>1. D!Counted' = D!Counted /\ UNCHANGED disk /\ r \notin sized
      BY <1>3, <1>a, CountedKept DEF D!Visit
    <2>2. Run(r)'
      <3>1. /\ Missing \notin Files /\ f \in left[r] /\ left'[r] = left[r] \ {f}
            /\ file[r] = Missing
            /\ file'[r] = (IF disk[f] = Missing THEN Missing ELSE f)
            /\ UNCHANGED <<disk, at, sized, before, after, answer, spawned, first, disturbed>>
        BY <1>3, <1>a, ContentsAssumption DEF D!Visit
      <3>2. disk[f] = Missing => D!Counted[f] = Missing
        BY DEF D!Counted
      <3>3. /\ at[r] = "before" => Snapshot(r, before[r], first[r])'
            /\ at[r] = "after" => Snapshot(r, after[r], D!Counted)'
        BY <1>a, <2>1, <3>1, <3>2 DEF Run, Snapshot
      <3> QED
        BY <1>3, <1>a, <2>1, <3>1, <3>3 DEF Run, D!Snapping, D!Visit
    <2>3. Exact(r)' /\ Excused(r)'
      BY <1>3, <1>a DEF D!Visit, Run, Exact, Excused, D!Snapping
    <2> QED
      BY <1>3, <1>a, <2>1, <2>2, <2>3, OthersKeepRun DEF D!Visit
  <1>4. ASSUME NEW r \in Runs, D!Stat(r) PROVE DaemonInv'
    <2>1. D!Counted' = D!Counted /\ UNCHANGED disk /\ file[r] \in Files
      BY <1>4, <1>a DEF D!Stat, D!Counted
    <2>2. Run(r)'
      <3>1. CASE disk[file[r]] \in Large
        <4>1. /\ Missing \notin Files /\ file'[r] = Missing /\ D!Counted[file[r]] = Missing
              /\ r \notin sized'
              /\ UNCHANGED <<disk, at, left, before, after, answer, spawned, first, disturbed>>
          BY <1>4, <1>a, <2>1, <3>1, ContentsAssumption DEF D!Stat, D!Counted
        <4>2. /\ at[r] = "before" => Snapshot(r, before[r], first[r])'
              /\ at[r] = "after" => Snapshot(r, after[r], D!Counted)'
          BY <1>a, <2>1, <4>1 DEF Run, Snapshot
        <4> QED
          BY <1>a, <2>1, <4>1, <4>2, ContentsAssumption DEF Run, D!Snapping
      <3>2. CASE disk[file[r]] \notin Large
        BY <1>4, <1>a, <2>1, <3>2 DEF D!Stat, Run, Snapshot, D!Snapping
      <3> QED
        BY <3>1, <3>2
    <2>3. Exact(r)' /\ Excused(r)'
      BY <1>4, <1>a DEF D!Stat, Run, Exact, Excused, D!Snapping
    <2> QED
      BY <1>4, <1>a, <2>1, <2>2, <2>3, OthersKeepRun DEF D!Stat
  <1>5. ASSUME NEW r \in Runs, D!StatFails(r) PROVE DaemonInv'
    <2>1. D!Finish(r, "500") /\ r \notin sized /\ UNCHANGED <<changed, truth>>
      BY <1>5 DEF D!StatFails
    <2>2. disturbed[r] # {} /\ UNCHANGED disturbed
      BY <1>5, <1>a, <2>1 DEF D!StatFails, Run, D!Gone, D!Finish
    <2>3. Exact(r)' /\ Excused(r)'
      BY <1>a, <2>1, <2>2 DEF D!Finish, Exact, Excused
    <2> QED
      BY <1>a, <2>1, <2>3, FinishKeeps
  <1>6. ASSUME NEW r \in Runs, D!Read(r) PROVE DaemonInv'
    <2>1. D!Counted' = D!Counted /\ UNCHANGED disk
      BY <1>6 DEF D!Read, D!Counted
    <2>2. Run(r)'
      <3> DEFINE f == file[r]
      <3>1. /\ f \in Files /\ Run(r) /\ at[r] \in {"before", "after"} /\ f \notin left[r]
            /\ f \in disturbed[r] \/ disk[f] = D!Counted[f]
        <4>1. f \in Files /\ Run(r) /\ at[r] \in {"before", "after"} /\ r \in sized
          BY <1>6, <1>a DEF D!Read, D!Snapping
        <4> QED
          BY <4>1 DEF Run, D!Counted
      <3>2. /\ UNCHANGED <<disk, at, left, answer, spawned, first, disturbed>>
            /\ file'[r] = Missing /\ r \notin sized' /\ Missing \notin Files
        BY <1>6, <1>a, ContentsAssumption DEF D!Read
      <3>3. CASE at[r] = "before"
        <4>1. /\ before'[r] = [before[r] EXCEPT ![f] = disk[f]]
              /\ UNCHANGED after /\ before[r] \in [Files -> Contents \cup {Missing}]
          BY <1>6, <1>a, <3>3 DEF D!Read, D!Disks
        <4>2. Snapshot(r, before[r], first[r])'
          BY <1>a, <3>1, <3>2, <3>3, <4>1 DEF Run, Snapshot
        <4> QED
          BY <1>a, <2>1, <3>1, <3>2, <3>3, <4>1, <4>2 DEF Run, D!Snapping
      <3>4. CASE at[r] = "after"
        <4>1. /\ after'[r] = [after[r] EXCEPT ![f] = disk[f]]
              /\ UNCHANGED before /\ after[r] \in [Files -> Contents \cup {Missing}]
          BY <1>6, <1>a, <3>4 DEF D!Read, D!Disks
        <4>2. Snapshot(r, after[r], D!Counted)'
          BY <1>a, <2>1, <3>1, <3>2, <3>4, <4>1 DEF Run, Snapshot
        <4> QED
          BY <1>a, <2>1, <3>1, <3>2, <3>4, <4>1, <4>2 DEF Run, D!Snapping
      <3> QED
        BY <3>1, <3>3, <3>4
    <2>3. Exact(r)' /\ Excused(r)'
      BY <1>6, <1>a DEF D!Read, Run, Exact, Excused, D!Snapping
    <2> QED
      BY <1>6, <1>a, <2>1, <2>2, <2>3, OthersKeepRun DEF D!Read
  <1>7. ASSUME NEW r \in Runs, D!Spawn(r) PROVE DaemonInv'
    <2>1. /\ D!Counted' = D!Counted /\ at'[r] = "running" /\ r \notin sized'
          /\ answer'[r] = "none"
          /\ UNCHANGED <<disk, left, file, sized, before, after, answer, first, disturbed>>
      BY <1>7, <1>a, CountedKept DEF D!Spawn, D!SnapshotTaken, Run
    <2>2. Run(r)'
      BY <1>7, <1>a, <2>1, ContentsAssumption
      DEF D!Spawn, Run, Snapshot, D!Snapping, D!SnapshotTaken
    <2>3. Exact(r)' /\ Excused(r)'
      BY <2>1 DEF Exact, Excused
    <2> QED
      BY <1>7, <1>a, <2>1, <2>2, <2>3, OthersKeepRun DEF D!Spawn
  <1>8. ASSUME NEW r \in Runs, D!SpawnFails(r) PROVE DaemonInv'
    <2>1. D!Finish(r, "500") /\ r \notin sized /\ r \notin spawned /\ UNCHANGED <<changed, truth>>
      BY <1>8, <1>a DEF D!SpawnFails, D!SnapshotTaken, Run
    <2>2. Exact(r)' /\ Excused(r)'
      BY <1>a, <2>1 DEF D!Finish, Exact, Excused
    <2> QED
      BY <1>a, <2>1, <2>2, FinishKeeps
  <1>9. ASSUME NEW r \in Runs, D!Exit(r) PROVE DaemonInv'
    <2>1. D!Counted' = D!Counted /\ UNCHANGED disk /\ r \notin sized
      BY <1>9, <1>a DEF D!Exit, D!Counted, D!Snapping
    <2>2. Run(r)'
      BY <1>9, <1>a, <2>1, ContentsAssumption DEF D!Exit, Run, Snapshot, D!Snapping, D!Empty
    <2>3. Exact(r)' /\ Excused(r)'
      BY <1>9, <1>a DEF D!Exit, Run, Exact, Excused, D!Snapping
    <2> QED
      BY <1>9, <1>a, <2>1, <2>2, <2>3, OthersKeepRun DEF D!Exit
  <1>10. ASSUME NEW r \in Runs, D!Timeout(r) PROVE DaemonInv'
    <2>1. D!Finish(r, "408") /\ r \notin sized /\ UNCHANGED <<changed, truth>>
      BY <1>10, <1>a DEF D!Timeout, D!Snapping
    <2>2. Exact(r)' /\ Excused(r)'
      BY <1>a, <2>1 DEF D!Finish, Exact, Excused
    <2> QED
      BY <1>a, <2>1, <2>2, FinishKeeps
  <1>11. ASSUME NEW r \in Runs, D!Respond(r) PROVE DaemonInv'
    <2>1. D!Finish(r, "200") /\ r \notin sized
      BY <1>11, <1>a DEF D!Respond, D!SnapshotTaken
    <2>2. \A f \in Files \ disturbed[r] :
             before[r][f] = first[r][f] /\ after[r][f] = D!Counted[f]
      BY <1>11, <1>a, ContentsAssumption DEF D!Respond, D!SnapshotTaken, Run, Snapshot
    <2>3. /\ changed'[r] = D!Diff(before[r], after[r])
          /\ truth'[r] = D!Changes(first[r], D!Counted)
          /\ answer'[r] = "200" /\ disturbed'[r] = disturbed[r]
          /\ \A q \in Runs \ {r} : changed'[q] = changed[q] /\ truth'[q] = truth[q]
      BY <1>11, <1>a DEF D!Respond, D!Finish
    <2>4. \A f \in Files :
             /\ <<"+", f>> \in changed'[r] <=> after[r][f] # Missing /\ after[r][f] # before[r][f]
             /\ <<"-", f>> \in changed'[r] <=> after[r][f] = Missing /\ before[r][f] # Missing
      BY <2>3 DEF D!Diff
    <2>5. \A f \in Files :
             /\ <<"+", f>> \in truth'[r] <=> D!Counted[f] # Missing /\ D!Counted[f] # first[r][f]
             /\ <<"-", f>> \in truth'[r] <=> D!Counted[f] = Missing /\ first[r][f] # Missing
      BY <2>3 DEF D!Changes
    <2>6. Exact(r)' /\ Excused(r)'
      BY <2>2, <2>3, <2>4, <2>5 DEF Exact, Excused
    <2> QED
      BY <1>a, <2>1, <2>3, <2>6, FinishKeeps
  <1>12. CASE UNCHANGED daemonVars
    <2>1. D!Counted' = D!Counted
      BY <1>12 DEF daemonVars, D!Counted
    <2> QED
      BY <1>12, <1>a, <2>1 DEF daemonVars, DaemonInv, Run, Exact, Excused, Snapshot, D!Snapping
  <1> QED
    BY DaemonSplit, WriteStep, <1>a, <1>1, <1>2, <1>3, <1>4, <1>5, <1>6, <1>7, <1>8, <1>9,
       <1>10, <1>11, <1>12

LEMMA DaemonAlways == D!Spec => []DaemonInv
  <1>1. [D!Next]_(D!vars) => [D!Next]_daemonVars
    BY DEF D!vars, daemonVars
  <1> QED
    BY <1>1, DaemonInit, DaemonStepKeeps, PTL DEF D!Spec

\* However many runs share the workspace and whatever they leave running there, a
\* run's report is exact on the files that nobody wrote beside it.
THEOREM FilesExact == D!Spec => []UndisturbedFilesAreExact
  <1>1. DaemonInv => UndisturbedFilesAreExact
    BY DEF DaemonInv, Exact, UndisturbedFilesAreExact, D!UndisturbedFilesAreExact
  <1> QED
    BY <1>1, DaemonAlways, PTL

\* A run whose process was started loses its answer in the second snapshot only to
\* a write beside it, of another run or of what its own process left behind.
THEOREM WritesBreak == D!Spec => []OnlyWritesBreakSnapshots
  <1>1. DaemonInv => OnlyWritesBreakSnapshots
    BY DEF DaemonInv, Excused, OnlyWritesBreakSnapshots, D!OnlyWritesBreakSnapshots, D!TypeOK
  <1> QED
    BY <1>1, DaemonAlways, PTL

-----------------------------------------------------------------------------
(* The two together *)

\* Every step of the composition is a step of each side or leaves that side alone.
LEMMA ComposedSteps ==
    ASSUME TypeOK, [ComposedNext]_ComposedVars
    PROVE  [Next]_vars /\ [D!Next]_daemonVars
  <1>1. ASSUME NEW c \in Calls, ApiStep(c) PROVE Next /\ UNCHANGED daemonVars
    BY <1>1 DEF ApiStep, Next
  <1>2. ASSUME NEW c \in Calls, DaemonStarts(c) \/ DaemonAnswers(c)
        PROVE  Next /\ D!Next
    BY <1>2, RunsAssumption DEF DaemonStarts, DaemonAnswers, Next, D!Next
  <1>3. ASSUME NEW c \in Calls, DaemonRefuses(c) PROVE UNCHANGED vars /\ D!Next
    BY <1>3, RunsAssumption DEF DaemonRefuses, D!Next
  <1>4. ASSUME NEW r \in Runs, DaemonStep(r) PROVE UNCHANGED vars /\ D!Next
    BY <1>4 DEF DaemonStep, D!Next
  <1>5. ASSUME NEW t \in Consulted, Toggle(t), UNCHANGED daemonVars PROVE Next
    <2>1. t \in Targets
      BY DEF TypeOK, Consulted, Bodies
    <2> QED
      BY <1>5, <2>1 DEF Next
  <1>6. CASE UNCHANGED ComposedVars
    BY <1>6 DEF ComposedVars
  <1> QED
    BY <1>1, <1>2, <1>3, <1>4, <1>5, <1>6 DEF ComposedNext

\* The composition implements the bridges and the daemon, each for itself: the
\* daemon is one of the machines that the bridges allow for, and the bridges are
\* a client that the daemon allows for.
THEOREM ComposesBoth == ComposedSpec => Spec /\ D!Spec
  <1>1. ComposedInit => Init /\ D!Init
    BY DEF ComposedInit
  <1>2. BridgesInv /\ [ComposedNext]_ComposedVars => [Next]_vars /\ [D!Next]_daemonVars
    BY ComposedSteps DEF BridgesInv
  <1>3. [D!Next]_daemonVars => [D!Next]_(D!vars)
    BY DEF D!vars, daemonVars
  <1> QED
    BY <1>1, <1>2, <1>3, BridgesInit, BridgesStep, PTL DEF ComposedSpec, Spec, D!Spec

\* Type correctness of the two together, and one snapshot at a time.
THEOREM TypeCorrect == ComposedSpec => []ComposedTypeOK
  <1>1. BridgesInv /\ DaemonInv => ComposedTypeOK
    BY DEF BridgesInv, DaemonInv, ComposedTypeOK
  <1> QED
    BY <1>1, ComposesBoth, DaemonAlways, BridgesInit, BridgesStep, PTL DEF Spec

\* What the bridge's side of a cc call and the daemon's tell of each other.
Agrees(c) ==
    Cc(c) =>
        /\ D!Snapping(c) \/ c \in spawned =>
              remote[c] \in {"running", "answering", "ok", "failed"}
        /\ remote[c] \in {"answering", "ok", "failed"} => answer[c] = "200"

ComposedInv == BridgesInv /\ DaemonInv /\ \A c \in Calls : Agrees(c)

LEMMA ComposedKeeps == ComposedInv /\ [ComposedNext]_ComposedVars => ComposedInv'
  <1> SUFFICES ASSUME ComposedInv, [ComposedNext]_ComposedVars PROVE \A c \in Calls : Agrees(c)'
    BY ComposedSteps, BridgesStep, DaemonStepKeeps DEF ComposedInv, BridgesInv
  <1> SUFFICES ASSUME NEW c \in Calls, Cc(c) PROVE Agrees(c)'
    <2>1. UNCHANGED body
      <3>1. TypeOK
        BY DEF ComposedInv, BridgesInv
      <3> QED
        BY <3>1, ComposedSteps, NextSplit
        DEF vars, Admit, Reject, RaiseInLookup, Return, GiveUp, Settle, Record, RecordRows,
            Tell, RecordRejected, ApiCrash, GatewayTimeout, RemoteStart, RemoteAnswers,
            RemoteEnd, Toggle
    <2> QED
      BY <2>1 DEF Agrees, Cc
  <1>a. TypeOK /\ Progress(c) /\ D!TypeOK /\ Run(c) /\ Agrees(c) /\ c \in Runs
    BY RunsAssumption DEF ComposedInv, BridgesInv, DaemonInv
  <1>1. ASSUME NEW d \in Calls, ApiStep(d) PROVE Agrees(c)'
    <2>1. \/ remote'[c] = remote[c]
          \/ remote[c] = "none" /\ remote'[c] = "sent"
          \/ remote[c] = "answering" /\ remote'[c] \in {"ok", "failed"}
      <3>1. CASE Admit(d)
        BY <1>a, <3>1 DEF Admit, TypeOK, Progress
      <3>2. CASE ~Cc(d) /\ (RemoteStart(d) \/ RemoteAnswers(d))
        BY <1>a, <3>2 DEF RemoteStart, RemoteAnswers, TypeOK
      <3>3. CASE RemoteEnd(d)
        BY <1>a, <3>3 DEF RemoteEnd, TypeOK
      <3>4. CASE \/ Reject(d) \/ RaiseInLookup(d) \/ Return(d) \/ GiveUp(d) \/ Record(d)
                 \/ Tell(d) \/ RecordRejected(d) \/ GatewayTimeout(d) \/ ApiCrash(d)
        BY <3>4 DEF Reject, RaiseInLookup, Return, GiveUp, Settle, Record, RecordRows, Tell,
           RecordRejected, GatewayTimeout, ApiCrash
      <3> QED
        BY <1>1, <3>1, <3>2, <3>3, <3>4 DEF ApiStep, HandlerStep
    <2>2. UNCHANGED <<body, at, spawned, answer>>
      BY <1>1 DEF ApiStep, daemonVars, HandlerStep, Admit, Reject, RaiseInLookup, Return,
         GiveUp, Settle, Record, RecordRows, Tell, RecordRejected, GatewayTimeout, ApiCrash,
         RemoteStart, RemoteAnswers, RemoteEnd
    <2> QED
      BY <1>a, <2>1, <2>2 DEF Agrees, Cc, D!Snapping
  <1>2. ASSUME NEW d \in Calls, DaemonStarts(d) PROVE Agrees(c)'
    BY <1>2, <1>a DEF DaemonStarts, D!Start, D!BeginSnapshot, RemoteStart, Agrees, Cc, TypeOK,
       D!TypeOK, Run, D!Snapping
  <1>3. ASSUME NEW d \in Calls, DaemonRefuses(d) PROVE Agrees(c)'
    <2>1. UNCHANGED <<body, remote, spawned>> /\ at[d] = "idle"
      BY <1>3 DEF DaemonRefuses, D!Refuse, D!Finish, vars
    <2>2. (d = c /\ at'[c] = "done") \/ UNCHANGED <<at[c], answer[c]>>
      BY <1>3, <1>a DEF DaemonRefuses, D!Refuse, D!Finish, D!TypeOK
    <2> QED
      BY <1>a, <2>1, <2>2 DEF Agrees, Cc, D!Snapping, Run
  <1>4. ASSUME NEW d \in Calls, DaemonAnswers(d) PROVE Agrees(c)'
    <2>1. UNCHANGED <<body, spawned>> /\ remote[d] = "running" /\ at[d] = "after"
      BY <1>4 DEF DaemonAnswers, D!Respond, D!Finish, RemoteAnswers
    <2>2. IF d = c THEN remote'[c] = "answering" /\ answer'[c] = "200" /\ at'[c] = "done"
                   ELSE UNCHANGED <<remote[c], at[c], answer[c]>>
      BY <1>4, <1>a DEF DaemonAnswers, D!Respond, D!Finish, RemoteAnswers, TypeOK, D!TypeOK
    <2> QED
      BY <1>a, <2>1, <2>2 DEF Agrees, Cc, D!Snapping
  <1>5. ASSUME NEW r \in Runs, DaemonStep(r) PROVE Agrees(c)'
    <2>1. UNCHANGED <<body, remote>>
      BY <1>5 DEF DaemonStep, vars
    <2>2. /\ D!Snapping(c)' \/ (c \in spawned)' => D!Snapping(c) \/ c \in spawned
          /\ answer[c] = "200" => answer'[c] = "200"
      <3>1. CASE r \notin Calls /\ (D!Start(r) \/ D!Refuse(r) \/ D!Respond(r))
        BY <1>a, <3>1 DEF D!Start, D!BeginSnapshot, D!Refuse, D!Respond, D!Finish, D!TypeOK,
           D!Snapping
      <3>2. CASE D!StatFails(r) \/ D!SpawnFails(r) \/ D!Timeout(r)
        BY <1>a, <3>2 DEF D!StatFails, D!SpawnFails, D!Timeout, D!Finish, D!TypeOK, D!Snapping,
           Run
      <3>3. CASE D!Spawn(r)
        BY <1>a, <3>3 DEF D!Spawn, D!TypeOK, D!Snapping
      <3>4. CASE D!Exit(r)
        <4>1. UNCHANGED spawned /\ answer' = answer /\ (r = c \/ at'[c] = at[c])
          BY <1>a, <3>4 DEF D!Exit, D!BeginSnapshot, D!TypeOK
        <4>2. r = c => c \in spawned
          BY <1>a, <3>4 DEF D!Exit, Run
        <4> QED
          BY <4>1, <4>2 DEF D!Snapping
      <3>5. CASE \/ \E f \in Files : D!Visit(r, f)
                 \/ D!Stat(r) \/ D!Read(r)
                 \/ \E f \in Files, v \in Contents \cup {Missing} : D!WriteFile(r, f, v)
        BY <3>5 DEF D!Visit, D!Stat, D!Read, D!WriteFile, D!Snapping
      <3> QED
        BY <1>5, <3>1, <3>2, <3>3, <3>4, <3>5 DEF DaemonStep
    <2> QED
      BY <1>a, <2>1, <2>2 DEF Agrees, Cc
  <1>6. ASSUME NEW t \in Consulted, Toggle(t), UNCHANGED daemonVars PROVE Agrees(c)'
    BY <1>6, <1>a DEF Toggle, daemonVars, Agrees, Cc, D!Snapping
  <1>7. CASE UNCHANGED ComposedVars
    BY <1>7, <1>a DEF ComposedVars, vars, daemonVars, Agrees, Cc, D!Snapping
  <1> QED
    BY <1>1, <1>2, <1>3, <1>4, <1>5, <1>6, <1>7 DEF ComposedNext

\* The audit log calls a cc call a run only if the daemon ran it to its end, and
\* no process is started for a call that was refused.
THEOREM AuditAgrees == ComposedSpec => []AuditAgreesWithDaemon
  <1>1. ComposedInit => ComposedInv
    BY BridgesInit, DaemonInit, RunsAssumption
    DEF ComposedInit, ComposedInv, Agrees, Init, D!Init, D!Snapping
  <1>2. ComposedInv => AuditAgreesWithDaemon
    <2> SUFFICES ASSUME ComposedInv, NEW c \in Calls, Cc(c)
                 PROVE  /\ audit[c]["ok"] + audit[c]["failed"] > 0 => answer[c] = "200"
                        /\ c \in spawned =>
                              remote[c] \in {"running", "answering", "ok", "failed"}
      BY DEF AuditAgreesWithDaemon
    <2>1. TypeOK /\ Progress(c) /\ Agrees(c)
      BY DEF ComposedInv, BridgesInv
    <2>2. /\ audit[c]["ok"] \in 0..1 /\ audit[c]["failed"] \in 0..1
          /\ audit[c]["ok"] > 0 => remote[c] = "ok"
          /\ audit[c]["failed"] > 0 => remote[c] = "failed"
      BY <2>1 DEF TypeOK, Progress, Outcomes
    <2> QED
      BY <2>1, <2>2 DEF Agrees
  <1> QED
    BY <1>1, <1>2, ComposedKeeps, PTL DEF ComposedSpec

=============================================================================
