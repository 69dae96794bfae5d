---------------------------- MODULE BridgeToDaemon ----------------------------
(***************************************************************************)
(* The bridges with the Claude Code daemon as the other machine of the cc  *)
(* calls: the daemon's handler starts and answers at the points where      *)
(* Bridges leaves the other machine free, beside runs that other clients   *)
(* ask of it, and it is not told when the bridge gives up.                 *)
(***************************************************************************)
EXTENDS Bridges

CONSTANTS
    Asked,  \* bodies of the calls
    Runs, Files, Contents, Large, Missing

ASSUME AskedAssumption == Asked \subseteq Bodies
ASSUME RunsAssumption == Calls \subseteq Runs
ASSUME ContentsAssumption == Large \subseteq Contents /\ Missing \notin Contents \cup Files

VARIABLES disk, at, left, file, sized, before, after, answer, changed, spawned,
          first, truth, disturbed

daemonVars == <<disk, at, left, file, sized, before, after, answer, changed,
                spawned, first, truth, disturbed>>

D == INSTANCE CcDaemon WITH pc <- at, reply <- answer

Cc(c) == body[c].bridge = "cc"

\* Rows that no call looks up are left out.
Consulted == {body[c].target : c \in {d \in Calls : ~Cc(d)}}

ComposedInit ==
    /\ Init /\ D!Init
    /\ body \in [Calls -> Asked]
    /\ enabled \subseteq Consulted

\* The daemon hears of a call when the bridge has sent it.
DaemonStarts(c) == Cc(c) /\ D!Start(c) /\ RemoteStart(c)

\* A timeout out of range is refused, and so is a wrong secret.
DaemonRefuses(c) ==
    /\ Cc(c) /\ remote[c] = "sent"
    /\ D!Refuse(c)
    /\ UNCHANGED vars

\* Mutant: a run that was killed is answered like one that ended.
DaemonAnswersKilled(c) ==
    Cc(c) /\ (D!Respond(c) \/ D!Timeout(c)) /\ RemoteAnswers(c)

\* The answer of a run, its exit status and its files, sets out for the bridge.
DaemonAnswers(c) == Cc(c) /\ D!Respond(c) /\ RemoteAnswers(c)

\* What the daemon does on its own, for this api or another client, where a call
\* of this api may meet it.
DaemonStep(r) ==
    /\ \E c \in Calls : Cc(c)
    /\ r \in Calls => Cc(r)
    /\ \/ r \notin Calls /\ (D!Start(r) \/ D!Refuse(r) \/ D!Respond(r))
       \/ \E f \in Files : D!Visit(r, f)
       \/ D!Stat(r) \/ D!StatFails(r) \/ D!Read(r)
       \/ D!Spawn(r) \/ D!SpawnFails(r)
       \/ \E f \in Files, v \in Contents \cup {Missing} : D!WriteFile(r, f, v)
       \/ D!Exit(r) \/ D!Timeout(r)
    /\ UNCHANGED vars

\* What the api, nginx, the network and the other hosts do.
ApiStep(c) ==
    /\ \/ HandlerStep(c) \/ RecordRejected(c) \/ GatewayTimeout(c) \/ ApiCrash(c)
       \/ ~Cc(c) /\ (RemoteStart(c) \/ RemoteAnswers(c))
       \/ RemoteEnd(c)
    /\ UNCHANGED daemonVars

ComposedNext ==
    \/ \E c \in Calls : \/ ApiStep(c)
                        \/ DaemonStarts(c) \/ DaemonRefuses(c) \/ DaemonAnswers(c)
    \/ \E r \in Runs : DaemonStep(r)
    \/ \E t \in Consulted : Toggle(t) /\ UNCHANGED daemonVars

ComposedVars == <<vars, daemonVars>>

ComposedFairness ==
    \A c \in Calls : WF_ComposedVars(Due(c) /\ UNCHANGED daemonVars)

ComposedSpec == ComposedInit /\ [][ComposedNext]_ComposedVars /\ ComposedFairness

-----------------------------------------------------------------------------
(* Properties *)

\* Type correctness of the bridges, and of the daemon when they drive it, with one
\* snapshot under way at a time.
ComposedTypeOK == TypeOK /\ D!TypeOK

\* As CcDaemon has them.
UndisturbedFilesAreExact == D!UndisturbedFilesAreExact
OnlyWritesBreakSnapshots == D!OnlyWritesBreakSnapshots

\* The audit log calls a cc call a run only if the daemon ran it to its end, and
\* a process that may write to the workspace is started only for a call that
\* passed the checks, whether or not the bridge still waits for it.
AuditAgreesWithDaemon ==
    \A c \in Calls : Cc(c) =>
        /\ audit[c]["ok"] + audit[c]["failed"] > 0 => answer[c] = "200"
        /\ c \in spawned => remote[c] \in {"running", "answering", "ok", "failed"}
=============================================================================
