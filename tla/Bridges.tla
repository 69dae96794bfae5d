------------------------------- MODULE Bridges -------------------------------
(***************************************************************************)
(* The bridges: a call comes in by REST or as an MCP tool, is checked      *)
(* against the registry, is carried out by a machine that is not this      *)
(* program (an SSH host, n8n, the Claude Code daemon), and is written to   *)
(* the audit log when it is over.  The remote side does not stop when the  *)
(* caller gives up, and nginx gives up on the caller before that.          *)
(***************************************************************************)
EXTENDS Naturals

CONSTANTS
    Calls,      \* calls of a bridge
    Targets,    \* registered hosts and workflows
    Ambiguous,  \* names that one workflow has as its id and another as its name
    CcSecret,   \* whether CC_DAEMON_SECRET is set for the api
    Faults      \* which failures the environment may inject

ASSUME AmbiguousAssumption == Ambiguous \subseteq Targets
ASSUME CcSecretAssumption == CcSecret \in BOOLEAN
ASSUME FaultsAssumption == Faults \subseteq {"api_crash", "db_lost"}

VARIABLES
    enabled,  \* targets whose row has enabled = true
    body,     \* body[c]: what the caller asks, and by which door
    pc,       \* pc[c]: where the handler of call c stands
    remote,   \* remote[c]: the other machine's side of the call
    outcome,  \* outcome[c]: what the handler knows of it
    audit,    \* audit[c][o]: audit rows of the call with outcome o
    reply     \* reply[c]: HTTP status the caller got

vars == <<enabled, body, pc, remote, outcome, audit, reply>>

\* timeout: in the range of the bridge or not.  matched: a pattern of the host's
\* allow_cmds matches the command, none does, or one is no regex (the list is of
\* the host, and so is fixed).
Bodies == [bridge : {"vps", "n8n", "cc"}, door : {"rest", "mcp"},
           target : Targets, timeout : {"valid", "bad"},
           matched : {"yes", "no", "error"}]

\* The handler's VpsResult, N8nResult or CcResult, or its BridgeError.
Outcomes == {"ok", "failed", "rejected"}

Init ==
    /\ enabled \in SUBSET Targets
    /\ body \in [Calls -> Bodies]
    /\ pc = [c \in Calls |-> "idle"]
    /\ remote = [c \in Calls |-> "none"]
    /\ outcome = [c \in Calls |-> "none"]
    /\ audit = [c \in Calls |-> [o \in Outcomes |-> 0]]
    /\ reply = [c \in Calls |-> "none"]

\* The checks before anything leaves the api.  The daemon, not the bridge,
\* checks the timeout of a cc call.
Admitted(b) ==
    CASE b.bridge = "vps" -> b.timeout # "bad" /\ b.target \in enabled /\ b.matched = "yes"
      [] b.bridge = "n8n" -> b.timeout # "bad" /\ b.target \in enabled
      [] b.bridge = "cc"  -> CcSecret

\* The handler is over; a caller that nginx has answered gets nothing more.
End(c, how, code) ==
    /\ pc' = [pc EXCEPT ![c] = how]
    /\ reply' = [reply EXCEPT ![c] = IF @ = "none" THEN code ELSE @]

\* scalar_one_or_none() raises on two rows, re.search on a broken pattern, and
\* neither is the bridge's own error: a 500 by REST, a JSON-RPC error with status
\* 200 by MCP, no audit row by either.
LookupRaises(b) ==
    /\ b.timeout # "bad"
    /\ \/ b.bridge = "n8n" /\ b.target \in enabled \cap Ambiguous
       \/ b.bridge = "vps" /\ b.target \in enabled /\ b.matched = "error"

\* The handler knows its outcome.
Settle(c, o) ==
    /\ outcome' = [outcome EXCEPT ![c] = o]
    /\ pc' = [pc EXCEPT ![c] = "record"]
    /\ UNCHANGED <<enabled, body, remote, audit, reply>>

Admit(c) ==
    /\ pc[c] = "idle"
    /\ Admitted(body[c]) /\ ~LookupRaises(body[c])
    /\ pc' = [pc EXCEPT ![c] = "calling"]
    /\ remote' = [remote EXCEPT ![c] = "sent"]
    /\ UNCHANGED <<enabled, body, outcome, audit, reply>>

Reject(c) ==
    /\ pc[c] = "idle"
    /\ ~Admitted(body[c]) /\ ~LookupRaises(body[c])
    /\ Settle(c, "rejected")

RaiseInLookup(c) ==
    /\ pc[c] = "idle"
    /\ LookupRaises(body[c])
    /\ End(c, "raised", IF body[c].door = "rest" THEN "500" ELSE "200")
    /\ UNCHANGED <<enabled, body, remote, outcome, audit>>

\* The other machine: it starts, late or never, begins to answer, late or never,
\* and ends, late or never.
RemoteStart(c) ==
    /\ remote[c] = "sent"
    /\ body[c].timeout # "bad"
    /\ remote' = [remote EXCEPT ![c] = "running"]
    /\ UNCHANGED <<enabled, body, pc, outcome, audit, reply>>

\* The first bytes of the answer.
RemoteAnswers(c) ==
    /\ remote[c] = "running"
    /\ remote' = [remote EXCEPT ![c] = "answering"]
    /\ UNCHANGED <<enabled, body, pc, outcome, audit, reply>>

RemoteEnd(c) ==
    /\ remote[c] = "answering"
    /\ \E result \in {"ok", "failed"} : remote' = [remote EXCEPT ![c] = result]
    /\ UNCHANGED <<enabled, body, pc, outcome, audit, reply>>

\* Mutant: the exit status does not reach the result.
ReturnOk(c) == pc[c] = "calling" /\ remote[c] \in {"ok", "failed"} /\ Settle(c, "ok")

\* The answer arrives: exit status, or HTTP status of the webhook.
Return(c) == pc[c] = "calling" /\ remote[c] \in {"ok", "failed"} /\ Settle(c, remote[c])

\* Mutant: the timer of an SSH command bounds each read of its output only.
GiveUpQuiet(c) ==
    pc[c] = "calling" /\ remote[c] # "answering" /\ Settle(c, "rejected")

\* The timer of the bridge, a broken connection, or a status of the daemon
\* other than 200, at whatever point the other side is.
GiveUp(c) == pc[c] = "calling" /\ Settle(c, "rejected")

\* asyncio.wait_for bounds the whole SSH command.  The timeout of httpx bounds
\* the connect and each read: a machine that goes on answering, a little at a
\* time, keeps it from firing.
TimerRuns(c) == body[c].bridge = "vps" \/ remote[c] # "answering"

Code(o) == IF o = "rejected" THEN "400" ELSE "200"

\* REST: the audit row, or n of them, is committed, then the caller is answered.
RecordRows(c, n) ==
    /\ pc[c] = "record"
    /\ body[c].door = "rest"
    /\ audit' = [audit EXCEPT ![c][outcome[c]] = @ + n]
    /\ End(c, "done", Code(outcome[c]))
    /\ UNCHANGED <<enabled, body, remote, outcome>>

\* Mutant: a caller that is gone cancels its handler.
RecordIfHeard(c) == RecordRows(c, IF reply[c] = "none" THEN 1 ELSE 0)

Record(c) == RecordRows(c, 1)

\* The transaction, open since the registry was read, did not survive the call.
RecordRejected(c) ==
    /\ "db_lost" \in Faults
    /\ pc[c] = "record"
    /\ body[c].door = "rest"
    /\ End(c, "raised", "500")
    /\ UNCHANGED <<enabled, body, remote, outcome, audit>>

\* An MCP tool answers with its result or error and writes nothing.
Tell(c) ==
    /\ pc[c] = "record"
    /\ body[c].door = "mcp"
    /\ End(c, "done", "200")
    /\ UNCHANGED <<enabled, body, remote, outcome, audit>>

\* proxy_read_timeout: the caller gets a 504, the handler goes on.  Any call may
\* last that long: the time it takes to connect comes on top of its timeout.
GatewayTimeout(c) ==
    /\ pc[c] \in {"calling", "record"}
    /\ reply[c] = "none"
    /\ reply' = [reply EXCEPT ![c] = "504"]
    /\ UNCHANGED <<enabled, body, pc, remote, outcome, audit>>

ApiCrash(c) ==
    /\ "api_crash" \in Faults
    /\ pc[c] \in {"calling", "record"}
    /\ pc' = [pc EXCEPT ![c] = "dead"]
    /\ UNCHANGED <<enabled, body, remote, outcome, audit, reply>>

\* An operator edits bridge_vps_hosts or bridge_n8n_workflows.
Toggle(t) ==
    /\ enabled' = IF t \in enabled THEN enabled \ {t} ELSE enabled \cup {t}
    /\ UNCHANGED <<body, pc, remote, outcome, audit, reply>>

HandlerStep(c) ==
    \/ Admit(c) \/ Reject(c) \/ RaiseInLookup(c)
    \/ Return(c) \/ GiveUp(c)
    \/ Record(c) \/ Tell(c)

Next ==
    \/ \E c \in Calls : \/ HandlerStep(c)
                        \/ RemoteStart(c) \/ RemoteAnswers(c) \/ RemoteEnd(c)
                        \/ RecordRejected(c) \/ GatewayTimeout(c) \/ ApiCrash(c)
    \/ \E t \in Targets : Toggle(t)

Spec == Init /\ [][Next]_vars

\* A step that the handler comes to: it has the answer, its timer fires, or it
\* has its outcome.
Due(c) ==
    \/ Return(c) \/ (TimerRuns(c) /\ GiveUp(c))
    \/ Record(c) \/ Tell(c)

\* asyncio runs a handler that can go on, and a timer that runs does fire; the
\* other machine owes nothing, nor does the connection to it.
Fairness == \A c \in Calls : WF_vars(Due(c))

FairSpec == Spec /\ Fairness

-----------------------------------------------------------------------------
(* Properties *)

\* Type correctness of the calls and their audit rows.
TypeOK ==
    /\ enabled \subseteq Targets
    /\ body \in [Calls -> Bodies]
    /\ pc \in [Calls -> {"idle", "calling", "record", "done", "raised", "dead"}]
    /\ remote \in [Calls -> {"none", "sent", "running", "answering", "ok", "failed"}]
    /\ outcome \in [Calls -> Outcomes \cup {"none"}]
    /\ audit \in [Calls -> [Outcomes -> 0..1]]
    /\ reply \in [Calls -> {"none", "200", "400", "500", "504"}]

Rows(c) == {o \in Outcomes : audit[c][o] > 0}

\* Each REST call that was answered by its handler, or would have been had nginx
\* waited, left one audit row; one whose handler raised left none, so that the
\* log never has a row for a transaction that was rolled back.
RestIsAudited ==
    \A c \in Calls : body[c].door = "rest" =>
        /\ pc[c] = "done" => outcome[c] # "none" /\ Rows(c) = {outcome[c]}
        /\ pc[c] # "done" => Rows(c) = {}

\* The column ok of a run is what the other machine reported, though it goes on
\* after the caller was given up and an operator may disable it meanwhile.
AuditTellsWhatHappened ==
    \A c \in Calls : \A o \in {"ok", "failed"} :
        audit[c][o] > 0 => remote[c] = o

\* No timer bounds the call while its answer trickles in.
Trickles(c) == body[c].bridge # "vps" /\ pc[c] = "calling" /\ remote[c] = "answering"

\* A handler that called another machine comes to an end, and an SSH command
\* always does: only n8n or the daemon can hold it, and only by an answer that has
\* begun and never ends.
CallEnds ==
    \A c \in Calls : []<>~Trickles(c) =>
        (pc[c] = "calling" ~> pc[c] \in {"done", "raised", "dead"})
=============================================================================
