----------------------------- MODULE TaskPipeline -----------------------------
(***************************************************************************)
(* The path of a task: the two handlers that create one (POST /command and *)
(* POST /skills/{name}/invoke), the Redis list between the api and the     *)
(* worker containers, the worker's executor, and the deletion of a project *)
(* a task refers to.  Every database commit, every read that a later step  *)
(* relies on, and every call to Redis is a step of its own.                *)
(***************************************************************************)
EXTENDS Naturals, Sequences, FiniteSets

CONSTANTS
    Requests,   \* requests that create a task; a request names its task too
    Workers,    \* `rq worker sistem` processes
    Projects,   \* project ids
    None,       \* SQL NULL
    Skills,     \* skill names
    Handler,    \* Handler[s]: the class of the column skills.handler
    Faults,     \* which failures the environment may inject
    MaxRuns     \* bound: a task that ended MaxRuns times is not delivered again

\* "native": sistem:<name>; "cowork": cowork:<plugin>:<skill>; "cc": cc:...;
\* "bad": any other prefix, or a cowork handler that does not split in three.
Handlers == {"native", "cowork", "cc", "bad"}

FaultKinds == {"api_crash", "db_lost", "enqueue_refused", "redis_crash", "worker_crash",
               "job_timeout", "requeue", "no_session"}

ASSUME NoneAssumption == None \notin Projects
ASSUME HandlerAssumption == Handler \in [Skills -> Handlers]
ASSUME FaultsAssumption == Faults \subseteq FaultKinds
ASSUME MaxRunsAssumption == MaxRuns \in Nat

VARIABLES
    live,       \* projects that have a row
    enabled,    \* skills with a row whose column enabled is true
    pc,         \* pc[r]: where the handler of request r stands
    body,       \* body[r]: what the client sends
    prj,        \* prj[r]: the handler's local prj_uuid
    reply,      \* reply[r]: the HTTP status the client got
    status,     \* status[r]: column tasks.status, "absent" before the INSERT
    project,    \* project[r]: column tasks.project_id
    result,     \* result[r]: what tasks.result holds
    announced,  \* tasks whose creation is in the audit log
    ended,      \* ended[r][s]: number of audit rows task.<s> of the task
    queue,      \* the Redis list of the RQ queue "sistem"
    abandoned,  \* jobs in RQ's failed registry
    wpc,        \* wpc[w]: where worker w stands in _run
    job,        \* job[w]: the task id the worker was called with
    pid,        \* pid[w]: task.project_id as loaded, never refreshed
    handler,    \* handler[w]: class of skill.handler, "none" if not usable
    context     \* context[w]: the local pack_context

apiVars == <<pc, body, prj, reply>>
rowVars == <<status, project, result>>
auditVars == <<announced, ended>>
rqVars == <<queue, abandoned>>
workerVars == <<wpc, job, pid, handler, context>>
registryVars == <<live, enabled>>
vars == <<registryVars, apiVars, rowVars, auditVars, rqVars, workerVars>>

Final == {"done", "failed"}
Status == {"absent", "queued", "running"} \cup Final

\* A body of POST /command; explicit tells a project_id of the body from one
\* the resolver took out of the text.  Invoke has no resolver and no dry run.
Bodies ==
    [kind : {"command"}, skill : Skills, target : Projects \cup {None},
     explicit : BOOLEAN, execute : BOOLEAN]
    \cup
    [kind : {"invoke"}, skill : Skills, target : Projects \cup {None},
     explicit : {TRUE}, execute : {TRUE}]

\* The pack that a value may carry: none, secrets masked, secrets in clear.
Packs == {"none", "masked", "plain"}
Results == [kind : {"null", "report", "native_error", "invoke", "stub"},
            pack : Packs]
NoResult == [kind |-> "null", pack |-> "none"]

Executing(w) == wpc[w] # "idle"
Held == {job[w] : w \in {v \in Workers : Executing(v)}}
Waiting == {queue[i] : i \in 1..Len(queue)}

Init ==
    /\ live \in SUBSET Projects
    /\ enabled = Skills
    /\ pc = [r \in Requests |-> "idle"]
    /\ body \in [Requests -> Bodies]
    /\ prj = [r \in Requests |-> None]
    /\ reply = [r \in Requests |-> "none"]
    /\ status = [r \in Requests |-> "absent"]
    /\ project = [r \in Requests |-> None]
    /\ result = [r \in Requests |-> NoResult]
    /\ announced = {}
    /\ ended = [r \in Requests |-> [s \in Final |-> 0]]
    /\ queue = << >>
    /\ abandoned = {}
    /\ wpc = [w \in Workers |-> "idle"]
    /\ job \in [Workers -> {None}]
    /\ pid = [w \in Workers |-> None]
    /\ handler = [w \in Workers |-> "none"]
    /\ context = [w \in Workers |-> "none"]

-----------------------------------------------------------------------------
(* The handlers of the api *)

Answer(r, code) ==
    /\ pc' = [pc EXCEPT ![r] = "done"]
    /\ reply' = [reply EXCEPT ![r] = code]

Goto(r, label) ==
    /\ pc' = [pc EXCEPT ![r] = label]
    /\ UNCHANGED reply

\* command() resolves the text; invoke() first wants an enabled skill.
Receive(r) ==
    /\ pc[r] = "idle"
    /\ IF body[r].kind = "command" \/ body[r].skill \in enabled
         THEN Goto(r, "lookup")
         ELSE Answer(r, "404")
    /\ UNCHANGED <<registryVars, body, prj, rowVars, auditVars, rqVars,
                   workerVars>>

\* A missing project is an error only when the body named it.  A dry run of
\* a command ends here.
Lookup(r) ==
    LET found == body[r].target \in live IN
    /\ pc[r] = "lookup"
    /\ prj' = [prj EXCEPT ![r] = IF found THEN body[r].target ELSE None]
    /\ IF body[r].target # None /\ ~found /\ body[r].explicit
         THEN Answer(r, "404")
         ELSE IF body[r].execute THEN Goto(r, "write") ELSE Answer(r, "200")
    /\ UNCHANGED <<registryVars, body, rowVars, auditVars, rqVars, workerVars>>

\* A foreign key to projects holds when the row is still there.
ForeignKeyHolds(p) == p \in live \cup {None}

\* The commit of the task row, with the audit row for a command.
Write(r) ==
    /\ pc[r] = "write"
    /\ ForeignKeyHolds(prj[r])
    /\ status' = [status EXCEPT ![r] = "queued"]
    /\ project' = [project EXCEPT ![r] = prj[r]]
    /\ announced' = IF body[r].kind = "command" THEN announced \cup {r}
                                                ELSE announced
    /\ Goto(r, "enqueue")
    /\ UNCHANGED <<registryVars, body, prj, result, ended, rqVars, workerVars>>

\* Mutants of WriteRejected: the job is enqueued although the commit failed, and
\* the audit row of the request is committed on its own.
RejectedBut(r) ==
    /\ pc[r] = "write"
    /\ ~ForeignKeyHolds(prj[r])
    /\ Answer(r, "500")
    /\ UNCHANGED <<registryVars, body, prj, rowVars, ended, abandoned, workerVars>>

WriteRejectedEnqueues(r) ==
    RejectedBut(r) /\ queue' = Append(queue, r) /\ UNCHANGED announced

WriteRejectedAnnounces(r) ==
    RejectedBut(r) /\ announced' = announced \cup {r} /\ UNCHANGED queue

\* The project went away after Lookup: the INSERT fails, nothing is stored.
WriteRejected(r) ==
    /\ pc[r] = "write"
    /\ ~ForeignKeyHolds(prj[r])
    /\ Answer(r, "500")
    /\ UNCHANGED <<registryVars, body, prj, rowVars, auditVars, rqVars,
                   workerVars>>

\* Mutants of Enqueue: the id is rendered before the flush has assigned it, an
\* enqueue that timed out is tried again, only commands are enqueued.
EnqueueJobs(r, jobs) ==
    /\ pc[r] = "enqueue"
    /\ queue' = queue \o jobs
    /\ Answer(r, "200")
    /\ UNCHANGED <<registryVars, body, prj, rowVars, auditVars, abandoned, workerVars>>

EnqueueBeforeFlush(r) == EnqueueJobs(r, <<None>>)
EnqueueTwice(r) == EnqueueJobs(r, <<r, r>>)
EnqueueCommandsOnly(r) ==
    EnqueueJobs(r, IF body[r].kind = "command" THEN <<r>> ELSE << >>)

\* Whether or not Redis took the job, the client is told it is queued.
Enqueue(r) ==
    /\ pc[r] = "enqueue"
    /\ \/ queue' = Append(queue, r)
       \/ /\ "enqueue_refused" \in Faults
          /\ UNCHANGED queue
    /\ Answer(r, "200")
    /\ UNCHANGED <<registryVars, body, prj, rowVars, auditVars, abandoned,
                   workerVars>>

\* The session loses its connection, or gets none for the refresh() after the
\* commit: a 500, which leaves the row, if it is committed, without a job.
SessionLost(r) ==
    /\ "db_lost" \in Faults
    /\ pc[r] \in {"lookup", "write", "enqueue"}
    /\ Answer(r, "500")
    /\ UNCHANGED <<registryVars, body, prj, rowVars, auditVars, rqVars,
                   workerVars>>

\* The api process dies.
ApiCrash(r) ==
    /\ "api_crash" \in Faults
    /\ pc[r] \in {"lookup", "write", "enqueue"}
    /\ pc' = [pc EXCEPT ![r] = "dead"]
    /\ UNCHANGED <<registryVars, body, prj, reply, rowVars, auditVars, rqVars,
                   workerVars>>

-----------------------------------------------------------------------------
(* The worker *)

Dequeue(w) ==
    /\ wpc[w] = "idle"
    /\ queue # << >>
    /\ job' = [job EXCEPT ![w] = Head(queue)]
    /\ queue' = Tail(queue)
    /\ wpc' = [wpc EXCEPT ![w] = "load"]
    /\ UNCHANGED <<registryVars, apiVars, rowVars, auditVars, abandoned, pid,
                   handler, context>>

\* The job is over for the worker, and the locals of _run with it.
Leave(w) ==
    /\ wpc' = [wpc EXCEPT ![w] = "idle"]
    /\ job' = [job EXCEPT ![w] = None]
    /\ pid' = [pid EXCEPT ![w] = None]
    /\ handler' = [handler EXCEPT ![w] = "none"]
    /\ context' = [context EXCEPT ![w] = "none"]

\* It ended with an exception: RQ files it as failed, nothing retries it.
Abandon(w) ==
    /\ Leave(w)
    /\ abandoned' = abandoned \cup {job[w]}

\* SELECT the task and commit "running", whatever its status was.
Load(w) ==
    LET t == job[w]
        known == status[t] # "absent" IN
    /\ wpc[w] = "load"
    /\ status' = IF known THEN [status EXCEPT ![t] = "running"] ELSE status
    /\ pid' = [pid EXCEPT ![w] = project[t]]
    /\ wpc' = [wpc EXCEPT ![w] = IF known THEN "skill" ELSE "ack"]
    /\ UNCHANGED <<registryVars, apiVars, project, result, auditVars, rqVars,
                   job, handler, context>>

\* No session: the settings of the worker's environment do not validate, or
\* the database is away.  The exception leaves _run before any commit.
LoadRejected(w) ==
    /\ wpc[w] = "load"
    /\ "no_session" \in Faults
    /\ Abandon(w)
    /\ UNCHANGED <<registryVars, apiVars, rowVars, auditVars, queue>>

\* Mutant: a skill that is not enabled ends the job without _finish.
LoadSkillReturns(w) ==
    LET s == body[job[w]].skill IN
    /\ wpc[w] = "skill"
    /\ handler' = [handler EXCEPT ![w] =
                     IF s \in enabled THEN Handler[s] ELSE "none"]
    /\ wpc' = [wpc EXCEPT ![w] = IF s \in enabled THEN "project" ELSE "ack"]
    /\ UNCHANGED <<registryVars, apiVars, rowVars, auditVars, rqVars, job, pid,
                   context>>

LoadSkill(w) ==
    LET s == body[job[w]].skill IN
    /\ wpc[w] = "skill"
    /\ handler' = [handler EXCEPT ![w] =
                     IF s \in enabled THEN Handler[s] ELSE "none"]
    /\ wpc' = [wpc EXCEPT ![w] = IF s \in enabled THEN "project" ELSE "finish"]
    /\ UNCHANGED <<registryVars, apiVars, rowVars, auditVars, rqVars, job, pid,
                   context>>

\* Mutant: every handler gets the decrypted pack.
LoadProjectPlain(w) ==
    /\ wpc[w] = "project"
    /\ context' = [context EXCEPT ![w] =
                     IF pid[w] \notin live THEN "none" ELSE "plain"]
    /\ wpc' = [wpc EXCEPT ![w] = "finish"]
    /\ UNCHANGED <<registryVars, apiVars, rowVars, auditVars, rqVars, job, pid,
                   handler>>

\* Native skills get the decrypted pack, all others the masked one.
LoadProject(w) ==
    /\ wpc[w] = "project"
    /\ context' = [context EXCEPT ![w] =
                     IF pid[w] \notin live THEN "none"
                     ELSE IF handler[w] = "native" THEN "plain" ELSE "masked"]
    /\ wpc' = [wpc EXCEPT ![w] = "finish"]
    /\ UNCHANGED <<registryVars, apiVars, rowVars, auditVars, rqVars, job, pid,
                   handler>>

\* What the handler returns.  A native skill that cannot work without a pack
\* returns an error dict, which counts as a result; its report carries goals,
\* channels or competitors, no integration.  A cowork skill's result embeds
\* the context.
ResultOf(h, c) ==
    CASE h = "native" -> [kind |-> IF c = "none" THEN "native_error"
                                                 ELSE "report",
                          pack |-> "none"]
      [] h = "cowork" -> [kind |-> "invoke", pack |-> c]
      [] h = "cc"     -> [kind |-> "stub", pack |-> "none"]
      [] OTHER        -> NoResult

\* How a handler may end: a native one raises over a pack it does not expect, one
\* that is unknown always fails, and RQ's timeout is an exception in any.
Outcomes(h) ==
    {ok \in BOOLEAN :
        IF ok THEN h \in {"native", "cowork", "cc"}
              ELSE h \notin {"cowork", "cc"} \/ "job_timeout" \in Faults}

\* Mutants of the transaction of _finish: audited says whether this end is
\* written to the audit log, cleared whether a failure clears the result.
FinishBut(w, audited(_), cleared) ==
    LET t == job[w] IN
    /\ wpc[w] = "finish"
    /\ ForeignKeyHolds(pid[w])
    /\ \E ok \in Outcomes(handler[w]) :
         LET s == IF ok THEN "done" ELSE "failed" IN
         /\ status' = [status EXCEPT ![t] = s]
         /\ result' = [result EXCEPT ![t] =
                         IF ok THEN ResultOf(handler[w], context[w])
                               ELSE IF cleared THEN NoResult ELSE @]
         /\ ended' = [ended EXCEPT ![t][s] = IF audited(ok) THEN @ + 1 ELSE @]
    /\ wpc' = [wpc EXCEPT ![w] = "ack"]
    /\ UNCHANGED <<registryVars, apiVars, project, announced, rqVars, job, pid,
                   handler, context>>

\* Mutant: only a success is audited.
FinishAuditsSuccess(w) == FinishBut(w, LAMBDA ok : ok, TRUE)

\* Mutant: row and audit row are two commits, and the second may be lost.
FinishTwoCommits(w) ==
    \E lost \in BOOLEAN : FinishBut(w, LAMBDA ok : ~lost, TRUE)

\* Mutant: a failure leaves the result of an earlier run in the row.
FinishKeepsResult(w) == FinishBut(w, LAMBDA ok : TRUE, FALSE)

\* The transaction of _finish: the row and its audit row, whose project_id is
\* the one loaded with the task.  What the handler raises, RQ's timeout too, is
\* caught and recorded as a failure.
Finish(w) ==
    LET t == job[w] IN
    /\ wpc[w] = "finish"
    /\ ForeignKeyHolds(pid[w])
    /\ \E ok \in Outcomes(handler[w]) :
         LET s == IF ok THEN "done" ELSE "failed" IN
         /\ status' = [status EXCEPT ![t] = s]
         /\ result' = [result EXCEPT ![t] =
                         IF ok THEN ResultOf(handler[w], context[w])
                               ELSE NoResult]
         /\ ended' = [ended EXCEPT ![t][s] = @ + 1]
    /\ wpc' = [wpc EXCEPT ![w] = "ack"]
    /\ UNCHANGED <<registryVars, apiVars, project, announced, rqVars, job, pid,
                   handler, context>>

\* The project went away after Load: the audit INSERT fails, the whole
\* transaction with it, and the exception leaves _run.
FinishRejected(w) ==
    /\ wpc[w] = "finish"
    /\ ~ForeignKeyHolds(pid[w])
    /\ Abandon(w)
    /\ UNCHANGED <<registryVars, apiVars, rowVars, auditVars, queue>>

\* run_task returned; RQ files the job as finished.
Ack(w) ==
    /\ wpc[w] = "ack"
    /\ Leave(w)
    /\ UNCHANGED <<registryVars, apiVars, rowVars, auditVars, rqVars>>

\* The worker process is killed, or RQ's timeout strikes outside the handler:
\* what is committed stays, the rest of the job never happens.
JobLost(w) ==
    /\ Faults \cap {"worker_crash", "job_timeout"} # {}
    /\ Executing(w)
    /\ Abandon(w)
    /\ UNCHANGED <<registryVars, apiVars, rowVars, auditVars, queue>>

-----------------------------------------------------------------------------
(* The environment *)

Runs(t) == ended[t]["done"] + ended[t]["failed"]

\* `rq requeue` by an operator.  Nothing in the program does it.
Requeue(t) ==
    /\ "requeue" \in Faults
    /\ t \in abandoned
    /\ Runs(t) < MaxRuns
    /\ abandoned' = abandoned \ {t}
    /\ queue' = Append(queue, t)
    /\ UNCHANGED <<registryVars, apiVars, rowVars, auditVars, workerVars>>

\* Redis restarts from an append-only file that lacks its last operation: a
\* job is off the list again, or one just taken is back on it.
RedisCrash ==
    /\ "redis_crash" \in Faults
    /\ \/ /\ queue # << >>
          /\ queue' = SubSeq(queue, 1, Len(queue) - 1)
       \/ \E w \in Workers :
            /\ wpc[w] = "load"
            /\ job[w] \notin Waiting
            /\ Runs(job[w]) < MaxRuns
            /\ queue' = <<job[w]>> \o queue
    /\ UNCHANGED <<registryVars, apiVars, rowVars, auditVars, abandoned,
                   workerVars>>

\* DELETE /users/{uid}/projects/{pid}: tasks.project_id is ON DELETE SET NULL.
DeleteProject(p) ==
    /\ p \in live
    /\ live' = live \ {p}
    /\ project' = [r \in Requests |->
                     IF project[r] = p THEN None ELSE project[r]]
    /\ UNCHANGED <<enabled, apiVars, status, result, auditVars, rqVars,
                   workerVars>>

\* An operator clears skills.enabled; the api has no operation for it.
DisableSkill(s) ==
    /\ s \in enabled
    /\ enabled' = enabled \ {s}
    /\ UNCHANGED <<live, apiVars, rowVars, auditVars, rqVars, workerVars>>

-----------------------------------------------------------------------------
ApiStep(r) == Receive(r) \/ Lookup(r) \/ Write(r) \/ WriteRejected(r)
              \/ Enqueue(r)

WorkerStep(w) == Dequeue(w) \/ Load(w) \/ LoadRejected(w)
                 \/ LoadSkill(w) \/ LoadProject(w) \/ Finish(w)
                 \/ FinishRejected(w) \/ Ack(w)

Next ==
    \/ \E r \in Requests : ApiStep(r) \/ SessionLost(r) \/ ApiCrash(r) \/ Requeue(r)
    \/ \E w \in Workers : WorkerStep(w) \/ JobLost(w)
    \/ RedisCrash
    \/ \E p \in Projects : DeleteProject(p)
    \/ \E s \in Skills : DisableSkill(s)

Spec == Init /\ [][Next]_vars

\* uvicorn goes on with a handler it started and an idle rq worker takes the
\* next job; nobody has to send a request, delete a project or fail.
Fairness ==
    /\ \A r \in Requests : WF_vars(pc[r] # "idle" /\ ApiStep(r))
    /\ \A w \in Workers : WF_vars(WorkerStep(w))

FairSpec == Spec /\ Fairness

-----------------------------------------------------------------------------
(* Properties *)

\* Type correctness of the columns, the locals and the queue.
TypeOK ==
    /\ live \subseteq Projects
    /\ enabled \subseteq Skills
    /\ pc \in [Requests -> {"idle", "lookup", "write", "enqueue", "done",
                            "dead"}]
    /\ body \in [Requests -> Bodies]
    /\ prj \in [Requests -> Projects \cup {None}]
    /\ reply \in [Requests -> {"none", "200", "404", "500"}]
    /\ status \in [Requests -> Status]
    /\ project \in [Requests -> Projects \cup {None}]
    /\ result \in [Requests -> Results]
    /\ announced \subseteq Requests
    /\ ended \in [Requests -> [Final -> Nat]]
    /\ queue \in Seq(Requests)
    /\ abandoned \subseteq Requests
    /\ wpc \in [Workers -> {"idle", "load", "skill", "project", "finish",
                            "ack"}]
    /\ job \in [Workers -> Requests \cup {None}]
    /\ \A w \in Workers : Executing(w) => job[w] \in Requests
    /\ pid \in [Workers -> Projects \cup {None}]
    /\ handler \in [Workers -> Handlers \cup {"none"}]
    /\ context \in [Workers -> Packs]

\* A job never precedes its row: whatever waits in Redis, is held by a worker
\* or lies in the failed registry has a committed task, so that "task not
\* found" is never the end of a job (command.py enqueues after the commit).
JobsAreCommitted ==
    \A t \in Waiting \cup Held \cup abandoned : status[t] # "absent"

\* At any moment a task is at one place: once in the list, or with one worker,
\* or in the failed registry.  No two workers ever write the same row, even
\* when jobs are requeued; only a Redis that forgets a pop breaks it.
OnePlace ==
    /\ \A i, j \in 1..Len(queue) : queue[i] = queue[j] => i = j
    /\ \A v, w \in Workers :
          Executing(v) /\ Executing(w) /\ job[v] = job[w] => v = w
    /\ Waiting \cap Held = {}
    /\ abandoned \cap (Waiting \cup Held) = {}

\* The row and the audit log agree under at-most-once delivery: a task has
\* one task.done row exactly when it is done, one task.failed row exactly when
\* it failed, and none before.
FinishAudited ==
    \A t \in Requests : \A s \in Final :
        ended[t][s] = IF status[t] = s THEN 1 ELSE 0

\* Under any delivery and any crash, the end a client reads in the row is in
\* the audit log: _finish commits both or neither.
EndIsInAuditLog ==
    \A t \in Requests : status[t] \in Final => ended[t][status[t]] > 0

\* What GET /tasks/{id} shows is consistent: a task that is done has a result,
\* and one that is queued or failed shows none, a stale one included.
ResultMatchesStatus ==
    \A t \in Requests :
        /\ status[t] = "done" => result[t] # NoResult
        /\ status[t] \in {"absent", "queued", "failed"} => result[t] = NoResult

\* No result, which the client reads and the audit log copies, carries a pack
\* with its secrets in clear, whatever worker ran it and however often.
ResultNeverPlain == \A t \in Requests : result[t].pack # "plain"

\* A client that was refused can repeat its request: a 404 leaves nothing, and
\* what a 500 leaves, the row of a commit whose refresh() failed, is queued, was
\* announced if a command asked for it, and never runs beside the repetition.
RefusedNeverRuns ==
    \A r \in Requests : reply[r] \in {"404", "500"} =>
        /\ r \notin Waiting \cup Held \cup abandoned
        /\ status[r] \in (IF reply[r] = "404" THEN {"absent"}
                                             ELSE {"absent", "queued"})
        /\ r \in announced <=> status[r] = "queued" /\ body[r].kind = "command"

\* In a run without faults a task that has not ended is on its way, unless
\* the project it was for has been deleted under the worker.
StrandedOnlyByDeletion ==
    \A t \in Requests : status[t] \in {"queued", "running"} =>
        \/ pc[t] = "enqueue"
        \/ t \in Waiting \cup Held
        \/ status[t] = "running" /\ prj[t] \in Projects \ live

StatusMoves ==
    \A t \in Requests : status'[t] # status[t] =>
        \/ status[t] = "absent" /\ status'[t] = "queued"
        \/ status[t] = "queued" /\ status'[t] = "running"
        \/ status[t] = "running" /\ status'[t] \in Final

\* Under at-most-once delivery a status only moves forward: queued, running,
\* then one final value that is never rewritten.
StatusMovesForward == [][StatusMoves]_vars

\* Without faults every accepted task ends, unless its project is deleted.
AcceptedEnds ==
    \A t \in Requests : status[t] = "queued" ~>
        status[t] \in Final \/ prj[t] \in Projects \ live

\* What the docstring of the executor says: a job that was started has its
\* finish recorded and its result written to the task.
StartedTaskFinishes ==
    \A t \in Requests : status[t] = "running" ~> status[t] \in Final

\* Under at-most-once delivery the pipeline implements the life cycle a client
\* of GET /tasks/{id} relies on.
Lifecycle == INSTANCE TaskLifecycle
               WITH Tasks <- Requests, ended <- [t \in Requests |-> Runs(t)]
ImplementsLifecycle == Lifecycle!Spec
=============================================================================
