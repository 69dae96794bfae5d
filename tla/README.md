# TLA+ models of Sistem Core

Sistem Core is an API that turns commands of an entrepreneur ("make a KPI
report for project X") into tasks, runs them in a worker, keeps projects with
their secrets, and calls other machines through bridges. The modules here model
its concurrent and failure-prone parts; paths below are relative to the
repository, with `app/sistem/` left out where it is clear.

## The system

| Part | State | Operations | Talks to |
|---|---|---|---|
| task pipeline: `routers/command.py`, `routers/skills.py`, `services/queue.py`, `services/executor.py` | `tasks`, `audit_log`, RQ list and failed registry in Redis, locals of `_run` | `POST /command`, `POST /skills/{name}/invoke`, `GET /tasks/{id}`, `run_task` | Postgres, Redis, project registry, skills |
| skill resolver: `services/skill_resolver.py` | none (rules in the code) | `resolve` | called by `command` with the projects of the user |
| OAuth: `routers/oauth.py` | `_CLIENTS`, `_AUTH_CODES`, one of each per process | register, authorize, token | Postgres (the owner's row) |
| auth: `routers/auth.py`, `deps.py`, `security.py` | `users`; tokens are signed, kept nowhere | login, refresh, the check of a token | every endpoint |
| project registry: `routers/projects.py` | `projects` | create, import, get, update, delete | secrets, pack validator |
| memory: `routers/memory.py` | `memory_project`, `memory_universal` (`memory_insights` is only read) | add, query | project registry |
| pack secrets: `security.py` | ciphertexts within `projects.pack` | encrypt, decrypt, mask | registry, MCP, executor |
| database sessions: `db.py` | a pool of 10 + 5 connections per process | `get_session`, `session_ctx`, `ping` | every endpoint |
| MCP: `routers/mcp.py` | `audit_log` | one tool per operation of the above, `sistem_log_event` | calls the handlers and bridges in-process |
| bridges: `routers/bridges.py`, `services/bridge_*.py` | `bridge_vps_hosts`, `bridge_n8n_workflows`, `audit_log` | run on a host, trigger a workflow, run Claude Code | SSH hosts, n8n, the daemon |
| daemon: `cc-daemon/main.py` | the files of a workspace | `POST /run` | `claude` processes |
| bootstrap: `services/bootstrap.py`, `main.py` | rows of defaults | lifespan of each uvicorn worker | Postgres |
| deployment: `deploy/`, `app/Dockerfile` | – | nginx, 2 uvicorn workers, 1 rq worker, Redis with an append-only file | all |

What is hard: a task crosses two databases (Postgres, Redis) without a
transaction over both; handlers `await` the database between a check and the
use of what was checked; worker and api may die at any step; the worker keeps
the row of a task, as loaded, to the end of the job; OAuth keeps state in one of
several processes; bridges start effects that outlive their caller; the daemon
compares snapshots of a directory that others write to; a request holds one of
fifteen connections while it waits for another machine; a token is valid by
its signature, and users are edited under it; the tables are defined
twice, in `db/schema.sql` and in `models.py`, with different types.

What makes each part correct:

* pipeline: a job has a committed row; a task ends at most once under
  at-most-once delivery; row and audit log agree; an accepted task ends; no
  secret reaches a result.
* resolver: the project is one with the strongest kind of match; the order of
  rows decides only ties.
* OAuth: a code is used once; a failed attempt does not spend it; a session that
  is kept up at `/oauth/token` ends with its refresh token; what is registered is
  known.
* registry and memory: one project per slug; a deleted project stays deleted,
  its memories too; columns follow the pack; a logged event outlives its project.
* secrets: what is sent as a string without the prefix of sealed values lies
  sealed, whatever is edited; what was sent is what is kept.
* bridges: a call that ended is audited with what really happened; a call ends,
  unless its answer trickles in for ever.
* daemon: the report is right for what nobody wrote beside the run.
* bootstrap: a worker that says it is ready has the defaults.
* auth: only the tenant or an admin acts on a tenant, and was active when it
  began; a suspended user's tokens run out.
* sessions: no connection is lost, and an exhausted pool recovers.

`PROJECT.json` lists the components, the hazards line by line, and the lines
behind each definition.

## Modules

| Module | Models |
|---|---|
| `TaskLifecycle` | the promise to a client of `GET /tasks/{id}`: accepted, started, ended once, the end audited |
| `TaskPipeline` | how it is kept: two handlers, Redis, executor, deletion of projects, faults |
| `SkillResolver` | `resolve` over abstract texts, and the changing table it reads |
| `OAuth` | registration, codes and tokens over several processes |
| `ProjectRegistry` | concurrent create, update, delete of projects, additions of memories, logging of events |
| `PackSecrets` | sealing, opening and masking, clients that edit a pack, changes of the key |
| `Bridges` | the three bridges by REST and MCP, the remote machine, nginx |
| `CcDaemon` | concurrent `POST /run` in one workspace |
| `BridgeToDaemon` | `Bridges` with `CcDaemon` as the other machine of a Claude Code call |
| `Entry` | login, refresh, the checks of a token by REST and MCP, and the pool of connections |
| `Bootstrap` | the transaction of several workers that start together |
| `TaskPipelineProofs`, `SkillResolverProofs`, `OAuthProofs`, `ProjectRegistryProofs`, `PackSecretsProofs`, `EntryProofs`, `BootstrapProofs` | theorems about the module of that name |
| `BridgeToDaemonProofs` | theorems about `Bridges`, `CcDaemon` and their composition |
| `MC…` | values and symmetry for TLC |

`TaskLifecycle` is the abstract specification of `TaskPipeline`, which
implements it under the mapping `ended <- Runs` (property `ImplementsLifecycle`).
`BridgeToDaemon` extends `Bridges` and instantiates `CcDaemon`; its steps are
steps of one, of the other, or of both where the daemon hears of a call and
answers it. What `Entry` calls "acting" is a handler of one of the other modules.

How the modules correspond to the code:

* **TaskPipeline.** `pc[r]` is where the handler stands: `Receive` (the skill
  check of `invoke`, the resolution of `command`), `Lookup` (the SELECT of the
  project, the 404 and the dry run), `Write` (the commit of task and audit row),
  `Enqueue`. `wpc[w]` is where `_run` stands: `Load` is the SELECT and the commit
  of `running`, `LoadSkill`, `LoadProject`, `Finish` (`_finish`, one
  transaction), `Ack`. Each commit, each SELECT that a later step relies on and
  each call to Redis is a step. A task has the name of its request. `pid[w]` is
  `task.project_id` as the session loaded it (`expire_on_commit=False`).
  `Handler` gives the class of `skills.handler`. `Faults` selects what the
  environment may do: `api_crash`, `db_lost` (a session gets no connection, the one
  of the `refresh()` after the commit included), `enqueue_refused`, `redis_crash`,
  `worker_crash`, `job_timeout`, `requeue`, and `no_session` (the worker's
  settings do not validate: `deploy/docker-compose.yml` gives it no JWT keys and
  `config.py` requires them).
  `Outcomes` has the ways a handler may end: a native one may raise.
* **SkillResolver.** A text is the record of what in it matches something. The
  order of `table` is that of a SELECT without ORDER BY, so `Update` may move a
  row. `Within` holds the pairs of slugs of which one stands in the other
  between word boundaries.
* **OAuth.** Between the arrival of a token request and its checks lies one
  `await`; after it everything up to the answer is one step. `SessionEnds` is
  about `/oauth/token`, which keeps the refresh token: `POST /auth/refresh`
  (`routers/auth.py:42`) takes the same token and returns a new pair, so that a
  session kept up there does not end (`Entry` has that door).
* **ProjectRegistry.** SELECT, commit and `session.refresh` are three steps.
  `entry[q]` is the memory or audit row of a request: the deletion of a project
  takes its memories along and leaves its events without a project.
  `loaded[q]` is the row as selected: the session's UPDATE names the columns
  that differ from it; a pack with secrets always does, since sealing draws a
  nonce. A path in `KeyShaped`, the slugs that look like a UUID, is looked up as a
  key only. `TagsFit` says which of the two definitions of the tables is in force.
* **PackSecrets.** A value is a text and how it is written: sealed under a key, as
  a string in the clear, as one that was typed with the prefix `enc:`, or as no
  string at all, which the schema allows for the tokens of some channels. `Left`
  has the values that `encrypt_pack_secrets` passes over. `copy[c]` is the pack a
  client was shown and edits.
* **Bridges.** `remote[c]` is the other machine's side, which goes on after
  `GiveUp`: it is sent the call, runs, answers (`RemoteAnswers` is the first bytes)
  and ends, or stops anywhere. `TimerRuns` says where the bridge's timer bounds the
  rest of the call: always for an SSH command, which is under `asyncio.wait_for`,
  and until the answer begins for httpx, whose timeout is of each read.
  `GatewayTimeout` is nginx's `proxy_read_timeout`; the handler is not
  cancelled by it. A transaction opened by the lookup is held during the call
  and may be lost (`db_lost`); a handler that raises ends in `raised`.
* **CcDaemon.** `_snapshot` has no `await`, so one handler of the loop snapshots
  at a time, file by file (`Visit`, `Stat`, `Read`), while processes write: those
  of other runs, and what the run's own process has left in the background, which
  goes on after `communicate()` has returned and after the answer (`WriteFile` needs
  only that the run was started). `first`, `truth` and `disturbed` only record what
  happened; a write of a run to its own files before its process ends is none that
  disturbs it.
* **BridgeToDaemon.** `DaemonStarts` is `Start` of the daemon and `RemoteStart`
  of the bridge in one, `DaemonAnswers` its `Respond` and `RemoteAnswers`. A
  refusal, a 408 and a 500 of the daemon reach the bridge as `GiveUp`, which its own
  timer is too. Runs that are not calls are those of other clients.
* **Entry.** A request is a door (login, refresh, the refresh of `/oauth/token`,
  a REST endpoint, MCP, `/status`), a user and the tenant of the path. It decodes
  its token (`Arrive`), takes a connection (`Connect`) or times out, reads the
  row of its user (`Ask`), is let in or refused by that row, works, and commits
  and rereads, once. `stood` records what its user has been since it arrived,
  `active` when each user was active last. Of a user's tokens only the newest is
  kept: the others expire before it. An owner is an admin to the checks, an
  operator a viewer. Statuses of answers, passwords and signatures are abstracted
  to their verdict. A row reaches the check that reads it within one unit of the
  clock; a unit stands for minutes, and the check follows the SELECT at once.
* **Bootstrap.** READ COMMITTED; one step per SELECT and per INSERT flushed by
  the session; an INSERT waits for an open transaction with the same key.
  `tagsFit` says which of the two definitions the tables have; `AddHost` is the host
  put in by hand, which the tables of `schema.sql` need before a start succeeds.

## Runs

Each run asks one question, and PROJECT.json names for each property a change of
the code, written as a mutant in the module, that breaks it.

| Run | Shows | Bounds |
|---|---|---|
| PipelineAtMostOnce | `TaskLifecycle` is implemented, ends are audited once, what was refused never runs, a task is at one place, with every fault but redelivery | 2 requests, 2 workers, 1 project, handlers native, cowork and unknown |
| PipelineRedelivery | rows before jobs, audited ends, no stale result, no plain pack, with `rq requeue` and a Redis that forgets | 1 request, 2 workers, 2 runs of a task |
| PipelineProgress | accepted tasks end (fair, no faults); only a deletion strands one | 2 requests, 2 workers |
| OAuthCodes | a code is used once, failed attempts cost nothing, sessions end | 2 processes that restart, 2 clients, 1 code, 2 requests, 3 ticks |
| RegistryConcurrent | slugs, deletions, columns, events that outlive their project | 4 requests, 2 keys, 2 slugs of which one looks like a key, 2 names |
| ResolverMatches | best match, order only on ties | 3 slugs, 2 projects at a time, 2 clues in a text |
| SecretsEdit | strings are sealed at rest, last PUT kept | 1 token, 1 integration, 2 clients, 2 keys, every way of writing a value |
| BridgesToDaemon | audit and end of a call (fair), agreement of audit and daemon, exact reports, unbroken snapshots | 1 call with the 12 bodies of `MCAsked`, 1 run of another client, 3 contents, the files of `InPlay` |
| EntryRequests | who acts had the standing, tokens die with it, the pool is whole and recovers (fair) | 2 requests at a time, of 9 kinds, 2 users, 1 connection, tokens of 1 and 2 ticks, 3 moments |
| BootstrapStarts | ready means complete; a worker that failed is provided for | 2 processes, 2 skills, 2 starts, both definitions of the tables |

Why these bounds: the races are between two handlers, two workers or two
processes over one row, and each run has two of them (four requests in the
registry: a create, an update, a delete and one more). A task that runs twice is
the first to show a stale result. Two clues in a text are a match of two kinds
or a tie. Two names are an update and an overlapping one. With a refresh token
of two ticks, three are enough for a session to outlive it. One connection for
two requests is a pool at its limit: each of the two can be the one that holds it
through a call, that times out, or that needs it again after its commit. Calls of
bridges share only the registry, and meet in the daemon: there the second run is
any run beside the call, and one file of three contents, one of them large, is
enough to appear, change, grow too large and vanish. A second file, there with one
content or not at all, is beside the run of another client whose call the daemon
refuses, so that an undisturbed file stands beside one that the run's own children
write (`InPlay`). The bodies are those of both doors, each verdict of the checks,
and each way to time out.

## Divergences

Two runs must find violated what a comment of the repository says:

| Run | Statement | Counterexample |
|---|---|---|
| PipelineStaleProject | a started task has its finish recorded (`services/executor.py:12`) | its project is deleted meanwhile; the audit row's foreign key fails and the task stays `running` |
| OAuthTwoProcesses | one instance, no database needed (`routers/oauth.py:37`) | two uvicorn workers: a client is unknown to the other |

Others met while modelling. The actions named are the code as it is; no run
states the sentence that they contradict.

| Statement | What the code does |
|---|---|
| `routers/command.py:93`: "queue unavailable, task %s will run later"; `routers/skills.py:74` says the same | `Enqueue` with `enqueue_refused`: the row stays queued, nothing enqueues it again |
| control skill, `SKILL.md:49`: an unknown project in the text is a 404 | `Lookup` answers 404 only for a `project_id` of the body; the task runs without a project |
| `docs/ARCHITECTURE.md:73`: all commands are in the audit log; `schema.sql:173` lists `skill.invoke` | `Write` for `invoke` commits no audit row |
| `db/schema.sql:54`: slug is `project.id` of the pack | `Update` stores a pack with another id and leaves the slug |
| `_types.py:53`: no ORM write to array columns | `Remember` (`POST /memory/projects/{pid}`) is one, and with `ProjectRegistry!TagsFit = FALSE`, the tables of `schema.sql`, it always fails |
| `services/bootstrap.py:1`: the bootstrap provides the defaults | `FlushHostRejected` with `tagsFit = FALSE`: `allow_cmds` does not fit `TEXT[]`, all is rolled back unless the host is there |
| `docs/PROJECT_PACK_SPEC.md:170`: tokens and integrations are encrypted when stored (also `:85`, `:134`, `db/schema.sql:59`) | `Left`: a string that begins with `enc:` (`security.py:114`, `:119`), and a token that is no string, is stored as it was sent |
| `docs/ARCHITECTURE.md:262`: every bridge has a hard timeout | `TimerRuns`: n8n and the daemon can hold a call for ever by an answer that trickles in (`bridge_n8n.py:63`, `bridge_cc.py:45`) |
| `services/skill_resolver.py:52`: the project is found by its slug | `BySlug`: the text `auto-2` matches the slug `auto` |
| `routers/skills.py:74`, as above | `SessionLost`: when the `refresh()` after the commit fails, the answer is a 500, the row stays queued, and the client that repeats makes a second one |
| `deps.py:37`: a suspended user is refused | `Admits`: MCP (`mcp.py:151`) asks only that the row is there, so a suspended user acts by MCP until the access token expires; `OwnerAccess`: `/oauth/token` makes a token of the owner for any refresh token that is alive, whatever the status of its user or of the owner |
| `docs/PROJECT_PACK_SPEC.md:170`: the owner's direct request shows no mask | `Put` of a masked pack makes `****` the secret |
| `services/bridge_vps.py:6`, `docs/ARCHITECTURE.md:261`: every bridge call is audited | `Tell`: not by MCP; `RaiseInLookup`: not when a pattern of `allow_cmds` is no regex, or a name means two workflows |
| `services/bridge_vps.py:7`: the timeout may be raised to 300 s | `GatewayTimeout`: nginx answers after 90 s |
| `cc-daemon/main.py:4`: the list of the files this run changed | `Diff`: it has those of another run in the workspace |
| `cc-daemon/main.py:117`: SHA-1 of all files | `Stat`: a file above 5 MB counts as missing |

## Fairness

`TaskPipeline!Fairness`: a handler that has begun is continued by uvicorn, and
an idle rq worker takes the next job and carries it through. Nobody has to send
a request or delete a project, and no fault has to happen. `BridgeToDaemon`
takes over `Bridges!Fairness`: a handler that has its answer goes on, and a timer
that runs fires; the other machine owes nothing, neither to take the call nor to
answer it. The timer of an SSH call bounds the whole command, while the connection
before it has the login timeout of asyncssh. httpx applies its timeout to the
connect and to each read and write: a silent machine is given up, one that goes on
answering a little at a time is not, and `CallEnds` promises nothing of a call that
is held that way for ever. `Entry!Fairness`: a request that can go on does, the
timer of the pool fires, and a handler comes to its end, which for one that calls
another machine is what `CallEnds` says: `PoolDrains` assumes that no answer
trickles in for ever. The other properties are of safety and assume
nothing.

## Proofs

Each safety invariant and each action property that a passing run checks is
also a theorem, for every value of the constants that the named assumptions
allow: any number of requests, processes, workers, projects, files or users, any
lifetimes and bounds. The theorems about the task pipeline that need fewer
faults say so in their hypotheses; all others hold under every fault the module
has. A theorem follows from an inductive invariant; what that has beyond the
property, and why it is needed:

**TaskPipelineProofs**

| Theorem | Property | The invariant adds |
|---|---|---|
| `TypeCorrect` | `TypeOK` | nothing; the rest builds on it |
| `JobsCommitted` | `JobsAreCommitted` | a handler past `Write` has a row; as `RedisCrash` puts back what a worker holds, waiting, held and abandoned jobs are treated at once |
| `EndAudited` | `EndIsInAuditLog` | nothing |
| `ResultsMatch` | `ResultMatchesStatus` | a held job has a row (`CommittedInv`), and a handler before its commit has none, so that no row is born with a result |
| `NoPlainResult` | `ResultNeverPlain` | `PlainOnlyForNative`: a worker has a plain pack only while it runs a native skill |
| `RefusedStays` | `RefusedNeverRuns` | `Trace`: until it enqueues, and once it has refused, a handler's task is at no place; what the handler has left in the tables at each label |
| `JobsAtOnePlace` | `OnePlace` | a task that is yet to be enqueued is nowhere, so that the new entry is distinct from the rest. Without `redis_crash` |
| `AuditedOnce`, `StatusForward`, `Refinement` | `FinishAudited`, `ImplementsLifecycle` | `StageInv`: the row is queued while its task waits, running after `Load`, final from `Finish` on. `Load` then finds a queued task, which makes every step one of `TaskLifecycle` or a stutter. Without `redis_crash` and `requeue` |
| `OnlyDeletionStrands` | `StrandedOnlyByDeletion` | `Loaded`, on `StageInv`: the project a worker has loaded is the one the handler found, or none, so that only its deletion makes `Finish` fail. Without faults |

**The other modules**

| Theorem | Property | The invariant adds |
|---|---|---|
| `SkillResolverProofs!BestMatch` | `AnswerIsBestMatch` | only types: the work is in lemmas about the passes (`FirstIsHit`, `KeyedIsHit`, `AutoIsBest`), which rest on the least and the greatest index of a non-empty set existing (`MinInSet`, `MaxInSet`) |
| `SkillResolverProofs!OrderOnTies` | `OrderMattersOnlyOnTies` | the same: two orders of the same rows both lead to the one candidate |
| `OAuthProofs!UsedOnce` | `CodeUsedOnce` | `HeldOnce`, `SpentIsGone`: a code is in one dictionary at most, in none once redeemed |
| `OAuthProofs!FailureKeepsCode` | `FailedAttemptKeepsCode` | an action property, from the types and the form each request carries |
| `OAuthProofs!SessionsEnd` | `SessionEnds` | `RefreshFixed`: the refresh token is as old as the session |
| `OAuthProofs!OneProcessSuffices` | `OneInstanceSuffices` | `KnowsAll`: the process has every client and every code that is neither redeemed nor late. For one process that is not restarted, which is what the run `OAuthTwoProcesses` shows to be necessary |
| `ProjectRegistryProofs!SlugsUnique`, `DeletesFinal` | `OneProjectPerSlug`, `DeleteIsFinal` | `Phases`, `HeldRows`: what a handler has loaded in each phase, and that its key was drawn, so that no insert reuses it; `References`, `DeletedWasThere`: rows refer to live projects, a 204 was for one that is gone |
| `ProjectRegistryProofs!LoggedKept` | `LoggedMeansKept` | `LogsAreAudit`: an event is an audit row, which deletions leave |
| `ProjectRegistryProofs!ColumnsAgree` | `ColumnsMatchPack` | `LoadedMatches`: a row that a handler still works from was right when loaded, or already overwritten |
| `PackSecretsProofs!StringsSealed`, `LastPutKept` | `StringsAreSealed`, `LastPutIsKept` | `SealedSaysSomething`: only values that say something are sealed, else masking would show a client a ciphertext |
| `EntryProofs!PoolWhole` | `PoolIsWhole` | the types; the work is in counting (`PoolTakes`, `PoolGives`, `PoolKeeps`) |
| `EntryProofs!StandingKept` | `ActsWithStanding` | `StoodHasRow`: `stood` has what the row says now and what the request has read |
| `EntryProofs!SuspensionHolds` | `SuspensionTakesHold` | `ActiveNow`, `ReadNow`: who is active is so now, and what a login or refresh has read is of this moment |
| `BootstrapProofs!ReadyComplete`, `SkippedProvidedFor` | `ReadyMeansComplete`, `SkippedIsProvidedFor` | `Progress`: what a process is past was provided, by it or by others, whatever an operator deleted since; `Complete` holds once a process is ready or finds that a row it wants to insert is there; `HostRefused` tells the other reason to be rolled back |
| `BridgeToDaemonProofs!RestAudited`, `AuditTrue` | `RestIsAudited`, `AuditTellsWhatHappened` | `Progress`: the audit log follows from where the handler stands; an outcome is the answer of the other machine, which keeps it |
| `BridgeToDaemonProofs!FilesExact`, `WritesBreak` | `UndisturbedFilesAreExact`, `OnlyWritesBreakSnapshots` | `Run`, `Snapshot`: of the files it has come to, a snapshot under way has what the disk had when the run began, or has now, unless they were written beside the run; it knows nothing of the rest; and a file it is at is still there, or was written |
| `BridgeToDaemonProofs!ComposesBoth` | | a behaviour of the composition is one of `Bridges` and one of `CcDaemon`, which carries the four theorems above over to the run, where they are checked |
| `BridgeToDaemonProofs!AuditAgrees` | `AuditAgreesWithDaemon` | `Agrees`, on the invariants of both: what the two sides of a call know of each other |

All but `SkillResolverProofs` also have `TypeCorrect`, for `TypeOK` or `ComposedTypeOK`.

What the proofs assume of the constants beside their types: `None` is no project,
row or slug; no key of encryption has the name of a way to write a value readably;
no content or file is the one called missing; there are finitely many slots, and the hints of niches are a
sequence of niches.

Only model-checked: `AcceptedEnds`, `CallEnds` and `PoolDrains`, as liveness under
fairness, and ENABLED, are out of the prover's reach; and that
`StartedTaskFinishes` and, for two processes, `OneInstanceSuffices` are violated.
`StatusMovesForward` has no run of its own: `ImplementsLifecycle` implies it.
Nothing needed an induction over data: the passes of the resolver and the parts
of a pack are bounded by quantifiers and by the least index of a hit.

## Not modelled

The pack validator (a handler is given a valid pack); read-only endpoints; OAuth's
metadata documents and its answers to missing parameters; clients and codes that
are never removed (hazard at `oauth.py:39`); how engine and Redis client are
configured; layout of reports; the deployment scripts; n8n workflows and plugins
(clients of the api); the mock modes of the bridges (`SISTEM_VPS_MOCK`,
`SISTEM_N8N_MOCK`, `SISTEM_CC_MOCK`), in which a call is audited as ok with no other
machine; a commit that takes place though its acknowledgement is lost (a commit
that fails is rolled back); a crash of the daemon. The local PC bridge answers 501. No code writes `api_tokens`,
`bridge_pcs` or `memory_insights`.
The mask is one value: the specification of packs promises the last four
characters, the code shows none.

## Plan

1. (done) pipeline, its abstract specification, its proofs; OAuth, registry,
   resolver, secrets, bridges, daemon, bootstrap.
2. (done) `Entry`; `BridgeToDaemon`; events and memories of the user in
   `ProjectRegistry`; sessions that lose their connection in `TaskPipeline`.
3. (done) A theorem for each invariant and action property of the passing runs,
   and one for the case in which `OneInstanceSuffices` holds.
4. An abstract specification of a bridge call (asked, ended once, audited with
   its end) that `Bridges` implements; the safety part of `AcceptedEnds` as an
   action property of `TaskPipeline`.
