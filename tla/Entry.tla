-------------------------------- MODULE Entry --------------------------------
(***************************************************************************)
(* How a request gets in: by /auth/login, by a token that is decoded       *)
(* before the database is asked, by the row of its user, and by one of     *)
(* the connections of the pool, which the request holds from its first     *)
(* statement until it commits or its session closes, a call of another     *)
(* machine included, and needs again to read back what it has committed.   *)
(* Meanwhile an operator suspends users and changes their roles.           *)
(***************************************************************************)
EXTENDS Naturals, FiniteSets

CONSTANTS
    Slots,       \* requests under way at one time in a process
    Users,
    Owner,       \* the user with OWNER_EMAIL
    Edited,      \* users whose rows the operator changes
    Requests,    \* those that are made: door, user, and tenant of the path
    Limit,       \* connections of the pool: pool_size + max_overflow
    AccessTtl,   \* life of an access token
    RefreshTtl,  \* life of a refresh token
    MaxTime      \* bound on the clock

ASSUME SlotsAssumption == IsFiniteSet(Slots)
ASSUME OwnerAssumption == Owner \in Users
ASSUME EditedAssumption == Edited \subseteq Users
ASSUME RequestsAssumption ==
    Requests \subseteq
        [door : {"login", "refresh", "oauth", "rest", "mcp", "status"},
         user : Users, tenant : Users]
ASSUME LimitAssumption == Limit \in Nat \ {0}
ASSUME TtlAssumption == AccessTtl \in Nat /\ RefreshTtl \in Nat
ASSUME MaxTimeAssumption == MaxTime \in Nat \ {0}

VARIABLES
    now,
    account,  \* account[u]: the users row of u
    token,    \* token[u]: when the newest tokens of u expire; older ones end sooner
    req,      \* req[s]: door, user and tenant of the request in slot s
    pc,       \* pc[s]: where it stands
    row,      \* row[s]: the users row it has read
    free,     \* connections in the pool or yet to be opened
    stood,    \* stood[s]: what its user has been since it arrived
    active    \* active[u]: the last moment at which u was active

ghostVars == <<stood, active>>
vars == <<now, account, token, req, pc, row, free, ghostVars>>

Gone == [status |-> "gone", role |-> "none"]
Accounts == [status : {"active", "suspended"}, role : {"admin", "viewer"}]
            \cup {Gone}  \* an owner is an admin, and an operator a viewer, to the checks
NoRequest == [door |-> "status", user |-> Owner, tenant |-> Owner]
Never == [access |-> 0, refresh |-> 0]
NewPair == [access |-> now + AccessTtl, refresh |-> now + RefreshTtl]

\* What the checks could be told of an account.
Standing(a) == (IF a.status = "active" THEN {"active"} ELSE {})
    \cup (IF a.status = "active" /\ a.role = "admin" THEN {"admin"} ELSE {})

Init ==
    /\ now = 1
    /\ account = [u \in Users |-> [status |-> "active",
                                   role |-> IF u = Owner THEN "admin" ELSE "viewer"]]
    /\ token = [u \in Users |-> Never]
    /\ req = [s \in Slots |-> NoRequest]
    /\ pc = [s \in Slots |-> "idle"]
    /\ row = [s \in Slots |-> Gone]
    /\ free = Limit
    /\ stood = [s \in Slots |-> {}]
    /\ active = [u \in Users |-> 1]

Holding(s) == pc[s] \in {"asking", "read", "acting", "rereading"}

\* The request is over and its session is closed, which returns the connection.
Close(s) ==
    /\ pc' = [pc EXCEPT ![s] = "idle"]
    /\ row' = [row EXCEPT ![s] = Gone]
    /\ req' = [req EXCEPT ![s] = NoRequest]
    /\ stood' = [stood EXCEPT ![s] = {}]
    /\ free' = IF Holding(s) THEN free + 1 ELSE free
    /\ UNCHANGED <<now, account, active>>

\* decode_token and the type of the token, before the session is used.
Decodes(q) ==
    CASE q.door \in {"rest", "mcp"} -> now <= token[q.user].access
      [] q.door = "refresh"         -> now <= token[q.user].refresh
      [] OTHER                      -> TRUE

Arrive(s, q) ==
    /\ pc[s] = "idle"
    /\ Decodes(q)
    /\ req' = [req EXCEPT ![s] = q]
    /\ pc' = [pc EXCEPT ![s] = "waiting"]
    /\ stood' = [stood EXCEPT ![s] = Standing(account[q.user])]
    /\ UNCHANGED <<now, account, token, row, free, active>>

Take(s, next) ==
    /\ pc' = [pc EXCEPT ![s] = next]
    /\ free' = free - 1
    /\ UNCHANGED <<now, account, token, req, row, ghostVars>>

\* Mutant: the pool has no limit (max_overflow=-1).
ConnectAnyway(s) == pc[s] = "waiting" /\ Take(s, "asking")

\* The first statement takes a connection, if there is one.
Connect(s) == pc[s] = "waiting" /\ free > 0 /\ Take(s, "asking")

\* pool_timeout: no connection within 30 seconds, for what is committed neither.
PoolTimeout(s) ==
    /\ pc[s] \in {"waiting", "committed"} /\ free = 0
    /\ Close(s)
    /\ UNCHANGED token

\* Mutant: the session is closed at the end of the handler, not of a with block.
BrokenLeaks(s) ==
    /\ Holding(s)
    /\ pc' = [pc EXCEPT ![s] = "idle"]
    /\ UNCHANGED <<now, account, token, req, row, free, ghostVars>>

\* The connection breaks under the request.
Broken(s) ==
    /\ Holding(s)
    /\ Close(s)
    /\ UNCHANGED token

\* The SELECT: the row of the token's user, or of the owner at /oauth/token.
\* /status asks for nothing and is over.
Asked(q) == IF q.door = "oauth" THEN Owner ELSE q.user

Ask(s) ==
    /\ pc[s] = "asking" /\ req[s].door # "status"
    /\ pc' = [pc EXCEPT ![s] = "read"]
    /\ row' = [row EXCEPT ![s] = account[Asked(req[s])]]
    /\ UNCHANGED <<now, account, token, req, free, ghostVars>>

Ping(s) ==
    /\ pc[s] = "asking" /\ req[s].door = "status"
    /\ Close(s)
    /\ UNCHANGED token

PairIf(s, fit) ==
    /\ pc[s] = "read" /\ req[s].door \in {"login", "refresh"} /\ fit
    /\ token' = [token EXCEPT ![req[s].user] = NewPair]
    /\ Close(s)

\* Mutant: a suspended user gets tokens.
PairForAnyone(s) == PairIf(s, row[s] # Gone)

\* login and refresh: a pair of tokens for an active user.
Pair(s) == PairIf(s, row[s].status = "active")

\* /oauth/token: an access token of the owner for any live refresh token.
OwnerAccess(s) ==
    /\ pc[s] = "read" /\ req[s].door = "oauth"
    /\ row[s] # Gone /\ now <= token[req[s].user].refresh
    /\ token' = [token EXCEPT ![Owner].access = now + AccessTtl]
    /\ Close(s)

\* require_self_or_admin: the users row decides, and not the role in the token.
MayActFor(s) == req[s].user = req[s].tenant \/ row[s].role = "admin"

\* Mutant: REST, like MCP, does not look at the status.
AdmitsSuspended(s) ==
    row[s] # Gone /\ (req[s].door = "mcp" \/ (req[s].door = "rest" /\ MayActFor(s)))

Admits(s) ==
    \/ req[s].door = "mcp" /\ row[s] # Gone
    \/ req[s].door = "rest" /\ row[s].status = "active" /\ MayActFor(s)

Enter(s) ==
    /\ pc[s] = "read" /\ Admits(s)
    /\ pc' = [pc EXCEPT ![s] = "acting"]
    /\ row' = [row EXCEPT ![s] = Gone]
    /\ UNCHANGED <<now, account, token, req, free, ghostVars>>

\* A wrong password is refused as a suspended user is.
Refuse(s) ==
    /\ pc[s] = "read"
    /\ \/ req[s].door = "login"
       \/ req[s].door = "refresh" /\ row[s].status # "active"
       \/ req[s].door = "oauth" /\ (row[s] = Gone \/ now > token[req[s].user].refresh)
       \/ req[s].door \in {"rest", "mcp"} /\ ~Admits(s)
    /\ Close(s)
    /\ UNCHANGED token

\* The handler's own work, as Bridges, TaskPipeline and ProjectRegistry have it.
Finish(s) ==
    /\ pc[s] \in {"acting", "committed", "rereading"}
    /\ Close(s)
    /\ UNCHANGED token

\* commit() returns the connection, and refresh() takes one.
Commit(s) ==
    /\ pc[s] = "acting"
    /\ pc' = [pc EXCEPT ![s] = "committed"]
    /\ free' = free + 1
    /\ UNCHANGED <<now, account, token, req, row, ghostVars>>

Reread(s) == pc[s] = "committed" /\ free > 0 /\ Take(s, "rereading")

-----------------------------------------------------------------------------
(* The environment *)

Edit(u, a) ==
    /\ account[u] # Gone /\ a # account[u]
    /\ account' = [account EXCEPT ![u] = a]
    /\ stood' = [s \in Slots |-> IF pc[s] # "idle" /\ req[s].user = u
                                   THEN stood[s] \cup Standing(a) ELSE stood[s]]
    /\ active' = IF a.status = "active" THEN [active EXCEPT ![u] = now] ELSE active
    /\ UNCHANGED <<now, token, req, pc, row, free>>

\* A row reaches its handler within one unit of time.
Tick ==
    /\ now < MaxTime
    /\ \A s \in Slots : pc[s] # "read"
    /\ now' = now + 1
    /\ active' = [u \in Users |-> IF account[u].status = "active" THEN now'
                                                                  ELSE active[u]]
    /\ UNCHANGED <<account, token, req, pc, row, free, stood>>

Step(s) ==
    \/ Connect(s) \/ PoolTimeout(s) \/ Ask(s) \/ Ping(s)
    \/ Pair(s) \/ OwnerAccess(s) \/ Enter(s) \/ Refuse(s)
    \/ Commit(s) \/ Reread(s) \/ Finish(s)

Next ==
    \/ \E s \in Slots : \/ Step(s) \/ Broken(s)
                        \/ \E q \in Requests : Arrive(s, q)
    \/ \E u \in Edited, a \in Accounts : Edit(u, a)
    \/ Tick

Spec == Init /\ [][Next]_vars

\* The loop runs a handler that can go on, the pool's timer fires, and a call of
\* another machine ends (Bridges!CallEnds: no answer trickles in for ever).
Fairness == \A s \in Slots : WF_vars(Step(s))

FairSpec == Spec /\ Fairness

-----------------------------------------------------------------------------
(* Properties *)

\* Type correctness of the rows, tokens and requests.
TypeOK ==
    /\ now \in 1..MaxTime
    /\ account \in [Users -> Accounts]
    /\ token \in [Users -> [access : 0..(MaxTime + AccessTtl),
                            refresh : 0..(MaxTime + RefreshTtl)]]
    /\ req \in [Slots -> Requests \cup {NoRequest}]
    /\ pc \in [Slots -> {"idle", "waiting", "asking", "read", "acting",
                      "committed", "rereading"}]
    /\ row \in [Slots -> Accounts]
    /\ free \in 0..Limit
    /\ active \in [Users -> 1..MaxTime]
    /\ stood \in [Slots -> SUBSET {"active", "admin"}]

\* A REST request acts for a user who was active at some moment since it came
\* in, and on a tenant that is that user or was then an admin's to act on, however
\* the row was edited before, during and after.
ActsWithStanding ==
    \A s \in Slots : pc[s] = "acting" /\ req[s].door = "rest" =>
        IF req[s].user = req[s].tenant THEN "active" \in stood[s]
                                       ELSE "admin" \in stood[s]

\* MCP does not look at the status of a user, yet a suspension takes hold there
\* too: no token, refreshed or not, outlives the last moment at which its user
\* was active by more than its ttl.  The owner, for whom /oauth/token makes access
\* tokens whatever the status, is excepted.
SuspensionTakesHold ==
    \A u \in Users \ {Owner} :
        /\ token[u].access <= active[u] + AccessTtl
        /\ token[u].refresh <= active[u] + RefreshTtl

\* Whatever fails, each connection is either free or with a request under way.
PoolIsWhole == free + Cardinality({s \in Slots : Holding(s)}) = Limit

\* An exhausted pool has a connection again, however long the calls of other
\* machines for which the connections are held.
PoolDrains == free = 0 ~> free > 0
=============================================================================
