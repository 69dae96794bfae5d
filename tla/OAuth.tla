-------------------------------- MODULE OAuth --------------------------------
(***************************************************************************)
(* The OAuth endpoints: dynamic client registration, authorization codes   *)
(* and the token endpoint.  Clients and codes are dictionaries of the      *)
(* process that created them; tokens are signed and kept nowhere.  The     *)
(* token endpoint waits for the database between the arrival of a request  *)
(* and its checks, so requests interleave there and nowhere else.          *)
(***************************************************************************)
EXTENDS Integers

CONSTANTS
    Procs,       \* uvicorn worker processes; the balancer picks one a request
    Clients,     \* client ids that registration may draw
    Codes,       \* codes that authorization may draw
    Requests,    \* token requests with grant_type=authorization_code
    CodeTtl,     \* CODE_TTL
    AccessTtl,   \* lifetime of an access token
    RefreshTtl,  \* lifetime of a refresh token
    None,        \* an absent value
    MaxTime,     \* bound: the last second of the model's clock
    MayRestart   \* whether the processes may be restarted

ASSUME TtlAssumption ==
    CodeTtl \in Nat /\ AccessTtl \in Nat /\ RefreshTtl \in Nat
ASSUME MaxTimeAssumption == MaxTime \in Nat
ASSUME MayRestartAssumption == MayRestart \in BOOLEAN

VARIABLES
    now,        \* int(time.time())
    owner,      \* whether the users table has the row of OWNER_EMAIL
    registered, \* client ids ever handed out
    refused,    \* registered client ids that an authorize answered with 400
    clients,    \* clients[p]: _CLIENTS of process p
    codes,      \* codes[p]: keys of _AUTH_CODES of process p
    auth,       \* auth[c]: what the code was issued for
    issued,     \* codes ever handed out
    state,      \* state[q]: the progress of token request q
    form,       \* form[q]: what it carries and the process it reached
    session     \* session[q]: expiry of the tokens that q brought, -1 for none

tokenVars == <<state, form, session>>
vars == <<now, owner, registered, refused, clients, codes, auth, issued,
          tokenVars>>

\* "sum" stands for the S256 digest, or the plain text, of verifier "right";
\* "odd" for a challenge whose method is neither S256 nor plain.
Challenges == {"none", "sum", "odd"}
Verifiers == {"none", "right", "wrong"}
Auths == [client : Clients \cup {None}, challenge : Challenges, expires : Int]
Forms == [proc : Procs, code : Codes, client : Clients \cup {None},
          verifier : Verifiers]
States == {"idle", "waiting", "no_owner", "unknown_code", "expired", "refused",
           "token"}

NoSession == [started |-> -1, refresh |-> -1, access |-> -1]

Init ==
    /\ now = 0
    /\ owner \in BOOLEAN
    /\ registered = {} /\ refused = {} /\ issued = {}
    /\ clients = [p \in Procs |-> {}]
    /\ codes = [p \in Procs |-> {}]
    /\ auth = [c \in Codes |->
                [client |-> None, challenge |-> "none", expires |-> -1]]
    /\ state = [q \in Requests |-> "idle"]
    /\ form = [q \in Requests |-> None]
    /\ session = [q \in Requests |-> NoSession]

-----------------------------------------------------------------------------
(* Clients and codes *)

\* POST /oauth/register
Register(p, k) ==
    /\ k \notin registered
    /\ registered' = registered \cup {k}
    /\ clients' = [clients EXCEPT ![p] = @ \cup {k}]
    /\ UNCHANGED <<now, owner, refused, codes, auth, issued, tokenVars>>

\* Mutant: codes are kept under the id of the client.
AuthorizeUnderClient(p, k, c, challenge) ==
    /\ k \in clients[p]
    /\ c \notin issued
    /\ issued' = issued \cup {c}
    /\ codes' = [codes EXCEPT ![p] = @ \cup {k}]
    /\ auth' = [auth EXCEPT ![c] = [client |-> k, challenge |-> challenge,
                                    expires |-> now + CodeTtl]]
    /\ UNCHANGED <<now, owner, registered, refused, clients, tokenVars>>

\* GET /oauth/authorize.  The redirect URI is not compared with the
\* registered ones, and nobody is asked: the code is handed out at once.
Authorize(p, k, c, challenge) ==
    /\ k \in clients[p]
    /\ c \notin issued
    /\ issued' = issued \cup {c}
    /\ codes' = [codes EXCEPT ![p] = @ \cup {c}]
    /\ auth' = [auth EXCEPT ![c] = [client |-> k, challenge |-> challenge,
                                    expires |-> now + CodeTtl]]
    /\ UNCHANGED <<now, owner, registered, refused, clients, tokenVars>>

\* The same for a client id this process does not know.
AuthorizeRefused(p, k) ==
    /\ k \in registered \ clients[p]
    /\ refused' = refused \cup {k}
    /\ UNCHANGED <<now, owner, registered, clients, codes, auth, issued,
                   tokenVars>>

-----------------------------------------------------------------------------
(* The token endpoint *)

\* A request arrives and waits for the row of the owner.
TokenArrives(q, f) ==
    /\ state[q] = "idle"
    /\ f.code \in issued
    /\ state' = [state EXCEPT ![q] = "waiting"]
    /\ form' = [form EXCEPT ![q] = f]
    /\ UNCHANGED <<now, owner, registered, refused, clients, codes, auth,
                   issued, session>>

\* Mutant: the code was looked up before the wait for the database.
KnownOnce(f) == f.code \in issued

Known(f) == f.code \in codes[f.proc]
OnTime(f) == now <= auth[f.code].expires
SameClient(f) == f.client \in {None, auth[f.code].client}
Verified(f) ==
    \/ auth[f.code].challenge = "none"
    \/ auth[f.code].challenge = "sum" /\ f.verifier = "right"

\* After the wait everything up to the reply happens in one go.
Answer(q, outcome) ==
    /\ state[q] = "waiting"
    /\ state' = [state EXCEPT ![q] = outcome]
    /\ UNCHANGED <<now, owner, registered, refused, clients, auth, issued,
                   form>>

Pop(f) == codes' = [codes EXCEPT ![f.proc] = @ \ {f.code}]

OwnerMissing(q) ==
    /\ Answer(q, "no_owner")
    /\ ~owner
    /\ UNCHANGED <<codes, session>>

UnknownCode(q) ==
    /\ Answer(q, "unknown_code")
    /\ owner /\ ~Known(form[q])
    /\ UNCHANGED <<codes, session>>

ExpiredCode(q) ==
    /\ Answer(q, "expired")
    /\ owner /\ Known(form[q]) /\ ~OnTime(form[q])
    /\ Pop(form[q])
    /\ UNCHANGED session

\* Another client's code, or a verifier that does not match.
Mismatch(q) ==
    /\ Answer(q, "refused")
    /\ owner /\ Known(form[q]) /\ OnTime(form[q])
    /\ ~(SameClient(form[q]) /\ Verified(form[q]))
    /\ UNCHANGED session

\* Mutant: the code is popped before it is checked.
RefusePops(q) == Mismatch(q) /\ Pop(form[q])

Refuse(q) == Mismatch(q) /\ UNCHANGED codes

Exchange(q) ==
    /\ Answer(q, "token")
    /\ owner /\ Known(form[q]) /\ OnTime(form[q])
    /\ SameClient(form[q]) /\ Verified(form[q])
    /\ Pop(form[q])
    /\ session' = [session EXCEPT ![q] =
            [started |-> now, refresh |-> now + RefreshTtl,
             access |-> now + AccessTtl]]

\* Mutant: a refresh hands out a new refresh token too.
RenewedTwice(s) == [s EXCEPT !.access = now + AccessTtl, !.refresh = now + RefreshTtl]

Renewed(s) == [s EXCEPT !.access = now + AccessTtl]

\* grant_type=refresh_token: any process takes the token as long as it has not
\* expired, and returns an access token without a new refresh token.
Refresh(q) ==
    /\ state[q] = "token"
    /\ owner
    /\ now <= session[q].refresh
    /\ session' = [session EXCEPT ![q] = Renewed(@)]
    /\ UNCHANGED <<now, owner, registered, refused, clients, codes, auth,
                   issued, state, form>>

-----------------------------------------------------------------------------
(* Processes and time *)

\* A restarted process has forgotten its clients, codes and open requests.
Restart(p) ==
    /\ MayRestart
    /\ clients' = [clients EXCEPT ![p] = {}]
    /\ codes' = [codes EXCEPT ![p] = {}]
    /\ state' = [q \in Requests |->
                   IF state[q] = "waiting" /\ form[q].proc = p
                     THEN "idle" ELSE state[q]]
    /\ UNCHANGED <<now, owner, registered, refused, auth, issued, form,
                   session>>

Tick ==
    /\ now < MaxTime
    /\ now' = now + 1
    /\ UNCHANGED <<owner, registered, refused, clients, codes, auth, issued,
                   tokenVars>>

Next ==
    \/ \E p \in Procs, k \in Clients :
          \/ Register(p, k)
          \/ AuthorizeRefused(p, k)
          \/ \E c \in Codes, challenge \in Challenges :
                Authorize(p, k, c, challenge)
    \/ \E q \in Requests :
          \/ \E f \in Forms : TokenArrives(q, f)
          \/ OwnerMissing(q) \/ UnknownCode(q) \/ ExpiredCode(q) \/ Refuse(q)
          \/ Exchange(q) \/ Refresh(q)
    \/ \E p \in Procs : Restart(p)
    \/ Tick

Spec == Init /\ [][Next]_vars

-----------------------------------------------------------------------------
(* Properties *)

TypeOK ==
    /\ now \in 0..MaxTime
    /\ owner \in BOOLEAN
    /\ registered \subseteq Clients /\ refused \subseteq registered
    /\ clients \in [Procs -> SUBSET registered]
    /\ codes \in [Procs -> SUBSET issued]
    /\ issued \subseteq Codes
    /\ auth \in [Codes -> Auths]
    /\ state \in [Requests -> States]
    /\ form \in [Requests -> Forms \cup {None}]
    /\ session \in [Requests -> [started : Int, refresh : Int, access : Int]]

Redeemed(c) == {q \in Requests : state[q] = "token" /\ form[q].code = c}

\* A code brings tokens once, though two requests that carry it can both be
\* waiting for the database, and though processes forget and restart.
CodeUsedOnce ==
    \A c \in Codes : \A q, r \in Redeemed(c) : q = r

\* An attempt with another client id or a wrong verifier does not burn the
\* code: it leaves the table by being redeemed, by expiring or with its whole
\* process, which then knows no client either, and not otherwise.
FailedAttemptKeepsCode ==
    [][\A c \in Codes, p \in Procs :
          c \in codes[p] /\ c \notin codes'[p] =>
              \/ Redeemed(c)' # Redeemed(c)
              \/ now > auth[c].expires
              \/ clients'[p] = {}]_vars

\* What the comment on the two dictionaries claims, that one process is all
\* there is: no registered client is unknown, and a code is unknown only after
\* it was redeemed or has expired.
OneInstanceSuffices ==
    /\ refused = {}
    /\ \A q \in Requests : state[q] = "unknown_code" =>
          \/ Redeemed(form[q].code) # {}
          \/ now > auth[form[q].code].expires

\* Access ends: however often a client refreshes at this endpoint, its tokens are
\* void one refresh and one access lifetime after the code was redeemed.  (POST
\* /auth/refresh takes the same refresh token and answers with a new pair.)
SessionEnds ==
    \A q \in Requests : state[q] = "token" =>
        session[q].access <= session[q].started + RefreshTtl + AccessTtl
=============================================================================
