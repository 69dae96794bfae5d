----------------------------- MODULE OAuthProofs -----------------------------
(***************************************************************************)
(* Proofs about OAuth, for every number of processes, clients, codes and   *)
(* requests and every lifetime.                                            *)
(***************************************************************************)
EXTENDS OAuth, TLAPS

USE DEF tokenVars

\* Every action of the specification, one disjunct each.
LEMMA NextSplit ==
    ASSUME Next
    PROVE  \/ \E p \in Procs, k \in Clients :
                \/ Register(p, k)
                \/ AuthorizeRefused(p, k)
                \/ \E c \in Codes, challenge \in Challenges :
                      Authorize(p, k, c, challenge)
           \/ \E q \in Requests :
                \/ \E f \in Forms : TokenArrives(q, f)
                \/ OwnerMissing(q) \/ UnknownCode(q) \/ ExpiredCode(q) \/ Refuse(q)
                \/ Exchange(q) \/ Refresh(q)
           \/ \E p \in Procs : Restart(p)
           \/ Tick
  BY DEF Next

-----------------------------------------------------------------------------
(* Type correctness *)

\* A request that has arrived carries a form, with a code that was issued.
FormsKnown ==
    \A q \in Requests : state[q] # "idle" => form[q] \in Forms /\ form[q].code \in issued

FormInv == TypeOK /\ FormsKnown

LEMMA FormInit == Init => FormInv
  BY MaxTimeAssumption
  DEF Init, FormInv, TypeOK, FormsKnown, Auths, Challenges, States, NoSession

LEMMA FormStep == FormInv /\ [Next]_vars => FormInv'
  <1> SUFFICES ASSUME FormInv, [Next]_vars PROVE FormInv'
    OBVIOUS
  <1> USE DEF FormInv, TypeOK, FormsKnown
  <1>a. \A q \in Requests : state[q] = "waiting" =>
            form[q].proc \in Procs /\ form[q].code \in Codes
    BY DEF Forms
  <1>1. ASSUME NEW p \in Procs, NEW k \in Clients, Register(p, k) PROVE FormInv'
    BY <1>1 DEF Register
  <1>2. ASSUME NEW p \in Procs, NEW k \in Clients, AuthorizeRefused(p, k) PROVE FormInv'
    BY <1>2 DEF AuthorizeRefused
  <1>3. ASSUME NEW p \in Procs, NEW k \in Clients, NEW c \in Codes, NEW challenge \in Challenges,
               Authorize(p, k, c, challenge)
        PROVE  FormInv'
    <2>1. now + CodeTtl \in Int
      BY TtlAssumption, MaxTimeAssumption
    <2> QED
      BY <1>3, <2>1 DEF Authorize, Auths
  <1>4. ASSUME NEW q \in Requests, NEW f \in Forms, TokenArrives(q, f) PROVE FormInv'
    BY <1>4 DEF TokenArrives, States
  <1>5. ASSUME NEW q \in Requests, OwnerMissing(q) \/ UnknownCode(q) \/ Refuse(q)
        PROVE  FormInv'
    BY <1>5 DEF OwnerMissing, UnknownCode, Refuse, Mismatch, Answer, States
  <1>6. ASSUME NEW q \in Requests, ExpiredCode(q) PROVE FormInv'
    BY <1>a, <1>6 DEF ExpiredCode, Answer, Pop, States
  <1>7. ASSUME NEW q \in Requests, Exchange(q) PROVE FormInv'
    <2>1. now \in Int /\ now + RefreshTtl \in Int /\ now + AccessTtl \in Int
      BY TtlAssumption, MaxTimeAssumption
    <2> QED
      BY <1>a, <1>7, <2>1 DEF Exchange, Answer, Pop, States
  <1>8. ASSUME NEW q \in Requests, Refresh(q) PROVE FormInv'
    <2>1. now + AccessTtl \in Int
      BY TtlAssumption, MaxTimeAssumption
    <2> QED
      BY <1>8, <2>1 DEF Refresh, Renewed
  <1>9. ASSUME NEW p \in Procs, Restart(p) PROVE FormInv'
    BY <1>9 DEF Restart, States
  <1>10. ASSUME Tick PROVE FormInv'
    BY <1>10, MaxTimeAssumption DEF Tick
  <1>11. CASE UNCHANGED vars
    BY <1>11 DEF vars
  <1> QED
    BY NextSplit, <1>1, <1>2, <1>3, <1>4, <1>5, <1>6, <1>7, <1>8, <1>9, <1>10, <1>11

\* Type correctness of the dictionaries, the forms and the sessions.
THEOREM TypeCorrect == Spec => []TypeOK
  <1>1. FormInv => TypeOK
    BY DEF FormInv
  <1> QED
    BY <1>1, FormInit, FormStep, PTL DEF Spec

-----------------------------------------------------------------------------
(* A code is used once *)

\* A code is in the dictionary of one process at most, and in none once redeemed.
HeldOnce == \A p, r \in Procs : \A c \in codes[p] \cap codes[r] : p = r
SpentIsGone == \A q \in Requests : state[q] = "token" =>
                  \A p \in Procs : form[q].code \notin codes[p]

CodeInv == FormInv /\ HeldOnce /\ SpentIsGone /\ CodeUsedOnce

\* CodeUsedOnce, request by request.
LEMMA UsedOncePointwise ==
    CodeUsedOnce <=> \A q, r \in Requests :
        (/\ state[q] = "token" /\ state[r] = "token"
         /\ form[q].code = form[r].code /\ form[q].code \in Codes) => q = r
  BY DEF CodeUsedOnce, Redeemed

LEMMA CodeInit == Init => CodeInv
  BY FormInit DEF CodeInv, Init, HeldOnce, SpentIsGone, CodeUsedOnce, Redeemed

LEMMA CodeStep == CodeInv /\ [Next]_vars => CodeInv'
  <1> DEFINE Once == \A q, r \in Requests :
                        (/\ state[q] = "token" /\ state[r] = "token"
                         /\ form[q].code = form[r].code /\ form[q].code \in Codes) => q = r
             Goal == HeldOnce' /\ SpentIsGone' /\ Once'
  <1> SUFFICES ASSUME CodeInv, [Next]_vars PROVE Goal
    <2>1. Once' => CodeUsedOnce'
      BY DEF CodeUsedOnce, Redeemed
    <2> QED
      BY <2>1, FormStep DEF CodeInv
  <1>a. TypeOK /\ FormsKnown /\ HeldOnce /\ SpentIsGone /\ Once
    BY UsedOncePointwise DEF CodeInv, FormInv
  <1> USE DEF TypeOK, FormsKnown, HeldOnce, SpentIsGone
  <1>1. ASSUME NEW p \in Procs, NEW k \in Clients, Register(p, k) PROVE Goal
    BY <1>a, <1>1 DEF Register
  <1>2. ASSUME NEW p \in Procs, NEW k \in Clients, AuthorizeRefused(p, k) PROVE Goal
    BY <1>a, <1>2 DEF AuthorizeRefused
  <1>3. ASSUME NEW p \in Procs, NEW k \in Clients, NEW c \in Codes, NEW challenge \in Challenges,
               Authorize(p, k, c, challenge)
        PROVE  Goal
    BY <1>a, <1>3 DEF Authorize
  <1>4. ASSUME NEW q \in Requests, NEW f \in Forms, TokenArrives(q, f) PROVE Goal
    BY <1>a, <1>4 DEF TokenArrives
  <1>5. ASSUME NEW q \in Requests, OwnerMissing(q) \/ UnknownCode(q) \/ Refuse(q)
        PROVE  Goal
    BY <1>a, <1>5 DEF OwnerMissing, UnknownCode, Refuse, Mismatch, Answer
  <1>b. \A q \in Requests : state[q] = "waiting" =>
            form[q].proc \in Procs /\ form[q].code \in Codes
    BY <1>a DEF Forms
  <1>6. ASSUME NEW q \in Requests, ExpiredCode(q) PROVE Goal
    BY <1>a, <1>b, <1>6 DEF ExpiredCode, Answer, Pop
  <1>7. ASSUME NEW q \in Requests, Exchange(q) PROVE Goal
    <2> DEFINE c == form[q].code
               p == form[q].proc
    <2>1. /\ state[q] = "waiting" /\ p \in Procs /\ c \in codes[p] /\ form' = form
          /\ codes' = [codes EXCEPT ![p] = @ \ {c}]
          /\ state' = [state EXCEPT ![q] = "token"]
      BY <1>a, <1>b, <1>7 DEF Exchange, Answer, Pop, Known
    <2>2. \A r \in Procs : c \notin codes'[r]
      BY <1>a, <2>1
    <2>3. \A r \in Procs : codes'[r] \subseteq codes[r]
      BY <1>a, <2>1
    <2>4. HeldOnce'
      BY <1>a, <2>3
    <2>5. SpentIsGone'
      BY <1>a, <2>1, <2>2, <2>3
    <2>6. \A r \in Requests : state[r] = "token" => form[r].code # c
      BY <1>a, <2>1
    <2>7. Once'
      BY <1>a, <2>1, <2>6
    <2> QED
      BY <2>4, <2>5, <2>7
  <1>8. ASSUME NEW q \in Requests, Refresh(q) PROVE Goal
    BY <1>a, <1>8 DEF Refresh
  <1>9. ASSUME NEW p \in Procs, Restart(p) PROVE Goal
    BY <1>a, <1>9 DEF Restart
  <1>10. ASSUME Tick PROVE Goal
    BY <1>a, <1>10 DEF Tick
  <1>11. CASE UNCHANGED vars
    BY <1>11, <1>a DEF vars
  <1> HIDE DEF Goal
  <1> QED
    BY NextSplit, <1>1, <1>2, <1>3, <1>4, <1>5, <1>6, <1>7, <1>8, <1>9, <1>10, <1>11

\* No code brings tokens twice, whichever requests carry it to whichever process.
THEOREM UsedOnce == Spec => []CodeUsedOnce
  <1>1. CodeInv => CodeUsedOnce
    BY DEF CodeInv
  <1> QED
    BY <1>1, CodeInit, CodeStep, PTL DEF Spec

-----------------------------------------------------------------------------
(* What takes a code from its process *)

\* A code leaves the dictionary of its process by being redeemed, after its time or
\* with the process: no refused attempt spends it.
THEOREM FailureKeepsCode == Spec => FailedAttemptKeepsCode
  <1> DEFINE Kept == \A c \in Codes, p \in Procs :
                        c \in codes[p] /\ c \notin codes'[p] =>
                            \/ Redeemed(c)' # Redeemed(c)
                            \/ now > auth[c].expires
                            \/ clients'[p] = {}
  <1>1. ASSUME FormInv, [Next]_vars PROVE Kept
    <2> SUFFICES ASSUME NEW c \in Codes, NEW p \in Procs, c \in codes[p], c \notin codes'[p]
                 PROVE  \/ Redeemed(c)' # Redeemed(c)
                        \/ now > auth[c].expires
                        \/ clients'[p] = {}
      OBVIOUS
    <2>a. TypeOK /\ FormsKnown
      BY <1>1 DEF FormInv
    <2>b. \A q \in Requests : state[q] = "waiting" => form[q].proc \in Procs
      BY <2>a DEF FormsKnown, Forms
    <2>1. ASSUME NEW q \in Requests, ExpiredCode(q) PROVE now > auth[c].expires
      <3>1. form[q].code = c
        BY <2>a, <2>b, <2>1 DEF ExpiredCode, Answer, Pop, TypeOK
      <3>2. now \in Int /\ auth[c].expires \in Int
        BY <2>a, MaxTimeAssumption DEF TypeOK, Auths
      <3> QED
        BY <2>1, <3>1, <3>2 DEF ExpiredCode, OnTime
    <2>2. ASSUME NEW q \in Requests, Exchange(q) PROVE Redeemed(c)' # Redeemed(c)
      <3>1. form[q].code = c /\ form' = form
        BY <2>a, <2>b, <2>2 DEF Exchange, Answer, Pop, TypeOK
      <3>2. q \in Redeemed(c)' /\ q \notin Redeemed(c)
        BY <2>a, <2>2, <3>1 DEF Exchange, Answer, Redeemed, TypeOK
      <3> QED
        BY <3>2
    <2>3. ASSUME NEW r \in Procs, Restart(r) PROVE clients'[p] = {}
      BY <2>a, <2>3 DEF Restart, TypeOK
    <2>4. ASSUME NEW r \in Procs, NEW k \in Clients, NEW d \in Codes, NEW challenge \in Challenges,
                 Authorize(r, k, d, challenge)
          PROVE  FALSE
      BY <2>a, <2>4 DEF Authorize, TypeOK
    <2> QED
      BY <1>1, <2>1, <2>2, <2>3, <2>4, NextSplit
      DEF vars, Register, AuthorizeRefused, TokenArrives, OwnerMissing, UnknownCode, Refuse,
          Mismatch, Answer, Refresh, Tick
  <1> QED
    BY <1>1, FormInit, FormStep, PTL DEF Spec, FailedAttemptKeepsCode

-----------------------------------------------------------------------------
(* The end of a session *)

\* What a refresh relies on: the refresh token is as old as the session.
RefreshFixed ==
    \A q \in Requests : state[q] = "token" =>
        session[q].refresh = session[q].started + RefreshTtl

SessionInv == FormInv /\ RefreshFixed /\ SessionEnds

LEMMA SessionInit == Init => SessionInv
  BY FormInit DEF SessionInv, Init, RefreshFixed, SessionEnds

LEMMA SessionStep == SessionInv /\ [Next]_vars => SessionInv'
  <1> DEFINE Goal == RefreshFixed' /\ SessionEnds'
  <1> SUFFICES ASSUME SessionInv, [Next]_vars PROVE Goal
    BY FormStep DEF SessionInv
  <1>a. TypeOK /\ RefreshFixed /\ SessionEnds
    BY DEF SessionInv, FormInv
  <1> USE DEF TypeOK, RefreshFixed, SessionEnds
  <1>b. now \in Nat /\ AccessTtl \in Nat /\ RefreshTtl \in Nat
    BY <1>a, TtlAssumption, MaxTimeAssumption
  <1>1. ASSUME NEW q \in Requests, Exchange(q) PROVE Goal
    BY <1>a, <1>b, <1>1 DEF Exchange, Answer
  <1>2. ASSUME NEW q \in Requests, Refresh(q) PROVE Goal
    <2>1. /\ session[q].started \in Int /\ session[q].refresh \in Int
          /\ now <= session[q].started + RefreshTtl
      BY <1>a, <1>2 DEF Refresh
    <2>2. /\ session'[q].started = session[q].started
          /\ session'[q].refresh = session[q].refresh
          /\ session'[q].access = now + AccessTtl
      BY <1>a, <1>2 DEF Refresh, Renewed
    <2>3. \A r \in Requests : r # q => session'[r] = session[r]
      BY <1>a, <1>2 DEF Refresh
    <2> QED
      BY <1>a, <1>b, <1>2, <2>1, <2>2, <2>3 DEF Refresh
  <1>3. ASSUME UNCHANGED session, \A q \in Requests : state'[q] = "token" => state[q] = "token"
        PROVE  Goal
    BY <1>a, <1>3
  <1> HIDE DEF Goal
  <1>4. CASE UNCHANGED vars
    BY <1>3, <1>4 DEF vars
  <1>5. ASSUME NEW q \in Requests,
               \/ \E f \in Forms : TokenArrives(q, f)
               \/ OwnerMissing(q) \/ UnknownCode(q) \/ ExpiredCode(q) \/ Refuse(q)
        PROVE  Goal
    BY <1>a, <1>3, <1>5
    DEF TokenArrives, OwnerMissing, UnknownCode, ExpiredCode, Refuse, Mismatch, Answer
  <1>6. ASSUME NEW p \in Procs, NEW k \in Clients,
               \/ Register(p, k) \/ AuthorizeRefused(p, k)
               \/ \E c \in Codes, challenge \in Challenges : Authorize(p, k, c, challenge)
        PROVE  Goal
    BY <1>3, <1>6 DEF Register, AuthorizeRefused, Authorize
  <1>7. ASSUME NEW p \in Procs, Restart(p) PROVE Goal
    BY <1>a, <1>3, <1>7 DEF Restart
  <1>8. ASSUME Tick PROVE Goal
    BY <1>3, <1>8 DEF Tick
  <1> QED
    BY NextSplit, <1>1, <1>2, <1>4, <1>5, <1>6, <1>7, <1>8

\* However often a client refreshes at /oauth/token, its tokens are void one refresh and
\* one access lifetime after the code was redeemed.
THEOREM SessionsEnd == Spec => []SessionEnds
  <1>1. SessionInv => SessionEnds
    BY DEF SessionInv
  <1> QED
    BY <1>1, SessionInit, SessionStep, PTL DEF Spec

-----------------------------------------------------------------------------
(* One process *)

\* A code is redeemed or its time is over; either is for good.
Gone(c) == Redeemed(c) # {} \/ now > auth[c].expires

\* The process knows every client, and every code that is not gone.
KnowsAll ==
    \A p \in Procs : /\ registered \subseteq clients[p]
                     /\ \A c \in issued : c \in codes[p] \/ Gone(c)

OneProcessInv == FormInv /\ KnowsAll /\ OneInstanceSuffices

LEMMA GoneStays ==
    ASSUME FormInv, ~MayRestart, [Next]_vars, NEW c \in issued, Gone(c)
    PROVE  Gone(c)'
  <1>a. c \in Codes /\ now \in Int /\ auth[c].expires \in Int
    BY MaxTimeAssumption DEF FormInv, TypeOK, Auths
  <1>1. auth'[c] = auth[c]
    BY NextSplit, <1>a DEF Register, AuthorizeRefused, Authorize, TokenArrives, OwnerMissing,
       UnknownCode, ExpiredCode, Refuse, Mismatch, Exchange, Answer, Refresh, Restart, Tick,
       vars, FormInv, TypeOK
  <1>2. now' \in {now, now + 1}
    BY NextSplit DEF Register, AuthorizeRefused, Authorize, TokenArrives, OwnerMissing,
       UnknownCode, ExpiredCode, Refuse, Mismatch, Exchange, Answer, Refresh, Restart, Tick, vars
  <1>3. \A q \in Requests : state[q] = "token" => state'[q] = "token" /\ form'[q] = form[q]
    BY NextSplit DEF Register, AuthorizeRefused, Authorize, TokenArrives, OwnerMissing,
       UnknownCode, ExpiredCode, Refuse, Mismatch, Exchange, Answer, Refresh, Restart, Tick,
       vars, FormInv, TypeOK
  <1> QED
    BY <1>a, <1>1, <1>2, <1>3 DEF Gone, Redeemed

\* Who was told that the code is unknown came too late.
LateOnly == \A q \in Requests : state[q] = "unknown_code" => Gone(form[q].code)

LEMMA OneProcessStep ==
    ASSUME ~MayRestart, \A p, r \in Procs : p = r
    PROVE  OneProcessInv /\ [Next]_vars => OneProcessInv'
  <1> DEFINE Goal == KnowsAll' /\ refused' = {} /\ LateOnly'
  <1> SUFFICES ASSUME OneProcessInv, [Next]_vars PROVE Goal
    BY FormStep DEF OneProcessInv, OneInstanceSuffices, LateOnly, Gone
  <1>a. TypeOK /\ FormsKnown /\ KnowsAll /\ refused = {} /\ LateOnly
    BY DEF OneProcessInv, FormInv, OneInstanceSuffices, LateOnly, Gone
  <1>b. \A c \in issued : Gone(c) => Gone(c)'
    BY GoneStays DEF OneProcessInv
  <1>c. \A q \in Requests : state[q] # "idle" =>
           form[q].proc \in Procs /\ form[q].code \in issued
    BY <1>a DEF FormsKnown, Forms
  <1>1. ASSUME UNCHANGED <<refused, issued>>,
               \A p \in Procs : registered' \subseteq clients'[p],
               \A p \in Procs : \A c \in codes[p] \ codes'[p] : c \in issued => Gone(c)'
        PROVE  KnowsAll' /\ refused' = {}
    BY <1>a, <1>b, <1>1 DEF KnowsAll
  <1>2. ASSUME \A q \in Requests : state'[q] = "unknown_code" =>
                  form'[q] = form[q] /\ state[q] = "unknown_code"
        PROVE  LateOnly'
    <2>1. ASSUME NEW q \in Requests, state'[q] = "unknown_code" PROVE Gone(form[q].code)'
      <3>1. form'[q] = form[q] /\ form[q].code \in issued /\ Gone(form[q].code)
        BY <1>2, <1>a, <1>c, <2>1 DEF LateOnly
      <3>2. ASSUME NEW c \in issued, c = form[q].code PROVE Gone(c)'
        BY <1>b, <3>1, <3>2
      <3> QED
        BY <3>1, <3>2 DEF Gone, Redeemed
    <2> QED
      BY <2>1 DEF LateOnly
  <1> USE DEF TypeOK
  <1>d. \A p \in Procs : registered \subseteq clients[p]
    BY <1>a DEF KnowsAll
  <1>3. ASSUME NEW p \in Procs, NEW k \in Clients, Register(p, k) PROVE Goal
    <2>1. \A r \in Procs : registered' \subseteq clients'[r]
      BY <1>a, <1>d, <1>3 DEF Register
    <2> QED
      BY <1>1, <1>2, <1>3, <2>1 DEF Register
  <1>4. ASSUME NEW p \in Procs, NEW k \in Clients, AuthorizeRefused(p, k) PROVE FALSE
    BY <1>d, <1>4 DEF AuthorizeRefused
  <1>5. ASSUME NEW p \in Procs, NEW k \in Clients, NEW c \in Codes, NEW challenge \in Challenges,
               Authorize(p, k, c, challenge)
        PROVE  Goal
    <2>1. KnowsAll'
      BY <1>a, <1>b, <1>d, <1>5 DEF Authorize, KnowsAll
    <2> QED
      BY <1>a, <1>2, <1>5, <2>1 DEF Authorize
  <1>6. ASSUME NEW q \in Requests,
               \/ \E f \in Forms : TokenArrives(q, f)
               \/ OwnerMissing(q) \/ Refuse(q) \/ Refresh(q)
        PROVE  Goal
    <2>1. /\ UNCHANGED <<refused, issued, registered, clients, codes>>
          /\ \A r \in Requests : state'[r] = "unknown_code" =>
                form'[r] = form[r] /\ state[r] = "unknown_code"
      BY <1>a, <1>6 DEF TokenArrives, OwnerMissing, Refuse, Mismatch, Answer, Refresh
    <2> QED
      BY <1>1, <1>2, <1>d, <2>1
  <1>7. ASSUME NEW q \in Requests, UnknownCode(q) PROVE Goal
    <2>1. Gone(form[q].code)
      BY <1>a, <1>c, <1>7 DEF UnknownCode, Answer, Known, KnowsAll
    <2>2. ASSUME NEW r \in Requests, state'[r] = "unknown_code" PROVE Gone(form[r].code)'
      <3>1. form[r].code \in issued /\ Gone(form[r].code) /\ form' = form
        BY <1>a, <1>c, <1>7, <2>1, <2>2 DEF UnknownCode, Answer, LateOnly
      <3>2. ASSUME NEW c \in issued, c = form[r].code PROVE Gone(c)'
        BY <1>b, <3>1, <3>2
      <3> QED
        BY <3>1, <3>2 DEF Gone, Redeemed
    <2>3. LateOnly'
      BY <2>2 DEF LateOnly
    <2> QED
      BY <1>1, <1>d, <1>7, <2>3 DEF UnknownCode, Answer
  <1>8. ASSUME NEW q \in Requests, ExpiredCode(q) \/ Exchange(q) PROVE Goal
    <2>1. /\ state[q] = "waiting" /\ form' = form /\ auth' = auth /\ now' = now
          /\ codes' = [codes EXCEPT ![form[q].proc] = @ \ {form[q].code}]
          /\ now > auth[form[q].code].expires \/ state'[q] = "token"
          /\ UNCHANGED <<refused, issued, registered, clients>>
          /\ \A r \in Requests : state'[r] = "unknown_code" => state[r] = "unknown_code"
      <3>1. CASE ExpiredCode(q)
        <4>1. now \in Int /\ auth[form[q].code].expires \in Int
          BY <1>a, <1>c, <1>8, <3>1, MaxTimeAssumption DEF ExpiredCode, Answer, Auths
        <4> QED
          BY <1>a, <3>1, <4>1 DEF ExpiredCode, Answer, Pop, OnTime
      <3>2. CASE Exchange(q)
        BY <1>a, <3>2 DEF Exchange, Answer, Pop
      <3> QED
        BY <1>8, <3>1, <3>2
    <2>2. ASSUME NEW p \in Procs, NEW c \in codes[p] \ codes'[p], c \in issued PROVE Gone(c)'
      <3>1. c = form[q].code
        BY <1>a, <1>c, <2>1, <2>2
      <3> QED
        BY <2>1, <3>1 DEF Gone, Redeemed
    <2> QED
      BY <1>1, <1>2, <1>d, <2>1, <2>2
  <1>9. ASSUME NEW p \in Procs, Restart(p) PROVE FALSE
    BY <1>9 DEF Restart
  <1>10. CASE Tick
    BY <1>1, <1>2, <1>d, <1>10 DEF Tick
  <1>11. CASE UNCHANGED vars
    BY <1>1, <1>2, <1>d, <1>11 DEF vars
  <1> HIDE DEF Goal
  <1> QED
    BY NextSplit, <1>3, <1>4, <1>5, <1>6, <1>7, <1>8, <1>9, <1>10, <1>11

\* What the comment on the two dictionaries says is true of an api of one process that
\* is not restarted: no registered client is unknown, and a code only when it is gone.
THEOREM OneProcessSuffices ==
    ASSUME ~MayRestart, \A p, r \in Procs : p = r
    PROVE  Spec => []OneInstanceSuffices
  <1>1. Init => OneProcessInv
    BY FormInit DEF Init, OneProcessInv, KnowsAll, OneInstanceSuffices
  <1>2. OneProcessInv /\ [Next]_vars => OneProcessInv'
    BY OneProcessStep
  <1>3. OneProcessInv => OneInstanceSuffices
    BY DEF OneProcessInv
  <1> QED
    BY <1>1, <1>2, <1>3, PTL DEF Spec
=============================================================================
