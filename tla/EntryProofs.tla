----------------------------- MODULE EntryProofs -----------------------------
(***************************************************************************)
(* Proofs about Entry, for every set of users and requests, every number   *)
(* of slots and connections, and every life of the tokens.                 *)
(***************************************************************************)
EXTENDS Entry, FiniteSetTheorems, TLAPS

USE DEF ghostVars

\* Every action of the specification, one disjunct each.
LEMMA NextSplit ==
    ASSUME Next
    PROVE  \/ \E s \in Slots :
                \/ Connect(s) \/ PoolTimeout(s) \/ Ask(s) \/ Ping(s)
                \/ Pair(s) \/ OwnerAccess(s) \/ Enter(s) \/ Refuse(s)
                \/ Commit(s) \/ Reread(s) \/ Finish(s) \/ Broken(s)
                \/ \E q \in Requests : Arrive(s, q)
           \/ \E u \in Edited, a \in Accounts : Edit(u, a)
           \/ Tick
  BY DEF Next, Step

-----------------------------------------------------------------------------
(* The pool *)

\* The requests that hold a connection.
InUse == {s \in Slots : Holding(s)}

LEMMA InUseFinite == IsFiniteSet(InUse) /\ Cardinality(InUse) \in Nat
  <1>1. InUse \in SUBSET Slots
    BY DEF InUse
  <1> QED
    BY <1>1, SlotsAssumption, FS_Subset, FS_CardinalityType

\* What the pool knows: its free connections and those in use are all there are.
PoolInv == free \in 0..Limit /\ PoolIsWhole

\* A request that has no connection takes one that is free.
LEMMA PoolTakes ==
    ASSUME TypeOK, PoolInv, NEW s \in Slots, NEW next \in {"asking", "rereading"},
           pc[s] \in {"waiting", "committed"}, free > 0, Take(s, next)
    PROVE  PoolInv'
  <1>1. InUse' = InUse \cup {s} /\ s \notin InUse
    BY DEF TypeOK, Take, InUse, Holding
  <1>2. Cardinality(InUse') = Cardinality(InUse) + 1
    BY <1>1, InUseFinite, FS_AddElement
  <1>3. free' = free - 1
    BY DEF Take
  <1> QED
    BY <1>2, <1>3, InUseFinite, LimitAssumption DEF PoolInv, PoolIsWhole, InUse

\* A request that ends or commits returns the connection, if it holds one.
LEMMA PoolGives ==
    ASSUME TypeOK, PoolInv, NEW s \in Slots, NEW next \in {"idle", "committed"},
           pc' = [pc EXCEPT ![s] = next],
           free' = IF Holding(s) THEN free + 1 ELSE free
    PROVE  PoolInv'
  <1>1. InUse' = InUse \ {s} /\ (Holding(s) <=> s \in InUse)
    BY DEF TypeOK, InUse, Holding
  <1>2. Cardinality(InUse') = IF s \in InUse THEN Cardinality(InUse) - 1
                                             ELSE Cardinality(InUse)
    BY <1>1, InUseFinite, FS_RemoveElement
  <1>3. Cardinality(InUse') \in Nat
    BY <1>1, InUseFinite, FS_RemoveElement, FS_CardinalityType
  <1> QED
    BY <1>1, <1>2, <1>3, InUseFinite, LimitAssumption DEF PoolInv, PoolIsWhole, InUse

\* All else leaves the connections where they are.
LEMMA PoolKeeps ==
    ASSUME PoolInv, free' = free, \A s \in Slots : Holding(s)' <=> Holding(s)
    PROVE  PoolInv'
  <1>1. InUse' = InUse
    BY DEF InUse
  <1> QED
    BY <1>1 DEF PoolInv, PoolIsWhole, InUse

-----------------------------------------------------------------------------
(* Type correctness and the pool *)

EntryInv == TypeOK /\ PoolIsWhole

LEMMA EntryInit == Init => EntryInv
  <1> SUFFICES ASSUME Init PROVE EntryInv
    OBVIOUS
  <1>1. TypeOK
    BY OwnerAssumption, LimitAssumption, TtlAssumption, MaxTimeAssumption
    DEF Init, TypeOK, Accounts, Gone, Never, NoRequest
  <1>2. {s \in Slots : Holding(s)} = {}
    BY DEF Init, Holding
  <1>3. PoolIsWhole
    BY <1>2, FS_EmptySet, LimitAssumption DEF Init, PoolIsWhole
  <1> QED
    BY <1>1, <1>3 DEF EntryInv

\* The end of a request, however it comes about.
LEMMA CloseStep ==
    ASSUME EntryInv, NEW s \in Slots, Close(s),
           token' \in [Users -> [access : 0..(MaxTime + AccessTtl),
                                 refresh : 0..(MaxTime + RefreshTtl)]]
    PROVE  EntryInv'
  <1>1. PoolInv'
    BY PoolGives DEF EntryInv, TypeOK, PoolInv, Close
  <1>2. row' \in [Slots -> Accounts] /\ req' \in [Slots -> Requests \cup {NoRequest}]
    BY DEF EntryInv, TypeOK, Close, Accounts, Gone
  <1> QED
    BY <1>1, <1>2 DEF EntryInv, TypeOK, PoolInv, Close

LEMMA EntryStep == EntryInv /\ [Next]_vars => EntryInv'
  <1> SUFFICES ASSUME EntryInv, [Next]_vars PROVE EntryInv'
    OBVIOUS
  <1>a. TypeOK /\ PoolInv
    BY DEF EntryInv, TypeOK, PoolInv
  <1>b. ASSUME TypeOK', PoolInv' PROVE EntryInv'
    BY <1>b DEF EntryInv, PoolInv
  <1>c. \A u \in Users : \A q \in Requests \cup {NoRequest} : q.user \in Users
    BY RequestsAssumption, OwnerAssumption DEF NoRequest
  <1>1. ASSUME NEW s \in Slots, NEW next \in {"asking", "rereading"},
               pc[s] \in {"waiting", "committed"}, free > 0, Take(s, next)
        PROVE  EntryInv'
    <2>1. PoolInv'
      BY <1>a, <1>1, PoolTakes
    <2> QED
      BY <1>a, <1>1, <1>b, <2>1 DEF TypeOK, PoolInv, Take
  <1>2. ASSUME NEW s \in Slots, Connect(s) \/ Reread(s) PROVE EntryInv'
    BY <1>1, <1>2 DEF Connect, Reread
  <1>3. ASSUME NEW s \in Slots, PoolTimeout(s) \/ Ping(s) \/ Refuse(s) \/ Finish(s) \/ Broken(s)
        PROVE  EntryInv'
    BY <1>a, <1>3, CloseStep DEF TypeOK, PoolTimeout, Ping, Refuse, Finish, Broken
  <1>4. ASSUME NEW s \in Slots, Ask(s) PROVE EntryInv'
    <2>1. PoolInv'
      BY <1>a, <1>4, PoolKeeps DEF TypeOK, Ask, Holding
    <2>2. account[Asked(req[s])] \in Accounts
      BY <1>a, <1>c, OwnerAssumption DEF TypeOK, Asked
    <2> QED
      BY <1>a, <1>b, <1>4, <2>1, <2>2 DEF TypeOK, Ask
  <1>5. ASSUME NEW s \in Slots, Pair(s) PROVE EntryInv'
    <2>1. NewPair \in [access : 0..(MaxTime + AccessTtl), refresh : 0..(MaxTime + RefreshTtl)]
      BY <1>a, TtlAssumption, MaxTimeAssumption DEF TypeOK, NewPair
    <2> QED
      BY <1>a, <1>5, <2>1, CloseStep DEF TypeOK, Pair, PairIf
  <1>6. ASSUME NEW s \in Slots, OwnerAccess(s) PROVE EntryInv'
    <2>1. now + AccessTtl \in 0..(MaxTime + AccessTtl)
      BY <1>a, TtlAssumption, MaxTimeAssumption DEF TypeOK
    <2> QED
      BY <1>a, <1>6, <2>1, CloseStep, OwnerAssumption DEF TypeOK, OwnerAccess
  <1>7. ASSUME NEW s \in Slots, Enter(s) PROVE EntryInv'
    <2>1. PoolInv'
      BY <1>a, <1>7, PoolKeeps DEF TypeOK, Enter, Holding
    <2>2. Gone \in Accounts
      BY DEF Accounts
    <2> QED
      BY <1>a, <1>b, <1>7, <2>1, <2>2 DEF TypeOK, Enter
  <1>8. ASSUME NEW s \in Slots, Commit(s) PROVE EntryInv'
    <2>1. PoolInv'
      BY <1>a, <1>8, PoolGives DEF TypeOK, Commit, Holding
    <2> QED
      BY <1>a, <1>b, <1>8, <2>1 DEF TypeOK, PoolInv, Commit
  <1>9. ASSUME NEW s \in Slots, NEW q \in Requests, Arrive(s, q) PROVE EntryInv'
    <2>1. PoolInv'
      BY <1>a, <1>9, PoolKeeps DEF TypeOK, Arrive, Holding
    <2>2. Standing(account[q.user]) \in SUBSET {"active", "admin"}
      BY DEF Standing
    <2> QED
      BY <1>a, <1>b, <1>9, <2>1, <2>2 DEF TypeOK, Arrive
  <1>10. ASSUME NEW u \in Edited, NEW a \in Accounts, Edit(u, a) PROVE EntryInv'
    <2>1. PoolInv'
      BY <1>a, <1>10, PoolKeeps DEF TypeOK, Edit, Holding
    <2>2. Standing(a) \in SUBSET {"active", "admin"}
      BY DEF Standing
    <2> QED
      BY <1>a, <1>b, <1>10, <2>1, <2>2, EditedAssumption DEF TypeOK, Edit
  <1>11. ASSUME Tick PROVE EntryInv'
    <2>1. PoolInv'
      BY <1>a, <1>11, PoolKeeps DEF TypeOK, Tick, Holding
    <2> QED
      BY <1>a, <1>b, <1>11, <2>1, MaxTimeAssumption DEF TypeOK, Tick
  <1>12. CASE UNCHANGED vars
    BY <1>12, <1>a, <1>b, PoolKeeps DEF vars, TypeOK, Holding
  <1> QED
    BY NextSplit, <1>2, <1>3, <1>4, <1>5, <1>6, <1>7, <1>8, <1>9, <1>10, <1>11, <1>12

\* Type correctness of the rows, the tokens and the requests under way.
THEOREM TypeCorrect == Spec => []TypeOK
  <1>1. EntryInv => TypeOK
    BY DEF EntryInv
  <1> QED
    BY <1>1, EntryInit, EntryStep, PTL DEF Spec

\* No connection is lost, however requests end: a pool of any size serves for ever.
THEOREM PoolWhole == Spec => []PoolIsWhole
  <1>1. EntryInv => PoolIsWhole
    BY DEF EntryInv
  <1> QED
    BY <1>1, EntryInit, EntryStep, PTL DEF Spec

-----------------------------------------------------------------------------
(* Whoever acts has the standing *)

\* stood[s] has what the row of its user says now, and what the request has read.
StoodHasRow ==
    \A s \in Slots : pc[s] # "idle" =>
        /\ Standing(account[req[s].user]) \subseteq stood[s]
        /\ pc[s] = "read" /\ req[s].door # "oauth" => Standing(row[s]) \subseteq stood[s]

StandingInv == TypeOK /\ StoodHasRow /\ ActsWithStanding

\* What the checks of a REST request conclude from the row is in its standing.
LEMMA AdmittedHasStanding ==
    ASSUME StandingInv, NEW s \in Slots, Enter(s), req[s].door = "rest"
    PROVE  IF req[s].user = req[s].tenant THEN "active" \in stood[s]
                                          ELSE "admin" \in stood[s]
  BY DEF StandingInv, StoodHasRow, Enter, Admits, MayActFor, Standing

LEMMA StandingStep == StandingInv /\ TypeOK' /\ [Next]_vars => StandingInv'
  <1> DEFINE Goal == StoodHasRow' /\ ActsWithStanding'
  <1> SUFFICES ASSUME StandingInv, TypeOK', [Next]_vars PROVE Goal
    BY DEF StandingInv
  <1>a. TypeOK /\ StoodHasRow /\ ActsWithStanding
    BY DEF StandingInv
  <1> USE DEF TypeOK, StoodHasRow, ActsWithStanding
  <1>1. ASSUME NEW s \in Slots, Connect(s) \/ Reread(s) PROVE Goal
    BY <1>a, <1>1 DEF Connect, Reread, Take
  <1>2. ASSUME NEW s \in Slots, Close(s) PROVE Goal
    BY <1>a, <1>2 DEF Close
  <1>3. ASSUME NEW s \in Slots, Ask(s) PROVE Goal
    BY <1>a, <1>3 DEF Ask, Asked
  <1>4. ASSUME NEW s \in Slots, Enter(s) PROVE Goal
    <2>1. req[s].door = "rest" => IF req[s].user = req[s].tenant
                                    THEN "active" \in stood[s] ELSE "admin" \in stood[s]
      BY <1>4, AdmittedHasStanding
    <2> QED
      BY <1>a, <1>4, <2>1 DEF Enter
  <1>5. ASSUME NEW s \in Slots, Commit(s) PROVE Goal
    BY <1>a, <1>5 DEF Commit
  <1>6. ASSUME NEW s \in Slots, NEW q \in Requests, Arrive(s, q) PROVE Goal
    BY <1>a, <1>6 DEF Arrive
  <1>7. ASSUME NEW u \in Edited, NEW a \in Accounts, Edit(u, a) PROVE Goal
    <2>1. \A s \in Slots : pc[s] # "idle" =>
            /\ req'[s] = req[s] /\ pc'[s] = pc[s] /\ row'[s] = row[s]
            /\ stood[s] \subseteq stood'[s]
            /\ Standing(account'[req[s].user]) \subseteq stood'[s]
      BY <1>a, <1>7, EditedAssumption DEF Edit
    <2> QED
      BY <1>a, <1>7, <2>1 DEF Edit
  <1>8. ASSUME Tick PROVE Goal
    BY <1>a, <1>8 DEF Tick
  <1>9. CASE UNCHANGED vars
    BY <1>9, <1>a DEF vars
  <1>10. ASSUME NEW s \in Slots,
                \/ PoolTimeout(s) \/ Ping(s) \/ Pair(s) \/ OwnerAccess(s)
                \/ Refuse(s) \/ Finish(s) \/ Broken(s)
         PROVE  Goal
    BY <1>2, <1>10 DEF PoolTimeout, Ping, Pair, PairIf, OwnerAccess, Refuse, Finish, Broken
  <1> HIDE DEF Goal
  <1> QED
    BY NextSplit, <1>1, <1>3, <1>4, <1>5, <1>6, <1>7, <1>8, <1>9, <1>10

\* A REST request acts only for a user who was active, and only on a tenant that is
\* the user or was an admin's to act on, at some moment since the request came in.
THEOREM StandingKept == Spec => []ActsWithStanding
  <1>1. Init => StandingInv
    BY EntryInit DEF EntryInv, StandingInv, Init, StoodHasRow, ActsWithStanding
  <1>2. StandingInv => ActsWithStanding
    BY DEF StandingInv
  <1> QED
    BY <1>1, <1>2, StandingStep, TypeCorrect, PTL DEF Spec

-----------------------------------------------------------------------------
(* Suspension *)

\* Who is active is so now, and a row that a login or a refresh has read is of this
\* moment: the clock does not move before the handler has looked at it.
ActiveNow ==
    \A u \in Users : /\ active[u] <= now
                     /\ account[u].status = "active" => active[u] = now
ReadNow ==
    \A s \in Slots : pc[s] = "read" /\ req[s].door \in {"login", "refresh"}
                     /\ row[s].status = "active" => active[req[s].user] = now

SuspensionInv == TypeOK /\ ActiveNow /\ ReadNow /\ SuspensionTakesHold

LEMMA SuspensionInit == Init => SuspensionInv
  <1> SUFFICES ASSUME Init PROVE SuspensionInv
    OBVIOUS
  <1>1. TypeOK
    BY EntryInit DEF EntryInv
  <1> QED
    BY <1>1, TtlAssumption
    DEF Init, SuspensionInv, ActiveNow, ReadNow, SuspensionTakesHold, Never

\* The last moment at which a user was active does not go back, so that a token which
\* is not renewed stays within its bound.
LEMMA ActiveGrows ==
    ASSUME SuspensionInv, TypeOK', SuspensionTakesHold, token' = token,
           \A u \in Users : active[u] <= active'[u]
    PROVE  SuspensionTakesHold'
  BY TtlAssumption DEF SuspensionInv, TypeOK, SuspensionTakesHold

LEMMA SuspensionStep == SuspensionInv /\ TypeOK' /\ [Next]_vars => SuspensionInv'
  <1> DEFINE Goal == ActiveNow' /\ ReadNow' /\ SuspensionTakesHold'
  <1> SUFFICES ASSUME SuspensionInv, TypeOK', [Next]_vars PROVE Goal
    BY DEF SuspensionInv
  <1>a. TypeOK /\ ActiveNow /\ ReadNow /\ SuspensionTakesHold
    BY DEF SuspensionInv
  <1>b. \A q \in Requests \cup {NoRequest} : q.user \in Users
    BY RequestsAssumption, OwnerAssumption DEF NoRequest
  <1>c. ASSUME UNCHANGED <<token, active>> PROVE SuspensionTakesHold'
    BY <1>a, <1>c DEF SuspensionTakesHold
  <1> USE DEF TypeOK, ActiveNow, ReadNow
  <1>1. ASSUME NEW s \in Slots, Connect(s) \/ Reread(s) PROVE Goal
    BY <1>a, <1>c, <1>1 DEF Connect, Reread, Take
  <1>2. ASSUME NEW s \in Slots, Close(s) PROVE ActiveNow' /\ ReadNow'
    BY <1>a, <1>2 DEF Close
  <1>3. ASSUME NEW s \in Slots,
               PoolTimeout(s) \/ Ping(s) \/ Refuse(s) \/ Finish(s) \/ Broken(s)
        PROVE  Goal
    <2>1. Close(s) /\ token' = token
      BY <1>3 DEF PoolTimeout, Ping, Refuse, Finish, Broken
    <2> QED
      BY <1>2, <1>c, <2>1 DEF Close
  <1>4. ASSUME NEW s \in Slots, Pair(s) PROVE Goal
    <2>1. /\ Close(s) /\ active[req[s].user] = now
          /\ token' = [token EXCEPT ![req[s].user] = NewPair]
      BY <1>a, <1>4 DEF Pair, PairIf
    <2>2. active' = active
      BY <2>1 DEF Close
    <2>3. SuspensionTakesHold'
      BY <1>a, <1>b, <2>1, <2>2, TtlAssumption DEF SuspensionTakesHold, NewPair
    <2> QED
      BY <1>2, <2>1, <2>3
  <1>5. ASSUME NEW s \in Slots, OwnerAccess(s) PROVE Goal
    <2>1. /\ Close(s)
          /\ \A u \in Users \ {Owner} : token'[u] = token[u]
      BY <1>a, <1>5 DEF OwnerAccess
    <2> QED
      BY <1>a, <1>2, <2>1 DEF SuspensionTakesHold, Close
  <1>6. ASSUME NEW s \in Slots, Ask(s) PROVE Goal
    BY <1>a, <1>b, <1>c, <1>6 DEF Ask, Asked
  <1>7. ASSUME NEW s \in Slots, Enter(s) \/ Commit(s) PROVE Goal
    BY <1>a, <1>c, <1>7 DEF Enter, Commit
  <1>8. ASSUME NEW s \in Slots, NEW q \in Requests, Arrive(s, q) PROVE Goal
    BY <1>a, <1>c, <1>8 DEF Arrive
  <1>9. ASSUME NEW u \in Edited, NEW a \in Accounts, Edit(u, a) PROVE Goal
    <2>1. u \in Users
      BY EditedAssumption
    <2>2. \A v \in Users : active'[v] = active[v] \/ active'[v] = now
      BY <1>a, <1>9, <2>1 DEF Edit
    <2>3. active[u] <= now
      BY <1>a, <2>1
    <2> QED
      BY <1>a, <1>b, <1>9, <2>1, <2>2, <2>3, ActiveGrows DEF Edit
  <1>10. ASSUME Tick PROVE Goal
    BY <1>a, <1>10, ActiveGrows DEF Tick
  <1>11. CASE UNCHANGED vars
    BY <1>11, <1>a, <1>c DEF vars
  <1> HIDE DEF Goal
  <1> QED
    BY NextSplit, <1>1, <1>3, <1>4, <1>5, <1>6, <1>7, <1>8, <1>9, <1>10, <1>11

\* No token of a user other than the owner outlives by more than its ttl the last
\* moment at which its user was active, however users are edited meanwhile.
THEOREM SuspensionHolds == Spec => []SuspensionTakesHold
  <1>1. SuspensionInv => SuspensionTakesHold
    BY DEF SuspensionInv
  <1> QED
    BY <1>1, SuspensionInit, SuspensionStep, TypeCorrect, PTL DEF Spec
=============================================================================
