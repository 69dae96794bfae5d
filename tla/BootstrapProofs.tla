---------------------------- MODULE BootstrapProofs ----------------------------
(***************************************************************************)
(* Proofs about Bootstrap, for every number of processes, skills and       *)
(* starts, whatever the operator edits and whenever a process stops.       *)
(***************************************************************************)
EXTENDS Bootstrap, TLAPS

USE DEF procVars

Labels == {"off", "user", "user_flush", "sub", "sub_flush", "host", "host_flush",
           "skills", "skills_flush", "commit", "ready", "skipped"}

\* A row was provided once, though an operator may have deleted it.
Known == rows \cup removed

\* What a process that has come to a label has seen to, and what its last SELECT was for.
Behind(label) ==
    CASE label \in {"sub", "sub_flush"} -> {"user"}
      [] label \in {"host", "host_flush"} -> {"user", "sub"}
      [] label \in {"skills", "skills_flush"} -> {"user", "sub", "host"}
      [] label = "commit" -> Keys
      [] OTHER -> {}
Selected(label) ==
    CASE label = "user_flush" -> {"user"}
      [] label = "sub_flush" -> {"sub"}
      [] label = "host_flush" -> {"host"}
      [] label = "skills_flush" -> Skills
      [] OTHER -> {}

\* The tables do not take the host, and no one has put it in by hand.
HostRefused == ~tagsFit /\ "host" \notin rows

\* What process p can rely on, though what it selected may be out of date.
Progress(p) ==
    /\ pc[p] \in {"off", "user", "ready", "skipped"} => inserted[p] = {} /\ ~rehash[p]
    /\ pc[p] = "off" => missing[p] = {}
    /\ Behind(pc[p]) \subseteq Known \cup inserted[p]
    /\ Selected(pc[p]) \subseteq Known \cup inserted[p] \cup missing[p]
    /\ "user" \in missing[p] => pc[p] = "user_flush" /\ rehash[p]
    /\ "user" \in inserted[p] => rehash[p]
    /\ (pc[p] \notin {"off", "user", "ready", "skipped"} /\ ~rehash[p]) =>
          "user" \in rows /\ password # "placeholder"

\* All defaults were provided, and the owner can log in.
Complete == Keys \ removed \subseteq rows /\ password \notin {"none", "placeholder"}

BootInv ==
    /\ TypeOK /\ "user" \notin removed
    /\ \A p \in Procs : Progress(p)
    /\ (\E p \in Procs : pc[p] = "ready" \/ missing[p] \cap rows # {}) => Complete
    /\ (\E p \in Procs : pc[p] = "skipped") => Complete \/ HostRefused

-----------------------------------------------------------------------------
(* Lemmas about the steps *)

\* The labels a process passes, each with the keys it deals with.
Inserting(p) ==
    \E s \in {<<"user_flush", {"user"}, "sub">>, <<"sub_flush", {"sub"}, "host">>,
              <<"host_flush", {"host"}, "skills">>, <<"skills_flush", Skills, "commit">>} :
        Insert(p, s[1], s[2], s[3])
Rejected(p) ==
    \E s \in {<<"user_flush", {"user"}>>, <<"sub_flush", {"sub"}>>,
              <<"host_flush", {"host"}>>, <<"skills_flush", Skills>>} :
        InsertRejected(p, s[1], s[2])
Selecting(p) ==
    \E s \in {<<"sub", {"sub"}, "sub_flush">>, <<"host", {"host"}, "host_flush">>,
              <<"skills", Skills \ Sees(p), "skills_flush">>} :
        Find(p, s[1], s[2], s[3]) /\ UNCHANGED rehash

\* Every action of the specification, those of one kind together.
LEMMA NextSplit ==
    ASSUME Next
    PROVE  \/ \E p \in Procs : \/ Start(p) \/ SelectUser(p) \/ Selecting(p)
                               \/ Inserting(p) \/ Rejected(p) \/ Commit(p) \/ Stop(p)
           \/ \E k \in Keys : DeleteRow(k)
           \/ AddHost
           \/ SetPassword
  <1>1. ASSUME NEW p \in Procs, SelectSub(p) \/ SelectHost(p) \/ SelectSkills(p)
        PROVE  Selecting(p)
    BY <1>1 DEF SelectSub, SelectHost, SelectSkills, Wanted, Selecting
  <1>2. ASSUME NEW p \in Procs, FlushUser(p) \/ FlushSub(p) \/ FlushHost(p) \/ FlushSkills(p)
        PROVE  Inserting(p)
    BY <1>2 DEF FlushUser, FlushSub, FlushHost, FlushSkills, Inserting
  <1>3. ASSUME NEW p \in Procs, \/ FlushUserRejected(p) \/ FlushSubRejected(p)
                                \/ FlushHostRejected(p) \/ FlushSkillsRejected(p)
        PROVE  Rejected(p)
    BY <1>3
    DEF FlushUserRejected, FlushSubRejected, FlushHostRejected, FlushSkillsRejected, Rejected
  <1> QED
    BY <1>1, <1>2, <1>3 DEF Next, Step

\* What a process relies on outlasts the steps of others.
LEMMA ProgressStays ==
    ASSUME NEW p \in Procs, Progress(p), Known \subseteq Known',
           "user" \in rows => "user" \in rows',
           password' = "placeholder" => password = "placeholder",
           pc'[p] = pc[p], missing'[p] = missing[p], inserted'[p] = inserted[p],
           rehash'[p] = rehash[p]
    PROVE  Progress(p)'
  BY DEF Progress, Behind, Selected

\* That all was provided is never taken back.
LEMMA CompleteStays ==
    ASSUME Complete, Known \subseteq Known',
           password' \in {"none", "placeholder"} => password' = password
    PROVE  Complete'
  BY DEF Complete, Known

\* The tables after the steps of a process that do not commit, and of what it selects.
LEMMA TablesKept ==
    ASSUME BootInv, NEW p \in Procs, UNCHANGED <<tagsFit, rows, password, removed, starts>>,
           pc' \in [Procs -> Labels], missing' \in [Procs -> SUBSET Keys],
           inserted' \in [Procs -> SUBSET Keys], rehash' \in [Procs -> BOOLEAN],
           \A q \in Procs \ {p} : /\ pc'[q] = pc[q] /\ missing'[q] = missing[q]
                                  /\ inserted'[q] = inserted[q] /\ rehash'[q] = rehash[q],
           Progress(p)', pc'[p] # "ready",
           missing'[p] \cap rows # {} => Complete,
           pc'[p] = "skipped" => Complete \/ HostRefused
    PROVE  BootInv'
  <1>1. \A q \in Procs \ {p} : Progress(q)'
    BY ProgressStays DEF BootInv, Known
  <1>2. Complete => Complete'
    BY DEF Complete
  <1>3. HostRefused => HostRefused'
    BY DEF HostRefused
  <1> QED
    BY <1>1, <1>2, <1>3 DEF BootInv, TypeOK, Labels

-----------------------------------------------------------------------------
(* The inductive invariant *)

LEMMA BootInit == Init => BootInv
  <1> SUFFICES ASSUME Init PROVE BootInv
    OBVIOUS
  <1>1. TypeOK
    BY SkillsAssumption, MaxStartsAssumption DEF Init, TypeOK, Keys
  <1>2. \A p \in Procs : Progress(p)
    BY DEF Init, Progress, Behind, Selected
  <1> QED
    BY <1>1, <1>2 DEF Init, BootInv

LEMMA BootStep == BootInv /\ [Next]_vars => BootInv'
  <1> SUFFICES ASSUME BootInv, [Next]_vars PROVE BootInv'
    OBVIOUS
  <1>a. TypeOK /\ "user" \notin removed /\ \A p \in Procs : Progress(p)
    BY DEF BootInv
  <1>b. \A k \in Skills : k \notin {"user", "sub", "host"}
    BY SkillsAssumption
  <1>1. ASSUME NEW p \in Procs, Start(p) PROVE BootInv'
    <2>1. /\ pc' = [pc EXCEPT ![p] = "user"] /\ pc[p] = "off"
          /\ UNCHANGED <<tagsFit, rows, password, removed, missing, inserted, rehash>>
          /\ starts' \in [Procs -> 0..MaxStarts]
      BY <1>a, <1>1, MaxStartsAssumption DEF Start, TypeOK
    <2>2. Progress(p)'
      BY <1>a, <2>1 DEF TypeOK, Progress, Behind, Selected, Known
    <2>3. \A q \in Procs \ {p} : Progress(q)'
      BY <1>a, <2>1, ProgressStays DEF Known, TypeOK
    <2>4. (Complete => Complete') /\ (HostRefused => HostRefused')
      BY <2>1 DEF Complete, HostRefused
    <2> QED
      BY <1>a, <2>1, <2>2, <2>3, <2>4 DEF BootInv, TypeOK
  <1>2. ASSUME NEW p \in Procs, SelectUser(p) PROVE BootInv'
    <2>1. /\ pc[p] = "user" /\ pc' = [pc EXCEPT ![p] = "user_flush"]
          /\ missing' = [missing EXCEPT ![p] = {"user"} \ Sees(p)]
          /\ rehash' = [rehash EXCEPT ![p] = NeedsHash]
          /\ UNCHANGED <<tagsFit, rows, password, removed, starts, inserted>>
      BY <1>2 DEF SelectUser, Find
    <2>2. inserted[p] = {} /\ Sees(p) = rows
      BY <1>a, <2>1 DEF Progress, Sees
    <2>3. Progress(p)'
      BY <1>a, <2>1, <2>2 DEF TypeOK, Progress, Behind, Selected, Known, NeedsHash
    <2> QED
      BY <1>a, <2>1, <2>2, <2>3, TablesKept DEF TypeOK, Keys, Labels, NeedsHash
  <1>3. ASSUME NEW p \in Procs, Selecting(p) PROVE BootInv'
    <2>1. PICK s \in {<<"sub", {"sub"}, "sub_flush">>, <<"host", {"host"}, "host_flush">>,
                      <<"skills", Skills \ Sees(p), "skills_flush">>} :
                 Find(p, s[1], s[2], s[3]) /\ UNCHANGED rehash
      BY <1>3 DEF Selecting
    <2>2. /\ pc[p] = s[1] /\ pc' = [pc EXCEPT ![p] = s[3]]
          /\ missing' = [missing EXCEPT ![p] = s[2] \ Sees(p)]
          /\ UNCHANGED <<tagsFit, rows, password, removed, starts, inserted, rehash>>
      BY <2>1 DEF Find
    <2>3. /\ Behind(s[1]) = Behind(s[3])
          /\ Selected(s[3]) \subseteq s[2] \cup Sees(p)
          /\ s[2] \subseteq Keys /\ "user" \notin s[2]
          /\ s[1] \in {"sub", "host", "skills"}
          /\ s[3] \in {"sub_flush", "host_flush", "skills_flush"}
      BY <1>b DEF Behind, Selected, Keys
    <2>4. Progress(p)'
      BY <1>a, <2>2, <2>3 DEF TypeOK, Progress, Known, Sees
    <2> QED
      BY <1>a, <2>2, <2>3, <2>4, TablesKept DEF TypeOK, Labels, Sees
  <1>4. ASSUME NEW p \in Procs, Inserting(p) PROVE BootInv'
    <2>1. PICK s \in {<<"user_flush", {"user"}, "sub">>, <<"sub_flush", {"sub"}, "host">>,
                      <<"host_flush", {"host"}, "skills">>, <<"skills_flush", Skills, "commit">>} :
                 Insert(p, s[1], s[2], s[3])
      BY <1>4 DEF Inserting
    <2> DEFINE new == missing[p] \cap s[2]
    <2>2. /\ pc[p] = s[1] /\ pc' = [pc EXCEPT ![p] = s[3]] /\ new \cap rows = {}
          /\ inserted' = [inserted EXCEPT ![p] = @ \cup new]
          /\ missing' = [missing EXCEPT ![p] = @ \ new]
          /\ UNCHANGED <<tagsFit, rows, password, removed, starts, rehash>>
      BY <2>1 DEF Insert
    <2>3. /\ Behind(s[3]) = Behind(s[1]) \cup s[2]
          /\ Selected(s[1]) = s[2] /\ Selected(s[3]) = {}
          /\ s[2] \subseteq Keys
          /\ s[1] \in {"user_flush", "sub_flush", "host_flush", "skills_flush"}
          /\ s[3] \in {"sub", "host", "skills", "commit"}
      BY DEF Behind, Selected, Keys
    <2>4. missing'[p] \subseteq missing[p]
      BY <1>a, <2>2 DEF TypeOK
    <2>5. Progress(p)'
      BY <1>a, <2>2, <2>3, <2>4 DEF TypeOK, Progress, Known
    <2>6. missing'[p] \cap rows # {} => Complete
      BY <2>4 DEF BootInv
    <2> QED
      BY <1>a, <2>2, <2>3, <2>5, <2>6, TablesKept DEF TypeOK, Labels
  <1>5. ASSUME NEW p \in Procs, NEW next \in {"off", "skipped"}, Rollback(p, next),
               next = "skipped" => Complete \/ HostRefused
        PROVE  BootInv'
    <2>1. /\ pc' = [pc EXCEPT ![p] = next] /\ missing' = [missing EXCEPT ![p] = {}]
          /\ inserted' = [inserted EXCEPT ![p] = {}] /\ rehash' = [rehash EXCEPT ![p] = FALSE]
          /\ UNCHANGED <<tagsFit, rows, password, removed, starts>>
      BY <1>5 DEF Rollback
    <2>2. Progress(p)'
      BY <1>a, <2>1 DEF TypeOK, Progress, Behind, Selected, Known
    <2> QED
      BY <1>a, <1>5, <2>1, <2>2, TablesKept DEF TypeOK, Labels
  <1>6. ASSUME NEW p \in Procs, Rejected(p) PROVE BootInv'
    <2>1. PICK s \in {<<"user_flush", {"user"}>>, <<"sub_flush", {"sub"}>>,
                      <<"host_flush", {"host"}>>, <<"skills_flush", Skills>>} :
                 InsertRejected(p, s[1], s[2])
      BY <1>6 DEF Rejected
    <2>2. Rollback(p, "skipped") /\ (missing[p] \cap rows = {} => HostRefused)
      BY <2>1 DEF InsertRejected, Fits, HostRefused
    <2> QED
      BY <1>5, <2>2 DEF BootInv
  <1>7. ASSUME NEW p \in Procs, Stop(p) PROVE BootInv'
    BY <1>5, <1>7 DEF Stop
  <1>8. ASSUME NEW p \in Procs, Commit(p) PROVE BootInv'
    <2>1. /\ pc[p] = "commit" /\ rows' = rows \cup inserted[p] /\ password' = PasswordAfter(p)
          /\ removed' = removed \ inserted[p] /\ inserted' = [inserted EXCEPT ![p] = {}]
          /\ rehash' = [rehash EXCEPT ![p] = FALSE] /\ pc' = [pc EXCEPT ![p] = "ready"]
          /\ UNCHANGED <<tagsFit, starts, missing>>
      BY <1>8 DEF Commit
    <2>2. /\ Keys \subseteq Known \cup inserted[p] /\ inserted[p] \subseteq Keys
          /\ "user" \notin missing[p]
          /\ ~rehash[p] => "user" \in rows /\ password # "placeholder"
          /\ "user" \in inserted[p] => rehash[p]
      BY <1>a, <2>1 DEF Progress, Behind, TypeOK
    <2>3. "user" \in rows'
      BY <1>a, <2>1, <2>2 DEF Known, Keys
    <2>4. password' \notin {"none", "placeholder"}
          /\ password' \in {"none", "placeholder", "set", "own"}
      BY <1>a, <2>1, <2>2 DEF PasswordAfter, TypeOK
    <2>5. Complete'
      BY <2>1, <2>2, <2>4 DEF Complete, Known
    <2>6. TypeOK'
      BY <1>a, <2>1, <2>2, <2>3, <2>4 DEF TypeOK
    <2>7. Progress(p)'
      BY <1>a, <2>1, <2>2 DEF Progress, TypeOK, Behind, Selected, Known
    <2>8. \A q \in Procs \ {p} : Progress(q)'
      BY <1>a, <2>1, <2>4, ProgressStays DEF Known, TypeOK
    <2> QED
      BY <1>a, <2>1, <2>5, <2>6, <2>7, <2>8 DEF BootInv
  <1>9. ASSUME NEW k \in Keys, DeleteRow(k) PROVE BootInv'
    <2>1. /\ rows' = rows \ {k} /\ removed' = removed \cup {k} /\ k # "user"
          /\ UNCHANGED <<tagsFit, password, procVars>>
      BY <1>9 DEF DeleteRow
    <2>2. TypeOK'
      BY <1>a, <2>1 DEF TypeOK
    <2>3. \A q \in Procs : Progress(q)'
      BY <1>a, <2>1, ProgressStays DEF Known
    <2>4. (Complete => Complete') /\ (HostRefused => HostRefused')
      BY <2>1, CompleteStays DEF Known, HostRefused
    <2> QED
      BY <1>a, <2>1, <2>2, <2>3, <2>4 DEF BootInv
  <1>10. ASSUME SetPassword PROVE BootInv'
    <2>1. password' = "own" /\ "user" \in rows /\ UNCHANGED <<tagsFit, rows, removed, procVars>>
      BY <1>10 DEF SetPassword
    <2>2. TypeOK'
      BY <1>a, <2>1 DEF TypeOK
    <2>3. \A q \in Procs : Progress(q)'
      BY <1>a, <2>1, ProgressStays DEF Known
    <2>4. (Complete => Complete') /\ (HostRefused => HostRefused')
      BY <2>1, CompleteStays DEF Known, HostRefused
    <2> QED
      BY <1>a, <2>1, <2>2, <2>3, <2>4 DEF BootInv
  <1>11. ASSUME AddHost PROVE BootInv'
    <2>1. /\ rows' = rows \cup {"host"} /\ removed' = removed \ {"host"}
          /\ UNCHANGED <<tagsFit, password, procVars>>
          /\ "user" \in rows /\ \A q \in Procs : pc[q] = "off" /\ missing[q] = {}
      BY <1>a, <1>11 DEF AddHost, Progress
    <2>2. TypeOK'
      BY <1>a, <2>1 DEF TypeOK, Keys
    <2>3. \A q \in Procs : Progress(q)'
      BY <1>a, <2>1, ProgressStays DEF Known
    <2> QED
      BY <1>a, <2>1, <2>2, <2>3 DEF BootInv
  <1>12. CASE UNCHANGED vars
    <2>1. \A q \in Procs : Progress(q)'
      BY <1>a, <1>12, ProgressStays DEF Known, vars
    <2> QED
      BY <1>a, <1>12, <2>1 DEF BootInv, TypeOK, Complete, HostRefused, vars
  <1> QED
    BY NextSplit, <1>1, <1>2, <1>3, <1>4, <1>6, <1>7, <1>8, <1>9, <1>10, <1>11, <1>12

\* Type correctness of the tables and the transactions; an owner who is there has a
\* password, if only the placeholder.
THEOREM TypeCorrect == Spec => []TypeOK
  <1>1. BootInv => TypeOK
    BY DEF BootInv
  <1> QED
    BY <1>1, BootInit, BootStep, PTL DEF Spec

\* A process that came through leaves nothing missing but what an operator deleted.
THEOREM ReadyComplete == Spec => []ReadyMeansComplete
  <1>1. BootInv => ReadyMeansComplete
    BY DEF BootInv, Complete, ReadyMeansComplete
  <1> QED
    BY <1>1, BootInit, BootStep, PTL DEF Spec

\* A process is rolled back only where another one has provided for it, or where the
\* tables do not take the host from bootstrap() and no one has put it in by hand: two
\* workers that race for the skills of a release do each other no harm.
THEOREM SkippedProvidedFor == Spec => []SkippedIsProvidedFor
  <1>1. BootInv => SkippedIsProvidedFor
    BY DEF BootInv, Complete, HostRefused, SkippedIsProvidedFor
  <1> QED
    BY <1>1, BootInit, BootStep, PTL DEF Spec
=============================================================================
