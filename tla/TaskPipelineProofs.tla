-------------------------- MODULE TaskPipelineProofs --------------------------
(***************************************************************************)
(* Proofs about TaskPipeline, for every number of requests, workers,       *)
(* projects and skills and every set of faults.                            *)
(***************************************************************************)
EXTENDS TaskPipeline, SequenceTheorems, TLAPS

\* The tuples that UNCHANGED conjuncts name.
USE DEF registryVars, apiVars, rowVars, auditVars, rqVars, workerVars

\* Every action of the specification, one disjunct each.
LEMMA NextSplit ==
    ASSUME Next
    PROVE  \/ \E r \in Requests :
                \/ Receive(r) \/ Lookup(r) \/ Write(r) \/ WriteRejected(r)
                \/ Enqueue(r) \/ SessionLost(r) \/ ApiCrash(r) \/ Requeue(r)
           \/ \E w \in Workers :
                \/ Dequeue(w) \/ Load(w) \/ LoadRejected(w) \/ LoadSkill(w)
                \/ LoadProject(w) \/ Finish(w) \/ FinishRejected(w)
                \/ Ack(w) \/ JobLost(w)
           \/ RedisCrash
           \/ \E p \in Projects : DeleteProject(p)
           \/ \E s \in Skills : DisableSkill(s)
  BY DEF Next, ApiStep, WorkerStep

-----------------------------------------------------------------------------
(* Type correctness *)

LEMMA TypeInit == Init => TypeOK
  BY HandlerAssumption
  DEF Init, TypeOK, Status, Final, Results, NoResult, Packs, Executing

LEMMA TypeStep == TypeOK /\ [Next]_vars => TypeOK'
  <1> SUFFICES ASSUME TypeOK, [Next]_vars PROVE TypeOK'
    OBVIOUS
  <1>1. ASSUME NEW r \in Requests, Receive(r) PROVE TypeOK'
    BY <1>1 DEF TypeOK, Receive, Goto, Answer, Executing
  <1>2. ASSUME NEW r \in Requests, Lookup(r) PROVE TypeOK'
    BY <1>2 DEF TypeOK, Lookup, Goto, Answer, Executing
  <1>3. ASSUME NEW r \in Requests, Write(r) PROVE TypeOK'
    BY <1>3 DEF TypeOK, Write, Goto, Executing, Status
  <1>4. ASSUME NEW r \in Requests, WriteRejected(r) PROVE TypeOK'
    BY <1>4 DEF TypeOK, WriteRejected, Answer, Executing
  <1>5. ASSUME NEW r \in Requests, Enqueue(r) PROVE TypeOK'
    <2>1. queue \in Seq(Requests)
      BY DEF TypeOK
    <2>2. queue' \in Seq(Requests)
      BY <1>5, <2>1, AppendProperties DEF Enqueue
    <2> QED
      BY <1>5, <2>2 DEF TypeOK, Enqueue, Answer, Executing
  <1>6. ASSUME NEW r \in Requests, SessionLost(r) \/ ApiCrash(r) PROVE TypeOK'
    BY <1>6 DEF TypeOK, SessionLost, Answer, ApiCrash, Executing
  <1>7. ASSUME NEW r \in Requests, Requeue(r) PROVE TypeOK'
    BY <1>7 DEF TypeOK, Requeue, Executing
  <1>8. ASSUME NEW w \in Workers, Dequeue(w) PROVE TypeOK'
    BY <1>8 DEF TypeOK, Dequeue, Executing
  <1>9. ASSUME NEW w \in Workers, Load(w) PROVE TypeOK'
    BY <1>9 DEF TypeOK, Load, Executing, Status
  <1>10. ASSUME NEW w \in Workers, LoadRejected(w) PROVE TypeOK'
    BY <1>10 DEF TypeOK, LoadRejected, Abandon, Leave, Executing, Packs
  <1>11. ASSUME NEW w \in Workers, LoadSkill(w) PROVE TypeOK'
    BY <1>11, HandlerAssumption DEF TypeOK, LoadSkill, Executing
  <1>12. ASSUME NEW w \in Workers, LoadProject(w) PROVE TypeOK'
    BY <1>12 DEF TypeOK, LoadProject, Executing, Packs
  <1>13. ASSUME NEW w \in Workers, Finish(w) PROVE TypeOK'
    BY <1>13 DEF TypeOK, Finish, Executing, Status, Final, Results, ResultOf, NoResult, Packs
  <1>14. ASSUME NEW w \in Workers, FinishRejected(w) PROVE TypeOK'
    BY <1>14 DEF TypeOK, FinishRejected, Abandon, Leave, Executing, Packs
  <1>15. ASSUME NEW w \in Workers, Ack(w) PROVE TypeOK'
    BY <1>15 DEF TypeOK, Ack, Leave, Executing, Packs
  <1>16. ASSUME NEW w \in Workers, JobLost(w) PROVE TypeOK'
    BY <1>16 DEF TypeOK, JobLost, Abandon, Leave, Executing, Packs
  <1>17. ASSUME RedisCrash PROVE TypeOK'
    <2>1. queue \in Seq(Requests)
      BY DEF TypeOK
    <2>2. ASSUME queue # << >>, queue' = SubSeq(queue, 1, Len(queue) - 1)
          PROVE  queue' \in Seq(Requests)
      BY <2>1, <2>2, LenProperties, ElementOfSeq, SubSeqProperties
    <2>3. ASSUME NEW w \in Workers, wpc[w] = "load",
                 queue' = <<job[w]>> \o queue
          PROVE  queue' \in Seq(Requests)
      <3>1. <<job[w]>> \in Seq(Requests)
        BY <2>3 DEF TypeOK, Executing
      <3> QED
        BY <2>1, <2>3, <3>1, ConcatProperties
    <2>4. queue' \in Seq(Requests)
      BY <1>17, <2>2, <2>3 DEF RedisCrash
    <2> QED
      BY <1>17, <2>4 DEF TypeOK, RedisCrash, Executing
  <1>18. ASSUME NEW p \in Projects, DeleteProject(p) PROVE TypeOK'
    BY <1>18 DEF TypeOK, DeleteProject, Executing
  <1>19. ASSUME NEW s \in Skills, DisableSkill(s) PROVE TypeOK'
    BY <1>19 DEF TypeOK, DisableSkill, Executing
  <1>20. CASE UNCHANGED vars
    BY <1>20 DEF TypeOK, vars, Executing
  <1> QED
    BY NextSplit, <1>1, <1>2, <1>3, <1>4, <1>5, <1>6, <1>7, <1>8, <1>9, <1>10,
       <1>11, <1>12, <1>13, <1>14, <1>15, <1>16, <1>17, <1>18, <1>19, <1>20

\* Type correctness of the rows, the locals and the queue, under every fault.
THEOREM TypeCorrect == Spec => []TypeOK
  BY TypeInit, TypeStep, PTL DEF Spec

-----------------------------------------------------------------------------
(* The list as a set *)

\* An append adds its job to those that wait.
LEMMA WaitingAppend ==
    ASSUME TypeOK, NEW t \in Requests, queue' = Append(queue, t)
    PROVE  Waiting' = Waiting \cup {t}
  <1>1. queue \in Seq(Requests)
    BY DEF TypeOK
  <1> QED
    BY <1>1, AppendProperties, LenProperties DEF Waiting

\* A pop takes the head off and leaves the rest.
LEMMA WaitingTail ==
    ASSUME TypeOK, queue # << >>, queue' = Tail(queue)
    PROVE  /\ Waiting = Waiting' \cup {Head(queue)}
           /\ Head(queue) = queue[1]
           /\ 1 \in 1..Len(queue)
           /\ Len(queue') = Len(queue) - 1
           /\ \A i \in 1..Len(queue') :
                 i + 1 \in 1..Len(queue) /\ queue'[i] = queue[i + 1]
  <1>1. queue \in Seq(Requests)
    BY DEF TypeOK
  <1>2. /\ Len(queue) \in Nat \ {0}
        /\ Len(queue') = Len(queue) - 1
        /\ \A i \in 1..Len(queue') : queue'[i] = queue[i + 1]
        /\ Head(queue) = queue[1]
    BY <1>1, HeadTailProperties, EmptySeq
  <1>3. ASSUME NEW i \in 1..Len(queue), i # 1
        PROVE  i - 1 \in 1..Len(queue') /\ queue'[i - 1] = queue[i]
    BY <1>2, <1>3
  <1> QED
    BY <1>2, <1>3 DEF Waiting

\* Whatever Redis brings back after a crash, the list names no new job but
\* one that a worker is loading.
LEMMA WaitingRedisCrash ==
    ASSUME TypeOK, RedisCrash
    PROVE  Waiting' \subseteq Waiting \cup Held
  <1>1. queue \in Seq(Requests)
    BY DEF TypeOK
  <1>2. CASE queue # << >> /\ queue' = SubSeq(queue, 1, Len(queue) - 1)
    <2> DEFINE n == Len(queue)
    <2>1. n \in Nat \ {0}
      BY <1>1, <1>2, EmptySeq
    <2>2. \A i \in 1..n - 1 : queue[i] \in Requests
      BY <1>1, <2>1, ElementOfSeq
    <2>3. Len(queue') = n - 1 /\ \A i \in 1..n - 1 : queue'[i] = queue[i]
      <3> DEFINE m == n - 1
      <3>1. 1 \in Int /\ m \in Int /\ \A i \in 1..m : queue[i] \in Requests
        BY <2>1, <2>2
      <3> HIDE DEF m
      <3>2. /\ Len(SubSeq(queue, 1, m)) = IF 1 <= m THEN m - 1 + 1 ELSE 0
            /\ \A i \in 1..m - 1 + 1 : SubSeq(queue, 1, m)[i] = queue[1 + i - 1]
        BY <3>1, SubSeqProperties
      <3>3. queue' = SubSeq(queue, 1, m)
        BY <1>2 DEF m
      <3>4. /\ Len(queue') = IF 1 <= m THEN m - 1 + 1 ELSE 0
            /\ \A i \in 1..m - 1 + 1 : queue'[i] = queue[1 + i - 1]
        BY <3>2, <3>3, Zenon
      <3>5. m \in Nat /\ m - 1 + 1 = m
        BY <2>1 DEF m
      <3>6. Len(queue') = m
        BY <3>4, <3>5
      <3>7. ASSUME NEW i \in 1..m PROVE queue'[i] = queue[i]
        BY <3>4, <3>5
      <3> QED
        BY <3>6, <3>7 DEF m
    <2> QED
      BY <2>1, <2>3 DEF Waiting
  <1>3. CASE \E w \in Workers :
               wpc[w] = "load" /\ queue' = <<job[w]>> \o queue
    <2>1. PICK w \in Workers : wpc[w] = "load" /\ queue' = <<job[w]>> \o queue
      BY <1>3
    <2>2. job[w] \in Requests /\ job[w] \in Held
      BY <2>1 DEF TypeOK, Executing, Held
    <2>3. <<job[w]>> \in Seq(Requests) /\ Len(<<job[w]>>) = 1
      BY <2>2
    <2>4. /\ Len(queue') = 1 + Len(queue)
          /\ \A i \in 1..Len(queue') :
                queue'[i] = IF i <= 1 THEN job[w] ELSE queue[i - 1]
      BY <1>1, <2>1, <2>3, ConcatProperties
    <2>5. Len(queue) \in Nat
      BY <1>1, LenProperties
    <2> QED
      BY <2>2, <2>4, <2>5 DEF Waiting
  <1> QED
    BY <1>2, <1>3 DEF RedisCrash

-----------------------------------------------------------------------------
(* Jobs and their rows *)

\* A handler enqueues only what it has committed.
EnqueuesCommitted == \A r \in Requests : pc[r] = "enqueue" => status[r] # "absent"

CommittedInv == TypeOK /\ EnqueuesCommitted /\ JobsAreCommitted

\* JobsAreCommitted, with what workers hold taken one by one.
LEMMA JobsPointwise ==
    JobsAreCommitted <=>
        /\ \A t \in Waiting : status[t] # "absent"
        /\ \A w \in Workers : Executing(w) => status[job[w]] # "absent"
        /\ \A t \in abandoned : status[t] # "absent"
  BY DEF JobsAreCommitted, Held

LEMMA CommittedInit == Init => CommittedInv
  <1> SUFFICES ASSUME Init PROVE CommittedInv
    OBVIOUS
  <1>1. Waiting = {} /\ Held = {} /\ abandoned = {}
    BY DEF Init, Waiting, Held, Executing
  <1> QED
    BY <1>1, TypeInit DEF CommittedInv, EnqueuesCommitted, JobsAreCommitted,
       Init

\* A row is never taken back, jobs come from a handler past its commit, and a
\* job that moves between list, worker and registry is still the same job.
LEMMA CommittedStep == CommittedInv /\ [Next]_vars => CommittedInv'
  <1> SUFFICES ASSUME CommittedInv, [Next]_vars PROVE CommittedInv'
    OBVIOUS
  <1> DEFINE Waits == \A t \in Waiting : status[t] # "absent"
             Holds == \A w \in Workers :
                        Executing(w) => status[job[w]] # "absent"
             Failed == \A t \in abandoned : status[t] # "absent"
             Goal == EnqueuesCommitted' /\ Waits' /\ Holds' /\ Failed'
  <1> SUFFICES Goal
    <2>1. (Waits /\ Holds /\ Failed)' => JobsAreCommitted'
      BY DEF JobsAreCommitted, Held
    <2> QED
      BY <2>1, TypeStep DEF CommittedInv
  <1>a. TypeOK /\ EnqueuesCommitted /\ Waits /\ Holds /\ Failed
    BY JobsPointwise DEF CommittedInv
  <1>b. UNCHANGED queue => UNCHANGED Waiting
    BY DEF Waiting
  <1>c. Waiting \subseteq Requests
    BY <1>a, ElementOfSeq DEF TypeOK, Waiting
  <1> USE DEF TypeOK, EnqueuesCommitted, Executing
  <1>1. ASSUME NEW r \in Requests, Receive(r) PROVE Goal
    BY <1>1, <1>a, <1>b DEF Receive, Goto, Answer
  <1>2. ASSUME NEW r \in Requests, Lookup(r) PROVE Goal
    BY <1>2, <1>a, <1>b DEF Lookup, Goto, Answer
  <1>3. ASSUME NEW r \in Requests, Write(r) PROVE Goal
    BY <1>3, <1>a, <1>b, <1>c DEF Write, Goto
  <1>4. ASSUME NEW r \in Requests, WriteRejected(r) PROVE Goal
    BY <1>4, <1>a, <1>b DEF WriteRejected, Answer
  <1>5. ASSUME NEW r \in Requests, Enqueue(r) PROVE Goal
    <2>1. Waiting' \subseteq Waiting \cup {r}
      BY <1>5, <1>a, <1>b, WaitingAppend DEF Enqueue
    <2> QED
      BY <1>5, <1>a, <2>1 DEF Enqueue, Answer
  <1>6. ASSUME NEW r \in Requests, SessionLost(r) \/ ApiCrash(r) PROVE Goal
    BY <1>6, <1>a, <1>b DEF SessionLost, Answer, ApiCrash
  <1>7. ASSUME NEW r \in Requests, Requeue(r) PROVE Goal
    <2>1. Waiting' = Waiting \cup {r}
      BY <1>7, <1>a, WaitingAppend DEF Requeue
    <2> QED
      BY <1>7, <1>a, <2>1 DEF Requeue
  <1>8. ASSUME NEW w \in Workers, Dequeue(w) PROVE Goal
    <2>1. Waiting = Waiting' \cup {Head(queue)}
      BY <1>8, <1>a, WaitingTail DEF Dequeue
    <2> QED
      BY <1>8, <1>a, <2>1 DEF Dequeue
  <1>9. ASSUME NEW w \in Workers, Load(w) PROVE Goal
    BY <1>9, <1>a, <1>b, <1>c DEF Load
  <1>10. ASSUME NEW w \in Workers, LoadRejected(w) PROVE Goal
    BY <1>10, <1>a, <1>b DEF LoadRejected, Abandon, Leave
  <1>11. ASSUME NEW w \in Workers, LoadSkill(w) PROVE Goal
    BY <1>11, <1>a, <1>b DEF LoadSkill
  <1>12. ASSUME NEW w \in Workers, LoadProject(w) PROVE Goal
    BY <1>12, <1>a, <1>b DEF LoadProject
  <1>13. ASSUME NEW w \in Workers, Finish(w) PROVE Goal
    BY <1>13, <1>a, <1>b, <1>c DEF Finish
  <1>14. ASSUME NEW w \in Workers, FinishRejected(w) PROVE Goal
    BY <1>14, <1>a, <1>b DEF FinishRejected, Abandon, Leave
  <1>15. ASSUME NEW w \in Workers, Ack(w) PROVE Goal
    BY <1>15, <1>a, <1>b DEF Ack, Leave
  <1>16. ASSUME NEW w \in Workers, JobLost(w) PROVE Goal
    BY <1>16, <1>a, <1>b DEF JobLost, Abandon, Leave
  <1>17. ASSUME RedisCrash PROVE Goal
    <2>1. Waiting' \subseteq Waiting \cup Held
      BY <1>17, <1>a, WaitingRedisCrash
    <2>2. \A t \in Held : status[t] # "absent"
      BY <1>a DEF Held
    <2> QED
      BY <1>17, <1>a, <2>1, <2>2 DEF RedisCrash
  <1>18. ASSUME NEW p \in Projects, DeleteProject(p) PROVE Goal
    BY <1>18, <1>a, <1>b DEF DeleteProject
  <1>19. ASSUME NEW s \in Skills, DisableSkill(s) PROVE Goal
    BY <1>19, <1>a, <1>b DEF DisableSkill
  <1>20. CASE UNCHANGED vars
    BY <1>20, <1>a, <1>b DEF vars
  <1> HIDE DEF Goal
  <1> QED
    BY NextSplit, <1>1, <1>2, <1>3, <1>4, <1>5, <1>6, <1>7, <1>8, <1>9, <1>10,
       <1>11, <1>12, <1>13, <1>14, <1>15, <1>16, <1>17, <1>18, <1>19, <1>20

\* A job never precedes its row, under every fault: the branch of the executor
\* for a missing task is never taken.
THEOREM JobsCommitted == Spec => []JobsAreCommitted
  <1>1. CommittedInv => JobsAreCommitted
    BY DEF CommittedInv
  <1> QED
    BY <1>1, CommittedInit, CommittedStep, PTL DEF Spec

-----------------------------------------------------------------------------
(* The row and the audit log *)

AuditInv == TypeOK /\ EndIsInAuditLog

LEMMA AuditStep == AuditInv /\ [Next]_vars => AuditInv'
  <1> SUFFICES ASSUME AuditInv, [Next]_vars PROVE EndIsInAuditLog'
    BY TypeStep DEF AuditInv
  <1>a. TypeOK /\ EndIsInAuditLog
    BY DEF AuditInv
  <1> USE DEF TypeOK, EndIsInAuditLog, Final
  <1>1. ASSUME NEW r \in Requests, Receive(r) PROVE EndIsInAuditLog'
    BY <1>1, <1>a DEF Receive, Goto, Answer
  <1>2. ASSUME NEW r \in Requests, Lookup(r) PROVE EndIsInAuditLog'
    BY <1>2, <1>a DEF Lookup, Goto, Answer
  <1>3. ASSUME NEW r \in Requests, Write(r) PROVE EndIsInAuditLog'
    BY <1>3, <1>a DEF Write, Goto
  <1>4. ASSUME NEW r \in Requests, WriteRejected(r) PROVE EndIsInAuditLog'
    BY <1>4, <1>a DEF WriteRejected, Answer
  <1>5. ASSUME NEW r \in Requests, Enqueue(r) PROVE EndIsInAuditLog'
    BY <1>5, <1>a DEF Enqueue, Answer
  <1>6. ASSUME NEW r \in Requests, SessionLost(r) \/ ApiCrash(r) PROVE EndIsInAuditLog'
    BY <1>6, <1>a DEF SessionLost, Answer, ApiCrash
  <1>7. ASSUME NEW r \in Requests, Requeue(r) PROVE EndIsInAuditLog'
    BY <1>7, <1>a DEF Requeue
  <1>8. ASSUME NEW w \in Workers, Dequeue(w) PROVE EndIsInAuditLog'
    BY <1>8, <1>a DEF Dequeue
  <1>9. ASSUME NEW w \in Workers, Load(w) PROVE EndIsInAuditLog'
    BY <1>9, <1>a DEF Load
  <1>10. ASSUME NEW w \in Workers, LoadRejected(w) PROVE EndIsInAuditLog'
    BY <1>10, <1>a DEF LoadRejected, Abandon, Leave
  <1>11. ASSUME NEW w \in Workers, LoadSkill(w) PROVE EndIsInAuditLog'
    BY <1>11, <1>a DEF LoadSkill
  <1>12. ASSUME NEW w \in Workers, LoadProject(w) PROVE EndIsInAuditLog'
    BY <1>12, <1>a DEF LoadProject
  <1>13. ASSUME NEW w \in Workers, Finish(w) PROVE EndIsInAuditLog'
    BY <1>13, <1>a DEF Finish
  <1>14. ASSUME NEW w \in Workers, FinishRejected(w) PROVE EndIsInAuditLog'
    BY <1>14, <1>a DEF FinishRejected, Abandon, Leave
  <1>15. ASSUME NEW w \in Workers, Ack(w) PROVE EndIsInAuditLog'
    BY <1>15, <1>a DEF Ack, Leave
  <1>16. ASSUME NEW w \in Workers, JobLost(w) PROVE EndIsInAuditLog'
    BY <1>16, <1>a DEF JobLost, Abandon, Leave
  <1>17. ASSUME RedisCrash PROVE EndIsInAuditLog'
    BY <1>17, <1>a DEF RedisCrash
  <1>18. ASSUME NEW p \in Projects, DeleteProject(p) PROVE EndIsInAuditLog'
    BY <1>18, <1>a DEF DeleteProject
  <1>19. ASSUME NEW s \in Skills, DisableSkill(s) PROVE EndIsInAuditLog'
    BY <1>19, <1>a DEF DisableSkill
  <1>20. CASE UNCHANGED vars
    BY <1>20, <1>a DEF vars
  <1> QED
    BY NextSplit, <1>1, <1>2, <1>3, <1>4, <1>5, <1>6, <1>7, <1>8, <1>9, <1>10,
       <1>11, <1>12, <1>13, <1>14, <1>15, <1>16, <1>17, <1>18, <1>19, <1>20

\* The end a client reads is in the audit log, under every fault and however
\* often a job is delivered.
THEOREM EndAudited == Spec => []EndIsInAuditLog
  <1>1. Init => AuditInv
    BY TypeInit DEF Init, AuditInv, EndIsInAuditLog, Final
  <1>2. AuditInv => EndIsInAuditLog
    BY DEF AuditInv
  <1> QED
    BY <1>1, <1>2, AuditStep, PTL DEF Spec

-----------------------------------------------------------------------------
(* Secrets in results *)

\* A pack in clear is in the hands of a native skill only, and a worker has no
\* pack before it has a handler.
PlainOnlyForNative ==
    \A w \in Workers :
        /\ wpc[w] \in {"idle", "load", "skill", "project"} => context[w] = "none"
        /\ context[w] = "plain" => handler[w] = "native"

PlainInv == TypeOK /\ PlainOnlyForNative /\ ResultNeverPlain

LEMMA PlainStep == PlainInv /\ [Next]_vars => PlainInv'
  <1> DEFINE Goal == PlainOnlyForNative' /\ ResultNeverPlain'
  <1> SUFFICES ASSUME PlainInv, [Next]_vars PROVE Goal
    BY TypeStep DEF PlainInv
  <1>a. TypeOK /\ PlainOnlyForNative /\ ResultNeverPlain
    BY DEF PlainInv
  <1> USE DEF TypeOK, PlainOnlyForNative, ResultNeverPlain
  <1>1. ASSUME NEW r \in Requests, Receive(r) PROVE Goal
    BY <1>1, <1>a DEF Receive, Goto, Answer
  <1>2. ASSUME NEW r \in Requests, Lookup(r) PROVE Goal
    BY <1>2, <1>a DEF Lookup, Goto, Answer
  <1>3. ASSUME NEW r \in Requests, Write(r) PROVE Goal
    BY <1>3, <1>a DEF Write, Goto
  <1>4. ASSUME NEW r \in Requests, WriteRejected(r) PROVE Goal
    BY <1>4, <1>a DEF WriteRejected, Answer
  <1>5. ASSUME NEW r \in Requests, Enqueue(r) PROVE Goal
    BY <1>5, <1>a DEF Enqueue, Answer
  <1>6. ASSUME NEW r \in Requests, SessionLost(r) \/ ApiCrash(r) PROVE Goal
    BY <1>6, <1>a DEF SessionLost, Answer, ApiCrash
  <1>7. ASSUME NEW r \in Requests, Requeue(r) PROVE Goal
    BY <1>7, <1>a DEF Requeue
  <1>8. ASSUME NEW w \in Workers, Dequeue(w) PROVE Goal
    BY <1>8, <1>a DEF Dequeue
  <1>9. ASSUME NEW w \in Workers, Load(w) PROVE Goal
    BY <1>9, <1>a DEF Load
  <1>10. ASSUME NEW w \in Workers, LoadRejected(w) PROVE Goal
    BY <1>10, <1>a DEF LoadRejected, Abandon, Leave
  <1>11. ASSUME NEW w \in Workers, LoadSkill(w) PROVE Goal
    BY <1>11, <1>a DEF LoadSkill
  <1>12. ASSUME NEW w \in Workers, LoadProject(w) PROVE Goal
    BY <1>12, <1>a DEF LoadProject
  <1>13. ASSUME NEW w \in Workers, Finish(w) PROVE Goal
    BY <1>13, <1>a DEF Finish, ResultOf, NoResult, Executing
  <1>14. ASSUME NEW w \in Workers, FinishRejected(w) PROVE Goal
    BY <1>14, <1>a DEF FinishRejected, Abandon, Leave
  <1>15. ASSUME NEW w \in Workers, Ack(w) PROVE Goal
    BY <1>15, <1>a DEF Ack, Leave
  <1>16. ASSUME NEW w \in Workers, JobLost(w) PROVE Goal
    BY <1>16, <1>a DEF JobLost, Abandon, Leave
  <1>17. ASSUME RedisCrash PROVE Goal
    BY <1>17, <1>a DEF RedisCrash
  <1>18. ASSUME NEW p \in Projects, DeleteProject(p) PROVE Goal
    BY <1>18, <1>a DEF DeleteProject
  <1>19. ASSUME NEW s \in Skills, DisableSkill(s) PROVE Goal
    BY <1>19, <1>a DEF DisableSkill
  <1>20. CASE UNCHANGED vars
    BY <1>20, <1>a DEF vars
  <1> QED
    BY NextSplit, <1>1, <1>2, <1>3, <1>4, <1>5, <1>6, <1>7, <1>8, <1>9, <1>10,
       <1>11, <1>12, <1>13, <1>14, <1>15, <1>16, <1>17, <1>18, <1>19, <1>20

\* No result carries a pack in clear, under every fault.
THEOREM NoPlainResult == Spec => []ResultNeverPlain
  <1>1. Init => PlainInv
    BY TypeInit DEF Init, PlainInv, PlainOnlyForNative, ResultNeverPlain, NoResult
  <1>2. PlainInv => ResultNeverPlain
    BY DEF PlainInv
  <1> QED
    BY <1>1, <1>2, PlainStep, PTL DEF Spec

-----------------------------------------------------------------------------
(* One place for every task *)

\* No job is in the list twice.
Distinct == \A i, j \in 1..Len(queue) : queue[i] = queue[j] => i = j

LEMMA DistinctAppend ==
    ASSUME TypeOK, Distinct, NEW t \in Requests, t \notin Waiting,
           queue' = Append(queue, t)
    PROVE  Distinct'
  <1>1. queue \in Seq(Requests)
    BY DEF TypeOK
  <1>2. /\ Len(queue) \in Nat
        /\ Len(queue') = Len(queue) + 1
        /\ \A i \in 1..Len(queue) : queue'[i] = queue[i]
        /\ queue'[Len(queue) + 1] = t
    BY <1>1, AppendProperties, LenProperties
  <1> QED
    BY <1>2 DEF Distinct, Waiting

LEMMA DistinctTail ==
    ASSUME TypeOK, Distinct, queue # << >>, queue' = Tail(queue)
    PROVE  Distinct' /\ Head(queue) \notin Waiting'
  <1>1. Len(queue) \in Nat
    BY LenProperties DEF TypeOK
  <1> QED
    BY <1>1, WaitingTail DEF Distinct, Waiting

\* A handler that has not enqueued yet is the only one to know its task.
Unknown(r) ==
    /\ r \notin Waiting \cup abandoned
    /\ \A w \in Workers : Executing(w) => job[w] # r

PlaceInv ==
    /\ TypeOK
    /\ OnePlace
    /\ \A r \in Requests :
          pc[r] \in {"idle", "lookup", "write", "enqueue"} => Unknown(r)

LEMMA PlaceInit == Init => PlaceInv
  <1> SUFFICES ASSUME Init PROVE PlaceInv
    OBVIOUS
  <1>1. queue = << >> /\ Len(queue) = 0 /\ Waiting = {}
    BY DEF Init, Waiting
  <1>2. Held = {} /\ abandoned = {} /\ \A w \in Workers : ~Executing(w)
    BY DEF Init, Held, Executing
  <1> QED
    BY <1>1, <1>2, TypeInit DEF PlaceInv, OnePlace, Unknown

\* A handler adds its task to the list once; afterwards a job only moves, from
\* the list to one worker, from there to the registry or out, and back to the
\* list when it is requeued.
LEMMA PlaceStep ==
    ASSUME "redis_crash" \notin Faults
    PROVE  PlaceInv /\ [Next]_vars => PlaceInv'
  <1> DEFINE Places ==
        /\ \A v, w \in Workers :
              Executing(v) /\ Executing(w) /\ job[v] = job[w] => v = w
        /\ \A w \in Workers : Executing(w) => job[w] \notin Waiting \cup abandoned
        /\ abandoned \cap Waiting = {}
        /\ \A r \in Requests :
              pc[r] \in {"idle", "lookup", "write", "enqueue"} => Unknown(r)
  <1> DEFINE Goal == Distinct' /\ Places'
  <1> SUFFICES ASSUME PlaceInv, [Next]_vars PROVE Goal
    <2>1. Goal => OnePlace'
      BY DEF OnePlace, Distinct, Held
    <2> QED
      BY <2>1, TypeStep DEF PlaceInv
  <1>x. "redis_crash" \notin Faults
    OBVIOUS
  <1>a. TypeOK /\ Distinct /\ Places
    BY DEF PlaceInv, OnePlace, Distinct, Held
  <1>b. UNCHANGED queue => UNCHANGED Waiting /\ Distinct'
    BY <1>a DEF Waiting, Distinct
  <1> USE DEF TypeOK, Executing, Unknown
  <1>c. ASSUME NEW w \in Workers, Executing(w), Leave(w), UNCHANGED <<queue, pc>>,
               abandoned' \subseteq abandoned \cup {job[w]}
        PROVE  Goal
    <2>1. \A v \in Workers :
            Executing(v)' <=> Executing(v) /\ v # w
      BY <1>a, <1>c DEF Leave
    <2>2. \A v \in Workers : v # w => job'[v] = job[v]
      BY <1>a, <1>c DEF Leave
    <2>3. ASSUME NEW v \in Workers, NEW u \in Workers,
                 Executing(v)', Executing(u)', job'[v] = job'[u]
          PROVE  v = u
      <3>1. Executing(v) /\ Executing(u) /\ job[v] = job[u]
        BY <2>1, <2>2, <2>3
      <3> QED
        BY <1>a, <3>1
    <2>5. \A v \in Workers : Executing(v)' => job'[v] \notin (Waiting \cup abandoned)'
      BY <1>a, <1>b, <1>c, <2>1, <2>2
    <2>6. (abandoned \cap Waiting = {})'
      BY <1>a, <1>b, <1>c
    <2>7. \A r \in Requests :
            pc[r] \in {"idle", "lookup", "write", "enqueue"} => Unknown(r)'
      BY <1>a, <1>b, <1>c, <2>1, <2>2
    <2> QED
      BY <1>b, <1>c, <2>3, <2>5, <2>6, <2>7
  <1>1. ASSUME NEW r \in Requests, Receive(r) PROVE Goal
    BY <1>1, <1>a, <1>b DEF Receive, Goto, Answer
  <1>2. ASSUME NEW r \in Requests, Lookup(r) PROVE Goal
    BY <1>2, <1>a, <1>b DEF Lookup, Goto, Answer
  <1>3. ASSUME NEW r \in Requests, Write(r) PROVE Goal
    BY <1>3, <1>a, <1>b DEF Write, Goto
  <1>4. ASSUME NEW r \in Requests, WriteRejected(r) PROVE Goal
    BY <1>4, <1>a, <1>b DEF WriteRejected, Answer
  <1>5. ASSUME NEW r \in Requests, Enqueue(r) PROVE Goal
    <2>1. CASE UNCHANGED queue
      BY <1>5, <1>a, <1>b, <2>1 DEF Enqueue, Answer
    <2>2. CASE queue' = Append(queue, r)
      <3>1. Waiting' = Waiting \cup {r} /\ Distinct'
        BY <1>5, <1>a, <2>2, WaitingAppend, DistinctAppend DEF Enqueue
      <3> QED
        BY <1>5, <1>a, <3>1 DEF Enqueue, Answer
    <2> QED
      BY <1>5, <2>1, <2>2 DEF Enqueue
  <1>6. ASSUME NEW r \in Requests, SessionLost(r) \/ ApiCrash(r) PROVE Goal
    BY <1>6, <1>a, <1>b DEF SessionLost, Answer, ApiCrash
  <1>7. ASSUME NEW r \in Requests, Requeue(r) PROVE Goal
    <2>1. Waiting' = Waiting \cup {r} /\ Distinct'
      BY <1>7, <1>a, WaitingAppend, DistinctAppend DEF Requeue
    <2> QED
      BY <1>7, <1>a, <2>1 DEF Requeue
  <1>8. ASSUME NEW w \in Workers, Dequeue(w) PROVE Goal
    <2>1. /\ Waiting = Waiting' \cup {Head(queue)}
          /\ Head(queue) \notin Waiting'
          /\ Distinct'
      BY <1>8, <1>a, WaitingTail, DistinctTail DEF Dequeue
    <2>2. job'[w] = Head(queue) /\ Head(queue) \in Waiting
      BY <1>8, <1>a, <2>1 DEF Dequeue
    <2>3. \A v \in Workers : v # w =>
            (Executing(v)' <=> Executing(v)) /\ job'[v] = job[v]
      BY <1>8, <1>a DEF Dequeue
    <2>4. \A v \in Workers : Executing(v) => job[v] # Head(queue)
      BY <1>a, <2>2
    <2>5. ASSUME NEW v \in Workers, NEW u \in Workers,
                 Executing(v)', Executing(u)', job'[v] = job'[u]
          PROVE  v = u
      <3>1. CASE v # w /\ u # w
        BY <1>a, <2>3, <2>5, <3>1
      <3>2. CASE v # w /\ u = w
        BY <2>2, <2>3, <2>4, <2>5, <3>2
      <3>3. CASE v = w /\ u # w
        BY <2>2, <2>3, <2>4, <2>5, <3>3
      <3> QED
        BY <3>1, <3>2, <3>3
    <2>6. \A v \in Workers : Executing(v)' => job'[v] \notin (Waiting \cup abandoned)'
      BY <1>8, <1>a, <2>1, <2>2, <2>3 DEF Dequeue
    <2>7. \A r \in Requests :
            pc[r] \in {"idle", "lookup", "write", "enqueue"} => Unknown(r)'
      BY <1>8, <1>a, <2>1, <2>2, <2>3 DEF Dequeue
    <2> QED
      BY <1>8, <1>a, <2>1, <2>5, <2>6, <2>7 DEF Dequeue
  <1>9. ASSUME NEW w \in Workers, Load(w) PROVE Goal
    BY <1>9, <1>a, <1>b DEF Load
  <1>10. ASSUME NEW w \in Workers, LoadRejected(w) PROVE Goal
    BY <1>10, <1>c DEF LoadRejected, Abandon
  <1>11. ASSUME NEW w \in Workers, LoadSkill(w) PROVE Goal
    BY <1>11, <1>a, <1>b DEF LoadSkill
  <1>12. ASSUME NEW w \in Workers, LoadProject(w) PROVE Goal
    BY <1>12, <1>a, <1>b DEF LoadProject
  <1>13. ASSUME NEW w \in Workers, Finish(w) PROVE Goal
    BY <1>13, <1>a, <1>b DEF Finish
  <1>14. ASSUME NEW w \in Workers, FinishRejected(w) PROVE Goal
    BY <1>14, <1>c DEF FinishRejected, Abandon
  <1>15. ASSUME NEW w \in Workers, Ack(w) PROVE Goal
    BY <1>15, <1>c DEF Ack
  <1>16. ASSUME NEW w \in Workers, JobLost(w) PROVE Goal
    BY <1>16, <1>c DEF JobLost, Abandon
  <1>17. ASSUME RedisCrash PROVE Goal
    BY <1>17, <1>x DEF RedisCrash
  <1>18. ASSUME NEW p \in Projects, DeleteProject(p) PROVE Goal
    BY <1>18, <1>a, <1>b DEF DeleteProject
  <1>19. ASSUME NEW s \in Skills, DisableSkill(s) PROVE Goal
    BY <1>19, <1>a, <1>b DEF DisableSkill
  <1>20. CASE UNCHANGED vars
    BY <1>20, <1>a, <1>b DEF vars
  <1> HIDE DEF Goal
  <1> QED
    BY NextSplit, <1>1, <1>2, <1>3, <1>4, <1>5, <1>6, <1>7, <1>8, <1>9, <1>10,
       <1>11, <1>12, <1>13, <1>14, <1>15, <1>16, <1>17, <1>18, <1>19, <1>20

\* As long as Redis does not forget a pop, every task is at one place: no two
\* workers hold it, and no job is delivered twice.
THEOREM JobsAtOnePlace ==
    ASSUME "redis_crash" \notin Faults
    PROVE  Spec => []OnePlace
  <1>1. PlaceInv => OnePlace
    BY DEF PlaceInv
  <1> QED
    BY <1>1, PlaceInit, PlaceStep, PTL DEF Spec

-----------------------------------------------------------------------------
(* At most once: how far a task is follows from who has it *)

\* What a handler knows of its row.
RowsOfHandlers ==
    \A r \in Requests :
        /\ pc[r] \in {"idle", "lookup", "write"} => status[r] = "absent"
        /\ pc[r] = "enqueue" => status[r] = "queued"

\* What the list and the workers know of the rows of their jobs.
RowsOfJobs ==
    /\ \A t \in Waiting : status[t] = "queued"
    /\ \A w \in Workers :
          /\ wpc[w] = "load" => status[job[w]] = "queued"
          /\ wpc[w] \in {"skill", "project", "finish"} =>
                status[job[w]] = "running"

StageInv == PlaceInv /\ RowsOfHandlers /\ RowsOfJobs /\ FinishAudited

LEMMA StageInit == Init => StageInv
  <1> SUFFICES ASSUME Init PROVE StageInv
    OBVIOUS
  <1>1. Waiting = {}
    BY DEF Init, Waiting
  <1> QED
    BY <1>1, PlaceInit DEF Init, StageInv, RowsOfHandlers, RowsOfJobs,
       FinishAudited, Final

\* Only the holder of a job writes its row, so the stage of the holder tells
\* the status it finds and the one it leaves.
LEMMA StageStep ==
    ASSUME Faults \cap {"redis_crash", "requeue"} = {}
    PROVE  StageInv /\ [Next]_vars => StageInv'
  <1> DEFINE Goal == RowsOfHandlers' /\ RowsOfJobs' /\ FinishAudited'
  <1>x. "redis_crash" \notin Faults /\ "requeue" \notin Faults
    OBVIOUS
  <1> SUFFICES ASSUME StageInv, [Next]_vars PROVE Goal
    BY <1>x, PlaceStep DEF StageInv
  <1>a. TypeOK /\ PlaceInv /\ RowsOfHandlers /\ RowsOfJobs /\ FinishAudited
    BY DEF StageInv, PlaceInv
  <1>b. UNCHANGED queue => UNCHANGED Waiting
    BY DEF Waiting
  <1>c. Waiting \subseteq Requests
    BY <1>a, ElementOfSeq DEF TypeOK, Waiting
  <1> USE DEF TypeOK, Executing, RowsOfHandlers, RowsOfJobs, FinishAudited, Final
  <1>1. ASSUME NEW r \in Requests, Receive(r) PROVE Goal
    BY <1>1, <1>a, <1>b DEF Receive, Goto, Answer
  <1>2. ASSUME NEW r \in Requests, Lookup(r) PROVE Goal
    BY <1>2, <1>a, <1>b DEF Lookup, Goto, Answer
  <1>3. ASSUME NEW r \in Requests, Write(r) PROVE Goal
    <2>1. status[r] = "absent" /\ Unknown(r)
      BY <1>3, <1>a DEF Write, PlaceInv
    <2>2. \A s \in Requests : s # r => status'[s] = status[s] /\ pc'[s] = pc[s]
      BY <1>3 DEF Write, Goto
    <2>3. status'[r] = "queued" /\ pc'[r] = "enqueue"
      BY <1>3, <1>a DEF Write, Goto
    <2>4. \A w \in Workers : Executing(w) => status'[job[w]] = status[job[w]]
      BY <1>a, <2>1, <2>2 DEF Unknown
    <2>5. \A t \in Waiting : status'[t] = status[t]
      BY <1>a, <1>c, <2>1, <2>2 DEF Unknown
    <2> QED
      BY <1>3, <1>a, <1>b, <2>1, <2>2, <2>3, <2>4, <2>5 DEF Write
  <1>4. ASSUME NEW r \in Requests, WriteRejected(r) PROVE Goal
    BY <1>4, <1>a, <1>b DEF WriteRejected, Answer
  <1>5. ASSUME NEW r \in Requests, Enqueue(r) PROVE Goal
    <2>1. Waiting' \subseteq Waiting \cup {r}
      BY <1>5, <1>a, <1>b, WaitingAppend DEF Enqueue
    <2> QED
      BY <1>5, <1>a, <2>1 DEF Enqueue, Answer
  <1>6. ASSUME NEW r \in Requests, SessionLost(r) \/ ApiCrash(r) PROVE Goal
    BY <1>6, <1>a, <1>b DEF SessionLost, Answer, ApiCrash
  <1>7. ASSUME NEW r \in Requests, Requeue(r) PROVE Goal
    BY <1>7, <1>x DEF Requeue
  <1>8. ASSUME NEW w \in Workers, Dequeue(w) PROVE Goal
    <2>1. Waiting = Waiting' \cup {Head(queue)}
      BY <1>8, <1>a, WaitingTail DEF Dequeue
    <2> QED
      BY <1>8, <1>a, <2>1 DEF Dequeue
  <1>9. ASSUME NEW w \in Workers, Load(w) PROVE Goal
    <2> DEFINE t == job[w]
    <2>1. t \in Requests /\ status[t] = "queued"
      BY <1>9, <1>a DEF Load
    <2>2. t \notin Waiting /\ \A v \in Workers : Executing(v) /\ v # w => job[v] # t
      BY <1>9, <1>a DEF Load, PlaceInv, OnePlace, Held
    <2>3. pc[t] \notin {"idle", "lookup", "write", "enqueue"}
      BY <1>9, <1>a, <2>1 DEF Load, PlaceInv, Unknown
    <2> HIDE DEF t
    <2>4. \A s \in Requests : s # t => status'[s] = status[s] /\ ended'[s] = ended[s]
      BY <1>9, <1>a DEF Load, t
    <2>5. status'[t] = "running" /\ ended'[t] = ended[t] /\ wpc'[w] = "skill" /\ job'[w] = t
      BY <1>9, <1>a, <2>1 DEF Load, t
    <2>6. \A v \in Workers : v # w => wpc'[v] = wpc[v] /\ job'[v] = job[v]
      BY <1>9 DEF Load
    <2>7. \A v \in Workers : Executing(v) /\ v # w => status'[job[v]] = status[job[v]]
      BY <1>a, <2>2, <2>4
    <2>8. Waiting' = Waiting /\ \A s \in Waiting : status'[s] = status[s]
      BY <1>9, <1>b, <1>c, <2>2, <2>4 DEF Load
    <2>9. UNCHANGED pc
      BY <1>9 DEF Load
    <2>10. RowsOfHandlers'
      BY <1>a, <2>3, <2>4, <2>9
    <2>11. RowsOfJobs'
      BY <1>9, <1>a, <2>5, <2>6, <2>7, <2>8 DEF Load, t
    <2>12. ASSUME NEW u \in Requests, NEW s \in Final
           PROVE  ended'[u][s] = IF status'[u] = s THEN 1 ELSE 0
      <3>1. CASE u # t
        BY <1>a, <2>4, <3>1
      <3>2. CASE u = t
        <4>1. ended[t] \in [Final -> Nat] /\ ended[t][s] = 0
          BY <1>a, <2>1
        <4> QED
          BY <2>5, <3>2, <4>1
      <3> QED
        BY <3>1, <3>2
    <2> QED
      BY <2>10, <2>11, <2>12
  <1>10. ASSUME NEW w \in Workers, LoadRejected(w) PROVE Goal
    BY <1>10, <1>a, <1>b DEF LoadRejected, Abandon, Leave
  <1>11. ASSUME NEW w \in Workers, LoadSkill(w) PROVE Goal
    BY <1>11, <1>a, <1>b DEF LoadSkill
  <1>12. ASSUME NEW w \in Workers, LoadProject(w) PROVE Goal
    BY <1>12, <1>a, <1>b DEF LoadProject
  <1>13. ASSUME NEW w \in Workers, Finish(w) PROVE Goal
    <2> DEFINE t == job[w]
    <2>1. t \in Requests /\ status[t] = "running"
      BY <1>13, <1>a DEF Finish
    <2>2. t \notin Waiting /\ \A v \in Workers : Executing(v) /\ v # w => job[v] # t
      BY <1>13, <1>a DEF Finish, PlaceInv, OnePlace, Held
    <2>3. pc[t] \notin {"idle", "lookup", "write", "enqueue"}
      BY <1>13, <1>a, <2>1 DEF Finish, PlaceInv, Unknown
    <2> HIDE DEF t
    <2>4. \A s \in Requests : s # t => status'[s] = status[s] /\ ended'[s] = ended[s]
      BY <1>13, <1>a DEF Finish, t
    <2>5. /\ job'[w] = t /\ wpc'[w] = "ack" /\ status'[t] \in Final
          /\ ended'[t] = [ended[t] EXCEPT ![status'[t]] = @ + 1]
      BY <1>13, <1>a, <2>1 DEF Finish, t
    <2>6. \A v \in Workers : v # w => wpc'[v] = wpc[v] /\ job'[v] = job[v]
      BY <1>13 DEF Finish
    <2>7. \A v \in Workers : Executing(v) /\ v # w => status'[job[v]] = status[job[v]]
      BY <1>a, <2>2, <2>4
    <2>8. Waiting' = Waiting /\ \A s \in Waiting : status'[s] = status[s]
      BY <1>13, <1>b, <1>c, <2>2, <2>4 DEF Finish
    <2>9. UNCHANGED pc
      BY <1>13 DEF Finish
    <2>10. RowsOfHandlers'
      BY <1>a, <2>3, <2>4, <2>9
    <2>11. RowsOfJobs'
      BY <1>13, <1>a, <2>5, <2>6, <2>7, <2>8 DEF Finish, t
    <2>12. ASSUME NEW u \in Requests, NEW s \in Final
           PROVE  ended'[u][s] = IF status'[u] = s THEN 1 ELSE 0
      <3>1. CASE u # t
        BY <1>a, <2>4, <3>1
      <3>2. CASE u = t
        <4>1. ended[t] \in [Final -> Nat] /\ ended[t][s] = 0
          BY <1>a, <2>1
        <4> QED
          BY <2>5, <3>2, <4>1
      <3> QED
        BY <3>1, <3>2
    <2> QED
      BY <2>10, <2>11, <2>12
  <1>14. ASSUME NEW w \in Workers, FinishRejected(w) PROVE Goal
    BY <1>14, <1>a, <1>b DEF FinishRejected, Abandon, Leave
  <1>15. ASSUME NEW w \in Workers, Ack(w) PROVE Goal
    BY <1>15, <1>a, <1>b DEF Ack, Leave
  <1>16. ASSUME NEW w \in Workers, JobLost(w) PROVE Goal
    BY <1>16, <1>a, <1>b DEF JobLost, Abandon, Leave
  <1>17. ASSUME RedisCrash PROVE Goal
    BY <1>17, <1>x DEF RedisCrash
  <1>18. ASSUME NEW p \in Projects, DeleteProject(p) PROVE Goal
    BY <1>18, <1>a, <1>b DEF DeleteProject
  <1>19. ASSUME NEW s \in Skills, DisableSkill(s) PROVE Goal
    BY <1>19, <1>a, <1>b DEF DisableSkill
  <1>20. CASE UNCHANGED vars
    BY <1>20, <1>a, <1>b DEF vars
  <1> HIDE DEF Goal
  <1> QED
    BY NextSplit, <1>1, <1>2, <1>3, <1>4, <1>5, <1>6, <1>7, <1>8, <1>9, <1>10,
       <1>11, <1>12, <1>13, <1>14, <1>15, <1>16, <1>17, <1>18, <1>19, <1>20

\* Under at-most-once delivery the audit log has one row for each task that
\* ended, under its end, and none for another.
THEOREM AuditedOnce ==
    ASSUME Faults \cap {"redis_crash", "requeue"} = {}
    PROVE  Spec => []FinishAudited
  <1>1. StageInv => FinishAudited
    BY DEF StageInv
  <1> QED
    BY <1>1, StageInit, StageStep, PTL DEF Spec

-----------------------------------------------------------------------------
(* At most once: the steps a client can see *)

\* All but three actions leave the status and the end of every task alone.
LEMMA QuietSteps ==
    ASSUME [Next]_vars
    PROVE  \/ \E r \in Requests : Write(r)
           \/ \E w \in Workers : Load(w) \/ Finish(w)
           \/ UNCHANGED <<status, ended>>
  BY NextSplit DEF vars, Receive, Lookup, WriteRejected, Enqueue, SessionLost, ApiCrash,
     Requeue, Dequeue, LoadRejected, LoadSkill, LoadProject, FinishRejected,
     Ack, JobLost, RedisCrash, DeleteProject, DisableSkill

\* A row is inserted once, started once and ended once.
LEMMA VisibleSteps ==
    ASSUME StageInv, [Next]_vars
    PROVE  \/ \E t \in Requests :
                \/ Lifecycle!Accept(t)
                \/ Lifecycle!Start(t)
                \/ Lifecycle!End(t)
           \/ UNCHANGED <<status, ended>>
  <1>a. TypeOK /\ RowsOfHandlers /\ RowsOfJobs
    BY DEF StageInv, PlaceInv
  <1>1. ASSUME NEW r \in Requests, Write(r) PROVE Lifecycle!Accept(r)
    BY <1>1, <1>a DEF Write, RowsOfHandlers, Lifecycle!Accept, Runs
  <1>2. ASSUME NEW w \in Workers, Load(w)
        PROVE  job[w] \in Requests /\ Lifecycle!Start(job[w])
    BY <1>2, <1>a DEF Load, RowsOfJobs, Lifecycle!Start, Runs, TypeOK, Executing
  <1>3. ASSUME NEW w \in Workers, Finish(w)
        PROVE  job[w] \in Requests /\ Lifecycle!End(job[w])
    <2> DEFINE t == job[w]
    <2>1. t \in Requests /\ status[t] = "running"
      BY <1>3, <1>a DEF Finish, RowsOfJobs, TypeOK, Executing
    <2>2. PICK s \in Final : /\ status' = [status EXCEPT ![t] = s]
                             /\ ended' = [ended EXCEPT ![t][s] = @ + 1]
      BY <1>3 DEF Finish, Final
    <2>3. ended \in [Requests -> [Final -> Nat]]
      BY <1>a DEF TypeOK
    <2>4. \A u \in Requests : Runs(u)' = IF u = t THEN Runs(u) + 1 ELSE Runs(u)
      BY <2>1, <2>2, <2>3 DEF Runs, Final
    <2> QED
      BY <2>1, <2>2, <2>4 DEF Lifecycle!End, Lifecycle!Final, Final
  <1> QED
    BY QuietSteps, <1>1, <1>2, <1>3

\* Under at-most-once delivery no status is ever taken back or rewritten.
THEOREM StatusForward ==
    ASSUME Faults \cap {"redis_crash", "requeue"} = {}
    PROVE  Spec => StatusMovesForward
  <1>1. ASSUME StageInv, [Next]_vars PROVE StatusMoves
    <2>1. status \in [Requests -> Status]
      BY <1>1 DEF StageInv, PlaceInv, TypeOK
    <2> QED
      BY <1>1, <2>1, VisibleSteps DEF StatusMoves, Lifecycle!Accept,
         Lifecycle!Start, Lifecycle!End, Lifecycle!Final, Final
  <1> QED
    BY <1>1, StageInit, StageStep, PTL DEF Spec, StatusMovesForward

\* Under at-most-once delivery, and whatever else fails, the pipeline is an
\* implementation of the life cycle that a client polls.
THEOREM Refinement ==
    ASSUME Faults \cap {"redis_crash", "requeue"} = {}
    PROVE  Spec => ImplementsLifecycle
  <1>1. Init => Lifecycle!Init
    BY DEF Init, Lifecycle!Init, Runs, Final
  <1>2. ASSUME StageInv, [Next]_vars PROVE [Lifecycle!Next]_(Lifecycle!vars)
    <2>1. CASE UNCHANGED <<status, ended>>
      BY <2>1 DEF Lifecycle!vars, Runs
    <2> QED
      BY <1>2, <2>1, VisibleSteps DEF Lifecycle!Next
  <1> QED
    BY <1>1, <1>2, StageInit, StageStep, PTL
    DEF Spec, ImplementsLifecycle, Lifecycle!Spec

-----------------------------------------------------------------------------
(* The row a client reads, however often its job is delivered *)

\* A result is in the row of a task only while it is done, or is running again.
ResultInv ==
    /\ CommittedInv /\ ResultMatchesStatus
    /\ \A r \in Requests : pc[r] \in {"idle", "lookup", "write"} => status[r] = "absent"

LEMMA ResultStep == ResultInv /\ [Next]_vars => ResultInv'
  <1> DEFINE Early == \A r \in Requests :
                        pc[r] \in {"idle", "lookup", "write"} => status[r] = "absent"
             Goal == ResultMatchesStatus' /\ Early'
  <1> SUFFICES ASSUME ResultInv, [Next]_vars PROVE Goal
    BY CommittedStep DEF ResultInv
  <1>a. TypeOK /\ ResultMatchesStatus /\ Early
    BY DEF ResultInv, CommittedInv
  <1>b. \A w \in Workers : Executing(w) => job[w] \in Requests /\ status[job[w]] # "absent"
    BY JobsPointwise DEF ResultInv, CommittedInv, TypeOK
  <1> USE DEF TypeOK, ResultMatchesStatus
  <1>1. ASSUME NEW r \in Requests, \/ Receive(r) \/ Lookup(r) \/ WriteRejected(r)
                                   \/ Enqueue(r) \/ SessionLost(r) \/ ApiCrash(r)
        PROVE  Goal
    BY <1>1, <1>a DEF Receive, Lookup, WriteRejected, Enqueue, SessionLost, ApiCrash,
       Goto, Answer
  <1>2. ASSUME NEW r \in Requests, Write(r) PROVE Goal
    BY <1>2, <1>a DEF Write, Goto
  <1>3. ASSUME NEW w \in Workers, Load(w) PROVE Goal
    BY <1>3, <1>a, <1>b DEF Load, Executing
  <1>4. ASSUME NEW w \in Workers, Finish(w) PROVE Goal
    <2> DEFINE t == job[w]
    <2>1. t \in Requests /\ status[t] # "absent"
      BY <1>4, <1>b DEF Finish, Executing
    <2>2. PICK ok \in BOOLEAN :
            /\ ok => handler[w] \in {"native", "cowork", "cc"}
            /\ status' = [status EXCEPT ![t] = IF ok THEN "done" ELSE "failed"]
            /\ result' = [result EXCEPT ![t] = IF ok THEN ResultOf(handler[w], context[w])
                                                     ELSE NoResult]
      BY <1>4 DEF Finish, Outcomes
    <2>3. ok => ResultOf(handler[w], context[w]) # NoResult
      BY <2>2 DEF ResultOf, NoResult
    <2> QED
      BY <1>4, <1>a, <2>1, <2>2, <2>3 DEF Finish
  <1>5. ASSUME UNCHANGED <<status, result, pc>> PROVE Goal
    BY <1>5, <1>a
  <1>6. CASE \E p \in Projects : DeleteProject(p)
    BY <1>5, <1>6 DEF DeleteProject
  <1> HIDE DEF Goal
  <1>7. CASE UNCHANGED vars
    BY <1>5, <1>7 DEF vars
  <1>8. CASE \/ \E r \in Requests : Requeue(r)
             \/ \E w \in Workers : \/ Dequeue(w) \/ LoadRejected(w) \/ LoadSkill(w)
                                   \/ LoadProject(w) \/ FinishRejected(w)
                                   \/ Ack(w) \/ JobLost(w)
             \/ RedisCrash \/ \E s \in Skills : DisableSkill(s)
    BY <1>5, <1>8 DEF Requeue, Dequeue, LoadRejected, LoadSkill, LoadProject, FinishRejected,
       Ack, JobLost, RedisCrash, DisableSkill
  <1> QED
    BY NextSplit, <1>1, <1>2, <1>3, <1>4, <1>6, <1>7, <1>8

\* What a client polls is consistent under every fault: a repeated run that
\* fails takes the result of the earlier one out of the row.
THEOREM ResultsMatch == Spec => []ResultMatchesStatus
  <1>1. Init => ResultInv
    BY CommittedInit DEF Init, ResultInv, ResultMatchesStatus
  <1>2. ResultInv => ResultMatchesStatus
    BY DEF ResultInv
  <1> QED
    BY <1>1, <1>2, ResultStep, PTL DEF Spec

-----------------------------------------------------------------------------
(* A refused request *)

\* A task that nobody but its handler knows gets a row and a place from that
\* handler only; of the rest of the system no step can tell it apart from one
\* that was never asked for.
LEMMA UnknownStays ==
    ASSUME TypeOK, [Next]_vars, NEW r \in Requests, Unknown(r)
    PROVE  \/ Enqueue(r) /\ pc'[r] = "done" /\ reply'[r] = "200"
           \/ Unknown(r)'
  <1> USE DEF TypeOK, Executing, Unknown
  <1>b. UNCHANGED queue => UNCHANGED Waiting
    BY DEF Waiting
  <1>1. ASSUME NEW q \in Requests, \/ Receive(q) \/ Lookup(q) \/ Write(q) \/ WriteRejected(q)
                                   \/ SessionLost(q) \/ ApiCrash(q)
        PROVE  Unknown(r)'
    BY <1>1, <1>b DEF Receive, Lookup, Write, WriteRejected, SessionLost, ApiCrash
  <1>2. ASSUME NEW q \in Requests, Enqueue(q), q # r PROVE Unknown(r)'
    <2>1. Waiting' \subseteq Waiting \cup {q}
      BY <1>2, <1>b, WaitingAppend DEF Enqueue
    <2> QED
      BY <1>2, <2>1 DEF Enqueue
  <1>3. ASSUME Enqueue(r) PROVE pc'[r] = "done" /\ reply'[r] = "200"
    BY <1>3 DEF Enqueue, Answer
  <1>4. ASSUME NEW q \in Requests, Requeue(q) PROVE Unknown(r)'
    <2>1. Waiting' = Waiting \cup {q}
      BY <1>4, WaitingAppend DEF Requeue
    <2> QED
      BY <1>4, <2>1 DEF Requeue
  <1>5. ASSUME NEW w \in Workers, Dequeue(w) PROVE Unknown(r)'
    <2>1. Waiting = Waiting' \cup {Head(queue)}
      BY <1>5, WaitingTail DEF Dequeue
    <2> QED
      BY <1>5, <2>1 DEF Dequeue
  <1>6. ASSUME NEW w \in Workers, Load(w) \/ LoadSkill(w) \/ LoadProject(w) \/ Finish(w)
        PROVE  Unknown(r)'
    BY <1>6, <1>b DEF Load, LoadSkill, LoadProject, Finish
  <1>7. ASSUME NEW w \in Workers, LoadRejected(w) \/ FinishRejected(w) \/ Ack(w) \/ JobLost(w)
        PROVE  Unknown(r)'
    BY <1>7, <1>b DEF LoadRejected, FinishRejected, Ack, JobLost, Abandon, Leave
  <1>8. ASSUME RedisCrash PROVE Unknown(r)'
    BY <1>8, WaitingRedisCrash DEF RedisCrash, Held
  <1>9. CASE \E p \in Projects : DeleteProject(p)
    BY <1>9, <1>b DEF DeleteProject
  <1>10. CASE \E s \in Skills : DisableSkill(s)
    BY <1>10, <1>b DEF DisableSkill
  <1>11. CASE UNCHANGED vars
    BY <1>11, <1>b DEF vars
  <1> HIDE DEF Unknown
  <1> QED
    BY NextSplit, <1>1, <1>2, <1>3, <1>4, <1>5, <1>6, <1>7, <1>8, <1>9, <1>10, <1>11

\* The handler of r makes a step.
HandlerStep(r) ==
    \/ Receive(r) \/ Lookup(r) \/ Write(r) \/ WriteRejected(r) \/ Enqueue(r)
    \/ SessionLost(r) \/ ApiCrash(r)

\* Nothing but its handler moves a handler.
LEMMA OthersLeaveHandlers ==
    ASSUME [Next]_vars
    PROVE  (\E q \in Requests : HandlerStep(q)) \/ UNCHANGED apiVars
  BY NextSplit DEF HandlerStep, vars, Requeue, Dequeue, Load, LoadRejected, LoadSkill,
     LoadProject, Finish, FinishRejected, Ack, JobLost, RedisCrash, DeleteProject, DisableSkill

LEMMA BystandersKeep ==
    ASSUME TypeOK, [Next]_vars, NEW r \in Requests, Unknown(r)
    PROVE  \/ HandlerStep(r)
           \/ /\ UNCHANGED <<pc[r], body[r], reply[r], status[r]>>
              /\ r \in announced <=> r \in announced'
  <1> DEFINE Goal == \/ HandlerStep(r)
                     \/ /\ UNCHANGED <<pc[r], body[r], reply[r], status[r]>>
                        /\ r \in announced <=> r \in announced'
  <1> USE DEF TypeOK
  <1>1. ASSUME NEW q \in Requests, HandlerStep(q) PROVE Goal
    BY <1>1 DEF HandlerStep, Receive, Lookup, Write, WriteRejected, Enqueue, SessionLost,
       ApiCrash, Goto, Answer
  <1>2. ASSUME NEW w \in Workers, Load(w) \/ Finish(w) PROVE Goal
    <2>1. job[w] # r /\ job[w] \in Requests
      BY <1>2 DEF Unknown, Load, Finish, Executing
    <2> QED
      BY <1>2, <2>1 DEF Load, Finish
  <1>3. ASSUME UNCHANGED <<apiVars, status, announced>> PROVE Goal
    BY <1>3
  <1> HIDE DEF Goal
  <1>4. CASE UNCHANGED vars
    BY <1>3, <1>4 DEF vars
  <1>5. CASE \/ \E q \in Requests : Requeue(q)
             \/ \E w \in Workers : \/ Dequeue(w) \/ LoadRejected(w) \/ LoadSkill(w)
                                   \/ LoadProject(w) \/ FinishRejected(w)
                                   \/ Ack(w) \/ JobLost(w)
             \/ RedisCrash
             \/ \E p \in Projects : DeleteProject(p)
             \/ \E s \in Skills : DisableSkill(s)
    BY <1>3, <1>5 DEF Requeue, Dequeue, LoadRejected, LoadSkill, LoadProject, FinishRejected,
       Ack, JobLost, RedisCrash, DeleteProject, DisableSkill
  <1> QED
    BY NextSplit, <1>1, <1>2, <1>4, <1>5 DEF HandlerStep, Goal

\* What a handler has left behind by the time it stands at each label, and when
\* it has refused.
Asks(r) == body[r].kind = "command"
Refused(r) == reply[r] \in {"404", "500"}
Trace(r) ==
    /\ pc[r] \in {"idle", "lookup", "write"} => status[r] = "absent" /\ r \notin announced
    /\ pc[r] = "enqueue" => status[r] = "queued" /\ (r \in announced <=> Asks(r))
    /\ reply[r] # "none" => pc[r] = "done"
    /\ pc[r] \in {"idle", "lookup", "write", "enqueue"} \/ Refused(r) => Unknown(r)
    /\ Refused(r) =>
          /\ status[r] \in (IF reply[r] = "404" THEN {"absent"} ELSE {"absent", "queued"})
          /\ r \in announced <=> status[r] = "queued" /\ Asks(r)

RefusedInv == TypeOK /\ \A r \in Requests : Trace(r)

LEMMA RefusedStep == RefusedInv /\ [Next]_vars => RefusedInv'
  <1> SUFFICES ASSUME RefusedInv, [Next]_vars, NEW r \in Requests PROVE Trace(r)'
    BY TypeStep DEF RefusedInv
  <1>a. TypeOK /\ Trace(r) /\ reply[r] \in {"none", "200", "404", "500"}
    BY DEF RefusedInv, TypeOK
  <1> DEFINE Placeless == pc[r] \in {"idle", "lookup", "write", "enqueue"} \/ Refused(r)
  <1>1. CASE Placeless
    <2>1. Unknown(r)
      BY <1>a, <1>1 DEF Trace
    <2>2. CASE HandlerStep(r)
      <3>1. /\ pc[r] \in {"idle", "lookup", "write", "enqueue"} /\ reply[r] = "none"
            /\ UNCHANGED body
        BY <1>a, <2>2 DEF Trace, HandlerStep, Receive, Lookup, Write, WriteRejected, Enqueue,
           SessionLost, ApiCrash
      <3>2. CASE Receive(r) \/ Lookup(r) \/ WriteRejected(r) \/ SessionLost(r) \/ ApiCrash(r)
        <4>1. Unknown(r)' \/ (pc'[r] = "done" /\ reply'[r] = "200")
          BY <1>a, <2>1, UnknownStays
        <4> QED
          BY <1>a, <3>1, <3>2, <4>1 DEF Trace, Receive, Lookup, WriteRejected, SessionLost,
             ApiCrash, Goto, Answer, Refused, Asks, TypeOK
      <3>3. CASE Write(r)
        <4>1. Unknown(r)' \/ (pc'[r] = "done" /\ reply'[r] = "200")
          BY <1>a, <2>1, UnknownStays
        <4> QED
          BY <1>a, <3>1, <3>3, <4>1 DEF Trace, Write, Goto, Refused, Asks, TypeOK
      <3>4. CASE Enqueue(r)
        BY <1>a, <3>4 DEF Trace, Enqueue, Answer, Refused, TypeOK
      <3> QED
        BY <2>2, <3>2, <3>3, <3>4 DEF HandlerStep
    <2>3. CASE ~HandlerStep(r)
      <3>1. Unknown(r)'
        BY <1>a, <2>1, <2>3, UnknownStays DEF HandlerStep
      <3> QED
        BY <1>a, <2>1, <2>3, <3>1, BystandersKeep DEF Trace, Refused, Asks
    <2> QED
      BY <2>2, <2>3
  <1>2. CASE ~Placeless
    <2>1. pc[r] \in {"done", "dead"} /\ pc'[r] = pc[r] /\ reply'[r] = reply[r]
      <3>1. pc[r] \in {"done", "dead"}
        BY <1>a, <1>2 DEF TypeOK
      <3>2. ASSUME NEW q \in Requests, HandlerStep(q)
            PROVE  pc'[r] = pc[r] /\ reply'[r] = reply[r]
        BY <1>a, <3>1, <3>2 DEF TypeOK, HandlerStep, Receive, Lookup, Write, WriteRejected,
           Enqueue, SessionLost, ApiCrash, Goto, Answer
      <3> QED
        BY <3>1, <3>2, OthersLeaveHandlers
    <2> QED
      BY <1>a, <1>2, <2>1 DEF Trace, Refused
  <1> QED
    BY <1>1, <1>2

\* Under every fault, those that deliver jobs twice included, a client that was
\* refused can repeat its request: what was left of the first one never runs.
THEOREM RefusedStays == Spec => []RefusedNeverRuns
  <1>1. Init => RefusedInv
    <2> SUFFICES ASSUME Init PROVE RefusedInv
      OBVIOUS
    <2>1. Waiting = {}
      BY DEF Init, Waiting
    <2> QED
      BY <2>1, TypeInit DEF Init, RefusedInv, Trace, Refused, Unknown, Executing
  <1>2. RefusedInv => RefusedNeverRuns
    BY DEF RefusedInv, Trace, Refused, Asks, Unknown, RefusedNeverRuns, Held
  <1> QED
    BY <1>1, <1>2, RefusedStep, PTL DEF Spec

-----------------------------------------------------------------------------
(* Without faults: where a task that has not ended is *)

\* The project of a row, and the one a worker has loaded, is the one the handler
\* found unless it was deleted; a worker that is through with a job has ended it.
Loaded ==
    /\ \A r \in Requests : project[r] \in {None, prj[r]}
    /\ \A r \in Requests : status[r] = "absent" => project[r] = None
    /\ \A w \in Workers :
          /\ wpc[w] \in {"idle", "load"} => pid[w] = None
          /\ Executing(w) => pid[w] \in {None, prj[job[w]]}
          /\ wpc[w] = "ack" => status[job[w]] \in Final

StrandInv == StageInv /\ Loaded /\ StrandedOnlyByDeletion

LEMMA StrandStep ==
    ASSUME Faults = {}
    PROVE  StrandInv /\ [Next]_vars => StrandInv'
  <1> DEFINE Goal == Loaded' /\ StrandedOnlyByDeletion'
  <1>x. Faults \cap {"redis_crash", "requeue"} = {}
    OBVIOUS
  <1> SUFFICES ASSUME StrandInv, [Next]_vars PROVE Goal
    BY <1>x, StageStep DEF StrandInv
  <1>a. TypeOK /\ PlaceInv /\ RowsOfHandlers /\ RowsOfJobs /\ Loaded /\ StrandedOnlyByDeletion
    BY DEF StrandInv, StageInv, PlaceInv
  <1>b. UNCHANGED queue => UNCHANGED Waiting
    BY DEF Waiting
  <1>c. UNCHANGED <<wpc, job>> => UNCHANGED Held
    BY DEF Held, Executing
  <1> USE DEF TypeOK, Loaded, StrandedOnlyByDeletion, Executing, Final
  <1>1. ASSUME NEW r \in Requests, Receive(r) PROVE Goal
    BY <1>1, <1>a, <1>b, <1>c DEF Receive, Goto, Answer
  <1>2. ASSUME NEW r \in Requests, Lookup(r) PROVE Goal
    <2>1. status[r] = "absent" /\ \A w \in Workers : Executing(w) => job[w] # r
      BY <1>2, <1>a DEF Lookup, RowsOfHandlers, PlaceInv, Unknown
    <2> QED
      BY <1>2, <1>a, <1>b, <1>c, <2>1 DEF Lookup, Goto, Answer
  <1>3. ASSUME NEW r \in Requests, Write(r) PROVE Goal
    <2>1. \A w \in Workers : Executing(w) => job[w] # r
      BY <1>3, <1>a DEF Write, PlaceInv, Unknown
    <2> QED
      BY <1>3, <1>a, <1>b, <1>c, <2>1 DEF Write, Goto
  <1>4. ASSUME NEW r \in Requests, WriteRejected(r) PROVE Goal
    BY <1>4, <1>a, <1>b, <1>c DEF WriteRejected, Answer
  <1>5. ASSUME NEW r \in Requests, Enqueue(r) PROVE Goal
    <2>1. Waiting' = Waiting \cup {r}
      BY <1>5, <1>a, WaitingAppend DEF Enqueue
    <2> QED
      BY <1>5, <1>a, <1>c, <2>1 DEF Enqueue, Answer
  <1>6. ASSUME NEW w \in Workers, Dequeue(w) PROVE Goal
    <2>1. Waiting = Waiting' \cup {Head(queue)}
      BY <1>6, <1>a, WaitingTail DEF Dequeue
    <2>2. Head(queue) \in Held' /\ Held \subseteq Held'
      BY <1>6, <1>a DEF Dequeue, Held
    <2> QED
      BY <1>6, <1>a, <2>1, <2>2 DEF Dequeue
  <1>7. ASSUME NEW w \in Workers, Load(w) PROVE Goal
    <2> DEFINE t == job[w]
    <2>1. t \in Requests /\ status[t] = "queued" /\ t \in Held
      BY <1>7, <1>a DEF Load, RowsOfJobs, Held
    <2>2. \A v \in Workers : Executing(v) /\ v # w => job[v] # t
      BY <1>7, <1>a DEF Load, PlaceInv, OnePlace
    <2>3. Held' = Held
      BY <1>7, <1>a DEF Load, Held
    <2> QED
      BY <1>7, <1>a, <1>b, <2>1, <2>2, <2>3 DEF Load
  <1>8. ASSUME NEW w \in Workers, LoadSkill(w) \/ LoadProject(w) PROVE Goal
    <2>1. Held' = Held
      BY <1>8, <1>a DEF LoadSkill, LoadProject, Held
    <2> QED
      BY <1>8, <1>a, <1>b, <2>1 DEF LoadSkill, LoadProject
  <1>9. ASSUME NEW w \in Workers, Finish(w) PROVE Goal
    <2> DEFINE t == job[w]
    <2>1. t \in Requests /\ status[t] = "running"
      BY <1>9, <1>a DEF Finish, RowsOfJobs
    <2>2. PICK s \in Final : status' = [status EXCEPT ![t] = s]
      BY <1>9 DEF Finish
    <2>3. Held' = Held
      BY <1>9, <1>a DEF Finish, Held
    <2> QED
      BY <1>9, <1>a, <1>b, <2>1, <2>2, <2>3 DEF Finish
  <1>10. ASSUME NEW w \in Workers, FinishRejected(w) PROVE Goal
    <2> DEFINE t == job[w]
    <2>1. t \in Requests /\ status[t] = "running"
      BY <1>10, <1>a DEF FinishRejected, RowsOfJobs
    <2>2. prj[t] \in Projects \ live
      BY <1>10, <1>a, <2>1 DEF FinishRejected, ForeignKeyHolds
    <2>3. Held \subseteq Held' \cup {t}
      BY <1>10, <1>a DEF FinishRejected, Abandon, Leave, Held
    <2> QED
      BY <1>10, <1>a, <1>b, <2>1, <2>2, <2>3 DEF FinishRejected, Abandon, Leave
  <1>11. ASSUME NEW w \in Workers, Ack(w) PROVE Goal
    <2>1. Held \subseteq Held' \cup {job[w]} /\ status[job[w]] \in Final
      BY <1>11, <1>a DEF Ack, Leave, Held
    <2> QED
      BY <1>11, <1>a, <1>b, <2>1 DEF Ack, Leave
  <1>12. ASSUME NEW p \in Projects, DeleteProject(p) PROVE Goal
    BY <1>12, <1>a, <1>b, <1>c DEF DeleteProject
  <1>13. ASSUME NEW s \in Skills, DisableSkill(s) PROVE Goal
    BY <1>13, <1>a, <1>b, <1>c DEF DisableSkill
  <1>14. CASE UNCHANGED vars
    BY <1>14, <1>a, <1>b, <1>c DEF vars
  <1>15. CASE \/ \E r \in Requests : SessionLost(r) \/ ApiCrash(r) \/ Requeue(r)
              \/ \E w \in Workers : LoadRejected(w) \/ JobLost(w)
              \/ RedisCrash
    BY <1>15 DEF SessionLost, ApiCrash, Requeue, LoadRejected, JobLost, RedisCrash
  <1> HIDE DEF Goal
  <1> QED
    BY NextSplit, <1>1, <1>2, <1>3, <1>4, <1>5, <1>6, <1>7, <1>8, <1>9, <1>10,
       <1>11, <1>12, <1>13, <1>14, <1>15

\* In a run without faults no task is forgotten: one that has not ended is with
\* its handler, in the list or with a worker, or its project was deleted.
THEOREM OnlyDeletionStrands ==
    ASSUME Faults = {}
    PROVE  Spec => []StrandedOnlyByDeletion
  <1>1. Init => StrandInv
    BY StageInit DEF Init, StrandInv, Loaded, StrandedOnlyByDeletion, Executing
  <1>2. StrandInv => StrandedOnlyByDeletion
    BY DEF StrandInv
  <1> QED
    BY <1>1, <1>2, StrandStep, PTL DEF Spec

=============================================================================
