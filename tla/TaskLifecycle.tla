---------------------------- MODULE TaskLifecycle ----------------------------
(***************************************************************************)
(* What the task table of Sistem Core promises to whoever polls            *)
(* GET /tasks/{id}: a task is accepted once, is started at most once, ends *)
(* in exactly one of two final states, and the end is written to the task  *)
(* row and to the audit log together.  TaskPipeline implements it.         *)
(***************************************************************************)
EXTENDS Naturals

CONSTANT Tasks

VARIABLES
    status,    \* status[t]: column tasks.status, "absent" before the INSERT
    ended      \* ended[t]: number of task.done / task.failed audit rows of t

vars == <<status, ended>>

\* The values of the CHECK constraint on tasks.status that the code writes.
Final == {"done", "failed"}
Status == {"absent", "queued", "running"} \cup Final

Init ==
    /\ status = [t \in Tasks |-> "absent"]
    /\ ended = [t \in Tasks |-> 0]

Accept(t) ==
    /\ status[t] = "absent"
    /\ status' = [status EXCEPT ![t] = "queued"]
    /\ UNCHANGED ended

Start(t) ==
    /\ status[t] = "queued"
    /\ status' = [status EXCEPT ![t] = "running"]
    /\ UNCHANGED ended

End(t) ==
    /\ status[t] = "running"
    /\ \E s \in Final : status' = [status EXCEPT ![t] = s]
    /\ ended' = [ended EXCEPT ![t] = @ + 1]

Next == \E t \in Tasks : Accept(t) \/ Start(t) \/ End(t)

Spec == Init /\ [][Next]_vars
=============================================================================
