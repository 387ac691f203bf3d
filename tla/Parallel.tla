------------------------------- MODULE Parallel -------------------------------
(***************************************************************************)
(* The parallel orchestrator: assign_cohorts labels the plan's nodes,      *)
(* group_by_cohort cuts the plan into runs of one label, and run_parallel  *)
(* executes each run with one thread per node and at most Cap of them      *)
(* inside execute_one.  A node is the set of paths and inodes it touches.  *)
(***************************************************************************)
EXTENDS Naturals, FiniteSets

CONSTANTS
    N,            \* nodes of the plan
    Keys,         \* paths and inodes
    Cap,          \* max_parallel.max(1)
    AbortPolicy   \* ConflictPolicy::Abort

ASSUME ParallelAssumption == N \in Nat \ {0} /\ Cap \in Nat \ {0} /\ AbortPolicy \in BOOLEAN

VARIABLES
    touch,    \* the plan
    pc,       \* the loop being run: "assign", "group", "run", "done"
    next,     \* the node the loop is at
    held,     \* cohort_touches
    cohort,   \* PlanNode.cohort
    group,    \* the group of consecutive nodes each node is in
    current,  \* the group being run
    thread,   \* per node, its thread
    inflight, \* the semaphore
    abort,    \* abort_flag
    records   \* nodes with a record

vars == <<touch, pc, next, held, cohort, group, current, thread, inflight, abort, records>>
running == <<current, thread, inflight, abort, records>>

Plan == 1 .. N
Cohorts == 0 .. N
Threads == {"none", "spinning", "executing", "executed", "recorded", "finished"}

(* The labels and groups are 0 until the loops set them. *)
Init ==
    /\ touch \in [Plan -> SUBSET Keys]
    /\ pc = "assign" /\ next = 1
    /\ held = [c \in Cohorts |-> {}]
    /\ cohort = [i \in Plan |-> 0] /\ group = [i \in Plan |-> 0]
    /\ current = 1 /\ thread = [i \in Plan |-> "none"]
    /\ inflight = 0 /\ abort = FALSE /\ records = {}
-----------------------------------------------------------------------------
(* assign_cohorts: the lowest cohort that touches none of the node's keys.  *)
(* A cohort that does not exist yet touches nothing.                        *)
Fits(i, c) == touch[i] \cap held[c] = {}

(* Mutant: the keys of the latest node replace the cohort's keys. *)
AssignForgetful ==
    /\ pc = "assign" /\ next <= N
    /\ \E c \in Cohorts :
        /\ Fits(next, c) /\ \A d \in 0 .. (c - 1) : ~Fits(next, d)
        /\ cohort' = [cohort EXCEPT ![next] = c]
        /\ held' = [held EXCEPT ![c] = touch[next]]
    /\ next' = next + 1
    /\ UNCHANGED <<touch, pc, group, running>>

AssignCohort ==
    /\ pc = "assign" /\ next <= N
    /\ \E c \in Cohorts :
        /\ Fits(next, c) /\ \A d \in 0 .. (c - 1) : ~Fits(next, d)
        /\ cohort' = [cohort EXCEPT ![next] = c]
        /\ held' = [held EXCEPT ![c] = @ \cup touch[next]]
    /\ next' = next + 1
    /\ UNCHANGED <<touch, pc, group, running>>

Assigned ==
    /\ pc = "assign" /\ next > N
    /\ pc' = "group" /\ next' = 1
    /\ UNCHANGED <<touch, held, cohort, group, running>>

(* group_by_cohort: a node joins the last group if it has its cohort. *)
Group ==
    /\ pc = "group" /\ next <= N
    /\ group' = [group EXCEPT ![next] =
                    IF next = 1 THEN 1
                    ELSE IF cohort[next] = cohort[next - 1] THEN group[next - 1]
                    ELSE group[next - 1] + 1]
    /\ next' = next + 1
    /\ UNCHANGED <<touch, pc, held, cohort, running>>

Grouped ==
    /\ pc = "group" /\ next > N
    /\ pc' = "run"
    /\ UNCHANGED <<touch, next, held, cohort, group, running>>
-----------------------------------------------------------------------------
Members == {i \in Plan : group[i] = current}

(* The scope spawns a thread per node of the group. *)
Spawn(i) ==
    /\ pc = "run" /\ i \in Members /\ thread[i] = "none"
    /\ \A j \in Members : j < i => thread[j] # "none"
    /\ thread' = [thread EXCEPT ![i] = "spinning"]
    /\ UNCHANGED <<touch, pc, next, held, cohort, group, current, inflight, abort, records>>

(* Mutant: the count is compared after it was raised. *)
AcquireLate(i) ==
    /\ thread[i] = "spinning" /\ inflight <= Cap
    /\ inflight' = inflight + 1
    /\ thread' = [thread EXCEPT ![i] = "executing"]
    /\ UNCHANGED <<touch, pc, next, held, cohort, group, current, abort, records>>

(* Mutant: no thread takes a slot once the plan is to be aborted. *)
AcquireUnlessAborted(i) ==
    /\ thread[i] = "spinning" /\ inflight < Cap /\ ~abort
    /\ inflight' = inflight + 1
    /\ thread' = [thread EXCEPT ![i] = "executing"]
    /\ UNCHANGED <<touch, pc, next, held, cohort, group, current, abort, records>>

Acquire(i) ==
    /\ thread[i] = "spinning" /\ inflight < Cap
    /\ inflight' = inflight + 1
    /\ thread' = [thread EXCEPT ![i] = "executing"]
    /\ UNCHANGED <<touch, pc, next, held, cohort, group, current, abort, records>>

(* execute_one ends with an outcome that blocks, or with another one. *)
Execute(i, blocks) ==
    /\ thread[i] = "executing"
    /\ thread' = [thread EXCEPT ![i] = "executed"]
    /\ abort' = (abort \/ (AbortPolicy /\ blocks))
    /\ UNCHANGED <<touch, pc, next, held, cohort, group, current, inflight, records>>

Record(i) ==
    /\ thread[i] = "executed"
    /\ thread' = [thread EXCEPT ![i] = "recorded"]
    /\ records' = records \cup {i}
    /\ UNCHANGED <<touch, pc, next, held, cohort, group, current, inflight, abort>>

Release(i) ==
    /\ thread[i] = "recorded"
    /\ thread' = [thread EXCEPT ![i] = "finished"]
    /\ inflight' = inflight - 1
    /\ UNCHANGED <<touch, pc, next, held, cohort, group, current, abort, records>>

(* Mutant: the group is left at the first abort. *)
JoinEarly ==
    /\ pc = "run"
    /\ abort \/ \A i \in Members : thread[i] = "finished"
    /\ IF abort \/ current = group[N]
       THEN pc' = "done" /\ UNCHANGED current
       ELSE pc' = pc /\ current' = current + 1
    /\ UNCHANGED <<touch, next, held, cohort, group, thread, inflight, abort, records>>

(* Mutant: only an abort ends the plan. *)
JoinPastEnd ==
    /\ pc = "run"
    /\ \A i \in Members : thread[i] = "finished"
    /\ IF abort THEN pc' = "done" /\ UNCHANGED current ELSE pc' = pc /\ current' = current + 1
    /\ UNCHANGED <<touch, next, held, cohort, group, thread, inflight, abort, records>>

(* The scope ends when every thread of the group has; an abort ends the plan. *)
Join ==
    /\ pc = "run"
    /\ \A i \in Members : thread[i] = "finished"
    /\ IF abort \/ current = group[N]
       THEN pc' = "done" /\ UNCHANGED current
       ELSE pc' = pc /\ current' = current + 1
    /\ UNCHANGED <<touch, next, held, cohort, group, thread, inflight, abort, records>>

Worker(i) == Acquire(i) \/ (\E b \in BOOLEAN : Execute(i, b)) \/ Record(i) \/ Release(i)

Next ==
    \/ AssignCohort \/ Assigned \/ Group \/ Grouped
    \/ \E i \in Plan : Spawn(i) \/ Worker(i)
    \/ Join

Spec == Init /\ [][Next]_vars

(* Every thread runs, and so does the one that drives the plan. *)
FairSpec ==
    /\ Spec
    /\ WF_vars(AssignCohort \/ Assigned \/ Group \/ Grouped \/ (\E i \in Plan : Spawn(i)) \/ Join)
    /\ \A i \in Plan : WF_vars(Worker(i))
-----------------------------------------------------------------------------
TypeOK ==
    /\ touch \in [Plan -> SUBSET Keys] /\ pc \in {"assign", "group", "run", "done"}
    /\ next \in 1 .. (N + 1) /\ held \in [Cohorts -> SUBSET Keys]
    /\ cohort \in [Plan -> Cohorts] /\ group \in [Plan -> 0 .. N]
    /\ current \in 1 .. N /\ thread \in [Plan -> Threads]
    /\ inflight \in Nat /\ abort \in BOOLEAN /\ records \subseteq Plan

Conflict(i, j) == touch[i] \cap touch[j] # {}

(* Two nodes that touch the same path or inode run in plan order: the later *)
(* one's thread is spawned only after the earlier one's has ended, although *)
(* the labels are not in plan order.                                        *)
ConflictsInOrder ==
    \A i, j \in Plan : i < j /\ Conflict(i, j) /\ thread[j] # "none" => thread[i] = "finished"

(* At most Cap threads are inside execute_one or between it and the release *)
(* of their slot: the semaphore counts them.                                *)
InSlot == {i \in Plan : thread[i] \in {"executing", "executed", "recorded"}}
CapKept == inflight = Cardinality(InSlot) /\ inflight <= Cap

(* The report has a record for every node up to some node of the plan and   *)
(* for none after it, also when an abort left nodes unattempted.            *)
ReportIsPrefix ==
    pc = "done" => \A i, j \in Plan : i < j /\ j \in records => i \in records

(* Every plan ends, with every node recorded unless one blocked it under    *)
(* the abort policy: no thread waits for a slot for ever.                   *)
PlanEnds == <>(pc = "done" /\ (abort \/ records = Plan))
=============================================================================
