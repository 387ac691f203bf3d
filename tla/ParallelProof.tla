---------------------------- MODULE ParallelProof ----------------------------
(***************************************************************************)
(* For every plan, every number of threads and both policies: conflicting  *)
(* nodes of a plan run in plan order under run_parallel.                   *)
(***************************************************************************)
EXTENDS Parallel, FiniteSetTheorems, TLAPS

(* Nodes that have a label: all of them once the first loop has ended. *)
Labelled(i) == pc # "assign" \/ i < next
(* Nodes that have a group. *)
InGroup(i) == pc \in {"run", "done"} \/ (pc = "group" /\ i < next)

(* A cohort holds the keys of its nodes, and no two of them share a key. *)
CohortsHold == \A i \in Plan : Labelled(i) => touch[i] \subseteq held[cohort[i]]
CohortsDisjoint ==
    \A i, j \in Plan : i < j /\ Labelled(j) /\ cohort[i] = cohort[j] => ~Conflict(i, j)

(* Groups ascend, and a group has one cohort. *)
GroupsAscend ==
    \A i, j \in Plan : i < j /\ InGroup(j) => group[i] <= group[j]
GroupsUniform ==
    \A i, j \in Plan : i < j /\ InGroup(j) /\ group[i] = group[j] => cohort[i] = cohort[j]
GroupsPositive == \A i \in Plan : InGroup(i) => group[i] \in 1 .. i

(* Threads before the current group have ended, those after it have not     *)
(* been spawned.                                                            *)
GroupByGroup ==
    \A i \in Plan :
        /\ pc \in {"assign", "group"} => thread[i] = "none"
        /\ pc \in {"run", "done"} /\ group[i] < current => thread[i] = "finished"
        /\ pc \in {"run", "done"} /\ group[i] > current => thread[i] = "none"

(* The run starts at the first group and does not leave the plan. *)
CurrentInPlan ==
    IF pc \in {"run", "done"} THEN current <= group[N] ELSE current = 1
DoneJoined == pc = "done" => \A i \in Plan : group[i] = current => thread[i] = "finished"
RecordsMatch == records = {i \in Plan : thread[i] \in {"recorded", "finished"}}

Labels == CohortsHold /\ CohortsDisjoint
Groups == GroupsAscend /\ GroupsUniform /\ GroupsPositive /\ CurrentInPlan
Running == GroupByGroup /\ DoneJoined /\ RecordsMatch

Inv == TypeOK /\ Labels /\ Groups /\ Running /\ CapKept
-----------------------------------------------------------------------------
(* The plan and its labels are untouched once the groups are made. *)
LEMMA RunKeepsPlan ==
    ASSUME Inv, UNCHANGED <<touch, pc, next, held, cohort, group, current>>
    PROVE  Labels' /\ Groups'
  BY DEF Inv, Labels, CohortsHold, CohortsDisjoint, Labelled, Conflict, Groups, GroupsAscend,
         GroupsUniform, GroupsPositive, CurrentInPlan, InGroup

(* The set of threads that hold a slot is finite. *)
LEMMA SlotsFinite == IsFiniteSet(InSlot) /\ Cardinality(InSlot) \in Nat
  <1>1. IsFiniteSet(Plan)
    BY FS_Interval, ParallelAssumption DEF Plan
  <1>2. IsFiniteSet(InSlot)
    BY <1>1, FS_Subset DEF InSlot
  <1> QED BY <1>2, FS_CardinalityType

(* The initial states satisfy the invariant. *)
LEMMA InitInv == Init => Inv
  <1> SUFFICES ASSUME Init PROVE Inv
    OBVIOUS
  <1>1. TypeOK
    <2>1. held \in [Cohorts -> SUBSET Keys] /\ cohort \in [Plan -> Cohorts] /\ group \in [Plan -> 0 .. N]
      BY ParallelAssumption DEF Init, Plan, Cohorts
    <2>2. thread \in [Plan -> Threads] /\ abort \in BOOLEAN
      BY Zenon DEF Init, Threads
    <2>3. next \in 1 .. (N + 1) /\ current \in 1 .. N /\ inflight \in Nat
      BY ParallelAssumption DEF Init
    <2> QED BY <2>1, <2>2, <2>3 DEF Init, TypeOK
  <1>2. Labels /\ Groups
    BY <1>1, ParallelAssumption DEF Init, TypeOK, Labels, CohortsHold, CohortsDisjoint, Labelled, Groups,
       GroupsAscend, GroupsUniform, GroupsPositive, CurrentInPlan, InGroup, Plan
  <1>3. Running
    BY DEF Init, Running, GroupByGroup, DoneJoined, RecordsMatch
  <1>4. InSlot = {}
    BY DEF Init, InSlot
  <1>5. CapKept
    BY <1>4, FS_EmptySet, ParallelAssumption DEF Init, CapKept
  <1> QED BY <1>1, <1>2, <1>3, <1>5 DEF Inv

(* The labelling loop. *)
LEMMA AssignKeepsInv == Inv /\ AssignCohort => Inv'
  <1> SUFFICES ASSUME Inv, AssignCohort PROVE Inv'
    OBVIOUS
  <1> USE ParallelAssumption DEF Plan, Cohorts
  <1>0. TypeOK /\ pc = "assign" /\ next \in 1 .. N
    BY DEF Inv, AssignCohort, TypeOK
  <1>1. PICK c \in Cohorts : /\ Fits(next, c)
                             /\ cohort' = [cohort EXCEPT ![next] = c]
                             /\ held' = [held EXCEPT ![c] = @ \cup touch[next]]
    BY DEF AssignCohort
  <1>2. /\ next' = next + 1
        /\ UNCHANGED <<touch, pc, group, current, thread, inflight, abort, records>>
    BY DEF AssignCohort, running
  <1>3. TypeOK'
    BY <1>0, <1>1, <1>2 DEF TypeOK
  <1>4. CohortsHold'
    BY <1>0, <1>1, <1>2 DEF Inv, Labels, CohortsHold, Labelled, TypeOK
  <1>5. CohortsDisjoint'
    <2> SUFFICES ASSUME NEW i \in Plan, NEW j \in Plan, i < j, Labelled(j)', cohort'[i] = cohort'[j]
                 PROVE  ~Conflict(i, j)'
      BY DEF CohortsDisjoint
    <2>1. CASE j = next
      <3>1. Labelled(i) /\ cohort[i] = c
        BY <2>1, <1>0, <1>1 DEF Labelled, TypeOK
      <3>2. touch[i] \subseteq held[c]
        BY <3>1 DEF Inv, Labels, CohortsHold
      <3> QED BY <3>2, <2>1, <1>1, <1>2 DEF Fits, Conflict
    <2>2. CASE j # next
      <3>1. Labelled(j) /\ cohort'[i] = cohort[i] /\ cohort'[j] = cohort[j]
        BY <2>2, <1>0, <1>1, <1>2 DEF Labelled, TypeOK
      <3> QED BY <3>1, <1>2 DEF Inv, Labels, CohortsDisjoint, Conflict
    <2> QED BY <2>1, <2>2
  <1>6. Groups'
    BY <1>0, <1>2 DEF Inv, Groups, GroupsAscend, GroupsUniform, GroupsPositive, CurrentInPlan, InGroup
  <1>7. Running'
    BY <1>2 DEF Inv, Running, GroupByGroup, DoneJoined, RecordsMatch
  <1>8. CapKept'
    BY <1>2 DEF Inv, CapKept, InSlot
  <1> QED BY <1>3, <1>4, <1>5, <1>6, <1>7, <1>8 DEF Inv, Labels

(* The end of the labelling loop. *)
LEMMA AssignedKeepsInv == Inv /\ Assigned => Inv'
  <1> SUFFICES ASSUME Inv, Assigned PROVE Inv'
    OBVIOUS
  <1> USE ParallelAssumption DEF Plan, Cohorts
  <1>1. /\ pc = "assign" /\ next > N /\ pc' = "group" /\ next' = 1
        /\ UNCHANGED <<touch, held, cohort, group, current, thread, inflight, abort, records>>
    BY DEF Assigned, running
  <1>2. TypeOK'
    BY <1>1 DEF Inv, TypeOK
  <1>3. \A i \in Plan : Labelled(i)
    BY <1>1 DEF Inv, TypeOK, Labelled
  <1>4. Labels'
    BY <1>1, <1>3 DEF Inv, Labels, CohortsHold, CohortsDisjoint, Conflict
  <1>5. Groups'
    BY <1>1 DEF Inv, Groups, GroupsAscend, GroupsUniform, GroupsPositive, CurrentInPlan, InGroup
  <1>6. Running'
    BY <1>1 DEF Inv, Running, GroupByGroup, DoneJoined, RecordsMatch
  <1>7. CapKept'
    BY <1>1 DEF Inv, CapKept, InSlot
  <1> QED BY <1>2, <1>4, <1>5, <1>6, <1>7 DEF Inv

(* The grouping loop: a node that joins the last group has its cohort, one  *)
(* that does not opens a group above every other.                           *)
LEMMA GroupKeepsInv == Inv /\ Group => Inv'
  <1> SUFFICES ASSUME Inv, Group PROVE Inv'
    OBVIOUS
  <1> USE ParallelAssumption DEF Plan, Cohorts
  <1> DEFINE g == IF next = 1 THEN 1
                  ELSE IF cohort[next] = cohort[next - 1] THEN group[next - 1]
                  ELSE group[next - 1] + 1
  <1>0. TypeOK /\ pc = "group" /\ next \in 1 .. N
    BY DEF Inv, Group, TypeOK
  <1>1. /\ group' = [group EXCEPT ![next] = g] /\ next' = next + 1
        /\ UNCHANGED <<touch, pc, held, cohort, current, thread, inflight, abort, records>>
    BY DEF Group, running
  <1>2. next # 1 => /\ next - 1 \in Plan /\ InGroup(next - 1)
                    /\ group[next - 1] \in 1 .. (next - 1)
    BY <1>0 DEF Inv, Groups, GroupsPositive, InGroup
  <1>3. g \in 1 .. next
    BY <1>0, <1>2
  <1> HIDE DEF g
  <1>4. TypeOK'
    BY <1>0, <1>1, <1>3 DEF TypeOK
  <1>5. Labels'
    BY <1>0, <1>1 DEF Inv, Labels, CohortsHold, CohortsDisjoint, Conflict, Labelled
  <1>6. \A i \in Plan : i < next => /\ InGroup(i) /\ group'[i] = group[i] /\ group[i] <= g
                                    /\ group[i] = g => cohort[i] = cohort[next]
    <2> SUFFICES ASSUME NEW i \in Plan, i < next
                 PROVE  /\ InGroup(i) /\ group'[i] = group[i] /\ group[i] <= g
                        /\ group[i] = g => cohort[i] = cohort[next]
      OBVIOUS
    <2>1. InGroup(i) /\ group'[i] = group[i]
      BY <1>0, <1>1 DEF InGroup, TypeOK
    <2>2. group[i] <= group[next - 1] /\ (group[i] = group[next - 1] => cohort[i] = cohort[next - 1])
      <3>1. CASE i = next - 1
        BY <3>1, <1>0 DEF TypeOK
      <3>2. CASE i # next - 1
        <4>1. i < next - 1 /\ next - 1 \in Plan /\ InGroup(next - 1)
          BY <3>2, <1>0, <1>2
        <4> QED BY <4>1 DEF Inv, Groups, GroupsAscend, GroupsUniform
      <3> QED BY <3>1, <3>2
    <2>3. next # 1 /\ group[i] \in Nat /\ group[next - 1] \in Nat
      BY <1>0, <1>2 DEF TypeOK
    <2> QED BY <2>1, <2>2, <2>3 DEF g
  <1>7. group'[next] = g
    BY <1>0, <1>1 DEF TypeOK
  <1>8. Groups'
    <2>1. GroupsAscend'
      BY <1>0, <1>1, <1>6, <1>7 DEF Inv, Groups, GroupsAscend, InGroup, TypeOK
    <2>2. GroupsUniform'
      BY <1>0, <1>1, <1>6, <1>7 DEF Inv, Groups, GroupsUniform, InGroup, TypeOK
    <2>3. GroupsPositive'
      BY <1>0, <1>1, <1>3, <1>6, <1>7 DEF Inv, Groups, GroupsPositive, InGroup, TypeOK
    <2> QED BY <2>1, <2>2, <2>3, <1>0, <1>1 DEF Inv, Groups, CurrentInPlan
  <1>9. Running'
    BY <1>0, <1>1 DEF Inv, Running, GroupByGroup, DoneJoined, RecordsMatch
  <1>10. CapKept'
    BY <1>1 DEF Inv, CapKept, InSlot
  <1> QED BY <1>4, <1>5, <1>8, <1>9, <1>10 DEF Inv

(* The end of the grouping loop. *)
LEMMA GroupedKeepsInv == Inv /\ Grouped => Inv'
  <1> SUFFICES ASSUME Inv, Grouped PROVE Inv'
    OBVIOUS
  <1> USE ParallelAssumption DEF Plan, Cohorts
  <1>1. /\ pc = "group" /\ next > N /\ pc' = "run"
        /\ UNCHANGED <<touch, next, held, cohort, group, current, thread, inflight, abort, records>>
    BY DEF Grouped, running
  <1>2. TypeOK'
    BY <1>1 DEF Inv, TypeOK
  <1>3. \A i \in Plan : InGroup(i)
    BY <1>1 DEF Inv, TypeOK, InGroup
  <1>4. Labels'
    BY <1>1 DEF Inv, Labels, CohortsHold, CohortsDisjoint, Conflict, Labelled
  <1>5. GroupsAscend' /\ GroupsUniform' /\ GroupsPositive'
    BY <1>1, <1>3 DEF Inv, Groups, GroupsAscend, GroupsUniform, GroupsPositive
  <1>6. /\ current = 1 /\ N \in Plan /\ \A i \in Plan : group[i] \in 1 .. i
        /\ \A i \in Plan : thread[i] = "none"
    BY <1>1, <1>3 DEF Inv, Groups, GroupsPositive, CurrentInPlan, Running, GroupByGroup
  <1>61. CurrentInPlan'
    BY <1>1, <1>6 DEF CurrentInPlan
  <1>7. Running'
    BY <1>1, <1>6 DEF Inv, Running, GroupByGroup, DoneJoined, RecordsMatch
  <1>8. CapKept'
    BY <1>1 DEF Inv, CapKept, InSlot
  <1> QED BY <1>2, <1>4, <1>5, <1>61, <1>7, <1>8 DEF Inv, Groups

(* A step of the run that only moves one thread, from a state that is not   *)
(* joined, keeps what the groups say of the threads.                        *)
LEMMA ThreadStep ==
    ASSUME Inv, NEW i \in Plan, NEW from \in Threads, NEW to \in Threads,
           pc = "run", group[i] = current, thread[i] = from,
           from # "finished", to # "none",
           thread' = [thread EXCEPT ![i] = to],
           records' = {j \in Plan : thread'[j] \in {"recorded", "finished"}},
           UNCHANGED <<touch, pc, next, held, cohort, group, current>>
    PROVE  Labels' /\ Groups' /\ Running' /\ thread' \in [Plan -> Threads] /\ records' \subseteq Plan
  <1>1. Labels' /\ Groups'
    BY RunKeepsPlan
  <1>2. thread' \in [Plan -> Threads] /\ records' \subseteq Plan
    BY DEF Inv, TypeOK
  <1>3. \A j \in Plan : j # i => thread'[j] = thread[j]
    BY DEF Inv, TypeOK
  <1>4. current \in Nat
    BY ParallelAssumption DEF Inv, TypeOK
  <1>5. GroupByGroup'
    BY <1>3, <1>4 DEF Inv, Running, GroupByGroup
  <1>6. DoneJoined' /\ RecordsMatch'
    BY DEF DoneJoined, RecordsMatch
  <1> QED BY <1>1, <1>2, <1>5, <1>6 DEF Running

(* A thread that is spinning, executing or recording is one of the group    *)
(* being run.                                                               *)
LEMMA BusyInGroup ==
    ASSUME Inv, NEW i \in Plan, thread[i] \notin {"none", "finished"}
    PROVE  pc = "run" /\ group[i] = current
  <1>1. pc \in {"run", "done"}
    BY DEF Inv, TypeOK, Running, GroupByGroup
  <1>2. group[i] \in Nat /\ current \in Nat
    BY ParallelAssumption DEF Inv, TypeOK
  <1>3. group[i] = current
    BY <1>1, <1>2 DEF Inv, Running, GroupByGroup
  <1> QED BY <1>1, <1>3 DEF Inv, Running, DoneJoined

(* A thread is spawned. *)
LEMMA SpawnKeepsInv == ASSUME NEW i \in Plan PROVE Inv /\ Spawn(i) => Inv'
  <1> SUFFICES ASSUME Inv, Spawn(i) PROVE Inv'
    OBVIOUS
  <1>1. /\ pc = "run" /\ group[i] = current /\ thread[i] = "none"
        /\ thread' = [thread EXCEPT ![i] = "spinning"]
        /\ UNCHANGED <<touch, pc, next, held, cohort, group, current, inflight, abort, records>>
    BY DEF Spawn, Members
  <1>2. records' = {j \in Plan : thread'[j] \in {"recorded", "finished"}}
    BY <1>1 DEF Inv, TypeOK, Running, RecordsMatch
  <1>3. Labels' /\ Groups' /\ Running' /\ thread' \in [Plan -> Threads] /\ records' \subseteq Plan
    <2>1. "none" \in Threads /\ "spinning" \in Threads
      BY DEF Threads
    <2> QED BY <1>1, <1>2, <2>1, ThreadStep
  <1>4. TypeOK'
    BY <1>1, <1>3 DEF Inv, TypeOK
  <1>5. InSlot' = InSlot
    BY <1>1 DEF Inv, TypeOK, InSlot
  <1> QED BY <1>1, <1>3, <1>4, <1>5 DEF Inv, CapKept

(* A thread takes a slot: the count and the set of slot holders grow by one. *)
LEMMA AcquireKeepsInv == ASSUME NEW i \in Plan PROVE Inv /\ Acquire(i) => Inv'
  <1> SUFFICES ASSUME Inv, Acquire(i) PROVE Inv'
    OBVIOUS
  <1>1. /\ thread[i] = "spinning" /\ inflight < Cap /\ inflight' = inflight + 1
        /\ thread' = [thread EXCEPT ![i] = "executing"]
        /\ UNCHANGED <<touch, pc, next, held, cohort, group, current, abort, records>>
    BY DEF Acquire
  <1>2. records' = {j \in Plan : thread'[j] \in {"recorded", "finished"}}
    BY <1>1 DEF Inv, TypeOK, Running, RecordsMatch
  <1>3. Labels' /\ Groups' /\ Running' /\ thread' \in [Plan -> Threads] /\ records' \subseteq Plan
    <2>1. "spinning" \in Threads /\ "executing" \in Threads
      BY DEF Threads
    <2>2. pc = "run" /\ group[i] = current
      BY <1>1, BusyInGroup
    <2> QED BY <1>1, <1>2, <2>1, <2>2, ThreadStep
  <1>4. TypeOK'
    BY <1>1, <1>3 DEF Inv, TypeOK
  <1>5. InSlot' = InSlot \cup {i} /\ i \notin InSlot
    BY <1>1 DEF Inv, TypeOK, InSlot
  <1>6. Cardinality(InSlot') = Cardinality(InSlot) + 1
    BY <1>5, SlotsFinite, FS_AddElement
  <1>7. CapKept'
    BY <1>1, <1>6, ParallelAssumption DEF Inv, TypeOK, CapKept
  <1> QED BY <1>3, <1>4, <1>7 DEF Inv

(* execute_one ends. *)
LEMMA ExecuteKeepsInv ==
    ASSUME NEW i \in Plan, NEW b \in BOOLEAN PROVE Inv /\ Execute(i, b) => Inv'
  <1> SUFFICES ASSUME Inv, Execute(i, b) PROVE Inv'
    OBVIOUS
  <1>1. /\ thread[i] = "executing" /\ thread' = [thread EXCEPT ![i] = "executed"]
        /\ UNCHANGED <<touch, pc, next, held, cohort, group, current, inflight, records>>
    BY DEF Execute
  <1>2. records' = {j \in Plan : thread'[j] \in {"recorded", "finished"}}
    BY <1>1 DEF Inv, TypeOK, Running, RecordsMatch
  <1>3. Labels' /\ Groups' /\ Running' /\ thread' \in [Plan -> Threads] /\ records' \subseteq Plan
    <2>1. "executing" \in Threads /\ "executed" \in Threads
      BY DEF Threads
    <2>2. pc = "run" /\ group[i] = current
      BY <1>1, BusyInGroup
    <2> QED BY <1>1, <1>2, <2>1, <2>2, ThreadStep
  <1>4. abort' \in BOOLEAN
    BY Zenon DEF Execute
  <1>5. TypeOK'
    BY <1>1, <1>3, <1>4 DEF Inv, TypeOK
  <1>6. InSlot' = InSlot
    BY <1>1 DEF Inv, TypeOK, InSlot
  <1> QED BY <1>1, <1>3, <1>5, <1>6 DEF Inv, CapKept

(* A thread pushes its record. *)
LEMMA RecordKeepsInv == ASSUME NEW i \in Plan PROVE Inv /\ Record(i) => Inv'
  <1> SUFFICES ASSUME Inv, Record(i) PROVE Inv'
    OBVIOUS
  <1>1. /\ thread[i] = "executed" /\ thread' = [thread EXCEPT ![i] = "recorded"]
        /\ records' = records \cup {i}
        /\ UNCHANGED <<touch, pc, next, held, cohort, group, current, inflight, abort>>
    BY DEF Record
  <1>2. records' = {j \in Plan : thread'[j] \in {"recorded", "finished"}}
    BY <1>1 DEF Inv, TypeOK, Running, RecordsMatch
  <1>3. Labels' /\ Groups' /\ Running' /\ thread' \in [Plan -> Threads] /\ records' \subseteq Plan
    <2>1. "executed" \in Threads /\ "recorded" \in Threads
      BY DEF Threads
    <2>2. pc = "run" /\ group[i] = current
      BY <1>1, BusyInGroup
    <2> QED BY <1>1, <1>2, <2>1, <2>2, ThreadStep
  <1>4. TypeOK'
    BY <1>1, <1>3 DEF Inv, TypeOK
  <1>5. InSlot' = InSlot
    BY <1>1 DEF Inv, TypeOK, InSlot
  <1> QED BY <1>1, <1>3, <1>4, <1>5 DEF Inv, CapKept

(* A thread gives its slot back: the count is not zero, because the thread  *)
(* is one of those it counts.                                               *)
LEMMA ReleaseKeepsInv == ASSUME NEW i \in Plan PROVE Inv /\ Release(i) => Inv'
  <1> SUFFICES ASSUME Inv, Release(i) PROVE Inv'
    OBVIOUS
  <1>1. /\ thread[i] = "recorded" /\ thread' = [thread EXCEPT ![i] = "finished"]
        /\ inflight' = inflight - 1
        /\ UNCHANGED <<touch, pc, next, held, cohort, group, current, abort, records>>
    BY DEF Release
  <1>2. records' = {j \in Plan : thread'[j] \in {"recorded", "finished"}}
    BY <1>1 DEF Inv, TypeOK, Running, RecordsMatch
  <1>3. Labels' /\ Groups' /\ Running' /\ thread' \in [Plan -> Threads] /\ records' \subseteq Plan
    <2>1. "recorded" \in Threads /\ "finished" \in Threads
      BY DEF Threads
    <2>2. pc = "run" /\ group[i] = current
      BY <1>1, BusyInGroup
    <2> QED BY <1>1, <1>2, <2>1, <2>2, ThreadStep
  <1>4. InSlot' = InSlot \ {i} /\ i \in InSlot
    BY <1>1 DEF Inv, TypeOK, InSlot
  <1>5. IsFiniteSet(InSlot') /\ i \notin InSlot' /\ InSlot = InSlot' \cup {i}
    BY <1>4, SlotsFinite, FS_Subset
  <1>6. Cardinality(InSlot') \in Nat /\ Cardinality(InSlot) = Cardinality(InSlot') + 1
    BY <1>5, FS_AddElement, FS_CardinalityType
  <1>7. CapKept' /\ inflight' \in Nat
    BY <1>1, <1>6, ParallelAssumption DEF Inv, TypeOK, CapKept
  <1>8. TypeOK'
    BY <1>1, <1>3, <1>7 DEF Inv, TypeOK
  <1> QED BY <1>3, <1>7, <1>8 DEF Inv

(* A group is joined: the next one starts, or the plan ends. *)
LEMMA JoinKeepsInv == Inv /\ Join => Inv'
  <1> SUFFICES ASSUME Inv, Join PROVE Inv'
    OBVIOUS
  <1> USE ParallelAssumption DEF Plan, Cohorts
  <1>1. /\ pc = "run" /\ \A i \in Plan : group[i] = current => thread[i] = "finished"
        /\ UNCHANGED <<touch, next, held, cohort, group, thread, inflight, abort, records>>
        /\ \/ pc' = "done" /\ current' = current
           \/ pc' = "run" /\ current' = current + 1 /\ current # group[N]
    BY DEF Join, Members
  <1>2. /\ N \in Plan /\ current \in Nat /\ current <= group[N] /\ group[N] \in 1 .. N
        /\ \A i \in Plan : group[i] \in Nat
    <2>1. N \in Plan /\ current \in Nat /\ \A i \in Plan : group[i] \in Nat /\ group[i] <= N
      BY DEF Inv, TypeOK
    <2>2. current <= group[N]
      BY <1>1 DEF Inv, Groups, CurrentInPlan
    <2>3. group[N] \in 1 .. N
      BY <1>1, <2>1 DEF Inv, Groups, GroupsPositive, InGroup
    <2> QED BY <2>1, <2>2, <2>3
  <1>3. current' \in 1 .. N /\ current' <= group[N]
    <2>1. current >= 1
      BY DEF Inv, TypeOK
    <2>2. current' = current \/ (current' = current + 1 /\ current # group[N])
      BY <1>1
    <2> QED BY <1>2, <2>1, <2>2
  <1>4. TypeOK'
    BY <1>1, <1>3 DEF Inv, TypeOK
  <1>5. Labels'
    BY <1>1 DEF Inv, Labels, CohortsHold, CohortsDisjoint, Conflict, Labelled
  <1>6. Groups'
    BY <1>1, <1>3 DEF Inv, Groups, GroupsAscend, GroupsUniform, GroupsPositive, CurrentInPlan,
                      InGroup
  <1>7. GroupByGroup'
    BY <1>1, <1>2 DEF Inv, Running, GroupByGroup
  <1>8. DoneJoined' /\ RecordsMatch'
    BY <1>1 DEF Inv, Running, DoneJoined, RecordsMatch
  <1>9. CapKept'
    BY <1>1 DEF Inv, CapKept, InSlot
  <1> QED BY <1>4, <1>5, <1>6, <1>7, <1>8, <1>9 DEF Inv, Running

(* Every step keeps the invariant. *)
LEMMA NextKeepsInv == Inv /\ [Next]_vars => Inv'
  <1> SUFFICES ASSUME Inv, [Next]_vars PROVE Inv'
    OBVIOUS
  <1>1. CASE AssignCohort \/ Assigned \/ Group \/ Grouped \/ Join
    BY <1>1, AssignKeepsInv, AssignedKeepsInv, GroupKeepsInv, GroupedKeepsInv, JoinKeepsInv
  <1>2. ASSUME NEW i \in Plan, Spawn(i) \/ Worker(i) PROVE Inv'
    BY <1>2, SpawnKeepsInv, AcquireKeepsInv, ExecuteKeepsInv, RecordKeepsInv, ReleaseKeepsInv
       DEF Worker
  <1>3. CASE UNCHANGED vars
    BY <1>3 DEF vars, Inv, TypeOK, Labels, CohortsHold, CohortsDisjoint, Labelled, Conflict, Groups,
                GroupsAscend, GroupsUniform, GroupsPositive, CurrentInPlan, InGroup, Running,
                GroupByGroup, DoneJoined, RecordsMatch, CapKept, InSlot
  <1> QED BY <1>1, <1>2, <1>3 DEF Next

(* The three properties follow from the invariant: of two conflicting nodes *)
(* the later one is in a later cohort group, because a group has one cohort *)
(* and a cohort has no conflict.                                            *)
LEMMA InvSuffices == Inv => ConflictsInOrder /\ ReportIsPrefix
  <1> SUFFICES ASSUME Inv PROVE ConflictsInOrder /\ ReportIsPrefix
    OBVIOUS
  <1>1. \A i \in Plan : group[i] \in Nat /\ current \in Nat
    BY ParallelAssumption DEF Inv, TypeOK, Plan
  <1>2. ASSUME NEW i \in Plan, NEW j \in Plan, i < j, Conflict(i, j), thread[j] # "none"
        PROVE  thread[i] = "finished"
    <2>1. pc \in {"run", "done"} /\ group[j] <= current
      BY <1>1, <1>2 DEF Inv, TypeOK, Running, GroupByGroup
    <2>2. group[i] <= group[j] /\ cohort[i] # cohort[j]
      BY <1>2, <2>1 DEF Inv, Groups, GroupsAscend, Labels, CohortsDisjoint, InGroup, Labelled
    <2>3. group[i] # group[j]
      BY <1>2, <2>1, <2>2 DEF Inv, Groups, GroupsUniform, InGroup
    <2> QED BY <1>1, <2>1, <2>2, <2>3 DEF Inv, Running, GroupByGroup
  <1>3. ASSUME pc = "done", NEW i \in Plan, NEW j \in Plan, i < j, j \in records
        PROVE  i \in records
    <2>1. group[j] <= current /\ group[i] <= group[j]
      BY <1>1, <1>3 DEF Inv, TypeOK, Running, GroupByGroup, RecordsMatch, Groups, GroupsAscend,
                        InGroup
    <2>2. thread[i] = "finished"
      BY <1>1, <1>3, <2>1 DEF Inv, Running, GroupByGroup, DoneJoined
    <2> QED BY <2>2 DEF Inv, Running, RecordsMatch
  <1> QED BY <1>2, <1>3 DEF ConflictsInOrder, ReportIsPrefix

(* The invariant holds in every reachable state of run_parallel. *)
THEOREM ParallelInvariant == Spec => []Inv
  BY InitInv, NextKeepsInv, PTL DEF Spec

(* TypeOK holds in every reachable state: the semaphore never underflows.   *)
THEOREM ParallelTypeOK == Spec => []TypeOK
  BY ParallelInvariant, PTL DEF Inv

(* For every plan and number of threads, nodes that touch a common path or  *)
(* inode run in plan order.                                                 *)
THEOREM ParallelKeepsPlanOrder == Spec => []ConflictsInOrder
  BY ParallelInvariant, InvSuffices, PTL

(* The semaphore counts the threads inside a slot and never exceeds Cap. *)
THEOREM ParallelKeepsCap == Spec => []CapKept
  BY ParallelInvariant, PTL DEF Inv

(* The nodes that have a record when run_parallel ends are a prefix of the  *)
(* plan.                                                                    *)
THEOREM ParallelReportsPrefix == Spec => []ReportIsPrefix
  BY ParallelInvariant, InvSuffices, PTL
=============================================================================
