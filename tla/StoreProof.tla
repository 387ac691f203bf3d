----------------------------- MODULE StoreProof -----------------------------
(***************************************************************************)
(* Proofs about Store, for any number of commands, blobs and collector     *)
(* passes and any bounds.  RefcountNeverOver is inductive only together    *)
(* with the freshness of event ids: put_event adds one to a refcount, and  *)
(* the number of referencing events grows by one only if the inserted row  *)
(* is a new element of the table.                                          *)
(***************************************************************************)
EXTENDS Store, FiniteSetTheorems, TLAPS

IInv == TypeOK /\ IdsFresh /\ RefcountNeverOver /\ CountedRowKept

(* The events that reference a blob are finitely many. *)
LEMMA RefsFinite ==
  ASSUME IsFiniteSet(events), NEW h
  PROVE  IsFiniteSet(RefsTo(h)) /\ Cardinality(RefsTo(h)) \in Nat
<1>1. RefsTo(h) \in SUBSET events
  BY DEF RefsTo
<1>2. IsFiniteSet(RefsTo(h))
  BY <1>1, FS_Subset
<1> QED
  BY <1>2, FS_CardinalityType

(* Init establishes the invariant. *)
LEMMA InitIInv == Init => IInv
<1> SUFFICES ASSUME Init PROVE IInv
  OBVIOUS
<1> USE StoreAssumption DEF Init
<1>1. IsFiniteSet(events)
  BY FS_EmptySet
<1>2. gc \in [Passes -> GcStates]
  BY DEF NewPass, GcSteps, GcStates
<1>3. TypeOK
  BY <1>1, <1>2 DEF TypeOK
<1>4. IdsFresh
  BY DEF IdsFresh
<1>5. RefcountNeverOver
  <2> SUFFICES ASSUME NEW h \in Blobs PROVE refcount[h] <= Cardinality(RefsTo(h))
    BY DEF RefcountNeverOver
  <2>1. Cardinality(RefsTo(h)) \in Nat
    BY <1>1, RefsFinite
  <2> QED
    BY <2>1
<1>6. CountedRowKept
  BY DEF CountedRowKept
<1> QED
  BY <1>3, <1>4, <1>5, <1>6 DEF IInv

(* A step that leaves the tables of events and blobs alone keeps what the    *)
(* invariant says about them.                                                *)
LEMMA SameTables ==
  ASSUME IInv, UNCHANGED <<events, nextId, rows, refcount>>
  PROVE  IdsFresh' /\ RefcountNeverOver' /\ CountedRowKept'
BY DEF IInv, IdsFresh, RefcountNeverOver, CountedRowKept, RefsTo

(* Reaping takes as many references off a blob as events that named it. *)
LEMMA ReapStep ==
  ASSUME IInv, NEW batch \in SUBSET Commands, ReapCommands(batch)
  PROVE  /\ commands' \subseteq Commands
         /\ events' \subseteq EventRows
         /\ IsFiniteSet(events')
         /\ refcount' \in [Blobs -> Nat]
         /\ UNCHANGED <<started, nextId, rows>>
         /\ IdsFresh' /\ RefcountNeverOver' /\ CountedRowKept'
<1> USE DEF IInv
<1> DEFINE gone == {e \in events : e.cmd \in Reapable(batch)}
           less(h) == Cardinality({e \in gone : e.blob = h})
<1>1. /\ commands' = commands \ Reapable(batch)
      /\ events' = events \ gone
      /\ refcount' = [h \in Blobs |->
                        IF refcount[h] > less(h) THEN refcount[h] - less(h) ELSE 0]
      /\ UNCHANGED <<started, nextId, rows>>
  BY DEF ReapCommands
<1>2. /\ commands' \subseteq Commands
      /\ events' \subseteq EventRows
  BY <1>1 DEF TypeOK
<1>3. IsFiniteSet(events')
  <2>1. events' \in SUBSET events
    BY <1>1
  <2> QED
    BY <2>1, FS_Subset DEF TypeOK
<1>4. ASSUME NEW h \in Blobs
      PROVE  /\ less(h) \in Nat
             /\ Cardinality(RefsTo(h)) \in Nat
             /\ Cardinality(RefsTo(h)') = Cardinality(RefsTo(h)) - less(h)
  <2> DEFINE lost == {e \in gone : e.blob = h}
  <2>1. IsFiniteSet(RefsTo(h)) /\ Cardinality(RefsTo(h)) \in Nat
    BY RefsFinite DEF TypeOK
  <2>2. lost \in SUBSET RefsTo(h)
    BY DEF RefsTo
  <2>3. IsFiniteSet(lost) /\ Cardinality(lost) \in Nat
    BY <2>1, <2>2, FS_Subset, FS_CardinalityType
  <2>4. RefsTo(h)' = RefsTo(h) \ lost
    BY <1>1 DEF RefsTo
  <2>5. RefsTo(h) \cap lost = lost
    BY <2>2
  <2>6. Cardinality(RefsTo(h) \ lost) = Cardinality(RefsTo(h)) - Cardinality(RefsTo(h) \cap lost)
    BY <2>1, FS_Difference
  <2> QED
    BY <2>1, <2>3, <2>4, <2>5, <2>6
<1> HIDE DEF less, gone
<1>5. refcount' \in [Blobs -> Nat]
  BY <1>1, <1>4 DEF TypeOK
<1>6. IdsFresh'
  BY <1>1 DEF IdsFresh
<1>7. RefcountNeverOver'
  <2> SUFFICES ASSUME NEW h \in Blobs PROVE refcount'[h] <= Cardinality(RefsTo(h)')
    BY DEF RefcountNeverOver
  <2>1. refcount[h] \in Nat /\ refcount[h] <= Cardinality(RefsTo(h))
    BY DEF RefcountNeverOver, TypeOK
  <2>2. refcount'[h] = IF refcount[h] > less(h) THEN refcount[h] - less(h) ELSE 0
    BY <1>1
  <2>3. less(h) <= Cardinality(RefsTo(h))
    <3>1. RefsTo(h)' \in SUBSET events'
      BY DEF RefsTo
    <3>2. Cardinality(RefsTo(h)') \in Nat
      BY <1>3, <3>1, FS_Subset, FS_CardinalityType
    <3> QED
      BY <1>4, <3>2
  <2> QED
    BY <2>1, <2>2, <2>3, <1>4
<1>8. CountedRowKept'
  BY <1>1, <1>4 DEF CountedRowKept, TypeOK
<1> QED
  BY <1>1, <1>2, <1>3, <1>5, <1>6, <1>7, <1>8

(* put_event adds at most as much to a refcount as to the set of events that *)
(* reference the blob, because the new row's id is fresh.                    *)
LEMMA PutEventStep ==
  ASSUME IInv, PutEvent
  PROVE  IInv'
<1> USE DEF IInv
<1>1. job \in Jobs /\ job.blob \in Blobs
  BY DEF TypeOK, PutEvent, Jobs, Idle
<1>2. CASE job.cmd \notin commands
  <2>1. UNCHANGED <<events, nextId, rows, refcount>>
    BY <1>2 DEF PutEvent
  <2>2. TypeOK'
    BY <1>2, <2>1 DEF PutEvent, TypeOK, disk, guard, mem
  <2> QED
    BY <2>1, <2>2, SameTables
<1>3. CASE job.cmd \in commands
  <2> DEFINE new == [id |-> nextId, cmd |-> job.cmd, blob |-> job.blob]
  <2>1. /\ events' = events \cup {new}
        /\ nextId' = nextId + 1
        /\ refcount' = IF job.blob \in rows
                         THEN [refcount EXCEPT ![job.blob] = refcount[job.blob] + 1]
                         ELSE refcount
        /\ job' = Idle
        /\ UNCHANGED <<commands, started, rows, files, tmp, pins, holds, stashes,
                        baseline, clock, tick, gc, faults>>
    BY <1>3 DEF PutEvent, disk, guard, mem
  <2>2. new \notin events
    BY DEF IdsFresh, TypeOK
  <2>3. new \in EventRows
    BY <1>1, <1>3 DEF TypeOK, EventRows
  <2>4. IsFiniteSet(events')
    BY <2>1, FS_AddElement DEF TypeOK
  <2>5. TypeOK'
    <3>1. refcount' \in [Blobs -> Nat]
      BY <1>1, <2>1 DEF TypeOK
    <3>2. events' \subseteq EventRows
      BY <2>1, <2>3 DEF TypeOK
    <3> QED
      BY <2>1, <2>4, <3>1, <3>2 DEF TypeOK
  <2>6. IdsFresh'
    BY <2>1, <2>3 DEF IdsFresh, TypeOK, EventRows
  <2>7. RefcountNeverOver'
    <3> SUFFICES ASSUME NEW h \in Blobs PROVE refcount'[h] <= Cardinality(RefsTo(h)')
      BY DEF RefcountNeverOver
    <3>1. IsFiniteSet(RefsTo(h)) /\ Cardinality(RefsTo(h)) \in Nat
      BY RefsFinite DEF TypeOK
    <3>2. refcount[h] \in Nat /\ refcount[h] <= Cardinality(RefsTo(h))
      BY DEF RefcountNeverOver, TypeOK
    <3>3. CASE h = job.blob
      <4>1. RefsTo(h)' = RefsTo(h) \cup {new}
        BY <2>1, <3>3 DEF RefsTo
      <4>2. new \notin RefsTo(h)
        BY <2>2 DEF RefsTo
      <4>3. Cardinality(RefsTo(h)') = Cardinality(RefsTo(h)) + 1
        BY <3>1, <4>1, <4>2, FS_AddElement
      <4>4. refcount'[h] <= refcount[h] + 1
        BY <2>1, <3>2, <3>3, <1>1 DEF TypeOK
      <4>5. refcount'[h] \in Nat
        BY <2>5 DEF TypeOK
      <4> QED
        BY <3>1, <3>2, <4>3, <4>4, <4>5
    <3>4. CASE h # job.blob
      <4>1. RefsTo(h)' = RefsTo(h)
        BY <2>1, <3>4 DEF RefsTo
      <4>2. refcount'[h] = refcount[h]
        BY <2>1, <3>4 DEF TypeOK
      <4> QED
        BY <3>2, <4>1, <4>2
    <3> QED
      BY <3>3, <3>4
  <2>8. CountedRowKept'
    BY <1>1, <2>1 DEF CountedRowKept, TypeOK
  <2> QED
    BY <2>5, <2>6, <2>7, <2>8
<1> QED
  BY <1>2, <1>3

(* The steps of a capture handler other than put_event. *)
LEMMA CaptureSteps ==
  ASSUME IInv, CaptureStep
  PROVE  IInv'
<1> USE DEF IInv
<1> USE StoreAssumption DEF TypeOK, Jobs, JobSteps, Idle, index, disk, guard, mem
<1>1. CASE PutExisting
  <2>1. job \in Jobs /\ job' \in Jobs
    BY <1>1 DEF PutExisting, AfterPut
  <2>2. TypeOK'
    BY <1>1, <2>1 DEF PutExisting
  <2> QED
    BY <1>1, <2>2, SameTables DEF PutExisting
<1>2. CASE PutExistingGone
  <2>1. [g \in Passes |-> NewPass] \in [Passes -> GcStates]
    BY DEF NewPass, GcSteps, GcStates
  <2>2. TypeOK'
    BY <1>2, <2>1 DEF PutExistingGone, DaemonRestart, AbandonTmp
  <2> QED
    BY <1>2, <2>2, SameTables DEF PutExistingGone, DaemonRestart
<1>3. CASE PutRename
  <2>1. job \in Jobs /\ job' \in Jobs /\ job.blob \in Blobs
    BY <1>3 DEF PutRename, AfterPut
  <2>2. TypeOK'
    BY <1>3, <2>1 DEF PutRename
  <2> QED
    BY <1>3, <2>2, SameTables DEF PutRename
<1>4. CASE PutBlobRecord
  <2>1. job \in Jobs /\ job' \in Jobs /\ job.blob \in Blobs
    BY <1>4 DEF PutBlobRecord
  <2>2. TypeOK'
    BY <1>4, <2>1 DEF PutBlobRecord
  <2>3. IdsFresh' /\ RefcountNeverOver'
    BY <1>4 DEF PutBlobRecord, IdsFresh, RefcountNeverOver, RefsTo
  <2>4. CountedRowKept'
    BY <1>4 DEF PutBlobRecord, CountedRowKept
  <2> QED
    BY <2>2, <2>3, <2>4
<1>5. CASE CacheBaseline
  <2>1. job \in Jobs /\ job.blob \in Blobs
    BY <1>5 DEF CacheBaseline
  <2>2. TypeOK'
    BY <1>5, <2>1 DEF CacheBaseline
  <2> QED
    BY <1>5, <2>2, SameTables DEF CacheBaseline
<1>6. CASE RegisterStash
  <2>1. job \in Jobs /\ job' \in Jobs /\ job.blob \in Blobs
    BY <1>6 DEF RegisterStash
  <2>2. TypeOK'
    BY <1>6, <2>1 DEF RegisterStash
  <2> QED
    BY <1>6, <2>2, SameTables DEF RegisterStash
<1>7. CASE PutEvent
  BY <1>7, PutEventStep
<1> QED
  BY <1>1, <1>2, <1>3, <1>4, <1>5, <1>6, <1>7 DEF CaptureStep

(* The steps of a collector pass. *)
LEMMA CollectorSteps ==
  ASSUME IInv, NEW g \in Passes, GcStart(g) \/ GcStep(g)
  PROVE  IInv'
<1> USE DEF IInv
<1> USE StoreAssumption DEF TypeOK, index, disk, guard, mem
<1>0. gc[g] \in GcStates
  OBVIOUS
<1>1. CASE GcStart(g)
  <2>1. PICK cfg \in Config(g) :
          gc' = [gc EXCEPT ![g].step = "mark", ![g].cutoff = AgeCutoff(cfg, NowLogical(g))]
    BY <1>1 DEF GcStart
  <2>2. cfg \in GcConfigs
    BY DEF Config
  <2>3. NowLogical(g) \in Nat
    BY DEF NowLogical
  <2>4. AgeCutoff(cfg, NowLogical(g)) \in Nat
    BY <2>2, <2>3 DEF AgeCutoff, GcConfigs
  <2>5. gc' \in [Passes -> GcStates]
    BY <1>0, <2>1, <2>4 DEF GcStates, GcSteps
  <2>6. tick' \in Nat
    <3>1. tick' \in {tick, tick + 1}
      BY <1>1, Zenon DEF GcStart
    <3>2. tick \in Nat
      OBVIOUS
    <3> HIDE DEF TypeOK, IInv
    <3> QED
      BY <3>1, <3>2
  <2>7. UNCHANGED <<index, disk, guard, baseline, clock, job, faults>>
    BY <1>1 DEF GcStart
  <2>8. TypeOK'
    BY <2>5, <2>6, <2>7
  <2> QED
    BY <2>7, <2>8, SameTables
<1>2. CASE GcMark(g)
  <2>1. PICK B \in SUBSET commands :
          gc' = [gc EXCEPT ![g].step = IF B = {} THEN "list" ELSE "reap", ![g].batch = B]
    BY <1>2 DEF GcMark
  <2>2. gc' \in [Passes -> GcStates]
    BY <1>0, <2>1 DEF GcStates, GcSteps
  <2>3. TypeOK'
    BY <1>2, <2>2 DEF GcMark
  <2> QED
    BY <1>2, <2>3, SameTables DEF GcMark
<1>3. CASE GcReap(g)
  <2>1. gc[g].batch \in SUBSET Commands
    BY <1>0 DEF GcStates
  <2>2. gc' \in [Passes -> GcStates]
    BY <1>0, <1>3 DEF GcReap, GcStates, GcSteps
  <2>3. ReapCommands(gc[g].batch)
    BY <1>3 DEF GcReap
  <2> HIDE DEF TypeOK, IInv
  <2>4. /\ commands' \subseteq Commands
        /\ events' \subseteq EventRows
        /\ IsFiniteSet(events')
        /\ refcount' \in [Blobs -> Nat]
        /\ UNCHANGED <<started, nextId, rows>>
        /\ IdsFresh' /\ RefcountNeverOver' /\ CountedRowKept'
    BY <2>1, <2>3, ReapStep
  <2>5. UNCHANGED <<files, tmp, pins, holds, stashes, baseline, clock, tick, job, faults>>
    BY <1>3 DEF GcReap
  <2>6. TypeOK
    BY DEF IInv
  <2>7. TypeOK'
    BY <2>2, <2>4, <2>5, <2>6 DEF TypeOK
  <2> QED
    BY <2>4, <2>7 DEF IInv
<1>4. CASE GcList(g)
  <2>1. gc' \in [Passes -> GcStates]
    BY <1>0, <1>4 DEF GcList, GcStates, GcSteps
  <2>2. TypeOK'
    BY <1>4, <2>1 DEF GcList
  <2> QED
    BY <1>4, <2>2, SameTables DEF GcList
<1>5. ASSUME NEW h \in Blobs, GcDeleteFile(g, h) PROVE IInv'
  <2>1. gc' \in [Passes -> GcStates]
    BY <1>0, <1>5 DEF GcDeleteFile, GcStates, GcSteps
  <2>2. TypeOK'
    BY <1>5, <2>1 DEF GcDeleteFile
  <2> QED
    BY <1>5, <2>2, SameTables DEF GcDeleteFile
<1>6. CASE GcDropRow(g)
  <2>1. gc' \in [Passes -> GcStates]
    BY <1>0, <1>6 DEF GcDropRow, GcStates, GcSteps
  <2>2. TypeOK'
    BY <1>6, <2>1 DEF GcDropRow
  <2>3. IdsFresh' /\ RefcountNeverOver'
    BY <1>6 DEF GcDropRow, IdsFresh, RefcountNeverOver, RefsTo
  <2>4. CountedRowKept'
    BY <1>6 DEF GcDropRow, CountedRowKept
  <2> QED
    BY <2>2, <2>3, <2>4
<1>7. CASE GcFinish(g)
  <2>1. gc' \in [Passes -> GcStates]
    BY <1>7 DEF GcFinish, GcStates, GcSteps, NewPass
  <2>2. TypeOK'
    BY <1>7, <2>1 DEF GcFinish
  <2> QED
    BY <1>7, <2>2, SameTables DEF GcFinish
<1> QED
  BY <1>1, <1>2, <1>3, <1>4, <1>5, <1>6, <1>7 DEF GcStep

(* Every step preserves the invariant. *)
LEMMA NextIInv == IInv /\ [Next]_vars => IInv'
<1> SUFFICES ASSUME IInv, [Next]_vars PROVE IInv'
  OBVIOUS
<1> USE StoreAssumption DEF index, disk, guard, mem
<1>0. TypeOK
  BY DEF IInv
<1>1. ASSUME NEW c \in Commands, PutCommand(c) PROVE IInv'
  <2>1. TypeOK'
    BY <1>0, <1>1 DEF PutCommand, TypeOK
  <2> QED
    BY <1>1, <2>1, SameTables DEF PutCommand, IInv
<1>2. ASSUME NEW c \in Commands, PinCommand(c) \/ CreateHold(c) \/ ReleaseHold(c) PROVE IInv'
  <2>1. TypeOK'
    BY <1>0, <1>2 DEF PinCommand, CreateHold, ReleaseHold, TypeOK
  <2> QED
    BY <1>2, <2>1, SameTables DEF PinCommand, CreateHold, ReleaseHold, IInv
<1>3. ASSUME NEW c \in Commands, Forget(c) PROVE IInv'
  <2>1. {c} \in SUBSET Commands /\ ReapCommands({c})
    BY <1>3 DEF Forget
  <2>2. /\ commands' \subseteq Commands
        /\ events' \subseteq EventRows
        /\ IsFiniteSet(events')
        /\ refcount' \in [Blobs -> Nat]
        /\ UNCHANGED <<started, nextId, rows>>
        /\ IdsFresh' /\ RefcountNeverOver' /\ CountedRowKept'
    BY <2>1, ReapStep
  <2>3. UNCHANGED <<files, tmp, pins, holds, stashes, baseline, clock, tick, job, gc, faults>>
    BY <1>3 DEF Forget
  <2>4. TypeOK'
    BY <1>0, <2>2, <2>3 DEF TypeOK
  <2> QED
    BY <2>2, <2>4 DEF IInv
<1>4. ASSUME NEW t \in AllTiers, NEW c \in Commands \cup {NoCmd}, NEW h \in Blobs, StartPut(t, c, h)
      PROVE  IInv'
  <2>1. job' \in Jobs
    BY <1>4 DEF StartPut, Jobs, JobSteps
  <2>2. TypeOK'
    BY <1>0, <1>4, <2>1 DEF StartPut, TypeOK
  <2> QED
    BY <1>4, <2>2, SameTables DEF StartPut, IInv
<1>5. ASSUME NEW c \in Commands, NEW h \in Blobs, PromoteBaseline(c, h) PROVE IInv'
  <2>1. job' \in Jobs
    BY <1>5 DEF PromoteBaseline, Jobs, JobSteps, AllTiers
  <2>2. TypeOK'
    BY <1>0, <1>5, <2>1 DEF PromoteBaseline, TypeOK
  <2> QED
    BY <1>5, <2>2, SameTables DEF PromoteBaseline, IInv
<1>6. CASE CaptureStep
  BY <1>6, CaptureSteps
<1>7. CASE JobFails
  <2>1. TypeOK'
    BY <1>0, <1>7 DEF JobFails, AbandonTmp, TypeOK
  <2> QED
    BY <1>7, <2>1, SameTables DEF JobFails, IInv
<1>8. CASE PruneStashes
  <2>1. TypeOK'
    BY <1>0, <1>8 DEF PruneStashes, TypeOK
  <2> QED
    BY <1>8, <2>1, SameTables DEF PruneStashes, IInv
<1>9. ASSUME NEW g \in Passes, GcStart(g) \/ GcStep(g) PROVE IInv'
  BY <1>9, CollectorSteps
<1>10. CASE Crash
  <2>1. [g \in Passes |-> NewPass] \in [Passes -> GcStates]
    BY DEF NewPass, GcSteps, GcStates
  <2>2. TypeOK'
    BY <1>0, <1>10, <2>1 DEF Crash, DaemonRestart, AbandonTmp, TypeOK
  <2> QED
    BY <1>10, <2>2, SameTables DEF Crash, DaemonRestart, IInv
<1>11. CASE UNCHANGED vars
  <2>1. TypeOK'
    BY <1>0, <1>11 DEF vars, TypeOK
  <2> QED
    BY <1>11, <2>1, SameTables DEF vars, IInv
<1>12. CASE Next
  <2>1. \A c \in Commands, h \in Blobs :
          /\ CapturePreImage(c, h) => IInv'
          /\ CaptureContainer(c, h) => IInv'
          /\ CaptureBaseline(h) => IInv'
    BY <1>4 DEF CapturePreImage, CaptureContainer, CaptureBaseline, AllTiers
  <2>2. \A h \in Blobs : CaptureBaseline(h) => IInv'
    BY <1>4 DEF CaptureBaseline, AllTiers
  <2> QED
    BY <1>1, <1>2, <1>3, <1>5, <1>6, <1>7, <1>8, <1>9, <1>10, <1>12, <2>1, <2>2 DEF Next
<1> QED
  BY <1>11, <1>12

(* The invariant holds in every reachable state: refcounts never exceed the  *)
(* number of referencing events, and a counted blob keeps its row, however   *)
(* captures, reaps, sweeps, failures and crashes of the daemon interleave.   *)
THEOREM StoreInvariant == Spec => []IInv
<1> QED
  BY InitIInv, NextIInv, PTL DEF Spec

(* TypeOK holds in every reachable state. *)
THEOREM StoreTypeOK == Spec => []TypeOK
BY StoreInvariant, PTL DEF IInv

(* Refcounting never leaks: no refcount exceeds the number of events that    *)
(* reference the blob.                                                       *)
THEOREM NoRefcountLeak == Spec => []RefcountNeverOver
BY StoreInvariant, PTL DEF IInv

(* A blob with a counted reference keeps its row under a stale sweep. *)
THEOREM CountedRowsStay == Spec => []CountedRowKept
BY StoreInvariant, PTL DEF IInv

(* No step removes a pinned or held command or any of its events: in         *)
(* particular not a reap of a batch marked before the pin or hold.           *)
THEOREM ProtectedCommandsStay == Spec => ProtectedKept
<1> DEFINE Kept == \A c \in commands \cap Protected :
                     c \in commands' /\ {e \in events : e.cmd = c} \subseteq events'
<1>1. ASSUME [Next]_vars PROVE [Kept]_vars
  <2> USE DEF index, disk, guard, mem
  <2>1. ASSUME NEW batch, ReapCommands(batch) PROVE Kept
    BY <2>1 DEF ReapCommands, Reapable
  <2>2. CASE UNCHANGED <<commands, events>>
    BY <2>2
  <2>3. ASSUME NEW c \in Commands, Forget(c) PROVE Kept
    BY <2>1, <2>3 DEF Forget
  <2>4. ASSUME NEW c \in Commands, PutCommand(c) PROVE Kept
    BY <2>4 DEF PutCommand
  <2>5. CASE PutEvent
    BY <2>5 DEF PutEvent
  <2>6. ASSUME NEW g \in Passes, GcReap(g) PROVE Kept
    BY <2>1, <2>6 DEF GcReap
  <2>7. ASSUME NEW c \in Commands,
               PinCommand(c) \/ CreateHold(c) \/ ReleaseHold(c)
                 \/ (\E h \in Blobs : CapturePreImage(c, h) \/ CaptureContainer(c, h)
                                       \/ PromoteBaseline(c, h))
        PROVE Kept
    BY <2>2, <2>7 DEF PinCommand, CreateHold, ReleaseHold, CapturePreImage,
                      CaptureContainer, StartPut, PromoteBaseline
  <2>8. ASSUME NEW g \in Passes,
               GcStart(g) \/ GcMark(g) \/ GcList(g) \/ (\E h \in Blobs : GcDeleteFile(g, h))
                 \/ GcDropRow(g) \/ GcFinish(g)
        PROVE Kept
    BY <2>2, <2>8 DEF GcStart, GcMark, GcList, GcDeleteFile, GcDropRow, GcFinish
  <2>9. CASE \/ (\E h \in Blobs : CaptureBaseline(h)) \/ PutExisting \/ PutExistingGone
             \/ PutRename \/ PutBlobRecord \/ CacheBaseline \/ RegisterStash
             \/ JobFails \/ PruneStashes \/ Crash
    BY <2>2, <2>9 DEF CaptureBaseline, StartPut, PutExisting, PutExistingGone, DaemonRestart,
                      PutRename, PutBlobRecord, CacheBaseline, RegisterStash, JobFails,
                      PruneStashes, Crash
  <2>10. CASE UNCHANGED vars
    BY <2>10 DEF vars
  <2> HIDE DEF Kept
  <2> QED
    BY <1>1, <2>3, <2>4, <2>5, <2>6, <2>7, <2>8, <2>9, <2>10 DEF Next, CaptureStep, GcStep
<1> QED
  BY <1>1, PTL DEF Spec, ProtectedKept
=============================================================================
