-------------------------- MODULE SaveOrderProofs --------------------------
(***************************************************************************)
(* Theorems about SaveOrder, for every value of its constants.  The        *)
(* inductive invariant is SaveInv: the types, the shape of a task's        *)
(* record, the count of unfinished writes, the queue for the turn, the     *)
(* order of the generations, and the ownership of the in_flight claim.     *)
(*                                                                         *)
(* The second half is about what is saved.  It assumes that no login gets  *)
(* past the relog barrier on a wait that an earlier login has made stale   *)
(* (NoneOvertaken); with one connection none does.  Its invariant adds the *)
(* doors (saves are of this session, and none is left when a login reads   *)
(* the row) and the versions (older generations carry older states); the   *)
(* steps are sorted by what they do to the saves (FlowStep).               *)
(***************************************************************************)
EXTENDS SaveOrder, FiniteSetTheorems, TLAPS

Queues == Seq(Jobs \cup {World})

-----------------------------------------------------------------------------
(* Types.                                                                  *)

\* What folding the completions in leaves is Boolean.
LEMMA AfterTypes ==
    ASSUME DataTypes
    PROVE  ClaimAfter \in BOOLEAN /\ MarkerAfter \in BOOLEAN /\ DeathAfter \in BOOLEAN
BY DEF ClaimAfter, MarkerAfter, DeathAfter

\* apply_completions keeps the types.
LEMMA ApplyTypes ==
    ASSUME DataTypes, ApplyCompletions
    PROVE  /\ inFlight' \in BOOLEAN /\ done' \subseteq Completions
           /\ marker' \in BOOLEAN /\ pendingDeath' \in BOOLEAN
BY AfterTypes DEF ApplyCompletions

\* A record built from parts of the right types is a task's record.
LEMMA RecTypes ==
    ASSUME NEW k \in Kinds, NEW p \in Phases, NEW s \in Snapshots, NEW t \in Nat
    PROVE  Rec(k, p, s, t) \in JobRecs
BY DEF Rec, JobRecs

\* A free task's record is well typed.
LEMMA FreeTypes == NoSnap \in Snapshots /\ FreeJob \in JobRecs
BY DEF NoSnap, Snapshots, FreeJob, JobRecs, Kinds, Phases

\* The fields of a task's record have their types.
LEMMA JobFields ==
    ASSUME DataTypes, NEW j \in Jobs
    PROVE  /\ job[j] \in JobRecs
           /\ job[j].kind \in Kinds /\ job[j].at \in Phases
           /\ job[j].snap \in Snapshots /\ job[j].tries \in Nat
           /\ job[j].snap.gen \in Nat /\ job[j].snap.ver \in Nat
           /\ job[j].snap.death \in BOOLEAN
BY DEF DataTypes, JobRecs, Snapshots

\* A snapshot taken now is well typed, and so is a waiter's.
LEMMA SnapshotTypes ==
    ASSUME DataTypes
    PROVE  /\ \A v \in Nat, m, d \in BOOLEAN : SnapshotOf(v, m, d) \in Snapshots
           /\ \A m, d \in BOOLEAN : SnapshotWith(m, d) \in Snapshots
           /\ WaiterSnap \in Snapshots
BY DEF DataTypes, SnapshotOf, SnapshotWith, WaiterSnap, Snapshots

\* Giving a task a well-typed record keeps the type of job.
LEMMA BecomesTypes ==
    ASSUME DataTypes, NEW j \in Jobs, NEW r \in JobRecs, Becomes(j, r)
    PROVE  job' \in [Jobs -> JobRecs]
BY DEF DataTypes, Becomes

\* A task that moves to another phase is well typed.
LEMMA MovedTypes ==
    ASSUME DataTypes, NEW j \in Jobs, NEW p \in Phases
    PROVE  Moved(j, p) \in JobRecs
BY JobFields, RecTypes DEF Moved

\* Joining, leaving and passing on the turn keep it a queue.
LEMMA TurnTypes ==
    ASSUME DataTypes
    PROVE  /\ \A x \in Jobs \cup {World} : Append(turn, x) \in Queues
           /\ turn # <<>> => Tail(turn) \in Queues
           /\ \A j \in Jobs : <<j>> \in Queues
           /\ \A k \in 1 .. Len(turn) : LeaveQueue(k) => turn' \in Queues
BY DEF DataTypes, Queues, LeaveQueue

\* Spawning a background save keeps the types.
LEMMA SpawnBackgroundTypes ==
    ASSUME DataTypes, NEW j \in Jobs, NEW v \in Nat, NEW m \in BOOLEAN, NEW d \in BOOLEAN,
           SpawnBackground(j, v, m, d)
    PROVE  /\ job' \in [Jobs -> JobRecs] /\ nextGen' \in Nat \ {0}
           /\ inFlight' \in BOOLEAN /\ marker' \in BOOLEAN
<1>1. Rec("background", "spawned", SnapshotOf(v, m, d), 0) \in JobRecs
  BY SnapshotTypes, RecTypes DEF Kinds, Phases
<1>2. job' \in [Jobs -> JobRecs] BY <1>1, BecomesTypes DEF SpawnBackground
<1>3. nextGen' \in Nat \ {0} BY DEF SpawnBackground, DataTypes
<1> QED BY <1>2, <1>3 DEF SpawnBackground

\* A task that ends with the turn keeps the types.
LEMMA ReleaseTypes ==
    ASSUME DataTypes, NEW j \in Jobs, turn # <<>>, Release(j)
    PROVE  turn' \in Queues /\ job' \in [Jobs -> JobRecs]
<1>1. Moved(j, "answered") \in JobRecs BY MovedTypes DEF Phases
<1>2. job' \in [Jobs -> JobRecs] BY <1>1, FreeTypes, BecomesTypes DEF Release
<1> QED BY <1>2, TurnTypes DEF Release

\* Publishing an outcome keeps the type of done.
LEMMA PublishTypes ==
    ASSUME DataTypes, NEW s \in Snapshots, NEW o \in Outcomes, NEW b \in BOOLEAN,
           Publish(s, o, b)
    PROVE  done' \subseteq Completions
BY DEF DataTypes, Publish, Completions

\* retire_player keeps the types.
LEMMA RetireTypes ==
    ASSUME DataTypes, NEW j \in Jobs, Retire(j)
    PROVE  /\ turn' \in Queues /\ job' \in [Jobs -> JobRecs]
           /\ nextGen' \in Nat \ {0} /\ inFlight' \in BOOLEAN /\ done' \subseteq Completions
           /\ body' = "none" /\ marker' \in BOOLEAN /\ pendingDeath' \in BOOLEAN
<1>1. DeathAfter \in BOOLEAN /\ ClaimAfter \in BOOLEAN BY AfterTypes
<1>2. Rec("final", "writing", SnapshotWith(FALSE, DeathAfter), 0) \in JobRecs
  BY <1>1, SnapshotTypes, RecTypes DEF Kinds, Phases
<1>3. job' \in [Jobs -> JobRecs] BY <1>2, BecomesTypes DEF Retire
<1>4. turn' \in Queues BY TurnTypes DEF Retire
<1>5. nextGen' \in Nat \ {0} BY DEF Retire, DataTypes
<1> QED BY <1>1, <1>3, <1>4, <1>5 DEF Retire

\* start_save keeps the types.
LEMMA StartSaveTypes ==
    ASSUME DataTypes, NEW j \in Jobs, NEW retries \in Nat, StartSave(j, retries)
    PROVE  /\ turn' \in Queues /\ job' \in [Jobs -> JobRecs]
           /\ nextGen' \in Nat \ {0} /\ inFlight' \in BOOLEAN /\ done' \subseteq Completions
           /\ marker' \in BOOLEAN /\ pendingDeath' \in BOOLEAN
<1>1. DeathAfter \in BOOLEAN /\ MarkerAfter \in BOOLEAN BY AfterTypes
<1>2. Rec("checkpoint", "writing", SnapshotWith(FALSE, DeathAfter), 1) \in JobRecs
  BY <1>1, SnapshotTypes, RecTypes DEF Kinds, Phases
<1>3. Rec("waiter", "spawned", WaiterSnap, retries) \in JobRecs
  BY SnapshotTypes, RecTypes DEF Kinds, Phases
<1>4. job' \in [Jobs -> JobRecs]
  BY <1>2, <1>3, FreeTypes, BecomesTypes DEF StartSave
<1>5. turn' \in Queues BY TurnTypes DEF StartSave, DataTypes, Queues
<1>6. nextGen' \in Nat \ {0}
  <2>1. nextGen' = nextGen + 1 \/ nextGen' = nextGen BY DEF StartSave
  <2> QED BY <2>1 DEF DataTypes
<1>7. /\ inFlight' \in BOOLEAN /\ done' \subseteq Completions
      /\ marker' \in BOOLEAN /\ pendingDeath' \in BOOLEAN
  <2>1. inFlight \in BOOLEAN /\ done \subseteq Completions /\ marker \in BOOLEAN /\ pendingDeath
       \in BOOLEAN
    BY DEF DataTypes
  <2> QED BY <2>1, <1>1, ApplyTypes DEF StartSave
<1> QED BY <1>4, <1>5, <1>6, <1>7

\* A commit comes from the holder, so the queue is not empty.
LEMMA CommitTypes ==
    ASSUME DataTypes, WriterHoldsTurn, NEW j \in Jobs, Commit(j)
    PROVE  /\ turn' \in Queues /\ job' \in [Jobs -> JobRecs]
           /\ done' \subseteq Completions
<1>1. turn # <<>> BY DEF Commit, WriterHoldsTurn, HasTurn
<1>2. Release(j) /\ Publish(job[j].snap, "committed", job[j].kind \in {"background", "checkpoint"})
  BY DEF Commit
<1>3. job[j].snap \in Snapshots BY JobFields
<1>4. (job[j].kind \in {"background", "checkpoint"}) \in BOOLEAN OBVIOUS
<1>5. "committed" \in Outcomes BY DEF Outcomes
<1>6. done' \subseteq Completions BY <1>2, <1>3, <1>4, <1>5, PublishTypes
<1> QED BY <1>1, <1>2, <1>6, ReleaseTypes

-----------------------------------------------------------------------------
(* The shape of a task's record.                                           *)

ShapeOf(r) ==
    /\ r.kind = "free" <=> r.at = "none"
    /\ r.at = "writing" => r.kind \in {"background", "checkpoint", "final", "retry"}
    /\ r.at = "sleeping" => r.kind = "retry"
    /\ r.at = "answered" => r.kind \in {"waiter", "checkpoint"}
    /\ r.kind = "waiter" => r.tries > 0
    /\ r.kind = "task" => r.at = "queued"
TaskShape == \A j \in Jobs : ShapeOf(job[j])

-----------------------------------------------------------------------------
(* The queue for the turn and the order of the generations.                *)

AtTurn == {"queued", "writing"}
WorldWaits == {"login", "chest", "saving"}

\* Every task in the queue knows it is there, nobody is there twice, and the
\* world thread is there only while it is stopped at an await for the turn.
QueueSound ==
    /\ \A i \in 1 .. Len(turn) : turn[i] \in Jobs => job[turn[i]].at \in AtTurn
    /\ \A i \in 1 .. Len(turn) : turn[i] = World => main \in WorldWaits
    /\ \A i, k \in 1 .. Len(turn) : turn[i] = turn[k] => i = k

\* A task that may still write was numbered by this slot.
Numbered(j) == job[j].at \in {"none", "answered"} \/ job[j].snap.gen < nextGen

GenOrder ==
    /\ dbGen <= lastCommitted /\ lastCommitted < nextGen
    /\ \A j \in Jobs : Numbered(j)

OrderInv == QueueSound /\ GenOrder /\ WriterHoldsTurn

-----------------------------------------------------------------------------
(* The counter of unfinished writes.                                       *)

CountedJobs == {j \in Jobs : Counted(j)}
CountInv == outstanding = Cardinality(CountedJobs)

SaveInv == DataTypes /\ TaskShape /\ OrderInv /\ CountInv /\ ClaimOwned

\* Every step keeps the types.  The turn is never passed on by a task that
\* does not hold it, and a waiter's retries do not go below zero.
LEMMA NextTypes ==
    ASSUME DataTypes, TaskShape, WriterHoldsTurn, [Next]_vars
    PROVE  DataTypes'
<1>1. ASSUME Play PROVE DataTypes'
  BY <1>1 DEF Play, vars, slotVars, entityVars, connVars, dbVars, historyVars, DataTypes, Queues
<1>2. ASSUME Die PROVE DataTypes'
  <2>1. clock + 1 \in Nat /\ marker \in BOOLEAN BY DEF DataTypes
  <2>2. CASE \E j \in Jobs : SpawnBackground(j, clock + 1, marker, TRUE)
    <3>1. /\ job' \in [Jobs -> JobRecs] /\ nextGen' \in Nat \ {0}
          /\ inFlight' \in BOOLEAN /\ marker' \in BOOLEAN
      BY <2>1, <2>2, SpawnBackgroundTypes
    <3>2. asked' \in Nat BY <1>2, <2>1 DEF Die, DataTypes
    <3> QED BY <1>2, <2>1, <3>1, <3>2 DEF Die, vars, slotVars, entityVars, connVars, dbVars,
       historyVars, DataTypes, Queues
  <2>3. CASE /\ marker' = TRUE /\ asked' = clock + 1
             /\ UNCHANGED <<job, nextGen, inFlight, outstanding>>
    BY <1>2, <2>1, <2>3 DEF Die, vars, slotVars, entityVars, connVars, dbVars, historyVars,
       DataTypes, Queues
  <2> QED BY <1>2, <2>2, <2>3 DEF Die
<1>3. ASSUME AskSave PROVE DataTypes'
  BY <1>3 DEF AskSave, vars, slotVars, entityVars, connVars, dbVars, historyVars, DataTypes, Queues
<1>4. ASSUME AutosaveScan PROVE DataTypes'
  BY <1>4, ApplyTypes DEF AutosaveScan, vars, slotVars, entityVars, connVars, dbVars,
       historyVars, DataTypes, Queues
<1>5. ASSUME NEW j \in Jobs, AutosaveDue(j) PROVE DataTypes'
  <2>1. MarkerAfter \in BOOLEAN /\ DeathAfter \in BOOLEAN /\ ver \in Nat
    BY <1>5, AfterTypes DEF DataTypes
  <2>2. /\ job' \in [Jobs -> JobRecs] /\ nextGen' \in Nat \ {0}
        /\ inFlight' \in BOOLEAN /\ marker' \in BOOLEAN
    BY <1>5, <2>1, SpawnBackgroundTypes DEF AutosaveDue
  <2> QED BY <1>5, <2>1, <2>2 DEF AutosaveDue, vars, slotVars, entityVars, connVars, dbVars,
       historyVars, DataTypes, Queues
<1>6. ASSUME NEW j \in Jobs, DrainPendingSave(j) PROVE DataTypes'
  <2>1. /\ job' \in [Jobs -> JobRecs] /\ nextGen' \in Nat \ {0}
        /\ inFlight' \in BOOLEAN /\ marker' \in BOOLEAN
    BY <1>6, SpawnBackgroundTypes DEF DrainPendingSave, DataTypes
  <2> QED BY <1>6, <2>1 DEF DrainPendingSave, vars, slotVars, entityVars, connVars, dbVars,
       historyVars, DataTypes, Queues
<1>7. ASSUME NEW j \in Jobs, DrainRetiring(j) PROVE DataTypes'
  BY <1>7, RetireTypes DEF DrainRetiring, vars, slotVars, entityVars, connVars, dbVars,
       historyVars, DataTypes, Queues
<1>8. ASSUME NEW j \in Jobs, DrainLinkdead(j) PROVE DataTypes'
  BY <1>8, RetireTypes DEF DrainLinkdead, vars, slotVars, entityVars, connVars, dbVars,
       historyVars, DataTypes, Queues
<1>9. ASSUME NEW j \in Jobs, SaveRetry(j) PROVE DataTypes'
  <2>1. job[j].tries - 1 \in Nat
    BY <1>9, JobFields DEF SaveRetry, Is, TaskShape, ShapeOf
  <2> QED BY <1>9, <2>1, StartSaveTypes DEF SaveRetry, vars, slotVars, entityVars, connVars,
       dbVars, historyVars, DataTypes, Queues
<1>10. ASSUME NEW j \in Jobs, SaveAnswered(j) PROVE DataTypes'
  <2>1. job' \in [Jobs -> JobRecs]
    BY <1>10, FreeTypes, BecomesTypes DEF SaveAnswered
  <2> QED BY <1>10, <2>1, ApplyTypes DEF SaveAnswered, vars, slotVars, entityVars, connVars,
       dbVars, historyVars, DataTypes, Queues
<1>11. ASSUME NEW j \in Jobs, SaveDropped(j) PROVE DataTypes'
  <2>1. job' \in [Jobs -> JobRecs]
    BY <1>11, FreeTypes, BecomesTypes DEF SaveDropped
  <2> QED BY <1>11, <2>1 DEF SaveDropped, vars, slotVars, entityVars, connVars, dbVars,
       historyVars, DataTypes, Queues
<1>12. ASSUME ChestBegin PROVE DataTypes'
  BY <1>12, TurnTypes DEF ChestBegin, vars, slotVars, entityVars, connVars, dbVars, historyVars,
       DataTypes, Queues
<1>13. ASSUME NEW j \in Jobs, SaveCommand(j) PROVE DataTypes'
  BY <1>13, StartSaveTypes, ConstantsAssumption DEF SaveCommand, vars, slotVars, entityVars,
       connVars, dbVars, historyVars, DataTypes, Queues
<1>14. ASSUME NEW j \in Jobs, SaveAbandoned(j) PROVE DataTypes'
  <2>1. Rec("checkpoint", "writing", job[j].snap, 0) \in JobRecs
    BY <1>14, JobFields, RecTypes DEF Kinds, Phases
  <2>2. job' \in [Jobs -> JobRecs]
    BY <1>14, <2>1, FreeTypes, BecomesTypes DEF SaveAbandoned
  <2>3. turn' \in Queues
    BY <1>14, TurnTypes DEF SaveAbandoned, DataTypes, Queues
  <2> QED BY <1>14, <2>2, <2>3 DEF SaveAbandoned, vars, slotVars, entityVars, connVars, dbVars,
       historyVars, DataTypes, Queues
<1>15. ASSUME NEW j \in Jobs, SpawnTask(j) PROVE DataTypes'
  <2>1. Rec("task", "queued", NoSnap, 0) \in JobRecs
    BY <1>15, FreeTypes, RecTypes DEF Kinds, Phases
  <2>2. job' \in [Jobs -> JobRecs]
    BY <1>15, <2>1, BecomesTypes DEF SpawnTask
  <2> QED BY <1>15, <2>2, TurnTypes DEF SpawnTask, vars, slotVars, entityVars, connVars, dbVars,
       historyVars, DataTypes, Queues
<1>16. ASSUME ChestDone PROVE DataTypes'
  <2>1. turn' \in Queues
    BY <1>16, TurnTypes DEF ChestDone, HasTurn
  <2> QED BY <1>16, <2>1, ApplyTypes DEF ChestDone, Supersede, vars, slotVars, entityVars,
       connVars, dbVars, historyVars, DataTypes, Queues
<1>17. ASSUME LoginLoads PROVE DataTypes'
  <2>1. turn' \in Queues
    BY <1>17, TurnTypes DEF LoginLoads, HasTurn
  <2>2. conn' \in [Conns -> {"out", "select", "waiting", "settled", "expired", "playing"}]
    BY <1>17 DEF LoginLoads, DataTypes
  <2>3. session' \in Nat
    BY <1>17 DEF LoginLoads, DataTypes
  <2> QED BY <1>17, <2>1, <2>2, <2>3 DEF LoginLoads, vars, slotVars, entityVars, connVars,
       dbVars, historyVars, DataTypes, Queues
<1>18. ASSUME LoginRefused PROVE DataTypes'
  <2>1. turn' \in Queues
    BY <1>18, TurnTypes DEF LoginRefused, HasTurn
  <2> QED BY <1>18, <2>1 DEF LoginRefused, vars, slotVars, entityVars, connVars, dbVars,
       historyVars, DataTypes, Queues
<1>19. ASSUME ShutdownSave PROVE DataTypes'
  <2>1. DeathAfter \in BOOLEAN /\ ClaimAfter \in BOOLEAN /\ MarkerAfter \in BOOLEAN
    BY <1>19, AfterTypes
  <2>2. SnapshotWith(FALSE, DeathAfter) \in Snapshots
    BY <1>19, <2>1, SnapshotTypes
  <2>3. Rec("retry", "spawned", SnapshotWith(FALSE, DeathAfter), 0) \in JobRecs
    BY <1>19, <2>2, RecTypes DEF Kinds, Phases
  <2>4. job' \in [Jobs -> JobRecs]
    BY <1>19, <2>3, BecomesTypes DEF ShutdownSave, DataTypes
  <2>5. turn' \in Queues
    BY <1>19, TurnTypes DEF ShutdownSave, HasTurn
  <2>6. /\ dbVer' \in Nat /\ dbGen' \in Nat /\ dbCorpses' \in Nat /\ lastCommitted' \in Nat
    BY <1>19, <2>2 DEF ShutdownSave, Store, SnapshotWith, SnapshotOf, DataTypes, dbVars
  <2>7. pendingDeath' \in BOOLEAN
    BY <1>19, <2>1 DEF ShutdownSave
  <2> QED BY <1>19, <2>1, <2>4, <2>5, <2>6, <2>7 DEF ShutdownSave, vars, slotVars, entityVars,
       connVars, dbVars, historyVars, DataTypes, Queues
<1>20. ASSUME FlushDone PROVE DataTypes'
  BY <1>20, ApplyTypes DEF FlushDone, vars, slotVars, entityVars, connVars, dbVars, historyVars,
       DataTypes, Queues
<1>21. ASSUME FlushTimeout PROVE DataTypes'
  BY <1>21 DEF FlushTimeout, vars, slotVars, entityVars, connVars, dbVars, historyVars,
       DataTypes, Queues
<1>22. ASSUME Shutdown PROVE DataTypes'
  BY <1>22, TurnTypes DEF Shutdown, vars, slotVars, entityVars, connVars, dbVars, historyVars,
       DataTypes, Queues
<1>23. ASSUME Restart PROVE DataTypes'
  <2>1. job' \in [Jobs -> JobRecs]
    BY <1>23, FreeTypes DEF Restart
  <2>2. conn' \in [Conns -> {"out", "select", "waiting", "settled", "expired", "playing"}]
    BY <1>23 DEF Restart
  <2>3. ver' \in Nat
    BY <1>23 DEF Restart, DataTypes
  <2>4. turn' \in Queues
    BY <1>23 DEF Restart, Queues
  <2>5. nextGen' \in Nat \ {0} /\ done' \subseteq Completions
    BY <1>23 DEF Restart
  <2> QED BY <1>23, <2>1, <2>2, <2>3, <2>4, <2>5 DEF Restart, vars, slotVars, entityVars,
       connVars, dbVars, historyVars, DataTypes, Queues
<1>24. ASSUME NEW j \in Jobs, JoinTurn(j) PROVE DataTypes'
  <2>1. Moved(j, "queued") \in JobRecs
    BY <1>24, MovedTypes DEF Phases
  <2>2. job' \in [Jobs -> JobRecs]
    BY <1>24, <2>1, BecomesTypes DEF JoinTurn
  <2> QED BY <1>24, <2>2, TurnTypes DEF JoinTurn, vars, slotVars, entityVars, connVars, dbVars,
       historyVars, DataTypes, Queues
<1>25. ASSUME NEW j \in Jobs, BackgroundStale(j) PROVE DataTypes'
  <2>1. turn' \in Queues /\ job' \in [Jobs -> JobRecs]
    BY <1>25, ReleaseTypes DEF BackgroundStale, HasTurn
  <2>2. done' \subseteq Completions
    BY <1>25, JobFields, PublishTypes DEF BackgroundStale, Outcomes
  <2> QED BY <1>25, <2>1, <2>2 DEF BackgroundStale, vars, slotVars, entityVars, connVars,
       dbVars, historyVars, DataTypes, Queues
<1>26. ASSUME NEW j \in Jobs, StartWrite(j) PROVE DataTypes'
  <2>1. Moved(j, "writing") \in JobRecs
    BY <1>26, MovedTypes DEF Phases
  <2>2. job' \in [Jobs -> JobRecs]
    BY <1>26, <2>1, BecomesTypes DEF StartWrite
  <2> QED BY <1>26, <2>2 DEF StartWrite, vars, slotVars, entityVars, connVars, dbVars,
       historyVars, DataTypes, Queues
<1>27. ASSUME NEW j \in Jobs, Commit(j) PROVE DataTypes'
  <2>1. dbVer' \in Nat /\ dbGen' \in Nat /\ dbCorpses' \in Nat
    BY <1>27, JobFields DEF Commit, Store, DataTypes
  <2> QED BY <1>27, <2>1, JobFields, CommitTypes DEF Commit, vars, slotVars, entityVars,
       connVars, dbVars, historyVars, DataTypes, Queues
<1>28. ASSUME NEW j \in Jobs, WriteFails(j) PROVE DataTypes'
  <2>1. turn # <<>>
    BY <1>28 DEF WriteFails, WriterHoldsTurn, HasTurn
  <2>2. turn' \in Queues /\ job' \in [Jobs -> JobRecs]
    BY <1>28, <2>1, ReleaseTypes DEF WriteFails
  <2>3. done' \subseteq Completions
    BY <1>28, JobFields, PublishTypes DEF WriteFails, Outcomes
  <2> QED BY <1>28, <2>2, <2>3 DEF WriteFails, vars, slotVars, entityVars, connVars, dbVars,
       historyVars, DataTypes, Queues
<1>29. ASSUME NEW j \in Jobs, FinalFails(j) PROVE DataTypes'
  <2>1. turn # <<>>
    BY <1>29 DEF FinalFails, Is, WriterHoldsTurn, HasTurn
  <2>2. Rec("retry", "spawned", job[j].snap, 0) \in JobRecs
    BY <1>29, JobFields, RecTypes DEF Kinds, Phases
  <2>3. job' \in [Jobs -> JobRecs]
    BY <1>29, <2>2, BecomesTypes DEF FinalFails
  <2> QED BY <1>29, <2>1, <2>3, TurnTypes DEF FinalFails, vars, slotVars, entityVars, connVars,
       dbVars, historyVars, DataTypes, Queues
<1>30. ASSUME NEW j \in Jobs, RetryFails(j) PROVE DataTypes'
  <2>1. turn # <<>>
    BY <1>30 DEF RetryFails, Is, WriterHoldsTurn, HasTurn
  <2>2. Rec("retry", "sleeping", job[j].snap, job[j].tries + 1) \in JobRecs
    BY <1>30, JobFields, RecTypes DEF Kinds, Phases
  <2>3. turn' \in Queues /\ job' \in [Jobs -> JobRecs]
    BY <1>30, <2>1, <2>2, BecomesTypes, TurnTypes, ReleaseTypes DEF RetryFails
  <2> QED BY <1>30, <2>3 DEF RetryFails, vars, slotVars, entityVars, connVars, dbVars,
       historyVars, DataTypes, Queues
<1>31. ASSUME NEW j \in Jobs, RetryWake(j) PROVE DataTypes'
  <2>1. Moved(j, "spawned") \in JobRecs
    BY <1>31, MovedTypes DEF Phases
  <2>2. job' \in [Jobs -> JobRecs]
    BY <1>31, <2>1, BecomesTypes DEF RetryWake
  <2> QED BY <1>31, <2>2 DEF RetryWake, vars, slotVars, entityVars, connVars, dbVars,
       historyVars, DataTypes, Queues
<1>32. ASSUME NEW j \in Jobs, RetrySuperseded(j) PROVE DataTypes'
  <2>1. turn' \in Queues /\ job' \in [Jobs -> JobRecs]
    BY <1>32, ReleaseTypes DEF RetrySuperseded, HasTurn
  <2> QED BY <1>32, <2>1 DEF RetrySuperseded, vars, slotVars, entityVars, connVars, dbVars,
       historyVars, DataTypes, Queues
<1>33. ASSUME NEW j \in Jobs, WaiterTurn(j) PROVE DataTypes'
  <2>1. Moved(j, "answered") \in JobRecs
    BY <1>33, MovedTypes DEF Phases
  <2>2. job' \in [Jobs -> JobRecs]
    BY <1>33, <2>1, BecomesTypes DEF WaiterTurn
  <2> QED BY <1>33, <2>2, TurnTypes DEF WaiterTurn, HasTurn, vars, slotVars, entityVars,
       connVars, dbVars, historyVars, DataTypes, Queues
<1>34. ASSUME NEW j \in Jobs, TaskRun(j) PROVE DataTypes'
  <2>1. turn' \in Queues /\ job' \in [Jobs -> JobRecs]
    BY <1>34, ReleaseTypes DEF TaskRun, HasTurn
  <2> QED BY <1>34, <2>1 DEF TaskRun, Supersede, vars, slotVars, entityVars, connVars, dbVars,
       historyVars, DataTypes, Queues
<1>35. ASSUME NEW c \in Conns, Connect(c) PROVE DataTypes'
  BY <1>35 DEF Connect, vars, slotVars, entityVars, connVars, dbVars, historyVars, DataTypes, Queues
<1>36. ASSUME NEW c \in Conns, CompleteLogin(c) PROVE DataTypes'
  <2>1. /\ main' \in {"idle", "login"} /\ turn' \in Queues
        /\ body' \in {"none", "playing", "linkdead", "retiring"} /\ caller' \in Conns
        /\ conn' \in [Conns -> {"out", "select", "waiting", "settled", "expired", "playing"}]
    BY <1>36, TurnTypes DEF CompleteLogin, Takeover, BeginLoad, Idle, DataTypes, Queues
  <2> QED BY <1>36, <2>1 DEF CompleteLogin, vars, slotVars, entityVars, connVars, dbVars,
       historyVars, DataTypes, Queues
<1>37. ASSUME NEW c \in Conns, FinishSaveWait(c) PROVE DataTypes'
  <2>1. /\ main' \in {"idle", "login"} /\ turn' \in Queues
        /\ body' \in {"none", "playing", "linkdead", "retiring"} /\ caller' \in Conns
        /\ conn' \in [Conns -> {"out", "select", "waiting", "settled", "expired", "playing"}]
    BY <1>37, TurnTypes DEF FinishSaveWait, Takeover, BeginLoad, Idle, DataTypes, Queues
  <2> QED BY <1>37, <2>1 DEF FinishSaveWait, vars, slotVars, entityVars, connVars, dbVars,
       historyVars, DataTypes, Queues
<1>38. ASSUME NEW c \in Conns, HangUp(c) PROVE DataTypes'
  BY <1>38 DEF HangUp, vars, slotVars, entityVars, connVars, dbVars, historyVars, DataTypes, Queues
<1>39. ASSUME NEW c \in Conns, DisconnectBusy(c) PROVE DataTypes'
  BY <1>39 DEF DisconnectBusy, vars, slotVars, entityVars, connVars, dbVars, historyVars,
       DataTypes, Queues
<1>40. ASSUME NEW c \in Conns, DisconnectLinkdead(c) PROVE DataTypes'
  BY <1>40 DEF DisconnectLinkdead, vars, slotVars, entityVars, connVars, dbVars, historyVars,
       DataTypes, Queues
<1>41. ASSUME NEW c \in Conns, NEW j \in Jobs, DisconnectRetire(c, j) PROVE DataTypes'
  BY <1>41, RetireTypes DEF DisconnectRetire, vars, slotVars, entityVars, connVars, dbVars,
       historyVars, DataTypes, Queues
<1>42. ASSUME NEW c \in Conns, WaitEnds(c) PROVE DataTypes'
  BY <1>42 DEF WaitEnds, vars, slotVars, entityVars, connVars, dbVars, historyVars, DataTypes,
       Queues
<1>43. CASE UNCHANGED vars
  BY <1>43 DEF vars, slotVars, entityVars, connVars, dbVars, historyVars, DataTypes, Queues
<1> QED BY <1>1, <1>2, <1>3, <1>4, <1>5, <1>6, <1>7, <1>8, <1>9, <1>10, <1>11, <1>12, <1>13,
     <1>14, <1>15, <1>16, <1>17, <1>18, <1>19, <1>20, <1>21, <1>22, <1>23, <1>24, <1>25, <1>26,
     <1>27, <1>28, <1>29, <1>30, <1>31, <1>32, <1>33, <1>34, <1>35, <1>36, <1>37, <1>38, <1>39,
     <1>40, <1>41, <1>42, <1>43 DEF Next, Entity, Tick, Command, MainResumes, Task, Session

\* Becomes changes one task and no other.
LEMMA BecomesFields ==
    ASSUME DataTypes, NEW j \in Jobs, NEW r, Becomes(j, r)
    PROVE  job'[j] = r /\ \A k \in Jobs \ {j} : job'[k] = job[k]
BY DEF DataTypes, Becomes

\* Giving a task a well-shaped record keeps the shape.
LEMMA ShapeBecomes ==
    ASSUME DataTypes, TaskShape, NEW j \in Jobs, NEW r, Becomes(j, r), ShapeOf(r)
    PROVE  TaskShape'
BY BecomesFields DEF TaskShape

\* A task that ends is free or leaves an answer.
LEMMA ShapeRelease ==
    ASSUME DataTypes, TaskShape, NEW j \in Jobs, Release(j)
    PROVE  TaskShape'
<1>1. ShapeOf(FreeJob) BY DEF ShapeOf, FreeJob
<1>2. job[j].kind = "checkpoint" => ShapeOf(Moved(j, "answered")) BY DEF ShapeOf, Moved, Rec
<1> QED BY <1>1, <1>2, ShapeBecomes DEF Release

\* start_save leaves a write or a waiter with retries left.
LEMMA ShapeStartSave ==
    ASSUME DataTypes, TaskShape, NEW j \in Jobs, NEW retries \in Nat, StartSave(j, retries)
    PROVE  TaskShape'
<1>1. ShapeOf(FreeJob) BY DEF ShapeOf, FreeJob
<1>2. retries > 0 => ShapeOf(Rec("waiter", "spawned", WaiterSnap, retries))
  BY DEF ShapeOf, Rec
<1>3. ShapeOf(Rec("checkpoint", "writing", SnapshotWith(FALSE, DeathAfter), 1))
  BY DEF ShapeOf, Rec
<1> QED BY <1>1, <1>2, <1>3, ShapeBecomes DEF StartSave

\* The records new tasks start with are well shaped.
LEMMA ShapeFresh ==
    ASSUME NEW s
    PROVE  /\ ShapeOf(Rec("background", "spawned", s, 0)) /\ ShapeOf(Rec("final", "writing", s, 0))
           /\ ShapeOf(Rec("retry", "spawned", s, 0)) /\ ShapeOf(Rec("task", "queued", s, 0))
           /\ ShapeOf(FreeJob)
BY DEF ShapeOf, Rec, FreeJob

\* Initially every task is free.
LEMMA InitShape == Init => TaskShape
BY DEF Init, TaskShape, ShapeOf, FreeJob

\* The actions that touch no task's record.
LeavesTasks ==
    \/ Play \/ AskSave \/ AutosaveScan \/ ChestBegin \/ ChestDone
    \/ LoginLoads \/ LoginRefused \/ FlushDone \/ FlushTimeout \/ Shutdown
    \/ \E c \in Conns : \/ Connect(c) \/ CompleteLogin(c) \/ FinishSaveWait(c) \/ HangUp(c)
                        \/ DisconnectBusy(c) \/ DisconnectLinkdead(c) \/ WaitEnds(c)
    \/ UNCHANGED vars

\* Those actions leave job alone.
LEMMA LeavesTasksJob == ASSUME LeavesTasks PROVE job' = job
BY DEF LeavesTasks, Play, AskSave, AutosaveScan, ChestBegin, ChestDone, LoginLoads,
       LoginRefused, FlushDone, FlushTimeout, Shutdown, Connect, CompleteLogin, FinishSaveWait,
       HangUp, DisconnectBusy, DisconnectLinkdead, WaitEnds, vars

\* Every step keeps the shape of the tasks' records.
LEMMA NextShape ==
    ASSUME DataTypes, TaskShape, [Next]_vars
    PROVE  TaskShape'
<1>1. ASSUME LeavesTasks PROVE TaskShape'
  BY <1>1, LeavesTasksJob DEF TaskShape
<1>2. ASSUME NEW j \in Jobs, AutosaveDue(j) \/ DrainPendingSave(j) PROVE TaskShape'
  BY <1>2, ShapeFresh, ShapeBecomes DEF AutosaveDue, DrainPendingSave, SpawnBackground
<1>die. ASSUME Die PROVE TaskShape'
  <2>1. CASE \E j \in Jobs : SpawnBackground(j, clock + 1, marker, TRUE)
    BY <2>1, ShapeFresh, ShapeBecomes DEF SpawnBackground
  <2>2. CASE UNCHANGED job
    BY <2>2 DEF TaskShape
  <2> QED BY <1>die, <2>1, <2>2 DEF Die
<1>3. ASSUME NEW j \in Jobs, Retire(j) PROVE TaskShape'
  BY <1>3, ShapeFresh, ShapeBecomes DEF Retire
<1>4. ASSUME NEW j \in Jobs, SaveCommand(j) PROVE TaskShape'
  BY <1>4, ShapeStartSave, ConstantsAssumption DEF SaveCommand
<1>5. ASSUME NEW j \in Jobs, SaveRetry(j) PROVE TaskShape'
  <2>1. job[j].tries - 1 \in Nat
    BY <1>5, JobFields DEF SaveRetry, Is, TaskShape, ShapeOf
  <2> QED BY <1>5, <2>1, ShapeStartSave DEF SaveRetry
<1>6. ASSUME NEW j \in Jobs, SaveAnswered(j) \/ SaveDropped(j) PROVE TaskShape'
  BY <1>6, ShapeFresh, ShapeBecomes DEF SaveAnswered, SaveDropped
<1>7. ASSUME NEW j \in Jobs, SaveAbandoned(j) PROVE TaskShape'
  <2>1. ShapeOf(Rec("checkpoint", "writing", job[j].snap, 0)) BY DEF ShapeOf, Rec
  <2> QED BY <1>7, <2>1, ShapeFresh, ShapeBecomes DEF SaveAbandoned
<1>8. ASSUME NEW j \in Jobs, SpawnTask(j) PROVE TaskShape'
  BY <1>8, ShapeFresh, ShapeBecomes DEF SpawnTask
<1>9. ASSUME ShutdownSave PROVE TaskShape'
  <2>1. CASE UNCHANGED job BY <2>1 DEF TaskShape
  <2>2. CASE \E j \in Jobs : Becomes(j, Rec("retry", "spawned", SnapshotWith(FALSE, DeathAfter), 0))
    BY <2>2, ShapeFresh, ShapeBecomes
  <2> QED BY <1>9, <2>1, <2>2 DEF ShutdownSave
<1>10. ASSUME Restart PROVE TaskShape'
  BY <1>10, ShapeFresh DEF Restart, TaskShape
<1>11. ASSUME NEW j \in Jobs, JoinTurn(j) PROVE TaskShape'
  <2>1. ShapeOf(job[j]) BY DEF TaskShape
  <2>2. ShapeOf(Moved(j, "queued")) BY <1>11, <2>1 DEF JoinTurn, ShapeOf, Moved, Rec
  <2> QED BY <1>11, <2>2, ShapeBecomes DEF JoinTurn
<1>12. ASSUME NEW j \in Jobs, StartWrite(j) PROVE TaskShape'
  <2>1. ShapeOf(Moved(j, "writing")) BY <1>12 DEF StartWrite, ShapeOf, Moved, Rec
  <2> QED BY <1>12, <2>1, ShapeBecomes DEF StartWrite
<1>13. ASSUME NEW j \in Jobs, Release(j) PROVE TaskShape'
  BY <1>13, ShapeRelease
<1>14. ASSUME NEW j \in Jobs, FinalFails(j) PROVE TaskShape'
  BY <1>14, ShapeFresh, ShapeBecomes DEF FinalFails
<1>15. ASSUME NEW j \in Jobs, RetryFails(j) PROVE TaskShape'
  <2>1. ShapeOf(Rec("retry", "sleeping", job[j].snap, job[j].tries + 1)) BY DEF ShapeOf, Rec
  <2> QED BY <1>15, <2>1, ShapeBecomes, ShapeRelease DEF RetryFails
<1>16. ASSUME NEW j \in Jobs, RetryWake(j) PROVE TaskShape'
  <2>1. ShapeOf(Moved(j, "spawned")) BY <1>16 DEF RetryWake, Is, ShapeOf, Moved, Rec
  <2> QED BY <1>16, <2>1, ShapeBecomes DEF RetryWake
<1>17. ASSUME NEW j \in Jobs, WaiterTurn(j) PROVE TaskShape'
  <2>1. ShapeOf(job[j]) BY DEF TaskShape
  <2>2. ShapeOf(Moved(j, "answered")) BY <1>17, <2>1 DEF WaiterTurn, Is, ShapeOf, Moved, Rec
  <2> QED BY <1>17, <2>2, ShapeBecomes DEF WaiterTurn
<1>18. \A j \in Jobs : BackgroundStale(j) \/ Commit(j) \/ WriteFails(j) \/ RetrySuperseded(j)
                        \/ TaskRun(j) => Release(j)
  BY DEF BackgroundStale, Commit, WriteFails, RetrySuperseded, TaskRun
<1>19. \A j \in Jobs : DrainRetiring(j) \/ DrainLinkdead(j)
                        \/ (\E c \in Conns : DisconnectRetire(c, j)) => Retire(j)
  BY DEF DrainRetiring, DrainLinkdead, DisconnectRetire
<1> QED BY <1>die, <1>1, <1>2, <1>3, <1>4, <1>5, <1>6, <1>7, <1>8, <1>9, <1>10, <1>11, <1>12,
           <1>13,
           <1>14, <1>15, <1>16, <1>17, <1>18, <1>19
        DEF Next, Entity, Tick, Command, MainResumes, Task, Session, LeavesTasks

-----------------------------------------------------------------------------
(* What a step can do to the queue and to the generations.                 *)

Stays(j) == job'[j].at = job[j].at /\ job'[j].snap = job[j].snap
\* j is not at the turn before or after, and what it may still write is numbered.
StaysAway(j) == job[j].at \notin AtTurn /\ job'[j].at \notin AtTurn /\ Numbered(j)'
GensKept == UNCHANGED <<lastCommitted, dbGen>> /\ nextGen' \in {nextGen, nextGen + 1}
MainKept == main \in WorldWaits => main' = main

\* Nobody comes to the turn or leaves it.
Aside ==
    /\ turn' = turn /\ GensKept /\ MainKept
    /\ \A j \in Jobs : Stays(j) \/ StaysAway(j)

\* x asks for the turn.
Asks(x) ==
    /\ turn' = Append(turn, x) /\ GensKept
    /\ IF x = World
       THEN main \notin WorldWaits /\ main' \in WorldWaits
       ELSE MainKept /\ job[x].at \notin AtTurn /\ job'[x].at = "queued" /\ Numbered(x)'
    /\ \A j \in Jobs : j = x \/ Stays(j)

\* j takes the free turn with a snapshot numbered now.
Takes(j) ==
    /\ turn = <<>> /\ turn' = <<j>> /\ MainKept
    /\ job'[j].at = "writing" /\ job'[j].snap.gen = nextGen
    /\ nextGen' = nextGen + 1 /\ UNCHANGED <<lastCommitted, dbGen>>
    /\ \A k \in Jobs : k = j \/ Stays(k)

\* j, whose turn it is, starts to write something new.
Begins(j) ==
    /\ HasTurn(j) /\ job[j].snap.gen > lastCommitted
    /\ job'[j].at = "writing" /\ job'[j].snap = job[j].snap /\ job[j].at = "queued"
    /\ \A k \in Jobs : k = j \/ Stays(k)
    /\ UNCHANGED <<turn, lastCommitted, nextGen, dbGen>> /\ MainKept

\* x passes the turn on, perhaps having written.
Passes(x) ==
    /\ HasTurn(x) /\ turn' = Tail(turn)
    /\ x # World => job'[x].at \notin AtTurn /\ Numbered(x)' /\ MainKept
    /\ \A j \in Jobs : j = x \/ Stays(j) \/ StaysAway(j)
    /\ nextGen' \in {nextGen, nextGen + 1}
    /\ dbGen' = dbGen \/ dbGen' = lastCommitted'
    /\ lastCommitted' >= lastCommitted /\ lastCommitted' < nextGen'

\* A queued task leaves the queue.
Quits(j) ==
    /\ \E k \in 1 .. Len(turn) : turn[k] = j /\ LeaveQueue(k)
    /\ job[j].at = "queued" /\ job'[j].at = "none"
    /\ \A k \in Jobs : k = j \/ Stays(k)
    /\ GensKept /\ MainKept

\* The slot starts over, with nothing left to write.
StartsOver ==
    /\ turn' = <<>> /\ nextGen' = 1 /\ lastCommitted' = 0 /\ dbGen' = 0
    /\ \A j \in Jobs : job'[j].at \in {"none", "answered"}

OrderStep ==
    \/ Aside \/ StartsOver \/ \E x \in Jobs \cup {World} : Asks(x) \/ Passes(x)
    \/ \E j \in Jobs : Takes(j) \/ Begins(j) \/ Quits(j)

\* The turn is a queue.
LEMMA TurnSeq == DataTypes => turn \in Seq(Jobs \cup {World}) BY DEF DataTypes

\* Generations are natural numbers.
LEMMA GenNats ==
    ASSUME DataTypes
    PROVE  nextGen \in Nat /\ lastCommitted \in Nat /\ dbGen \in Nat
BY DEF DataTypes

\* A task that stays as it is stays numbered.
LEMMA NumberedStays ==
    ASSUME DataTypes, DataTypes', NEW j \in Jobs, Numbered(j), Stays(j), nextGen' >= nextGen
    PROVE  Numbered(j)'
<1>1. nextGen \in Nat /\ nextGen' \in Nat BY GenNats DEF DataTypes
<1>2. job[j].snap.gen \in Nat BY JobFields
<1>3. job'[j].snap.gen = job[j].snap.gen /\ job'[j].at = job[j].at BY DEF Stays
<1> QED BY <1>1, <1>2, <1>3 DEF Numbered

\* Initially nobody is at the turn.
LEMMA InitOrder == Init => OrderInv
BY DEF Init, OrderInv, QueueSound, GenOrder, WriterHoldsTurn, Numbered, FreeJob

\* A step beside the turn keeps the order.
LEMMA OrderAside ==
    ASSUME DataTypes, DataTypes', OrderInv, Aside PROVE OrderInv'
<1>1. QueueSound' BY DEF DataTypes, OrderInv, QueueSound, Aside, Stays, StaysAway, MainKept, AtTurn
<1>2. GenOrder'
  <2>1. nextGen' >= nextGen BY DEF Aside, GensKept, DataTypes
  <2>2. \A j \in Jobs : Numbered(j) BY DEF OrderInv, GenOrder
  <2>3. ASSUME NEW j \in Jobs PROVE Numbered(j)'
    BY <2>1, <2>2, NumberedStays DEF Aside, StaysAway
  <2> QED BY <2>1, <2>3 DEF Aside, GensKept, OrderInv, GenOrder, DataTypes
<1>3. WriterHoldsTurn'
  BY DEF OrderInv, WriterHoldsTurn, HasTurn, Aside, Stays, StaysAway, GensKept, AtTurn
<1> QED BY <1>1, <1>2, <1>3 DEF OrderInv

\* Joining the queue keeps the order.
LEMMA OrderAsks ==
    ASSUME DataTypes, DataTypes', OrderInv, NEW x \in Jobs \cup {World}, Asks(x)
    PROVE  OrderInv'
<1> USE ConstantsAssumption
<1>1. QueueSound'
  <2>1. /\ Len(turn') = Len(turn) + 1 /\ turn'[Len(turn) + 1] = x
        /\ \A i \in 1 .. Len(turn) : turn'[i] = turn[i]
    BY TurnSeq DEF Asks
  <2>2. \A i \in 1 .. Len(turn) : turn[i] # x
    BY DEF Asks, OrderInv, QueueSound
  <2>3. Len(turn) \in Nat BY TurnSeq
  <2>4. ASSUME NEW i \in 1 .. Len(turn') PROVE turn'[i] \in Jobs => job'[turn'[i]].at \in AtTurn
    BY <2>1, <2>2, <2>3 DEF Asks, Stays, OrderInv, QueueSound, AtTurn
  <2>5. ASSUME NEW i \in 1 .. Len(turn') PROVE turn'[i] = World => main' \in WorldWaits
    BY <2>1, <2>2, <2>3 DEF Asks, MainKept, OrderInv, QueueSound
  <2>6. \A i, k \in 1 .. Len(turn') : turn'[i] = turn'[k] => i = k
    BY <2>1, <2>2, <2>3 DEF OrderInv, QueueSound
  <2> QED BY <2>4, <2>5, <2>6 DEF QueueSound
<1>2. GenOrder'
  <2>1. nextGen' >= nextGen BY DEF Asks, GensKept, DataTypes
  <2>2. \A j \in Jobs : Numbered(j) BY DEF OrderInv, GenOrder
  <2>3. ASSUME NEW j \in Jobs PROVE Numbered(j)'
    BY <2>1, <2>2, NumberedStays DEF Asks
  <2> QED BY <2>1, <2>3 DEF Asks, GensKept, OrderInv, GenOrder, DataTypes
<1>3. WriterHoldsTurn'
  <2>1. turn # <<>> => turn' # <<>> /\ Head(turn') = Head(turn) BY TurnSeq DEF Asks
  <2> QED BY <2>1 DEF OrderInv, WriterHoldsTurn, HasTurn, Asks, Stays, GensKept
<1> QED BY <1>1, <1>2, <1>3 DEF OrderInv

\* Taking the free turn keeps the order.
LEMMA OrderTakes ==
    ASSUME DataTypes, DataTypes', OrderInv, NEW j \in Jobs, Takes(j)
    PROVE  OrderInv'
<1> USE ConstantsAssumption
<1>1. QueueSound' BY DEF Takes, QueueSound, AtTurn
<1>2. GenOrder'
  <2>1. \A k \in Jobs : Numbered(k) BY DEF OrderInv, GenOrder
  <2>2. ASSUME NEW k \in Jobs PROVE Numbered(k)'
    <3>1. nextGen' >= nextGen /\ nextGen < nextGen' BY GenNats DEF Takes
    <3>2. CASE k = j BY <3>1, <3>2 DEF Takes, Numbered
    <3>3. CASE k # j BY <2>1, <3>1, <3>3, NumberedStays DEF Takes
    <3> QED BY <3>2, <3>3
  <2> QED BY <2>2 DEF Takes, OrderInv, GenOrder, DataTypes
<1>3. WriterHoldsTurn'
  <2>1. \A k \in Jobs : job[k].at # "writing" BY DEF Takes, OrderInv, WriterHoldsTurn, HasTurn
  <2>2. turn' # <<>> /\ Head(turn') = j BY DEF Takes
  <2> QED BY <2>1, <2>2 DEF OrderInv, GenOrder, WriterHoldsTurn, HasTurn, Takes, Stays, DataTypes
<1> QED BY <1>1, <1>2, <1>3 DEF OrderInv

\* Starting to write keeps the order.
LEMMA OrderBegins ==
    ASSUME DataTypes, DataTypes', OrderInv, NEW j \in Jobs, Begins(j)
    PROVE  OrderInv'
<1>1. QueueSound' BY DEF Begins, MainKept, OrderInv, QueueSound, AtTurn, Stays
<1>2. GenOrder' BY DEF Begins, OrderInv, GenOrder, Numbered, Stays
<1>3. WriterHoldsTurn' BY DEF Begins, OrderInv, WriterHoldsTurn, HasTurn, Stays
<1> QED BY <1>1, <1>2, <1>3 DEF OrderInv

\* Passing the turn on keeps the order.
LEMMA OrderPasses ==
    ASSUME DataTypes, DataTypes', OrderInv, NEW x \in Jobs \cup {World}, Passes(x)
    PROVE  OrderInv'
<1> USE ConstantsAssumption
<1>1. /\ turn[1] = x /\ Len(turn) \in Nat \ {0} /\ Len(turn') = Len(turn) - 1
      /\ \A i \in 1 .. Len(turn') : turn'[i] = turn[i + 1]
  BY TurnSeq DEF Passes, HasTurn
<1>2. \A i \in 1 .. Len(turn') : turn'[i] # x
  BY <1>1 DEF OrderInv, QueueSound
<1>3. QueueSound'
  <2>1. ASSUME NEW i \in 1 .. Len(turn') PROVE turn'[i] \in Jobs => job'[turn'[i]].at \in AtTurn
    <3>1. i + 1 \in 1 .. Len(turn) /\ turn'[i] = turn[i + 1] /\ turn[i + 1] # x BY <1>1, <1>2
    <3> QED BY <3>1 DEF Passes, Stays, StaysAway, OrderInv, QueueSound
  <2>2. ASSUME NEW i \in 1 .. Len(turn') PROVE turn'[i] = World => main' \in WorldWaits
    <3>1. i + 1 \in 1 .. Len(turn) /\ turn'[i] = turn[i + 1] /\ turn[i + 1] # x BY <1>1, <1>2
    <3> QED BY <3>1 DEF Passes, MainKept, OrderInv, QueueSound
  <2>3. ASSUME NEW i \in 1 .. Len(turn'), NEW k \in 1 .. Len(turn'), turn'[i] = turn'[k] PROVE i = k
    <3>1. i + 1 \in 1 .. Len(turn) /\ k + 1 \in 1 .. Len(turn) BY <1>1
    <3>2. turn[i + 1] = turn[k + 1] BY <1>1, <2>3
    <3>3. i + 1 = k + 1 BY <3>1, <3>2 DEF OrderInv, QueueSound
    <3> QED BY <3>3
  <2> QED BY <2>1, <2>2, <2>3 DEF QueueSound
<1>4. GenOrder'
  <2>1. nextGen' >= nextGen BY DEF Passes, DataTypes
  <2>2. \A j \in Jobs : Numbered(j) BY DEF OrderInv, GenOrder
  <2>3. ASSUME NEW j \in Jobs PROVE Numbered(j)'
    BY <2>1, <2>2, NumberedStays DEF Passes, StaysAway
  <2> QED BY <2>1, <2>3 DEF Passes, OrderInv, GenOrder, DataTypes
<1>5. WriterHoldsTurn'
  BY DEF OrderInv, WriterHoldsTurn, HasTurn, Passes, Stays, StaysAway, AtTurn
<1> QED BY <1>3, <1>4, <1>5 DEF OrderInv

\* Leaving the queue keeps the order.
LEMMA OrderQuits ==
    ASSUME DataTypes, DataTypes', OrderInv, NEW j \in Jobs, Quits(j)
    PROVE  OrderInv'
<1>1. PICK n \in 1 .. Len(turn) : turn[n] = j /\ LeaveQueue(n) BY DEF Quits
<1>2. /\ Len(turn) \in Nat \ {0} /\ Len(turn') = Len(turn) - 1
      /\ \A i \in 1 .. Len(turn') : turn'[i] = IF i < n THEN turn[i] ELSE turn[i + 1]
  BY <1>1, TurnSeq DEF LeaveQueue
<1> DEFINE old(i) == IF i < n THEN i ELSE i + 1
<1>3. \A i \in 1 .. Len(turn') : old(i) \in 1 .. Len(turn) /\ old(i) # n /\ turn'[i] = turn[old(i)]
  BY <1>2
<1>4. \A i \in 1 .. Len(turn') : turn[old(i)] # j
  BY <1>1, <1>3 DEF OrderInv, QueueSound
<1>5. \A i, k \in 1 .. Len(turn') : old(i) = old(k) => i = k BY <1>2
<1> HIDE DEF old
<1>6. QueueSound'
  <2>1. \A i \in 1 .. Len(turn') : turn'[i] \in Jobs => job'[turn'[i]].at \in AtTurn
    BY <1>3, <1>4 DEF Quits, Stays, OrderInv, QueueSound
  <2>2. \A i \in 1 .. Len(turn') : turn'[i] = World => main' \in WorldWaits
    BY <1>3 DEF Quits, MainKept, OrderInv, QueueSound
  <2>3. \A i, k \in 1 .. Len(turn') : turn'[i] = turn'[k] => i = k
    BY <1>3, <1>5 DEF OrderInv, QueueSound
  <2> QED BY <2>1, <2>2, <2>3 DEF QueueSound
<1>7. GenOrder'
  <2>1. nextGen' >= nextGen BY DEF Quits, GensKept, DataTypes
  <2>2. \A k \in Jobs : Numbered(k) BY DEF OrderInv, GenOrder
  <2>3. ASSUME NEW k \in Jobs PROVE Numbered(k)'
    <3>1. CASE k = j BY <3>1 DEF Quits, Numbered
    <3>2. CASE k # j BY <2>1, <2>2, <3>2, NumberedStays DEF Quits
    <3> QED BY <3>1, <3>2
  <2> QED BY <2>1, <2>3 DEF Quits, GensKept, OrderInv, GenOrder, DataTypes
<1>8. WriterHoldsTurn'
  <2>1. ASSUME NEW k \in Jobs, job'[k].at = "writing" PROVE HasTurn(k)'
    <3>1. k # j /\ job[k].at = "writing" BY <2>1 DEF Quits, Stays
    <3>2. turn[1] = k BY <3>1, TurnSeq DEF OrderInv, WriterHoldsTurn, HasTurn
    <3>3. n # 1 BY <1>1, <3>1, <3>2
    <3>4. Len(turn') >= 1 /\ turn'[1] = k BY <1>2, <3>2, <3>3
    <3>5. turn' \in Seq(Jobs \cup {World}) BY DEF DataTypes
    <3> QED BY <3>4, <3>5 DEF HasTurn
  <2> QED BY <2>1 DEF Quits, GensKept, Stays, OrderInv, WriterHoldsTurn
<1> QED BY <1>6, <1>7, <1>8 DEF OrderInv

\* A new slot, or a new process, is in order.
LEMMA OrderStartsOver == ASSUME StartsOver PROVE OrderInv'
BY DEF StartsOver, OrderInv, QueueSound, GenOrder, Numbered, WriterHoldsTurn

\* So every order step keeps the order.
LEMMA OrderStepInv ==
    ASSUME DataTypes, DataTypes', OrderInv, OrderStep PROVE OrderInv'
BY OrderAside, OrderAsks, OrderTakes, OrderBegins, OrderPasses, OrderQuits, OrderStartsOver
   DEF OrderStep

-----------------------------------------------------------------------------
(* Each action is one of those steps.                                      *)

\* A task changed away from the turn stays away from it.
LEMMA AwayFields ==
    ASSUME DataTypes, NEW j \in Jobs, NEW r, Becomes(j, r), GensKept,
           job[j].at \notin AtTurn, r.at \notin AtTurn,
           r.at \in {"none", "answered"} \/ r.snap.gen < nextGen'
    PROVE  \A k \in Jobs : Stays(k) \/ StaysAway(k)
BY BecomesFields DEF Stays, StaysAway, Numbered

\* A free task is nowhere.
LEMMA FreeAt ==
    ASSUME TaskShape, NEW j \in Jobs, Free(j) PROVE job[j].at = "none"
BY DEF TaskShape, ShapeOf, Free

\* A background save starts away from the turn.
LEMMA SpawnBackgroundAway ==
    ASSUME DataTypes, TaskShape, NEW j \in Jobs, NEW v, NEW m, NEW d,
           SpawnBackground(j, v, m, d), GensKept
    PROVE  \A k \in Jobs : Stays(k) \/ StaysAway(k)
<1> DEFINE r == Rec("background", "spawned", SnapshotOf(v, m, d), 0)
<1>1. r.at = "spawned" /\ r.snap.gen = nextGen BY DEF Rec, SnapshotOf
<1>2. Becomes(j, r) /\ nextGen' = nextGen + 1 BY DEF SpawnBackground
<1>3. job[j].at = "none" BY FreeAt DEF SpawnBackground
<1>4. nextGen < nextGen' BY <1>2, GenNats
<1> QED BY <1>1, <1>2, <1>3, <1>4, AwayFields DEF AtTurn

\* A task that releases the turn is free or answered.
LEMMA ReleaseFields ==
    ASSUME DataTypes, NEW j \in Jobs, Release(j)
    PROVE  /\ job'[j].at \in {"none", "answered"} /\ Numbered(j)'
           /\ job'[j].at \notin AtTurn
           /\ \A k \in Jobs : k = j \/ Stays(k)
           /\ turn' = Tail(turn)
<1>1. PICK r \in {Moved(j, "answered"), FreeJob} : Becomes(j, r) BY DEF Release
<1>2. r.at \in {"none", "answered"} BY DEF Moved, Rec, FreeJob
<1>3. job'[j] = r /\ \A k \in Jobs \ {j} : job'[k] = job[k] BY <1>1, BecomesFields
<1>4. \A k \in Jobs : k = j \/ Stays(k) BY <1>3 DEF Stays
<1> QED BY <1>2, <1>3, <1>4 DEF Release, Numbered, AtTurn

\* retire_player takes the free turn.
LEMMA RetireTakes ==
    ASSUME DataTypes, NEW j \in Jobs, Retire(j), UNCHANGED <<main, lastCommitted, dbGen>>
    PROVE  Takes(j)
<1> DEFINE r == Rec("final", "writing", SnapshotWith(FALSE, DeathAfter), 0)
<1>1. r.at = "writing" /\ r.snap.gen = nextGen BY DEF Rec, SnapshotWith, SnapshotOf
<1>2. job'[j] = r /\ \A k \in Jobs \ {j} : job'[k] = job[k] BY BecomesFields DEF Retire
<1> QED BY <1>1, <1>2 DEF Retire, Takes, Stays, MainKept, TurnFree

\* start_save takes the free turn or stays beside it.
LEMMA StartSaveOrder ==
    ASSUME DataTypes, OrderInv, NEW j \in Jobs, NEW retries \in Nat, StartSave(j, retries),
           job[j].at \in {"none", "answered"}, UNCHANGED <<main, lastCommitted, dbGen>>
    PROVE  Takes(j) \/ Aside
<1> DEFINE r == Rec("checkpoint", "writing", SnapshotWith(FALSE, DeathAfter), 1)
           w == IF retries > 0 THEN Rec("waiter", "spawned", WaiterSnap, retries) ELSE FreeJob
<1>1. CASE Becomes(j, r) /\ TurnFree /\ turn' = <<j>> /\ nextGen' = nextGen + 1
  <2>1. r.at = "writing" /\ r.snap.gen = nextGen BY DEF Rec, SnapshotWith, SnapshotOf
  <2>2. job'[j] = r /\ \A k \in Jobs \ {j} : job'[k] = job[k] BY <1>1, BecomesFields
  <2> QED BY <1>1, <2>1, <2>2 DEF Takes, Stays, MainKept, TurnFree
<1>2. CASE Becomes(j, w) /\ UNCHANGED <<turn, nextGen>>
  <2>1. w.at \in {"none", "spawned"} /\ w.snap.gen = 0
    BY DEF Rec, WaiterSnap, FreeJob, NoSnap
  <2>2. GensKept /\ 0 < nextGen' BY <1>2 DEF GensKept, DataTypes
  <2>3. job[j].at \notin AtTurn /\ w.at \notin AtTurn BY <2>1 DEF AtTurn
  <2>4. \A k \in Jobs : Stays(k) \/ StaysAway(k)
    BY <1>2, <2>1, <2>2, <2>3, AwayFields
  <2> QED BY <1>2, <2>2, <2>4 DEF Aside, MainKept
<1> QED BY <1>1, <1>2 DEF StartSave

\* A task with the turn that ends, its write recorded or none made.
LEMMA ReleasePasses ==
    ASSUME DataTypes, DataTypes', NEW j \in Jobs, HasTurn(j), Release(j), main' = main,
           nextGen' \in {nextGen, nextGen + 1}, dbGen' = dbGen \/ dbGen' = lastCommitted',
           lastCommitted' >= lastCommitted, lastCommitted' < nextGen'
    PROVE  OrderStep
<1>1. Passes(j) BY ReleaseFields DEF Passes, MainKept
<1> QED BY <1>1 DEF OrderStep

\* Every action is an order step.
LEMMA NextOrder ==
    ASSUME DataTypes, DataTypes', TaskShape, OrderInv, [Next]_vars
    PROVE  OrderStep
<1> USE DEF slotVars, entityVars, connVars, dbVars, historyVars
<1>0. /\ nextGen \in Nat /\ lastCommitted \in Nat /\ dbGen \in Nat
      /\ dbGen <= lastCommitted /\ lastCommitted < nextGen
  BY GenNats DEF OrderInv, GenOrder
<1>1. ASSUME \/ Play \/ AskSave \/ FlushDone \/ FlushTimeout
             \/ \E c \in Conns : \/ Connect(c) \/ HangUp(c) \/ DisconnectBusy(c)
                                 \/ DisconnectLinkdead(c) \/ WaitEnds(c)
             \/ UNCHANGED vars
      PROVE OrderStep
  <2>1. UNCHANGED <<turn, job, nextGen, lastCommitted, dbGen>> /\ MainKept
    BY <1>1 DEF Play, AskSave, FlushDone, FlushTimeout, Connect, HangUp, DisconnectBusy,
       DisconnectLinkdead, WaitEnds, vars, MainKept, WorldWaits
  <2> QED BY <2>1 DEF OrderStep, Aside, GensKept, Stays
<1>2. ASSUME AutosaveScan PROVE OrderStep
  <2>1. CASE Unreferenced
    <3>1. StartsOver
      BY <1>2, <2>1 DEF AutosaveScan, Unreferenced, TurnFree, Free, StartsOver, TaskShape, ShapeOf
    <3> QED BY <3>1 DEF OrderStep
  <2>2. CASE ~Unreferenced
    BY <1>2, <2>2 DEF AutosaveScan, OrderStep, Aside, GensKept, MainKept, Stays
  <2> QED BY <2>1, <2>2
<1>3. ASSUME NEW j \in Jobs, AutosaveDue(j) \/ DrainPendingSave(j) PROVE OrderStep
  <2>1. PICK m, d : SpawnBackground(j, ver, m, d)
    BY <1>3 DEF AutosaveDue, DrainPendingSave
  <2>2. /\ UNCHANGED <<main, turn, lastCommitted, dbGen>> /\ nextGen' = nextGen + 1
    BY <1>3 DEF AutosaveDue, DrainPendingSave, SpawnBackground
  <2>3. GensKept BY <2>2 DEF GensKept
  <2> QED BY <2>1, <2>2, <2>3, SpawnBackgroundAway DEF OrderStep, Aside, MainKept
<1>die. ASSUME Die PROVE OrderStep
  <2>1. UNCHANGED <<main, turn, lastCommitted, dbGen>> BY <1>die DEF Die
  <2>2. CASE \E j \in Jobs : SpawnBackground(j, clock + 1, marker, TRUE)
    <3>1. PICK j \in Jobs : SpawnBackground(j, clock + 1, marker, TRUE) BY <2>2
    <3>2. nextGen' = nextGen + 1 BY <3>1 DEF SpawnBackground
    <3>3. GensKept BY <2>1, <3>2 DEF GensKept
    <3>4. \A k \in Jobs : Stays(k) \/ StaysAway(k) BY <3>1, <3>3, SpawnBackgroundAway
    <3> QED BY <2>1, <3>3, <3>4 DEF OrderStep, Aside, MainKept
  <2>3. CASE UNCHANGED <<job, nextGen>>
    BY <2>1, <2>3 DEF OrderStep, Aside, GensKept, MainKept, Stays
  <2> QED BY <1>die, <2>2, <2>3 DEF Die
<1>4. ASSUME NEW j \in Jobs, DrainRetiring(j) \/ DrainLinkdead(j)
                              \/ (\E c \in Conns : DisconnectRetire(c, j))
      PROVE OrderStep
  <2>1. Retire(j) /\ UNCHANGED <<main, lastCommitted, dbGen>>
    BY <1>4 DEF DrainRetiring, DrainLinkdead, DisconnectRetire
  <2> QED BY <2>1, RetireTakes DEF OrderStep
<1>5. ASSUME NEW j \in Jobs, SaveCommand(j) PROVE OrderStep
  <2>1. StartSave(j, SaveTurnRetries) /\ Free(j) /\ UNCHANGED <<main, lastCommitted, dbGen>>
    BY <1>5 DEF SaveCommand
  <2> QED BY <2>1, FreeAt, StartSaveOrder, ConstantsAssumption DEF OrderStep
<1>6. ASSUME NEW j \in Jobs, SaveRetry(j) PROVE OrderStep
  <2>1. StartSave(j, job[j].tries - 1) /\ job[j].at = "answered"
        /\ UNCHANGED <<main, lastCommitted, dbGen>>
    BY <1>6 DEF SaveRetry, Is
  <2>2. job[j].tries - 1 \in Nat
    BY <1>6, JobFields DEF SaveRetry, Is, TaskShape, ShapeOf
  <2> QED BY <2>1, <2>2, StartSaveOrder DEF OrderStep
<1>7. ASSUME NEW j \in Jobs, SaveAnswered(j) \/ SaveDropped(j) PROVE OrderStep
  <2>1. Becomes(j, FreeJob) /\ job[j].at = "answered"
        /\ UNCHANGED <<main, turn, nextGen, lastCommitted, dbGen>>
    BY <1>7 DEF SaveAnswered, SaveDropped, Is
  <2>2. GensKept BY <2>1 DEF GensKept
  <2>3. \A k \in Jobs : Stays(k) \/ StaysAway(k)
    BY <2>1, <2>2, AwayFields DEF FreeJob, AtTurn
  <2> QED BY <2>1, <2>2, <2>3 DEF OrderStep, Aside, MainKept
<1>8. ASSUME NEW j \in Jobs, SaveAbandoned(j) PROVE OrderStep
  <2>1. UNCHANGED <<main, nextGen, lastCommitted, dbGen>> BY <1>8 DEF SaveAbandoned
  <2>2. GensKept /\ MainKept BY <2>1 DEF GensKept, MainKept
  <2>3. CASE Is(j, "waiter", "spawned") /\ Becomes(j, FreeJob) /\ UNCHANGED turn
    <3>1. \A k \in Jobs : Stays(k) \/ StaysAway(k)
      BY <2>2, <2>3, AwayFields DEF FreeJob, AtTurn, Is
    <3> QED BY <2>2, <2>3, <3>1 DEF OrderStep, Aside
  <2>4. CASE /\ Is(j, "waiter", "queued") /\ Becomes(j, FreeJob)
             /\ \E k \in 1 .. Len(turn) : turn[k] = j /\ LeaveQueue(k)
    <3>1. job'[j] = FreeJob /\ \A k \in Jobs \ {j} : job'[k] = job[k]
      BY <2>4, BecomesFields
    <3>2. Quits(j) BY <2>2, <2>4, <3>1 DEF Quits, Stays, Is, FreeJob
    <3> QED BY <3>2 DEF OrderStep
  <2>5. CASE /\ Is(j, "checkpoint", "writing") /\ UNCHANGED turn
             /\ Becomes(j, Rec("checkpoint", "writing", job[j].snap, 0))
    <3>1. \A k \in Jobs : Stays(k)
      BY <2>5, BecomesFields DEF Stays, Is, Rec
    <3> QED BY <2>2, <2>5, <3>1 DEF OrderStep, Aside
  <2> QED BY <1>8, <2>3, <2>4, <2>5 DEF SaveAbandoned
<1>9. ASSUME NEW j \in Jobs, SpawnTask(j) PROVE OrderStep
  <2>1. /\ UNCHANGED <<main, nextGen, lastCommitted, dbGen>> /\ turn' = Append(turn, j)
        /\ Becomes(j, Rec("task", "queued", NoSnap, 0)) /\ Free(j)
    BY <1>9 DEF SpawnTask
  <2>2. job'[j] = Rec("task", "queued", NoSnap, 0) /\ \A k \in Jobs \ {j} : job'[k] = job[k]
    BY <2>1, BecomesFields
  <2>3. job'[j].at = "queued" /\ job'[j].snap.gen = 0 BY <2>2 DEF Rec, NoSnap
  <2>4. 0 < nextGen' BY <2>1, <1>0
  <2>5. j # World BY ConstantsAssumption
  <2>6. job[j].at = "none" BY <2>1, FreeAt
  <2>7. Numbered(j)' BY <2>3, <2>4 DEF Numbered
  <2> QED BY <2>1, <2>2, <2>3, <2>5, <2>6, <2>7
       DEF OrderStep, Asks, GensKept, MainKept, AtTurn, Stays
<1>10. ASSUME NEW j \in Jobs, JoinTurn(j) PROVE OrderStep
  <2>1. /\ UNCHANGED <<main, nextGen, lastCommitted, dbGen>> /\ turn' = Append(turn, j)
        /\ Becomes(j, Moved(j, "queued")) /\ job[j].at = "spawned"
    BY <1>10 DEF JoinTurn
  <2>2. job'[j] = Moved(j, "queued") /\ \A k \in Jobs \ {j} : job'[k] = job[k]
    BY <2>1, BecomesFields
  <2>3. job'[j].at = "queued" /\ job'[j].snap = job[j].snap BY <2>2 DEF Rec, Moved
  <2>4. Numbered(j)' BY <2>1, <2>3 DEF Numbered, OrderInv, GenOrder
  <2>5. j # World BY ConstantsAssumption
  <2> QED BY <2>1, <2>2, <2>3, <2>4, <2>5
       DEF OrderStep, Asks, GensKept, MainKept, AtTurn, Stays
<1>11. ASSUME ChestBegin \/ Shutdown PROVE OrderStep
  <2>1. UNCHANGED <<job, nextGen, lastCommitted, dbGen>> /\ main \notin WorldWaits
    BY <1>11 DEF ChestBegin, Shutdown, Idle, WorldWaits
  <2>2. \/ turn' = Append(turn, World) /\ main' \in WorldWaits
        \/ turn' = turn
    BY <1>11 DEF ChestBegin, Shutdown, WorldWaits
  <2> QED BY <2>1, <2>2 DEF OrderStep, Asks, Aside, GensKept, MainKept, Stays
<1>12. ASSUME NEW c \in Conns, CompleteLogin(c) \/ FinishSaveWait(c) PROVE OrderStep
  <2>1. UNCHANGED <<job, nextGen, lastCommitted, dbGen>> /\ main \notin WorldWaits
    BY <1>12 DEF CompleteLogin, FinishSaveWait, Idle, WorldWaits
  <2>2. \/ turn' = Append(turn, World) /\ main' \in WorldWaits
        \/ turn' = turn
    BY <1>12 DEF CompleteLogin, FinishSaveWait, BeginLoad, Takeover, WorldWaits
  <2> QED BY <2>1, <2>2 DEF OrderStep, Asks, Aside, GensKept, MainKept, Stays
<1>13. ASSUME ChestDone \/ LoginLoads \/ LoginRefused PROVE OrderStep
  <2>1. HasTurn(World) /\ turn' = Tail(turn) /\ UNCHANGED job
    BY <1>13 DEF ChestDone, LoginLoads, LoginRefused
  <2>2. \/ UNCHANGED <<nextGen, lastCommitted, dbGen>>
        \/ nextGen' = nextGen + 1 /\ lastCommitted' = nextGen /\ dbGen' = nextGen
    BY <1>0, <1>13 DEF ChestDone, LoginLoads, LoginRefused, Supersede
  <2>3. Passes(World) BY <1>0, <2>1, <2>2 DEF Passes, Stays
  <2> QED BY <2>3 DEF OrderStep
<1>14. ASSUME ShutdownSave PROVE OrderStep
  <2>1. HasTurn(World) /\ turn' = Tail(turn) /\ nextGen' = nextGen + 1
    BY <1>14 DEF ShutdownSave
  <2>2. CASE Store(SnapshotWith(FALSE, DeathAfter)) /\ lastCommitted' = nextGen /\ UNCHANGED job
    BY <1>0, <2>1, <2>2 DEF OrderStep, Passes, Stays, Store, SnapshotWith, SnapshotOf
  <2>3. CASE /\ \E j \in Jobs : /\ Free(j)
                                /\ Becomes(j, Rec("retry", "spawned",
                                                  SnapshotWith(FALSE, DeathAfter), 0))
             /\ UNCHANGED <<lastCommitted, dbVars>>
    <3>1. PICK j \in Jobs : Free(j) /\ Becomes(j, Rec("retry", "spawned",
                                                      SnapshotWith(FALSE, DeathAfter), 0))
      BY <2>3
    <3> DEFINE r == Rec("retry", "spawned", SnapshotWith(FALSE, DeathAfter), 0)
    <3>2. r.at = "spawned" /\ r.snap.gen = nextGen BY DEF Rec, SnapshotWith, SnapshotOf
    <3>3. nextGen < nextGen' /\ GensKept BY <1>0, <2>1, <2>3 DEF GensKept
    <3>4. job[j].at = "none" BY <3>1, FreeAt
    <3>5. \A k \in Jobs : Stays(k) \/ StaysAway(k)
      BY <3>1, <3>2, <3>3, <3>4, AwayFields DEF AtTurn
    <3> QED BY <1>0, <2>1, <2>3, <3>5 DEF OrderStep, Passes
  <2>4. SnapshotWith(FALSE, DeathAfter).gen = nextGen BY DEF SnapshotWith, SnapshotOf
  <2> QED BY <1>14, <2>2, <2>3, <2>4 DEF ShutdownSave
<1>15. ASSUME Restart PROVE OrderStep
  BY <1>15 DEF Restart, OrderStep, StartsOver, FreeJob
<1>16. ASSUME NEW j \in Jobs, BackgroundStale(j) \/ RetrySuperseded(j) PROVE OrderStep
  <2>1. HasTurn(j) /\ Release(j) /\ UNCHANGED <<main, nextGen, lastCommitted, dbGen>>
    BY <1>16 DEF BackgroundStale, RetrySuperseded
  <2> QED BY <1>0, <2>1, ReleasePasses
<1>17. ASSUME NEW j \in Jobs, WriteFails(j) PROVE OrderStep
  <2>1. HasTurn(j) BY <1>17 DEF WriteFails, OrderInv, WriterHoldsTurn
  <2>2. Release(j) /\ UNCHANGED <<main, nextGen, lastCommitted, dbGen>>
    BY <1>17 DEF WriteFails
  <2> QED BY <1>0, <2>1, <2>2, ReleasePasses
<1>18. ASSUME NEW j \in Jobs, Commit(j) PROVE OrderStep
  <2>1. HasTurn(j) /\ job[j].snap.gen > lastCommitted /\ job[j].snap.gen < nextGen
    BY <1>18 DEF Commit, OrderInv, WriterHoldsTurn, GenOrder, Numbered
  <2>2. Release(j) /\ UNCHANGED <<main, nextGen>> BY <1>18 DEF Commit
  <2>3. lastCommitted' = job[j].snap.gen /\ dbGen' = job[j].snap.gen
    BY <1>18, <2>1 DEF Commit, Store
  <2>4. job[j].snap.gen \in Nat BY JobFields
  <2> QED BY <1>0, <2>1, <2>2, <2>3, <2>4, ReleasePasses
<1>19. ASSUME NEW j \in Jobs, TaskRun(j) PROVE OrderStep
  <2>1. HasTurn(j) /\ Release(j) /\ UNCHANGED main BY <1>19 DEF TaskRun
  <2>2. \/ UNCHANGED <<nextGen, lastCommitted, dbGen>>
        \/ nextGen' = nextGen + 1 /\ lastCommitted' = nextGen /\ dbGen' = nextGen
    BY <1>0, <1>19 DEF TaskRun, Supersede
  <2> QED BY <1>0, <2>1, <2>2, ReleasePasses
<1>20. ASSUME NEW j \in Jobs, FinalFails(j) PROVE OrderStep
  <2> DEFINE r == Rec("retry", "spawned", job[j].snap, 0)
  <2>1. /\ turn' = Tail(turn) /\ Becomes(j, r) /\ job[j].at = "writing"
        /\ UNCHANGED <<main, nextGen, lastCommitted, dbGen>>
    BY <1>20 DEF FinalFails, Is
  <2>2. HasTurn(j) /\ job[j].snap.gen < nextGen
    BY <2>1 DEF OrderInv, WriterHoldsTurn, GenOrder, Numbered
  <2>3. job'[j] = r /\ \A k \in Jobs \ {j} : job'[k] = job[k] BY <2>1, BecomesFields
  <2>4. job'[j].at = "spawned" /\ job'[j].snap = job[j].snap BY <2>3 DEF Rec
  <2>5. Numbered(j)' BY <2>1, <2>2, <2>4 DEF Numbered
  <2> QED BY <1>0, <2>1, <2>2, <2>3, <2>4, <2>5
       DEF OrderStep, Passes, MainKept, AtTurn, Stays
<1>21. ASSUME NEW j \in Jobs, RetryFails(j) PROVE OrderStep
  <2>1. job[j].at = "writing" /\ UNCHANGED <<main, nextGen, lastCommitted, dbGen>>
    BY <1>21 DEF RetryFails, Is
  <2>2. HasTurn(j) /\ job[j].snap.gen < nextGen
    BY <2>1 DEF OrderInv, WriterHoldsTurn, GenOrder, Numbered
  <2>3. CASE Release(j) BY <1>0, <2>1, <2>2, <2>3, ReleasePasses
  <2>4. CASE /\ turn' = Tail(turn)
             /\ Becomes(j, Rec("retry", "sleeping", job[j].snap, job[j].tries + 1))
    <3>1. /\ job'[j] = Rec("retry", "sleeping", job[j].snap, job[j].tries + 1)
          /\ \A k \in Jobs \ {j} : job'[k] = job[k]
      BY <2>4, BecomesFields
    <3>2. job'[j].at = "sleeping" /\ job'[j].snap = job[j].snap BY <3>1 DEF Rec
    <3>3. Numbered(j)' BY <2>1, <2>2, <3>2 DEF Numbered
    <3> QED BY <1>0, <2>1, <2>2, <2>4, <3>1, <3>2, <3>3
         DEF OrderStep, Passes, MainKept, AtTurn, Stays
  <2> QED BY <1>21, <2>3, <2>4 DEF RetryFails
<1>22. ASSUME NEW j \in Jobs, RetryWake(j) PROVE OrderStep
  <2>1. /\ Becomes(j, Moved(j, "spawned")) /\ job[j].at = "sleeping"
        /\ UNCHANGED <<main, turn, nextGen, lastCommitted, dbGen>>
    BY <1>22 DEF RetryWake, Is
  <2>2. GensKept BY <2>1 DEF GensKept
  <2>3. Moved(j, "spawned").at = "spawned" /\ Moved(j, "spawned").snap = job[j].snap
    BY DEF Moved, Rec
  <2>4. job[j].snap.gen < nextGen' BY <2>1 DEF OrderInv, GenOrder, Numbered
  <2>5. \A k \in Jobs : Stays(k) \/ StaysAway(k)
    BY <2>1, <2>2, <2>3, <2>4, AwayFields DEF AtTurn
  <2> QED BY <2>1, <2>2, <2>5 DEF OrderStep, Aside, MainKept
<1>23. ASSUME NEW j \in Jobs, WaiterTurn(j) PROVE OrderStep
  <2>1. /\ HasTurn(j) /\ turn' = Tail(turn) /\ Becomes(j, Moved(j, "answered"))
        /\ UNCHANGED <<main, nextGen, lastCommitted, dbGen>>
    BY <1>23 DEF WaiterTurn
  <2>2. job'[j] = Moved(j, "answered") /\ \A k \in Jobs \ {j} : job'[k] = job[k]
    BY <2>1, BecomesFields
  <2>3. job'[j].at = "answered" BY <2>2 DEF Moved, Rec
  <2>4. Numbered(j)' BY <2>3 DEF Numbered
  <2> QED BY <1>0, <2>1, <2>2, <2>3, <2>4 DEF OrderStep, Passes, MainKept, AtTurn, Stays
<1>24. ASSUME NEW j \in Jobs, StartWrite(j) PROVE OrderStep
  <2>1. /\ HasTurn(j) /\ Becomes(j, Moved(j, "writing")) /\ job[j].at = "queued"
        /\ job[j].snap.gen > lastCommitted
        /\ UNCHANGED <<main, turn, nextGen, lastCommitted, dbGen>>
    BY <1>24 DEF StartWrite
  <2>2. job'[j] = Moved(j, "writing") /\ \A k \in Jobs \ {j} : job'[k] = job[k]
    BY <2>1, BecomesFields
  <2>3. job'[j].at = "writing" /\ job'[j].snap = job[j].snap BY <2>2 DEF Moved, Rec
  <2> QED BY <2>1, <2>2, <2>3 DEF OrderStep, Begins, MainKept, Stays
<1> QED BY <1>die, <1>1, <1>2, <1>3, <1>4, <1>5, <1>6, <1>7, <1>8, <1>9, <1>10, <1>11, <1>12,
           <1>13,
           <1>14, <1>15, <1>16, <1>17, <1>18, <1>19, <1>20, <1>21, <1>22, <1>23, <1>24
        DEF Next, Entity, Tick, Command, MainResumes, Task, Session

-----------------------------------------------------------------------------
(* The counter of unfinished writes follows the tasks that write.          *)

CountedRec(r) == r.kind \notin {"free", "waiter"} /\ r.at # "answered"

CountStep ==
    \/ CountedJobs' = CountedJobs /\ outstanding' = outstanding
    \/ \E j \in Jobs \ CountedJobs :
          CountedJobs' = CountedJobs \cup {j} /\ outstanding' = outstanding + 1
    \/ \E j \in CountedJobs :
          CountedJobs' = CountedJobs \ {j} /\ outstanding' = outstanding - 1
    \/ CountedJobs' = {} /\ outstanding' = 0

\* The counted tasks are finitely many.
LEMMA CountedFinite == IsFiniteSet(CountedJobs) /\ Cardinality(CountedJobs) \in Nat
BY ConstantsAssumption, FS_Subset, FS_CardinalityType DEF CountedJobs

\* Initially nothing is counted.
LEMMA InitCount == Init => CountInv
<1> SUFFICES ASSUME Init PROVE CountInv OBVIOUS
<1>1. CountedJobs = {} BY DEF Init, CountedJobs, Counted, FreeJob
<1> QED BY <1>1, FS_EmptySet DEF Init, CountInv

\* Every counting step keeps the count right.
LEMMA CountStepInv ==
    ASSUME CountInv, CountStep PROVE CountInv'
<1>1. IsFiniteSet(CountedJobs) /\ Cardinality(CountedJobs) \in Nat BY CountedFinite
<1>2. CASE CountedJobs' = CountedJobs /\ outstanding' = outstanding
  BY <1>2 DEF CountInv
<1>3. ASSUME NEW j \in Jobs \ CountedJobs, CountedJobs' = CountedJobs \cup {j},
             outstanding' = outstanding + 1
      PROVE CountInv'
  BY <1>1, <1>3, FS_AddElement DEF CountInv
<1>4. ASSUME NEW j \in CountedJobs, CountedJobs' = CountedJobs \ {j},
             outstanding' = outstanding - 1
      PROVE CountInv'
  BY <1>1, <1>4, FS_RemoveElement DEF CountInv
<1>5. CASE CountedJobs' = {} /\ outstanding' = 0
  BY <1>5, FS_EmptySet DEF CountInv
<1> QED BY <1>2, <1>3, <1>4, <1>5 DEF CountStep

\* What changing one task does to the counted ones.
LEMMA BecomesCounted ==
    ASSUME DataTypes, NEW j \in Jobs, NEW r, Becomes(j, r)
    PROVE  CountedJobs' = IF CountedRec(r) THEN CountedJobs \cup {j} ELSE CountedJobs \ {j}
<1>1. job'[j] = r /\ \A k \in Jobs \ {j} : job'[k] = job[k] BY BecomesFields
<1>2. \A k \in Jobs : Counted(k)' <=> IF k = j THEN CountedRec(r) ELSE Counted(k)
  BY <1>1 DEF Counted, CountedRec
<1> QED BY <1>2 DEF CountedJobs

\* A new task whose write is counted.
LEMMA CountNew ==
    ASSUME DataTypes, NEW j \in Jobs, ~Counted(j), NEW r, CountedRec(r), Becomes(j, r),
           outstanding' = outstanding + 1
    PROVE  CountStep
BY BecomesCounted DEF CountStep, CountedJobs

\* A task that stays counted, or uncounted.
LEMMA CountSame ==
    ASSUME DataTypes, NEW j \in Jobs, NEW r, Counted(j) <=> CountedRec(r), Becomes(j, r),
           outstanding' = outstanding
    PROVE  CountStep
BY BecomesCounted DEF CountStep, CountedJobs

\* A counted task that ends is uncounted.
LEMMA CountRelease ==
    ASSUME DataTypes, NEW j \in Jobs, Counted(j), Release(j)
    PROVE  CountStep
<1>1. ~CountedRec(FreeJob) /\ ~CountedRec(Moved(j, "answered"))
  BY DEF CountedRec, FreeJob, Moved, Rec
<1>2. CountedJobs' = CountedJobs \ {j} /\ outstanding' = outstanding - 1
  BY <1>1, BecomesCounted DEF Release
<1> QED BY <1>2 DEF CountStep, CountedJobs

\* Which of the records tasks start with are counted.
LEMMA CountedFresh ==
    ASSUME NEW s, NEW t
    PROVE  /\ CountedRec(Rec("background", "spawned", s, t))
           /\ CountedRec(Rec("final", "writing", s, t)) /\ CountedRec(Rec("task", "queued", s, t))
           /\ CountedRec(Rec("retry", "spawned", s, t)) /\ CountedRec(Rec("retry", "sleeping",
                s, t))
           /\ CountedRec(Rec("checkpoint", "writing", s, t))
           /\ ~CountedRec(Rec("waiter", "spawned", s, t)) /\ ~CountedRec(FreeJob)
BY DEF CountedRec, Rec, FreeJob

\* start_save counts the write it spawns, not the waiter.
LEMMA CountStartSave ==
    ASSUME DataTypes, NEW j \in Jobs, ~Counted(j), NEW retries \in Nat, StartSave(j, retries)
    PROVE  CountStep
BY CountNew, CountSame, CountedFresh DEF StartSave

\* Every action is a counting step.
LEMMA NextCount ==
    ASSUME DataTypes, TaskShape, [Next]_vars
    PROVE  CountStep
<1> USE DEF slotVars, entityVars, connVars, dbVars, historyVars
<1>1. ASSUME LeavesTasks PROVE CountStep
  <2>1. job' = job BY <1>1, LeavesTasksJob
  <2>2. outstanding' = outstanding
    BY <1>1 DEF LeavesTasks, Play, AskSave, AutosaveScan, ChestBegin, ChestDone, LoginLoads,
       LoginRefused, FlushDone, FlushTimeout, Shutdown, Connect, CompleteLogin, FinishSaveWait,
       HangUp, DisconnectBusy, DisconnectLinkdead, WaitEnds, vars
  <2> QED BY <2>1, <2>2 DEF CountStep, CountedJobs, Counted
<1>2. \A j \in Jobs : Free(j) => ~Counted(j) BY DEF Free, Counted
<1>3. ASSUME NEW j \in Jobs, AutosaveDue(j) \/ DrainPendingSave(j) PROVE CountStep
  BY <1>2, <1>3, CountNew, CountedFresh DEF AutosaveDue, DrainPendingSave, SpawnBackground
<1>die. ASSUME Die PROVE CountStep
  <2>1. CASE \E j \in Jobs : SpawnBackground(j, clock + 1, marker, TRUE)
    BY <1>2, <2>1, CountNew, CountedFresh DEF SpawnBackground
  <2>2. CASE UNCHANGED <<job, outstanding>>
    BY <2>2 DEF CountStep, CountedJobs, Counted
  <2> QED BY <1>die, <2>1, <2>2 DEF Die
<1>4. ASSUME NEW j \in Jobs, DrainRetiring(j) \/ DrainLinkdead(j)
                              \/ (\E c \in Conns : DisconnectRetire(c, j))
      PROVE CountStep
  <2>1. Retire(j) BY <1>4 DEF DrainRetiring, DrainLinkdead, DisconnectRetire
  <2> QED BY <1>2, <2>1, CountNew, CountedFresh DEF Retire
<1>5. ASSUME NEW j \in Jobs, SaveCommand(j) PROVE CountStep
  BY <1>2, <1>5, CountStartSave, ConstantsAssumption DEF SaveCommand
<1>6. ASSUME NEW j \in Jobs, SaveRetry(j) PROVE CountStep
  <2>1. job[j].tries - 1 \in Nat
    BY <1>6, JobFields DEF SaveRetry, Is, TaskShape, ShapeOf
  <2>2. ~Counted(j) BY <1>6 DEF SaveRetry, Is, Counted
  <2> QED BY <1>6, <2>1, <2>2, CountStartSave DEF SaveRetry
<1>7. ASSUME NEW j \in Jobs, SaveAnswered(j) \/ SaveDropped(j) PROVE CountStep
  <2>1. /\ Becomes(j, FreeJob) /\ outstanding' = outstanding /\ job[j].at = "answered"
    BY <1>7 DEF SaveAnswered, SaveDropped, Is
  <2> QED BY <2>1, CountSame, CountedFresh DEF Counted
<1>8. ASSUME NEW j \in Jobs, SaveAbandoned(j) PROVE CountStep
  <2>1. outstanding' = outstanding BY <1>8 DEF SaveAbandoned
  <2>2. CASE job[j].kind = "waiter" /\ Becomes(j, FreeJob)
    BY <2>1, <2>2, CountSame, CountedFresh DEF Counted
  <2>3. CASE Is(j, "checkpoint", "writing") /\ Becomes(j, Rec("checkpoint", "writing",
       job[j].snap, 0))
    BY <2>1, <2>3, CountSame, CountedFresh DEF Counted, Is
  <2> QED BY <1>8, <2>2, <2>3 DEF SaveAbandoned, Is
<1>9. ASSUME NEW j \in Jobs, SpawnTask(j) PROVE CountStep
  BY <1>2, <1>9, CountNew, CountedFresh DEF SpawnTask
<1>10. ASSUME ShutdownSave PROVE CountStep
  <2>1. CASE UNCHANGED <<job, outstanding>>
    BY <2>1 DEF CountStep, CountedJobs, Counted
  <2>2. CASE /\ \E j \in Jobs : Free(j) /\ Becomes(j, Rec("retry", "spawned",
                                                       SnapshotWith(FALSE, DeathAfter), 0))
             /\ outstanding' = outstanding + 1
    BY <1>2, <2>2, CountNew, CountedFresh
  <2> QED BY <1>10, <2>1, <2>2 DEF ShutdownSave
<1>11. ASSUME Restart PROVE CountStep
  BY <1>11 DEF Restart, CountStep, CountedJobs, Counted, FreeJob
<1>12. ASSUME NEW j \in Jobs, JoinTurn(j) \/ StartWrite(j) \/ RetryWake(j) \/ WaiterTurn(j)
       PROVE CountStep
  <2>1. PICK p \in Phases : /\ Becomes(j, Moved(j, p)) /\ outstanding' = outstanding
                            /\ job[j].at # "answered" /\ (p = "answered" => job[j].kind = "waiter")
    <3>1. JoinTurn(j) => Becomes(j, Moved(j, "queued")) /\ outstanding' = outstanding
                         /\ job[j].at # "answered"
      BY DEF JoinTurn
    <3>2. StartWrite(j) => Becomes(j, Moved(j, "writing")) /\ outstanding' = outstanding
                           /\ job[j].at # "answered"
      BY DEF StartWrite
    <3>3. RetryWake(j) => Becomes(j, Moved(j, "spawned")) /\ outstanding' = outstanding
                          /\ job[j].at # "answered"
      BY DEF RetryWake, Is
    <3>4. WaiterTurn(j) => Becomes(j, Moved(j, "answered")) /\ outstanding' = outstanding
                           /\ job[j].at # "answered" /\ job[j].kind = "waiter"
      BY DEF WaiterTurn, Is
    <3> QED BY <1>12, <3>1, <3>2, <3>3, <3>4 DEF Phases
  <2>2. Counted(j) <=> CountedRec(Moved(j, p)) BY <2>1 DEF Counted, CountedRec, Moved, Rec
  <2> QED BY <2>1, <2>2, CountSame
<1>13. ASSUME NEW j \in Jobs,
              \/ BackgroundStale(j) \/ Commit(j) \/ WriteFails(j) \/ RetrySuperseded(j)
              \/ TaskRun(j)
       PROVE CountStep
  <2>1. Counted(j)
    BY <1>13 DEF BackgroundStale, Commit, WriteFails, RetrySuperseded, TaskRun, Is, Counted,
       TaskShape, ShapeOf
  <2>2. Release(j)
    BY <1>13 DEF BackgroundStale, Commit, WriteFails, RetrySuperseded, TaskRun
  <2> QED BY <2>1, <2>2, CountRelease
<1>14. ASSUME NEW j \in Jobs, FinalFails(j) PROVE CountStep
  BY <1>14, CountSame, CountedFresh DEF FinalFails, Is, Counted
<1>15. ASSUME NEW j \in Jobs, RetryFails(j) PROVE CountStep
  <2>1. Counted(j) BY <1>15 DEF RetryFails, Is, Counted
  <2> QED BY <1>15, <2>1, CountSame, CountRelease, CountedFresh DEF RetryFails
<1> QED BY <1>die, <1>1, <1>3, <1>4, <1>5, <1>6, <1>7, <1>8, <1>9, <1>10, <1>11, <1>12,
           <1>13,
           <1>14, <1>15
        DEF Next, Entity, Tick, Command, MainResumes, Task, Session, LeavesTasks

-----------------------------------------------------------------------------
(* The in_flight claim and its owner.                                      *)

Owners == {j \in Jobs : OwnsClaim(j)}
Settled == {c \in done : c.owns}
OwnerRec(r) == r.kind \in {"background", "checkpoint"} /\ r.at # "answered"

ClaimStep ==
    \* Nothing happens to the claim.
    \/ Owners' = Owners /\ Settled' = Settled /\ inFlight' = inFlight
    \* The completions are folded in.
    \/ Owners' = Owners /\ Settled' = {} /\ inFlight' = ClaimAfter
    \* A save takes the claim, which is free.
    \/ /\ ~ClaimAfter /\ Settled' = {} /\ inFlight' = TRUE
       /\ \E j \in Jobs : Owners' = Owners \cup {j}
    \* The owner ends and leaves its completion.
    \/ /\ inFlight' = inFlight
       /\ \E j \in Owners : Owners' = Owners \ {j}
       /\ \E c : Settled' = Settled \cup {c}
    \* The process starts over.
    \/ Owners' = {} /\ Settled' = {} /\ inFlight' = FALSE

\* ClaimOwned in terms of the owning tasks and completions.
LEMMA ClaimOwnedSets ==
    ClaimOwned <=> /\ inFlight <=> Owners # {} \/ Settled # {}
                   /\ \A j, k \in Owners : j = k
                   /\ \A c, d \in Settled : c = d
                   /\ Settled # {} => Owners = {}
BY DEF ClaimOwned, Owners, Settled

\* The claim survives the folding unless its completion is there.
LEMMA ClaimAfterSettled == ClaimAfter <=> inFlight /\ Settled = {}
BY DEF ClaimAfter, Settled

\* Initially nobody has the claim.
LEMMA InitClaim == Init => ClaimOwned
BY DEF Init, ClaimOwned, OwnsClaim, FreeJob

\* Every claim step keeps the claim owned.
LEMMA ClaimStepInv ==
    ASSUME ClaimOwned, ClaimStep, inFlight \in BOOLEAN PROVE ClaimOwned'
<1>1. (/\ inFlight <=> Owners # {} \/ Settled # {}
       /\ \A j, k \in Owners : j = k
       /\ \A c, d \in Settled : c = d
       /\ Settled # {} => Owners = {})'
  BY ClaimOwnedSets, ClaimAfterSettled DEF ClaimStep
<1>2. ClaimOwned' <=> (/\ inFlight <=> Owners # {} \/ Settled # {}
                       /\ \A j, k \in Owners : j = k
                       /\ \A c, d \in Settled : c = d
                       /\ Settled # {} => Owners = {})'
  BY DEF ClaimOwned, Owners, Settled
<1> QED BY <1>1, <1>2

\* What changing one task does to the owners.
LEMMA BecomesOwners ==
    ASSUME DataTypes, NEW j \in Jobs, NEW r, Becomes(j, r)
    PROVE  Owners' = IF OwnerRec(r) THEN Owners \cup {j} ELSE Owners \ {j}
<1>1. job'[j] = r /\ \A k \in Jobs \ {j} : job'[k] = job[k] BY BecomesFields
<1>2. \A k \in Jobs : OwnsClaim(k)' <=> IF k = j THEN OwnerRec(r) ELSE OwnsClaim(k)
  BY <1>1 DEF OwnsClaim, OwnerRec
<1> QED BY <1>2 DEF Owners

\* A task that owns the claim before and after, or neither.
LEMMA OwnersSame ==
    ASSUME DataTypes, NEW j \in Jobs, NEW r, OwnsClaim(j) <=> OwnerRec(r), Becomes(j, r)
    PROVE  Owners' = Owners
BY BecomesOwners DEF Owners

\* Which of the records tasks start with own the claim.
LEMMA OwnerFresh ==
    ASSUME NEW s, NEW t
    PROVE  /\ OwnerRec(Rec("background", "spawned", s, t))
           /\ OwnerRec(Rec("checkpoint", "writing", s, t))
           /\ ~OwnerRec(Rec("final", "writing", s, t)) /\ ~OwnerRec(Rec("task", "queued", s, t))
           /\ ~OwnerRec(Rec("retry", "spawned", s, t)) /\ ~OwnerRec(Rec("retry", "sleeping", s, t))
           /\ ~OwnerRec(Rec("waiter", "spawned", s, t)) /\ ~OwnerRec(FreeJob)
BY DEF OwnerRec, Rec, FreeJob

\* No completion, none that settles the claim.
LEMMA Folded ==
    ASSUME done' = {} PROVE Settled' = {}
BY DEF Settled

\* A task that ends with the turn owns the claim no longer.
LEMMA ReleaseOwners ==
    ASSUME DataTypes, NEW j \in Jobs, Release(j)
    PROVE  Owners' = Owners \ {j}
<1>1. ~OwnerRec(FreeJob) /\ ~OwnerRec(Moved(j, "answered"))
  BY DEF OwnerRec, FreeJob, Moved, Rec
<1> QED BY <1>1, BecomesOwners DEF Release

\* The end of a task with the turn.
LEMMA ClaimRelease ==
    ASSUME DataTypes, NEW j \in Jobs, Release(j), inFlight' = inFlight,
           IF OwnsClaim(j) THEN \E o : Publish(job[j].snap, o, TRUE)
                           ELSE done' = done \/ \E o : Publish(job[j].snap, o, FALSE)
    PROVE  ClaimStep
<1>1. Owners' = Owners \ {j} BY ReleaseOwners
<1>2. CASE OwnsClaim(j)
  <2>1. PICK o : Publish(job[j].snap, o, TRUE) BY <1>2
  <2>2. Settled' = Settled \cup {[snap |-> job[j].snap, outcome |-> o, owns |-> TRUE]}
    BY <2>1 DEF Settled, Publish
  <2> QED BY <1>1, <1>2, <2>2 DEF ClaimStep, Owners
<1>3. CASE ~OwnsClaim(j)
  <2>1. Owners' = Owners BY <1>1, <1>3 DEF Owners
  <2>2. Settled' = Settled BY <1>3 DEF Settled, Publish
  <2> QED BY <2>1, <2>2 DEF ClaimStep
<1> QED BY <1>2, <1>3

\* start_save takes the claim only when it is free.
LEMMA ClaimStartSave ==
    ASSUME DataTypes, NEW j \in Jobs, ~OwnsClaim(j), NEW retries \in Nat, StartSave(j, retries)
    PROVE  ClaimStep
<1>1. CASE /\ Becomes(j, Rec("checkpoint", "writing", SnapshotWith(FALSE, DeathAfter), 1))
           /\ ~ClaimAfter /\ inFlight' = TRUE /\ done' = {}
  BY <1>1, BecomesOwners, OwnerFresh, Folded DEF ClaimStep
<1>2. CASE /\ Becomes(j, IF retries > 0 THEN Rec("waiter", "spawned", WaiterSnap, retries)
                                        ELSE FreeJob)
           /\ ApplyCompletions \/ UNCHANGED <<inFlight, done>>
  <2>1. Owners' = Owners BY <1>2, OwnersSame, OwnerFresh
  <2> QED BY <1>2, <2>1, Folded DEF ClaimStep, ApplyCompletions, Settled
<1> QED BY <1>1, <1>2 DEF StartSave

\* Every action is a claim step.
LEMMA NextClaim ==
    ASSUME DataTypes, TaskShape, ClaimOwned, [Next]_vars
    PROVE  ClaimStep
<1> USE DEF slotVars, entityVars, connVars, dbVars, historyVars
<1>1. ASSUME LeavesTasks PROVE ClaimStep
  <2>1. job' = job BY <1>1, LeavesTasksJob
  <2>2. ApplyCompletions \/ UNCHANGED <<inFlight, done>>
    BY <1>1 DEF LeavesTasks, Play, AskSave, AutosaveScan, ChestBegin, ChestDone, LoginLoads,
       LoginRefused, FlushDone, FlushTimeout, Shutdown, Connect, CompleteLogin, FinishSaveWait,
       HangUp, DisconnectBusy, DisconnectLinkdead, WaitEnds, vars
  <2>3. Owners' = Owners BY <2>1 DEF Owners, OwnsClaim
  <2> QED BY <2>2, <2>3, Folded DEF ClaimStep, ApplyCompletions, Settled
<1>2. \A j \in Jobs : Free(j) => ~OwnsClaim(j) BY DEF Free, OwnsClaim
<1>3. ASSUME NEW j \in Jobs, AutosaveDue(j) PROVE ClaimStep
  BY <1>3, BecomesOwners, OwnerFresh, Folded DEF AutosaveDue, SpawnBackground, ClaimStep
<1>4. ASSUME NEW j \in Jobs, DrainPendingSave(j) PROVE ClaimStep
  <2>1. ~ClaimAfter /\ Settled = {}
    BY <1>4, ClaimAfterSettled, ClaimOwnedSets DEF DrainPendingSave
  <2>2. Settled' = {} BY <1>4, <2>1 DEF DrainPendingSave, Settled
  <2> QED BY <1>4, <2>1, <2>2, BecomesOwners, OwnerFresh
       DEF DrainPendingSave, SpawnBackground, ClaimStep
<1>die. ASSUME Die PROVE ClaimStep
  <2>1. done' = done BY <1>die DEF Die
  <2>2. Settled' = Settled BY <2>1 DEF Settled
  <2>3. CASE ~inFlight /\ \E j \in Jobs : SpawnBackground(j, clock + 1, marker, TRUE)
    <3>1. ~ClaimAfter /\ Settled = {} BY <2>3, ClaimAfterSettled, ClaimOwnedSets
    <3> QED BY <2>2, <2>3, <3>1, BecomesOwners, OwnerFresh DEF SpawnBackground, ClaimStep
  <2>4. CASE UNCHANGED <<job, inFlight>>
    BY <2>2, <2>4 DEF ClaimStep, Owners, OwnsClaim
  <2> QED BY <1>die, <2>3, <2>4 DEF Die
<1>5. ASSUME NEW j \in Jobs, DrainRetiring(j) \/ DrainLinkdead(j)
                              \/ (\E c \in Conns : DisconnectRetire(c, j))
      PROVE ClaimStep
  <2>1. Retire(j) BY <1>5 DEF DrainRetiring, DrainLinkdead, DisconnectRetire
  <2>2. Owners' = Owners BY <1>2, <2>1, OwnersSame, OwnerFresh DEF Retire
  <2> QED BY <2>1, <2>2, Folded DEF Retire, ClaimStep
<1>6. ASSUME NEW j \in Jobs, SaveCommand(j) PROVE ClaimStep
  BY <1>2, <1>6, ClaimStartSave, ConstantsAssumption DEF SaveCommand
<1>7. ASSUME NEW j \in Jobs, SaveRetry(j) PROVE ClaimStep
  <2>1. job[j].tries - 1 \in Nat
    BY <1>7, JobFields DEF SaveRetry, Is, TaskShape, ShapeOf
  <2>2. ~OwnsClaim(j) BY <1>7 DEF SaveRetry, Is, OwnsClaim
  <2> QED BY <1>7, <2>1, <2>2, ClaimStartSave DEF SaveRetry
<1>8. ASSUME NEW j \in Jobs, SaveAnswered(j) \/ SaveDropped(j) PROVE ClaimStep
  <2>1. Becomes(j, FreeJob) /\ job[j].at = "answered"
    BY <1>8 DEF SaveAnswered, SaveDropped, Is
  <2>2. Owners' = Owners BY <2>1, OwnersSame, OwnerFresh DEF OwnsClaim
  <2>3. ApplyCompletions \/ UNCHANGED <<done, inFlight>>
    BY <1>8 DEF SaveAnswered, SaveDropped
  <2> QED BY <2>2, <2>3, Folded DEF ClaimStep, ApplyCompletions, Settled
<1>9. ASSUME NEW j \in Jobs, SaveAbandoned(j) PROVE ClaimStep
  <2>1. UNCHANGED <<done, inFlight>> BY <1>9 DEF SaveAbandoned
  <2>2. CASE job[j].kind = "waiter" /\ Becomes(j, FreeJob)
    BY <2>1, <2>2, OwnersSame, OwnerFresh DEF OwnsClaim, ClaimStep, Settled
  <2>3. CASE Is(j, "checkpoint", "writing") /\ Becomes(j, Rec("checkpoint", "writing",
       job[j].snap, 0))
    BY <2>1, <2>3, OwnersSame, OwnerFresh DEF OwnsClaim, Is, ClaimStep, Settled
  <2> QED BY <1>9, <2>2, <2>3 DEF SaveAbandoned, Is
<1>10. ASSUME NEW j \in Jobs, SpawnTask(j) PROVE ClaimStep
  BY <1>2, <1>10, OwnersSame, OwnerFresh DEF SpawnTask, ClaimStep, Settled
<1>11. ASSUME ShutdownSave PROVE ClaimStep
  <2>1. done' = {} /\ inFlight' = ClaimAfter BY <1>11 DEF ShutdownSave
  <2>2. CASE UNCHANGED job
    BY <2>1, <2>2, Folded DEF ClaimStep, Owners, OwnsClaim
  <2>3. CASE \E j \in Jobs : Free(j) /\ Becomes(j, Rec("retry", "spawned",
                                                        SnapshotWith(FALSE, DeathAfter), 0))
    BY <1>2, <2>1, <2>3, OwnersSame, OwnerFresh, Folded DEF ClaimStep
  <2> QED BY <1>11, <2>2, <2>3 DEF ShutdownSave
<1>12. ASSUME Restart PROVE ClaimStep
  BY <1>12, Folded DEF Restart, ClaimStep, Owners, OwnsClaim, FreeJob
<1>13. ASSUME NEW j \in Jobs, JoinTurn(j) \/ StartWrite(j) \/ RetryWake(j) \/ WaiterTurn(j)
       PROVE ClaimStep
  <2>1. UNCHANGED <<done, inFlight>>
    BY <1>13 DEF JoinTurn, StartWrite, RetryWake, WaiterTurn
  <2>2. PICK p \in Phases : /\ Becomes(j, Moved(j, p))
                            /\ job[j].at # "answered" /\ (p = "answered" => job[j].kind = "waiter")
    <3>1. JoinTurn(j) => Becomes(j, Moved(j, "queued")) /\ job[j].at # "answered"
      BY DEF JoinTurn
    <3>2. StartWrite(j) => Becomes(j, Moved(j, "writing")) /\ job[j].at # "answered"
      BY DEF StartWrite
    <3>3. RetryWake(j) => Becomes(j, Moved(j, "spawned")) /\ job[j].at # "answered"
      BY DEF RetryWake, Is
    <3>4. WaiterTurn(j) => Becomes(j, Moved(j, "answered")) /\ job[j].at # "answered"
                           /\ job[j].kind = "waiter"
      BY DEF WaiterTurn, Is
    <3> QED BY <1>13, <3>1, <3>2, <3>3, <3>4 DEF Phases
  <2>3. OwnsClaim(j) <=> OwnerRec(Moved(j, p)) BY <2>2 DEF OwnsClaim, OwnerRec, Moved, Rec
  <2>4. Owners' = Owners BY <2>2, <2>3, OwnersSame
  <2> QED BY <2>1, <2>4 DEF ClaimStep, Settled
<1>14. ASSUME NEW j \in Jobs, BackgroundStale(j) PROVE ClaimStep
  <2>1. OwnsClaim(j) BY <1>14 DEF BackgroundStale, Is, OwnsClaim
  <2> QED BY <1>14, <2>1, ClaimRelease DEF BackgroundStale
<1>15. ASSUME NEW j \in Jobs, WriteFails(j) PROVE ClaimStep
  <2>1. OwnsClaim(j) BY <1>15 DEF WriteFails, OwnsClaim
  <2> QED BY <1>15, <2>1, ClaimRelease DEF WriteFails
<1>16. ASSUME NEW j \in Jobs, Commit(j) PROVE ClaimStep
  <2>1. Release(j) /\ inFlight' = inFlight
        /\ Publish(job[j].snap, "committed", job[j].kind \in {"background", "checkpoint"})
    BY <1>16 DEF Commit
  <2>2. OwnsClaim(j) <=> job[j].kind \in {"background", "checkpoint"}
    BY <1>16 DEF Commit, OwnsClaim
  <2>3. CASE OwnsClaim(j)
    <3>1. (job[j].kind \in {"background", "checkpoint"}) = TRUE BY <2>2, <2>3
    <3>2. Publish(job[j].snap, "committed", TRUE) BY <2>1, <3>1
    <3> QED BY <2>1, <2>3, <3>2, ClaimRelease
  <2>4. CASE ~OwnsClaim(j)
    <3>1. (job[j].kind \in {"background", "checkpoint"}) = FALSE BY <2>2, <2>4
    <3>2. Publish(job[j].snap, "committed", FALSE) BY <2>1, <3>1
    <3> QED BY <2>1, <2>4, <3>2, ClaimRelease
  <2> QED BY <2>3, <2>4
<1>17. ASSUME NEW j \in Jobs, RetrySuperseded(j) \/ TaskRun(j) PROVE ClaimStep
  <2>1. ~OwnsClaim(j) BY <1>17 DEF RetrySuperseded, TaskRun, Is, OwnsClaim
  <2>2. Release(j) /\ UNCHANGED <<done, inFlight>> BY <1>17 DEF RetrySuperseded, TaskRun
  <2> QED BY <2>1, <2>2, ClaimRelease
<1>18. ASSUME NEW j \in Jobs, FinalFails(j) PROVE ClaimStep
  BY <1>18, OwnersSame, OwnerFresh DEF FinalFails, Is, OwnsClaim, ClaimStep, Settled
<1>19. ASSUME NEW j \in Jobs, RetryFails(j) PROVE ClaimStep
  <2>1. ~OwnsClaim(j) /\ UNCHANGED <<done, inFlight>> BY <1>19 DEF RetryFails, Is, OwnsClaim
  <2>2. CASE Release(j) BY <2>1, <2>2, ClaimRelease
  <2>3. CASE Becomes(j, Rec("retry", "sleeping", job[j].snap, job[j].tries + 1))
    BY <2>1, <2>3, OwnersSame, OwnerFresh DEF ClaimStep, Settled
  <2> QED BY <1>19, <2>2, <2>3 DEF RetryFails
<1> QED BY <1>die, <1>1, <1>3, <1>4, <1>5, <1>6, <1>7, <1>8, <1>9, <1>10, <1>11, <1>12,
           <1>13,
           <1>14, <1>15, <1>16, <1>17, <1>18, <1>19
        DEF Next, Entity, Tick, Command, MainResumes, Task, Session, LeavesTasks

-----------------------------------------------------------------------------
(* The invariant and what follows from it.                                 *)

\* The initial state is well typed.
LEMMA InitTypes == Init => DataTypes
<1> SUFFICES ASSUME Init PROVE DataTypes OBVIOUS
<1>1. job \in [Jobs -> JobRecs] BY FreeTypes DEF Init
<1>2. conn \in [Conns -> {"out", "select", "waiting", "settled", "expired", "playing"}]
  BY DEF Init
<1>3. turn \in Seq(Jobs \cup {World}) /\ nextGen \in Nat \ {0} /\ done \subseteq Completions
  BY DEF Init
<1> QED BY <1>1, <1>2, <1>3 DEF Init, DataTypes

\* The invariant holds initially.
LEMMA InitInv == Init => SaveInv
BY InitTypes, InitShape, InitOrder, InitCount, InitClaim DEF SaveInv

\* Every step keeps the invariant.
LEMMA NextInv == SaveInv /\ [Next]_vars => SaveInv'
<1> SUFFICES ASSUME SaveInv, [Next]_vars PROVE SaveInv' OBVIOUS
<1>1. DataTypes' BY NextTypes DEF SaveInv, OrderInv
<1>2. TaskShape' BY NextShape DEF SaveInv
<1>3. OrderInv' BY <1>1, NextOrder, OrderStepInv DEF SaveInv
<1>4. CountInv' BY NextCount, CountStepInv DEF SaveInv
<1>5. ClaimOwned'
  <2>1. inFlight \in BOOLEAN BY DEF SaveInv, DataTypes
  <2> QED BY <2>1, NextClaim, ClaimStepInv DEF SaveInv
<1> QED BY <1>1, <1>2, <1>3, <1>4, <1>5 DEF SaveInv

\* SaveInv holds in every state the slot, its tasks and the world thread can
\* reach, whatever the number of tasks, connections and retries.
THEOREM SaveInvariant == Spec => []SaveInv
BY InitInv, NextInv, PTL DEF Spec

\* Every variable keeps its type; in particular the unsigned counter of
\* unfinished writes (Slot.outstanding), which is the number of spawned tasks
\* that have not released it, never underflows.
THEOREM TypeCorrect == Spec => []TypeOK
<1>1. SaveInv => TypeOK BY CountedFinite DEF SaveInv, CountInv, TypeOK
<1> QED BY <1>1, SaveInvariant, PTL

\* A snapshot or row write runs only under the character's turn, and what it
\* writes is newer than everything the slot has committed.
THEOREM WritersExclude == Spec => []WriterHoldsTurn
<1>1. SaveInv => WriterHoldsTurn BY DEF SaveInv, OrderInv
<1> QED BY <1>1, SaveInvariant, PTL

\* An older generation is never written over a newer one of the same slot.
THEOREM NeverOverwritten == Spec => NoStaleOverwrite
<1>1. SaveInv /\ SaveInv' /\ [Next]_vars =>
        [dbGen' < dbGen => \A j \in Jobs : job'[j].at \in {"none", "answered"}]_vars
  <2> SUFFICES ASSUME SaveInv, SaveInv', [Next]_vars, dbGen' < dbGen
               PROVE \A j \in Jobs : job'[j].at \in {"none", "answered"}
    OBVIOUS
  <2>1. OrderStep BY NextOrder DEF SaveInv
  <2>2. dbGen \in Nat /\ lastCommitted \in Nat /\ dbGen <= lastCommitted
    BY GenNats DEF SaveInv, OrderInv, GenOrder
  <2>3. dbGen' \in Nat /\ lastCommitted' \in Nat BY DEF SaveInv, DataTypes
  <2>4. ~(dbGen' = dbGen) BY <2>2, <2>3
  <2>5. StartsOver
    BY <2>1, <2>2, <2>3, <2>4 DEF OrderStep, Aside, Asks, Takes, Begins, Passes, Quits, GensKept
  <2> QED BY <2>5 DEF StartsOver
<1> QED BY <1>1, SaveInvariant, PTL DEF Spec, NoStaleOverwrite

\* The claim that keeps a second snapshot from carrying the same one-shot work
\* has exactly one owner while it is taken, and none while it is free.
THEOREM OneClaimOwner == Spec => []ClaimOwned
<1>1. SaveInv => ClaimOwned BY DEF SaveInv
<1> QED BY <1>1, SaveInvariant, PTL

-----------------------------------------------------------------------------
(* The versions: what is saved, and what the database holds.               *)

\* Nobody is in the world while a connection still holds a settled wait: the
\* barrier lets that one in whatever has happened since (login.rs, complete_login).
NoneOvertaken == body # "none" => \A c \in Conns : conn[c] # "settled"

NoSaves == \A j \in Jobs : ~IsSnapshot(j)
\* The character has left, or will not change any more.
Over == body = "none" \/ main \in {"flushing", "stopped"}
LastKinds == {"final", "retry"}
\* A failed save has left the one-shot work it carried to the entity.
Failed == \E c \in done : c.snap.marker /\ c.outcome = "failed" /\ c.snap.session = session
Pending == marker \/ Failed

\* Saves are of the session that is on, or was last.
OfSession == \A j \in Jobs : IsSnapshot(j) => job[j].snap.session = session
\* None is left when a login reads the row, or may be let in without waiting.
Barrier ==
    /\ main = "login" => body = "none" /\ NoSaves
    /\ body = "none" /\ (\E c \in Conns : conn[c] = "settled") => NoSaves
\* One connection plays; what awaits the turn does so for a character in the world.
Seats ==
    /\ main = "saving" => body # "none"
    /\ main = "chest" => body = "playing"
    /\ \A c \in Conns : conn[c] = "playing" => body = "playing"
    /\ \A c, d \in Conns : conn[c] = "playing" /\ conn[d] = "playing" => c = d
Doors == OfSession /\ Barrier /\ Seats

-----------------------------------------------------------------------------
(* What a step can do to the saves.                                        *)

Same(j) ==
    /\ IsSnapshot(j)' <=> IsSnapshot(j)
    /\ IsSnapshot(j) => /\ job'[j].snap = job[j].snap
                        /\ \/ job'[j].kind = job[j].kind
                           \/ job'[j].kind \in LastKinds /\ job[j].kind \in LastKinds
SavesKept == \A j \in Jobs : Same(j)
Taken(j) ==
    /\ ~IsSnapshot(j) /\ IsSnapshot(j)' /\ \A k \in Jobs : k = j \/ Same(k)
    /\ job'[j].snap.gen = nextGen /\ job'[j].snap.session = session
    /\ job'[j].snap.ver = ver'
Ended(j) == IsSnapshot(j) /\ ~IsSnapshot(j)' /\ \A k \in Jobs : k = j \/ Same(k)

SnapRec(r) == r.kind \in {"background", "checkpoint", "final", "retry"} /\ r.at # "answered"

\* A task that saves the same before and after, or nothing.
LEMMA SavesSame ==
    ASSUME DataTypes, NEW j \in Jobs, NEW r, Becomes(j, r), IsSnapshot(j) <=> SnapRec(r),
           IsSnapshot(j) => r.snap = job[j].snap
                            /\ (r.kind = job[j].kind
                                \/ (r.kind \in LastKinds /\ job[j].kind \in LastKinds))
    PROVE  SavesKept
<1>1. job'[j] = r /\ \A k \in Jobs \ {j} : job'[k] = job[k] BY BecomesFields
<1>2. IsSnapshot(j)' <=> SnapRec(r) BY <1>1 DEF IsSnapshot, SnapRec
<1>3. Same(j) BY <1>1, <1>2 DEF Same
<1>4. \A k \in Jobs \ {j} : Same(k) BY <1>1 DEF Same, IsSnapshot
<1> QED BY <1>3, <1>4 DEF SavesKept

\* Tasks that are left alone save the same.
LEMMA SavesLeft == job' = job => SavesKept
BY DEF SavesKept, Same, IsSnapshot

\* A task that gets a snapshot taken now.
LEMMA SaveNew ==
    ASSUME DataTypes, NEW j \in Jobs, NEW r, Becomes(j, r), ~IsSnapshot(j), SnapRec(r),
           r.snap.gen = nextGen, r.snap.session = session, r.snap.ver = ver'
    PROVE  Taken(j) /\ job'[j] = r
<1>1. job'[j] = r /\ \A k \in Jobs \ {j} : job'[k] = job[k] BY BecomesFields
<1>2. IsSnapshot(j)' BY <1>1 DEF IsSnapshot, SnapRec
<1>4. \A k \in Jobs \ {j} : Same(k) BY <1>1 DEF Same, IsSnapshot
<1> QED BY <1>1, <1>2, <1>4 DEF Taken

\* A save that is over.
LEMMA SaveOver ==
    ASSUME DataTypes, NEW j \in Jobs, Release(j), IsSnapshot(j)
    PROVE  Ended(j)
<1>1. PICK r \in {Moved(j, "answered"), FreeJob} : Becomes(j, r) BY DEF Release
<1>2. ~SnapRec(r) BY DEF Moved, Rec, FreeJob, SnapRec
<1>3. job'[j] = r /\ \A k \in Jobs \ {j} : job'[k] = job[k] BY <1>1, BecomesFields
<1>4. ~IsSnapshot(j)' BY <1>2, <1>3 DEF IsSnapshot, SnapRec
<1>5. \A k \in Jobs \ {j} : Same(k) BY <1>3 DEF Same, IsSnapshot
<1> QED BY <1>4, <1>5 DEF Ended

\* The records new tasks start with save something, or nothing.
LEMMA SnapFresh ==
    ASSUME NEW s, NEW t
    PROVE  /\ SnapRec(Rec("background", "spawned", s, t)) /\ SnapRec(Rec("final", "writing", s, t))
           /\ SnapRec(Rec("checkpoint", "writing", s, t)) /\ SnapRec(Rec("retry", "spawned", s, t))
           /\ SnapRec(Rec("retry", "sleeping", s, t)) /\ ~SnapRec(Rec("task", "queued", s, t))
           /\ ~SnapRec(Rec("waiter", "spawned", s, t)) /\ ~SnapRec(FreeJob)
           /\ \A k, p : Rec(k, p, s, t).snap = s /\ Rec(k, p, s, t).kind = k
BY DEF SnapRec, Rec, FreeJob

\* What a task saves was numbered, typed, and of a kind that saves.
LEMMA SnapshotJob ==
    ASSUME DataTypes, TaskShape, OrderInv, NEW j \in Jobs, IsSnapshot(j)
    PROVE  job[j].snap.gen \in Nat /\ job[j].snap.ver \in Nat /\ job[j].snap.gen < nextGen
<1>1. job[j].at # "none" BY DEF IsSnapshot, TaskShape, ShapeOf
<1> QED BY <1>1, JobFields DEF IsSnapshot, OrderInv, GenOrder, Numbered

\* Folding the completions in leaves what they ask of an entity in the world.
LEMMA FoldPending ==
    ASSUME body # "none", session' = session, marker' = MarkerAfter, Pending
    PROVE  Pending'
BY DEF MarkerAfter, Pending, Failed, Mine

\* So does leaving them where they are.
LEMMA LeftPending ==
    ASSUME session' = session, marker' = marker, done \subseteq done', Pending
    PROVE  Pending'
BY DEF Pending, Failed

-----------------------------------------------------------------------------
(* What a step can do to the versions.                                     *)

OneMore == ver' = clock' /\ clock' = clock + 1
Waits == body # "none" => (Pending => Pending')
\* Nobody is ahead in the queue for the turn.
Alone == TurnFree \/ (main = "saving" /\ HasTurn(World))
Halts == main' = "stopped" => main = "stopped" \/ lostSave' \/ NoSaves'

\* No save is taken, written or overtaken; the character may change, and ask.
Beside ==
    /\ SavesKept /\ UNCHANGED <<dbVer, lastCommitted, session>>
    /\ (body' # "none") = (body # "none") /\ Over' = Over /\ Halts
    /\ \/ UNCHANGED <<ver, clock>> /\ (lostSave => lostSave')
       \/ ~Over /\ OneMore /\ UNCHANGED lostSave
    /\ (asked' = asked /\ Waits) \/ (body # "none" /\ asked' = ver' /\ marker')
\* A save is taken of the state there is then.
TakesSave(j) ==
    /\ Taken(j) /\ body # "none" /\ ~Over /\ main' # "stopped"
    /\ UNCHANGED <<dbVer, lastCommitted, session, lostSave, asked>> /\ nextGen' = nextGen + 1
    /\ UNCHANGED <<ver, clock>> \/ (~Over' /\ OneMore)
    /\ Over' => job'[j].kind \in LastKinds /\ Alone
    /\ body' # "none" =>
          (Pending => Pending' \/ (job'[j].kind = "background" /\ job'[j].snap.marker))
\* One ends without being written: overtaken, failed, or given up on.
Drops(j) ==
    /\ Ended(j)
    /\ UNCHANGED <<dbVer, lastCommitted, session, ver, clock, asked, marker, body, main>>
    /\ done \subseteq done' /\ (lostSave => lostSave')
    /\ \/ job[j].snap.gen <= lastCommitted
       \/ /\ job[j].kind \notin LastKinds
          /\ \E c \in done' : c.snap = job[j].snap /\ c.outcome = "failed"
       \/ job[j].kind \in LastKinds /\ lostSave'
\* One is written.
Lands(j) ==
    /\ Ended(j) /\ job[j].snap.gen > lastCommitted
    /\ lastCommitted' = job[j].snap.gen /\ dbVer' = job[j].snap.ver
    /\ UNCHANGED <<session, ver, clock, asked, marker, body, main, lostSave>>
    /\ done \subseteq done'
\* The world thread writes the last one itself.
Stores ==
    /\ SavesKept /\ lastCommitted' = nextGen /\ dbVer' = ver /\ body # "none"
    /\ main' = "flushing" /\ Alone
    /\ UNCHANGED <<session, ver, clock, asked, body, lostSave>> /\ Waits
\* A row write overtakes all that was taken.
Overtakes ==
    /\ SavesKept /\ lastCommitted' = nextGen
    /\ UNCHANGED <<dbVer, session, ver, clock, asked, body, lostSave>> /\ Waits
    /\ Over' = Over /\ Halts
    /\ main = "chest" \/ \E j \in Jobs : job[j].kind = "task"
\* A login reads the row.
Loads ==
    /\ NoSaves /\ NoSaves' /\ body = "none" /\ body' = "playing" /\ main' = "idle"
    /\ UNCHANGED <<dbVer, clock, lastCommitted>> /\ ver' = dbVer /\ asked' = dbVer
    /\ session' = session + 1 /\ ~lostSave'
\* An unused slot is forgotten.
Forgets ==
    /\ NoSaves /\ NoSaves' /\ Waits
    /\ UNCHANGED <<dbVer, session, ver, clock, asked, body, main, lostSave>>
\* The process starts over.
Reboots ==
    /\ NoSaves' /\ body' = "none" /\ UNCHANGED <<dbVer, session, clock>> /\ ~lostSave'
    /\ \A j \in Jobs : job'[j].kind # "task"
    /\ ver' = IF main = "stopped" /\ ~lostSave THEN ver ELSE dbVer

FlowStep ==
    \/ Beside \/ Stores \/ Overtakes \/ Loads \/ Forgets \/ Reboots
    \/ \E j \in Jobs : TakesSave(j) \/ Drops(j) \/ Lands(j)

\* start_save takes a snapshot, or leaves the saves alone.
LEMMA FlowStartSave ==
    ASSUME DataTypes, NEW j \in Jobs, ~IsSnapshot(j), NEW retries \in Nat, StartSave(j, retries),
           body # "none", main = "idle",
           UNCHANGED <<main, lastCommitted, body, ver, connVars, dbVars, historyVars, lostSave>>
    PROVE  FlowStep
<1> USE DEF connVars, dbVars, historyVars
<1>0. ~Over /\ ~Over' BY DEF Over
<1>1. CASE /\ Becomes(j, Rec("checkpoint", "writing", SnapshotWith(FALSE, DeathAfter), 1))
           /\ nextGen' = nextGen + 1 /\ marker' = MarkerAfter
  <2> DEFINE s == SnapshotWith(FALSE, DeathAfter)
  <2>1. s.gen = nextGen /\ s.session = session /\ s.ver = ver' BY DEF SnapshotWith, SnapshotOf
  <2> HIDE DEF s
  <2>4. Becomes(j, Rec("checkpoint", "writing", s, 1)) BY <1>1 DEF s
  <2>2. Taken(j) BY <2>4, <2>1, SaveNew, SnapFresh
  <2>3. Pending => Pending' BY <1>1, FoldPending
  <2> QED BY <1>0, <1>1, <2>2, <2>3 DEF FlowStep, TakesSave
<1>2. CASE /\ Becomes(j, IF retries > 0 THEN Rec("waiter", "spawned", WaiterSnap, retries)
                                        ELSE FreeJob)
           /\ ApplyCompletions \/ UNCHANGED <<done, marker>>
  <2>1. SavesKept BY <1>2, SavesSame, SnapFresh
  <2>2. Pending => Pending' BY <1>2, FoldPending, LeftPending DEF ApplyCompletions
  <2>3. (body' # "none") = (body # "none") /\ Over' = Over /\ Halts BY DEF Over, Halts
  <2> QED BY <1>0, <2>1, <2>2, <2>3 DEF FlowStep, Beside, Waits
<1> QED BY <1>1, <1>2 DEF StartSave

\* retire_player takes the last snapshot.
LEMMA FlowRetire ==
    ASSUME DataTypes, NEW j \in Jobs, Retire(j), body # "none", main = "idle",
           UNCHANGED <<main, lastCommitted, ver, dbVars, historyVars, lostSave>>
    PROVE  FlowStep
<1> USE DEF dbVars, historyVars
<1> DEFINE s == SnapshotWith(FALSE, DeathAfter)
<1>1. s.gen = nextGen /\ s.session = session /\ s.ver = ver' BY DEF SnapshotWith, SnapshotOf
<1>2. ~IsSnapshot(j) BY DEF Retire, Free, IsSnapshot
<1>3. Becomes(j, Rec("final", "writing", s, 0)) BY DEF Retire
<1> HIDE DEF s
<1>4. Taken(j) /\ job'[j] = Rec("final", "writing", s, 0) BY <1>1, <1>2, <1>3, SaveNew, SnapFresh
<1>5. job'[j].kind = "final" BY <1>4 DEF Rec
<1> QED BY <1>4, <1>5 DEF Retire, FlowStep, TakesSave, Over, LastKinds, Alone

\* A background save takes a snapshot, with the marker it consumes.
LEMMA FlowBackground ==
    ASSUME DataTypes, NEW j \in Jobs, NEW m \in BOOLEAN, NEW d \in BOOLEAN,
           SpawnBackground(j, ver', m, d), body # "none", main = "idle", Pending => m \/ Pending',
           UNCHANGED <<main, lastCommitted, body, dbVars, session, asked, lostSave>>,
           UNCHANGED <<ver, clock>> \/ OneMore
    PROVE  FlowStep
<1> USE DEF dbVars
<1> DEFINE s == SnapshotOf(ver', m, d)
<1>1. s.gen = nextGen /\ s.session = session /\ s.ver = ver' /\ s.marker = m BY DEF SnapshotOf
<1>2. ~IsSnapshot(j) BY DEF SpawnBackground, Free, IsSnapshot
<1>3. Becomes(j, Rec("background", "spawned", s, 0)) BY DEF SpawnBackground
<1>4. Taken(j) /\ job'[j] = Rec("background", "spawned", s, 0)
  BY <1>1, <1>2, <1>3, SaveNew, SnapFresh
<1>5. job'[j].kind = "background" /\ job'[j].snap.marker = m BY <1>1, <1>4 DEF Rec
<1>6. ~Over /\ ~Over' BY DEF Over
<1> QED BY <1>4, <1>5, <1>6 DEF SpawnBackground, FlowStep, TakesSave

\* Every action is one of those steps.
LEMMA NextFlow ==
    ASSUME SaveInv, Doors, [Next]_vars
    PROVE  FlowStep
<1> USE DEF slotVars, entityVars, connVars, dbVars, historyVars
<1>0. DataTypes /\ TaskShape /\ OrderInv BY DEF SaveInv
<1>n. nextGen \in Nat /\ lastCommitted \in Nat /\ nextGen > lastCommitted
  BY <1>0, GenNats DEF OrderInv, GenOrder
<1>m. MarkerAfter \in BOOLEAN /\ DeathAfter \in BOOLEAN /\ marker \in BOOLEAN
      /\ pendingDeath \in BOOLEAN
  BY <1>0, AfterTypes DEF DataTypes
<1>f. \A j \in Jobs : Free(j) => ~IsSnapshot(j) BY DEF Free, IsSnapshot
<1>1. ASSUME Play PROVE FlowStep
  <2>1. SavesKept BY <1>1, SavesLeft DEF Play
  <2>2. ~Over /\ ~Over' /\ OneMore BY <1>1 DEF Play, Over, Idle, InWorld, OneMore
  <2>3. Waits BY <1>1, LeftPending DEF Play, Waits
  <2>4. (body' # "none") = (body # "none") /\ Over' = Over /\ Halts BY <1>1 DEF Play, Over, Halts
  <2> QED BY <1>1, <2>1, <2>2, <2>3, <2>4 DEF Play, FlowStep, Beside
<1>2. ASSUME AskSave PROVE FlowStep
  <2>1. SavesKept BY <1>2, SavesLeft DEF AskSave
  <2>2. (body' # "none") = (body # "none") /\ Over' = Over /\ Halts /\ body # "none"
    BY <1>2 DEF AskSave, Over, Halts, InWorld
  <2> QED BY <1>2, <2>1, <2>2 DEF AskSave, FlowStep, Beside
<1>3. ASSUME Die PROVE FlowStep
  <2>1. body # "none" /\ main = "idle" /\ OneMore
        /\ UNCHANGED <<main, lastCommitted, body, dbVars, session, lostSave, done>>
    BY <1>3 DEF Die, Idle, InWorld, OneMore
  <2>2. CASE UNCHANGED asked /\ \E j \in Jobs : SpawnBackground(j, clock + 1, marker, TRUE)
    <3>1. PICK j \in Jobs : SpawnBackground(j, clock + 1, marker, TRUE) BY <2>2
    <3>2. ver' = clock + 1 BY <1>3 DEF Die
    <3>3. SpawnBackground(j, ver', marker, TRUE) BY <3>1, <3>2
    <3>4. Pending => marker \/ Pending' BY <2>1 DEF Pending, Failed
    <3> QED BY <1>0, <1>m, <2>1, <2>2, <3>3, <3>4, FlowBackground
  <2>3. CASE marker' = TRUE /\ asked' = clock + 1 /\ UNCHANGED job
    <3>1. SavesKept BY <2>3, SavesLeft
    <3>2. asked' = ver' BY <1>3, <2>3 DEF Die
    <3>3. (body' # "none") = (body # "none") /\ Over' = Over /\ Halts /\ ~Over
      BY <2>1 DEF Over, Halts
    <3> QED BY <2>1, <2>3, <3>1, <3>2, <3>3 DEF FlowStep, Beside
  <2> QED BY <1>3, <2>2, <2>3 DEF Die
<1>4. ASSUME AutosaveScan PROVE FlowStep
  <2>1. SavesKept BY <1>4, SavesLeft DEF AutosaveScan
  <2>2. Waits BY <1>4, FoldPending DEF AutosaveScan, ApplyCompletions, Waits
  <2>3. (body' # "none") = (body # "none") /\ Over' = Over /\ Halts
    BY <1>4 DEF AutosaveScan, Over, Halts
  <2>4. CASE Unreferenced
    <3>1. NoSaves BY <2>4 DEF Unreferenced, NoSaves, IsSnapshot, Free
    <3>2. NoSaves' BY <2>1, <3>1 DEF NoSaves, SavesKept, Same
    <3> QED BY <1>4, <2>2, <3>1, <3>2 DEF AutosaveScan, FlowStep, Forgets
  <2>5. CASE ~Unreferenced
    BY <1>4, <2>1, <2>2, <2>3, <2>5 DEF AutosaveScan, FlowStep, Beside
  <2> QED BY <2>4, <2>5
<1>5. ASSUME NEW j \in Jobs, AutosaveDue(j) PROVE FlowStep
  <2>1. body # "none" /\ main = "idle" /\ UNCHANGED <<ver, clock>>
        /\ UNCHANGED <<main, lastCommitted, body, dbVars, session, asked, lostSave>>
        /\ SpawnBackground(j, ver', MarkerAfter, DeathAfter)
    BY <1>5 DEF AutosaveDue, Idle, InWorld
  <2>2. Pending => MarkerAfter \/ Pending'
    BY <2>1 DEF Pending, Failed, MarkerAfter, Mine
  <2> QED BY <1>0, <1>m, <2>1, <2>2, FlowBackground
<1>6. ASSUME NEW j \in Jobs, DrainPendingSave(j) PROVE FlowStep
  <2>1. body # "none" /\ main = "idle" /\ UNCHANGED <<ver, clock>>
        /\ UNCHANGED <<main, lastCommitted, body, dbVars, session, asked, lostSave>>
        /\ SpawnBackground(j, ver', TRUE, pendingDeath)
    BY <1>6 DEF DrainPendingSave, Idle
  <2> QED BY <1>0, <1>m, <2>1, FlowBackground
<1>7. ASSUME NEW j \in Jobs, DrainRetiring(j) \/ DrainLinkdead(j)
                              \/ (\E c \in Conns : DisconnectRetire(c, j))
      PROVE FlowStep
  <2>1. Retire(j) /\ main = "idle" /\ body # "none"
        /\ UNCHANGED <<main, lastCommitted, ver, dbVars, historyVars, lostSave>>
    BY <1>7 DEF DrainRetiring, DrainLinkdead, DisconnectRetire, Idle, Doors, Seats
  <2> QED BY <1>0, <2>1, FlowRetire
<1>8. ASSUME NEW j \in Jobs, SaveCommand(j) PROVE FlowStep
  <2>1. body # "none" /\ main = "idle" /\ ~IsSnapshot(j) /\ StartSave(j, SaveTurnRetries)
        /\ UNCHANGED <<main, lastCommitted, body, ver, connVars, dbVars, historyVars, lostSave>>
    BY <1>8, <1>f DEF SaveCommand, Idle
  <2> QED BY <1>0, <2>1, FlowStartSave, ConstantsAssumption
<1>9. ASSUME NEW j \in Jobs, SaveRetry(j) PROVE FlowStep
  <2>1. job[j].tries - 1 \in Nat
    BY <1>0, <1>9, JobFields DEF SaveRetry, Is, TaskShape, ShapeOf
  <2>2. body # "none" /\ main = "idle" /\ ~IsSnapshot(j) /\ StartSave(j, job[j].tries - 1)
        /\ UNCHANGED <<main, lastCommitted, body, ver, connVars, dbVars, historyVars, lostSave>>
    BY <1>9 DEF SaveRetry, Idle, Is, IsSnapshot
  <2> QED BY <1>0, <2>1, <2>2, FlowStartSave
<1>10. ASSUME NEW j \in Jobs, SaveAnswered(j) \/ SaveDropped(j) PROVE FlowStep
  <2>1. Becomes(j, FreeJob) /\ ~IsSnapshot(j)
        /\ UNCHANGED <<main, lastCommitted, body, ver, dbVars, historyVars, lostSave>>
    BY <1>10 DEF SaveAnswered, SaveDropped, Is, IsSnapshot
  <2>2. SavesKept BY <1>0, <2>1, SavesSame, SnapFresh
  <2>3. (body # "none" /\ ApplyCompletions) \/ UNCHANGED <<done, marker>>
    BY <1>10 DEF SaveAnswered, SaveDropped
  <2>4. Waits BY <2>1, <2>3, FoldPending, LeftPending DEF ApplyCompletions, Waits
  <2>5. (body' # "none") = (body # "none") /\ Over' = Over /\ Halts BY <2>1 DEF Over, Halts
  <2> QED BY <2>1, <2>2, <2>4, <2>5 DEF FlowStep, Beside
<1>11. ASSUME NEW j \in Jobs, SaveAbandoned(j) PROVE FlowStep
  <2>1. UNCHANGED <<main, slotVars, entityVars, dbVars, historyVars, lostSave>>
    BY <1>11 DEF SaveAbandoned
  <2>2. SavesKept
    <3>1. CASE job[j].kind = "waiter" /\ Becomes(j, FreeJob)
      BY <1>0, <3>1, SavesSame, SnapFresh DEF IsSnapshot
    <3>2. CASE Is(j, "checkpoint", "writing")
               /\ Becomes(j, Rec("checkpoint", "writing", job[j].snap, 0))
      BY <1>0, <3>2, SavesSame, SnapFresh DEF IsSnapshot, Is
    <3> QED BY <1>11, <3>1, <3>2 DEF SaveAbandoned, Is
  <2>3. Waits BY <2>1, LeftPending DEF Waits
  <2>4. (body' # "none") = (body # "none") /\ Over' = Over /\ Halts BY <2>1 DEF Over, Halts
  <2> QED BY <2>1, <2>2, <2>3, <2>4 DEF FlowStep, Beside
<1>12. ASSUME NEW j \in Jobs, SpawnTask(j) PROVE FlowStep
  <2>1. UNCHANGED <<main, lastCommitted, done, entityVars, dbVars, historyVars, lostSave>>
    BY <1>12 DEF SpawnTask
  <2>2. SavesKept BY <1>0, <1>f, <1>12, SavesSame, SnapFresh DEF SpawnTask
  <2>3. Waits BY <2>1, LeftPending DEF Waits
  <2>4. (body' # "none") = (body # "none") /\ Over' = Over /\ Halts BY <2>1 DEF Over, Halts
  <2> QED BY <2>1, <2>2, <2>3, <2>4 DEF FlowStep, Beside
<1>13. ASSUME NEW j \in Jobs, JoinTurn(j) \/ StartWrite(j) \/ RetryWake(j) \/ WaiterTurn(j)
       PROVE FlowStep
  <2>1. UNCHANGED <<main, slotVars, entityVars, dbVars, historyVars, lostSave>>
    BY <1>13 DEF JoinTurn, StartWrite, RetryWake, WaiterTurn
  <2>2. PICK p \in Phases : /\ Becomes(j, Moved(j, p))
                            /\ job[j].at # "answered" /\ (p = "answered" => job[j].kind = "waiter")
    <3>1. JoinTurn(j) => Becomes(j, Moved(j, "queued")) /\ job[j].at # "answered"
      BY DEF JoinTurn
    <3>2. StartWrite(j) => Becomes(j, Moved(j, "writing")) /\ job[j].at # "answered"
      BY DEF StartWrite
    <3>3. RetryWake(j) => Becomes(j, Moved(j, "spawned")) /\ job[j].at # "answered"
      BY DEF RetryWake, Is
    <3>4. WaiterTurn(j) => Becomes(j, Moved(j, "answered")) /\ job[j].at # "answered"
                           /\ job[j].kind = "waiter"
      BY DEF WaiterTurn, Is
    <3> QED BY <1>13, <3>1, <3>2, <3>3, <3>4 DEF Phases
  <2>3. (IsSnapshot(j) <=> SnapRec(Moved(j, p))) /\ Moved(j, p).snap = job[j].snap
        /\ Moved(j, p).kind = job[j].kind
    BY <2>2 DEF IsSnapshot, SnapRec, Moved, Rec
  <2>4. SavesKept BY <1>0, <2>2, <2>3, SavesSame
  <2>5. Waits BY <2>1, LeftPending DEF Waits
  <2>6. (body' # "none") = (body # "none") /\ Over' = Over /\ Halts BY <2>1 DEF Over, Halts
  <2> QED BY <2>1, <2>4, <2>5, <2>6 DEF FlowStep, Beside
<1>14. ASSUME NEW j \in Jobs, BackgroundStale(j) PROVE FlowStep
  <2>1. Ended(j) BY <1>0, <1>14, SaveOver DEF BackgroundStale, Is, IsSnapshot
  <2> QED BY <1>14, <2>1 DEF BackgroundStale, Publish, FlowStep, Drops
<1>15. ASSUME NEW j \in Jobs, WriteFails(j) PROVE FlowStep
  <2>1. Ended(j) BY <1>0, <1>15, SaveOver DEF WriteFails, IsSnapshot
  <2> DEFINE c == [snap |-> job[j].snap, outcome |-> "failed", owns |-> TRUE]
  <2>4. done' = done \cup {c} BY <1>15 DEF WriteFails, Publish
  <2>5. c.snap = job[j].snap /\ c.outcome = "failed" OBVIOUS
  <2>6. job[j].kind \notin LastKinds BY <1>15 DEF WriteFails, LastKinds
  <2> HIDE DEF c
  <2>2. /\ done \subseteq done' /\ job[j].kind \notin LastKinds
        /\ \E d \in done' : d.snap = job[j].snap /\ d.outcome = "failed"
    BY <2>4, <2>5, <2>6
  <2>3. UNCHANGED <<main, lastCommitted, entityVars, dbVars, historyVars, lostSave>>
    BY <1>15 DEF WriteFails
  <2> QED BY <2>1, <2>2, <2>3 DEF FlowStep, Drops
<1>16. ASSUME NEW j \in Jobs, RetrySuperseded(j) PROVE FlowStep
  <2>1. Ended(j) BY <1>0, <1>16, SaveOver DEF RetrySuperseded, Is, IsSnapshot
  <2> QED BY <1>16, <2>1 DEF RetrySuperseded, FlowStep, Drops
<1>17. ASSUME NEW j \in Jobs, RetryFails(j) PROVE FlowStep
  <2>1. UNCHANGED <<main, lastCommitted, done, entityVars, dbVars, historyVars>>
        /\ IsSnapshot(j) /\ job[j].kind = "retry"
    BY <1>17 DEF RetryFails, Is, IsSnapshot
  <2>2. CASE Release(j) /\ lostSave' = TRUE
    <3>1. Ended(j) BY <1>0, <2>1, <2>2, SaveOver
    <3> QED BY <2>1, <2>2, <3>1 DEF FlowStep, Drops, LastKinds
  <2>3. CASE /\ Becomes(j, Rec("retry", "sleeping", job[j].snap, job[j].tries + 1))
             /\ UNCHANGED lostSave
    <3>1. SavesKept BY <1>0, <2>1, <2>3, SavesSame, SnapFresh DEF IsSnapshot
    <3>2. Waits BY <2>1, LeftPending DEF Waits
    <3>3. (body' # "none") = (body # "none") /\ Over' = Over /\ Halts BY <2>1 DEF Over, Halts
    <3> QED BY <2>1, <2>3, <3>1, <3>2, <3>3 DEF FlowStep, Beside
  <2> QED BY <1>17, <2>2, <2>3 DEF RetryFails
<1>18. ASSUME NEW j \in Jobs, FinalFails(j) PROVE FlowStep
  <2>1. UNCHANGED <<main, slotVars, entityVars, dbVars, historyVars, lostSave>>
    BY <1>18 DEF FinalFails
  <2>2. SavesKept BY <1>0, <1>18, SavesSame, SnapFresh DEF FinalFails, Is, IsSnapshot, LastKinds
  <2>3. Waits BY <2>1, LeftPending DEF Waits
  <2>4. (body' # "none") = (body # "none") /\ Over' = Over /\ Halts BY <2>1 DEF Over, Halts
  <2> QED BY <2>1, <2>2, <2>3, <2>4 DEF FlowStep, Beside
<1>19. ASSUME NEW j \in Jobs, Commit(j) PROVE FlowStep
  <2>1. IsSnapshot(j)
    BY <1>0, <1>19 DEF Commit, IsSnapshot, TaskShape, ShapeOf
  <2>2. Ended(j) BY <1>0, <1>19, <2>1, SaveOver DEF Commit
  <2>3. job[j].snap.gen > lastCommitted
    BY <1>0, <1>19 DEF Commit, OrderInv, WriterHoldsTurn
  <2> QED BY <1>19, <2>2, <2>3 DEF Commit, Store, Publish, FlowStep, Lands
<1>20. ASSUME NEW j \in Jobs, TaskRun(j) PROVE FlowStep
  <2>1. UNCHANGED <<main, done, entityVars, connVars, dbVer, historyVars, lostSave>>
        /\ job[j].kind = "task" /\ Release(j)
    BY <1>20 DEF TaskRun, Is
  <2>2. PICK r \in {Moved(j, "answered"), FreeJob} : Becomes(j, r) BY <2>1 DEF Release
  <2>3. ~SnapRec(r) BY DEF Moved, Rec, FreeJob, SnapRec
  <2>4. SavesKept BY <1>0, <2>1, <2>2, <2>3, SavesSame DEF IsSnapshot
  <2>5. Waits BY <2>1, LeftPending DEF Waits
  <2>6. (body' # "none") = (body # "none") /\ Over' = Over /\ Halts BY <2>1 DEF Over, Halts
  <2>7. CASE Supersede
    <3>1. lastCommitted' = nextGen BY <1>n, <2>7 DEF Supersede
    <3> QED BY <2>1, <2>4, <2>5, <2>6, <3>1 DEF FlowStep, Overtakes
  <2>8. CASE UNCHANGED <<nextGen, lastCommitted, dbGen>>
    BY <2>1, <2>4, <2>5, <2>6, <2>8 DEF FlowStep, Beside
  <2> QED BY <1>20, <2>7, <2>8 DEF TaskRun
<1>21. ASSUME ChestDone PROVE FlowStep
  <2>1. UNCHANGED <<job, body, ver, connVars, dbVer, historyVars, lostSave>> /\ ApplyCompletions
        /\ main = "chest" /\ main' = "idle"
    BY <1>21 DEF ChestDone
  <2>2. SavesKept BY <2>1, SavesLeft
  <2>3. Waits BY <2>1, FoldPending DEF ApplyCompletions, Waits
  <2>4. (body' # "none") = (body # "none") /\ Over' = Over /\ Halts BY <2>1 DEF Over, Halts
  <2>5. CASE Supersede
    <3>1. lastCommitted' = nextGen BY <1>n, <2>5 DEF Supersede
    <3> QED BY <2>1, <2>2, <2>3, <2>4, <3>1 DEF FlowStep, Overtakes
  <2>6. CASE UNCHANGED <<nextGen, lastCommitted, dbGen>>
    BY <2>1, <2>2, <2>3, <2>4, <2>6 DEF FlowStep, Beside
  <2> QED BY <1>21, <2>5, <2>6 DEF ChestDone
<1>22. ASSUME LoginLoads PROVE FlowStep
  <2>1. NoSaves /\ body = "none" BY <1>22 DEF LoginLoads, Doors, Barrier
  <2>2. NoSaves' BY <1>22, <2>1 DEF LoginLoads, NoSaves, IsSnapshot
  <2> QED BY <1>22, <2>1, <2>2 DEF LoginLoads, FlowStep, Loads
<1>23. ASSUME ShutdownSave PROVE FlowStep
  <2> DEFINE s == SnapshotWith(FALSE, DeathAfter)
  <2>1. /\ body # "none" /\ main = "saving" /\ main' = "flushing" /\ nextGen' = nextGen + 1
        /\ UNCHANGED <<body, ver, connVars, historyVars, lostSave>> /\ marker' = MarkerAfter
        /\ Alone
    BY <1>23 DEF ShutdownSave, Doors, Seats, Alone
  <2>2. s.gen = nextGen /\ s.session = session /\ s.ver = ver' /\ s.ver = ver
    BY <2>1 DEF SnapshotWith, SnapshotOf
  <2>3. Pending => Pending' BY <2>1, FoldPending
  <2>4. ~Over BY <2>1 DEF Over
  <2>5. CASE Store(s) /\ lastCommitted' = s.gen /\ UNCHANGED job
    <3>1. SavesKept BY <2>5, SavesLeft
    <3>2. lastCommitted' = nextGen /\ dbVer' = ver BY <2>2, <2>5 DEF Store
    <3> QED BY <2>1, <2>3, <3>1, <3>2 DEF FlowStep, Stores, Waits
  <2>6. CASE /\ \E j \in Jobs : Free(j) /\ Becomes(j, Rec("retry", "spawned", s, 0))
             /\ UNCHANGED <<lastCommitted, dbVars>>
    <3>1. PICK j \in Jobs : Free(j) /\ Becomes(j, Rec("retry", "spawned", s, 0)) BY <2>6
    <3> HIDE DEF s
    <3>2. ~IsSnapshot(j) BY <1>f, <3>1
    <3>3. Taken(j) /\ job'[j] = Rec("retry", "spawned", s, 0)
      BY <1>0, <2>2, <3>1, <3>2, SaveNew, SnapFresh
    <3>4. job'[j].kind \in LastKinds BY <3>3 DEF Rec, LastKinds
    <3> QED BY <2>1, <2>3, <2>4, <2>6, <3>3, <3>4 DEF FlowStep, TakesSave
  <2> QED BY <1>23, <2>5, <2>6 DEF ShutdownSave
<1>24. ASSUME Restart PROVE FlowStep
  <2>1. NoSaves' BY <1>24 DEF Restart, NoSaves, IsSnapshot, FreeJob
  <2>2. \A j \in Jobs : job'[j].kind # "task" BY <1>24 DEF Restart, FreeJob
  <2> QED BY <1>24, <2>1, <2>2 DEF Restart, FlowStep, Reboots
<1>25. ASSUME \/ ChestBegin \/ LoginRefused \/ FlushTimeout \/ Shutdown
              \/ \E c \in Conns : \/ Connect(c) \/ CompleteLogin(c) \/ FinishSaveWait(c)
                                  \/ HangUp(c) \/ DisconnectBusy(c) \/ DisconnectLinkdead(c)
                                  \/ WaitEnds(c)
              \/ UNCHANGED vars
       PROVE FlowStep
  <2>1. UNCHANGED <<job, lastCommitted, done, marker, ver, dbVer, clock, session, asked>>
        /\ (lostSave => lostSave')
    BY <1>25 DEF ChestBegin, LoginRefused, FlushTimeout, Shutdown, Connect, CompleteLogin,
       FinishSaveWait, HangUp, DisconnectBusy, DisconnectLinkdead, WaitEnds, vars
  <2>2. (body' # "none") = (body # "none")
    BY <1>25 DEF ChestBegin, LoginRefused, FlushTimeout, Shutdown, Connect, CompleteLogin,
       FinishSaveWait, HangUp, DisconnectBusy, DisconnectLinkdead, WaitEnds, vars,
       Takeover, BeginLoad, Doors, Barrier, Seats
  <2>3. Over' = Over /\ Halts
    BY <1>25, <2>2 DEF ChestBegin, LoginRefused, FlushTimeout, Shutdown, Connect, CompleteLogin,
       FinishSaveWait, HangUp, DisconnectBusy, DisconnectLinkdead, WaitEnds, vars,
       Takeover, BeginLoad, Over, Halts, Idle
  <2>4. SavesKept BY <2>1, SavesLeft
  <2>5. Waits BY <2>1, LeftPending DEF Waits
  <2> QED BY <2>1, <2>2, <2>3, <2>4, <2>5 DEF FlowStep, Beside
<1>26. ASSUME FlushDone PROVE FlowStep
  <2>1. SavesKept BY <1>26, SavesLeft DEF FlushDone
  <2>2. Waits BY <1>26, FoldPending DEF FlushDone, ApplyCompletions, Waits
  <2>4. NoSaves' BY <1>26 DEF FlushDone, NoSaves, IsSnapshot, Free
  <2>3. (body' # "none") = (body # "none") /\ Over' = Over /\ Halts
    BY <1>26, <2>4 DEF FlushDone, Over, Halts
  <2> QED BY <1>26, <2>1, <2>2, <2>3 DEF FlushDone, FlowStep, Beside
<1> QED BY <1>1, <1>2, <1>3, <1>4, <1>5, <1>6, <1>7, <1>8, <1>9, <1>10, <1>11, <1>12, <1>13,
           <1>14, <1>15, <1>16, <1>17, <1>18, <1>19, <1>20, <1>21, <1>22, <1>23, <1>24, <1>25,
           <1>26
        DEF Next, Entity, Tick, Command, MainResumes, Task, Session

-----------------------------------------------------------------------------
(* The saves in the order of the versions.                                 *)

\* Older generations carry older states; none newer than the character's, and
\* none that may still be written is older than the stored one.
Versions ==
    /\ dbVer <= ver /\ ver <= clock
    /\ \A j \in Jobs : IsSnapshot(j) =>
          /\ job[j].snap.ver <= ver
          /\ job[j].snap.gen > lastCommitted => dbVer <= job[j].snap.ver
    /\ \A j, k \in Jobs : IsSnapshot(j) /\ IsSnapshot(k) /\ job[j].snap.gen <= job[k].snap.gen
          => job[j].snap.ver <= job[k].snap.ver

\* Who has left is stored, will be, or was given up on with an error.
LastSave(j) ==
    /\ IsSnapshot(j) /\ job[j].kind \in LastKinds
    /\ job[j].snap.gen > lastCommitted /\ job[j].snap.ver = ver
Last == Over => dbVer = ver \/ lostSave \/ \E j \in Jobs : LastSave(j)
\* A stopped server has no save left, unless it said so.
Halted == main = "stopped" => lostSave \/ NoSaves
StoredAtLast == Last /\ Halted

\* An overtaken save is not missed.
Caught ==
    \A j \in Jobs : IsSnapshot(j) /\ job[j].snap.gen <= lastCommitted
                        => job[j].snap.ver <= dbVer
\* What was asked to be saved is, or the request has not been met.
Carries(j) ==
    /\ IsSnapshot(j) /\ job[j].kind = "background"
    /\ job[j].snap.marker /\ job[j].snap.ver >= asked
Asked ==
    body # "none" => /\ asked <= ver
                     /\ dbVer >= asked \/ Pending \/ \E j \in Jobs : Carries(j)

\* Numbers, and what is known of every save.
VersionNats ==
    /\ ver \in Nat /\ dbVer \in Nat /\ clock \in Nat /\ asked \in Nat
    /\ lastCommitted \in Nat /\ nextGen \in Nat /\ lastCommitted < nextGen
    /\ \A j \in Jobs : IsSnapshot(j) =>
          /\ job[j].snap.gen \in Nat /\ job[j].snap.ver \in Nat
          /\ job[j].snap.gen < nextGen

\* They follow from the types, and from the order of the generations.
LEMMA VersionTypes == SaveInv => VersionNats
<1> SUFFICES ASSUME SaveInv PROVE VersionNats OBVIOUS
<1>1. DataTypes /\ TaskShape /\ OrderInv BY DEF SaveInv
<1> QED BY <1>1, SnapshotJob DEF DataTypes, OrderInv, GenOrder, VersionNats

\* Initially there is one version and no save.
LEMMA InitVersions == Init => Versions /\ NoSaves
BY DEF Init, Versions, NoSaves, IsSnapshot, FreeJob

\* Without saves the order of the versions is that of three numbers.
LEMMA VersionsIdle ==
    ASSUME NoSaves, dbVer <= ver, ver <= clock PROVE Versions
BY DEF NoSaves, Versions

\* Every step keeps the order of the versions.
LEMMA NextVersions ==
    ASSUME SaveInv, SaveInv', Versions, FlowStep
    PROVE  Versions'
<1> USE DEF VersionNats
<1>t. VersionNats BY VersionTypes
<1>u. VersionNats' BY VersionTypes, PTL
<1>1. ASSUME Beside PROVE Versions'
  BY <1>1, <1>t, <1>u DEF Beside, Versions, SavesKept, Same, OneMore
<1>2. ASSUME Stores PROVE Versions'
  BY <1>2, <1>t, <1>u DEF Stores, Versions, SavesKept, Same
<1>3. ASSUME Overtakes PROVE Versions'
  BY <1>3, <1>t, <1>u DEF Overtakes, Versions, SavesKept, Same
<1>4. ASSUME Loads PROVE Versions'
  BY <1>4, <1>t, <1>u DEF Loads, Versions, NoSaves
<1>5. ASSUME Forgets PROVE Versions'
  BY <1>5, <1>t, <1>u DEF Forgets, Versions, NoSaves
<1>6. ASSUME Reboots PROVE Versions'
  BY <1>6, <1>t, <1>u DEF Reboots, Versions, NoSaves
<1>7. ASSUME NEW j \in Jobs, TakesSave(j) PROVE Versions'
  BY <1>7, <1>t, <1>u DEF TakesSave, Taken, Versions, Same, OneMore
<1>8. ASSUME NEW j \in Jobs, Drops(j) PROVE Versions'
  BY <1>8, <1>t, <1>u DEF Drops, Ended, Versions, Same
<1>9. ASSUME NEW j \in Jobs, Lands(j) PROVE Versions'
  BY <1>9, <1>t, <1>u DEF Lands, Ended, Versions, Same
<1> QED BY <1>1, <1>2, <1>3, <1>4, <1>5, <1>6, <1>7, <1>8, <1>9 DEF FlowStep

\* Unless a row write comes after the exit, the last state is stored or on its way.
LEMMA NextStored ==
    ASSUME SaveInv, SaveInv', Versions, StoredAtLast, FlowStep, Overtakes => ~Over
    PROVE  StoredAtLast'
<1> USE DEF VersionNats
<1>t. VersionNats BY VersionTypes
<1>s. Last /\ Halted BY DEF StoredAtLast
<1>1. ASSUME Beside PROVE Last'
  <2>1. CASE Over
    <3>1. \A j \in Jobs : LastSave(j) => LastSave(j)'
      BY <1>1, <2>1 DEF Beside, SavesKept, Same, LastSave
    <3> QED BY <1>s, <1>1, <2>1, <3>1 DEF Beside, Last
  <2>2. CASE ~Over BY <1>s, <1>1, <2>2 DEF Beside, Last
  <2> QED BY <2>1, <2>2
<1>2. ASSUME Stores PROVE Last'
  BY <1>s, <1>2 DEF Stores, Last
<1>3. ASSUME Overtakes PROVE Last'
  BY <1>s, <1>3 DEF Overtakes, Last
<1>4. ASSUME Loads PROVE Last'
  BY <1>s, <1>4 DEF Loads, Last
<1>5. ASSUME Forgets PROVE Last'
  <2>1. Over' = Over BY <1>5 DEF Forgets, Over
  <2>2. ~ \E j \in Jobs : LastSave(j) BY <1>5 DEF Forgets, NoSaves, LastSave
  <2> QED BY <1>s, <1>5, <2>1, <2>2 DEF Forgets, Last
<1>6. ASSUME Reboots PROVE Last'
  <2>1. CASE main = "stopped" /\ ~lostSave
    <3>1. dbVer = ver BY <1>s, <2>1 DEF Last, Over, Halted, NoSaves, LastSave
    <3> QED BY <1>s, <1>6, <2>1, <3>1 DEF Reboots, Last
  <2>2. CASE ~(main = "stopped" /\ ~lostSave) BY <1>s, <1>6, <2>2 DEF Reboots, Last
  <2> QED BY <2>1, <2>2
<1>7. ASSUME NEW j \in Jobs, TakesSave(j) PROVE Last'
  <2>1. CASE Over'
    <3>1. LastSave(j)' BY <1>7, <1>t, <2>1 DEF TakesSave, Taken, LastSave
    <3> QED BY <3>1 DEF Last
  <2> QED BY <2>1 DEF Last
<1>8. ASSUME NEW j \in Jobs, Drops(j) PROVE Last'
  <2>1. Over' = Over BY <1>8 DEF Drops, Over
  <2>2. LastSave(j) => lostSave' BY <1>8, <1>t DEF Drops, LastSave
  <2>3. \A k \in Jobs : LastSave(k) => k = j \/ LastSave(k)'
    BY <1>8 DEF Drops, Ended, Same, LastSave
  <2> QED BY <1>s, <1>8, <2>1, <2>2, <2>3 DEF Drops, Last
<1>9. ASSUME NEW j \in Jobs, Lands(j) PROVE Last'
  <2>1. Over' = Over BY <1>9 DEF Lands, Over
  <2>2. LastSave(j) => dbVer' = ver' BY <1>9 DEF Lands, LastSave
  <2>3. ASSUME NEW k \in Jobs, k # j, LastSave(k) PROVE dbVer' = ver' \/ LastSave(k)'
    <3>1. CASE job[k].snap.gen > job[j].snap.gen
      BY <1>9, <2>3, <3>1 DEF Lands, Ended, Same, LastSave
    <3>2. CASE job[k].snap.gen <= job[j].snap.gen
      <4>1. ver <= job[j].snap.ver /\ job[j].snap.ver <= ver
        BY <1>9, <2>3, <3>2 DEF Lands, Ended, Versions, LastSave
      <4> QED BY <1>9, <1>t, <4>1 DEF Lands, Ended
    <3> QED BY <1>9, <1>t, <2>3, <3>1, <3>2 DEF Lands, Ended, LastSave
  <2>4. dbVer = ver => dbVer' = ver'
    BY <1>9, <1>t DEF Lands, Ended, Versions
  <2> QED BY <1>s, <1>9, <2>1, <2>2, <2>3, <2>4 DEF Lands, Last
<1>10. Last' BY <1>1, <1>2, <1>3, <1>4, <1>5, <1>6, <1>7, <1>8, <1>9 DEF FlowStep
<1>11. Halted'
  <2>1. \A j \in Jobs : Ended(j) \/ SavesKept => (NoSaves => NoSaves')
    BY DEF NoSaves, SavesKept, Same, Ended
  <2>2. SavesKept => (NoSaves => NoSaves') BY DEF NoSaves, SavesKept, Same
  <2>3. main = "stopped" => Over BY DEF Over
  <2> QED BY <1>s, <2>1, <2>2, <2>3
       DEF FlowStep, Beside, Stores, Overtakes, Loads, Forgets, Reboots, TakesSave, Drops, Lands,
           Halts, Halted
<1> QED BY <1>10, <1>11 DEF StoredAtLast

\* Where no row write overtakes a save, an overtaken save is not missed.
LEMMA NextCaught ==
    ASSUME SaveInv, Versions, Caught, FlowStep, ~Overtakes
    PROVE  Caught'
<1> USE DEF VersionNats
<1>t. VersionNats BY VersionTypes
<1>1. ASSUME Beside PROVE Caught'
  BY <1>1 DEF Beside, SavesKept, Same, Caught
<1>2. ASSUME Stores PROVE Caught'
  BY <1>2, <1>t DEF Stores, SavesKept, Same, Caught, Versions
<1>3. ASSUME Loads \/ Forgets \/ Reboots PROVE Caught'
  BY <1>3 DEF Loads, Forgets, Reboots, NoSaves, Caught
<1>4. ASSUME NEW j \in Jobs, TakesSave(j) PROVE Caught'
  BY <1>4, <1>t DEF TakesSave, Taken, Same, Caught
<1>5. ASSUME NEW j \in Jobs, Drops(j) PROVE Caught'
  BY <1>5 DEF Drops, Ended, Same, Caught
<1>6. ASSUME NEW j \in Jobs, Lands(j) PROVE Caught'
  BY <1>6, <1>t DEF Lands, Ended, Same, Caught, Versions
<1> QED BY <1>1, <1>2, <1>3, <1>4, <1>5, <1>6 DEF FlowStep

\* There a request is not forgotten either.
LEMMA NextAsked ==
    ASSUME SaveInv, Doors, Versions, Caught, Asked, FlowStep, ~Overtakes
    PROVE  Asked'
<1> USE DEF VersionNats
<1>t. VersionNats BY VersionTypes
<1>v. dbVer <= ver /\ ver <= clock BY DEF Versions
<1>1. ASSUME Beside PROVE Asked'
  <2> SUFFICES ASSUME body' # "none" PROVE (asked <= ver)'
                 /\ (dbVer >= asked \/ Pending \/ \E j \in Jobs : Carries(j))'
    BY DEF Asked
  <2>1. body # "none" /\ asked <= ver /\ (dbVer >= asked \/ Pending \/ \E j \in Jobs : Carries(j))
    BY <1>1 DEF Beside, Asked
  <2>2. ver' >= ver /\ ver' \in Nat BY <1>1, <1>t, <1>v DEF Beside, OneMore
  <2>3. CASE asked' = asked /\ Waits
    <3>1. \A j \in Jobs : Carries(j) => Carries(j)'
      BY <1>1, <2>3 DEF Beside, SavesKept, Same, Carries, LastKinds
    <3> QED BY <1>1, <1>t, <2>1, <2>2, <2>3, <3>1 DEF Beside, Waits
  <2>4. CASE asked' = ver' /\ marker'
    BY <2>2, <2>4 DEF Pending
  <2> QED BY <1>1, <2>3, <2>4 DEF Beside
<1>2. ASSUME Stores PROVE Asked'
  BY <1>2, <1>t DEF Stores, Asked
<1>3. ASSUME Loads \/ Reboots PROVE Asked'
  BY <1>3, <1>t DEF Loads, Reboots, Asked
<1>7. ASSUME Forgets PROVE Asked'
  BY <1>7 DEF Forgets, Waits, NoSaves, Carries, Asked
<1>4. ASSUME NEW j \in Jobs, TakesSave(j) PROVE Asked'
  <2> SUFFICES ASSUME body' # "none" PROVE (asked <= ver)'
                 /\ (dbVer >= asked \/ Pending \/ \E k \in Jobs : Carries(k))'
    BY DEF Asked
  <2>1. body # "none" /\ asked <= ver /\ (dbVer >= asked \/ Pending \/ \E k \in Jobs : Carries(k))
    BY <1>4 DEF TakesSave, Asked
  <2>2. ver' >= ver /\ ver' \in Nat BY <1>4, <1>t, <1>v DEF TakesSave, OneMore
  <2>3. asked' = asked /\ dbVer' = dbVer BY <1>4 DEF TakesSave
  <2>4. \A k \in Jobs : Carries(k) => Carries(k)'
    BY <1>4, <2>3 DEF TakesSave, Taken, Same, Carries, LastKinds
  <2>5. Pending => Pending' \/ Carries(j)'
    BY <1>4, <1>t, <2>1, <2>2, <2>3 DEF TakesSave, Taken, Carries
  <2> QED BY <1>t, <2>1, <2>2, <2>3, <2>4, <2>5
<1>5. ASSUME NEW j \in Jobs, Drops(j) PROVE Asked'
  <2> SUFFICES ASSUME body' # "none" PROVE (asked <= ver)'
                 /\ (dbVer >= asked \/ Pending \/ \E k \in Jobs : Carries(k))'
    BY DEF Asked
  <2>1. body # "none" /\ asked <= ver /\ (dbVer >= asked \/ Pending \/ \E k \in Jobs : Carries(k))
    BY <1>5 DEF Drops, Asked
  <2>2. UNCHANGED <<ver, asked, dbVer>> BY <1>5 DEF Drops
  <2>3. \A k \in Jobs : Carries(k) => k = j \/ Carries(k)'
    BY <1>5, <2>2 DEF Drops, Ended, Same, Carries, LastKinds
  <2>4. Pending => Pending' BY <1>5, LeftPending DEF Drops
  <2>5. Carries(j) => dbVer >= asked \/ Failed'
    <3>1. CASE job[j].snap.gen <= lastCommitted
      BY <1>t, <3>1 DEF Carries, Caught
    <3>2. CASE \E c \in done' : c.snap = job[j].snap /\ c.outcome = "failed"
      BY <1>5, <3>2 DEF Carries, Doors, OfSession, Failed, Drops
    <3>3. CASE job[j].kind \in LastKinds BY <3>3 DEF Carries, LastKinds
    <3> QED BY <1>5, <3>1, <3>2, <3>3 DEF Drops
  <2> QED BY <2>1, <2>2, <2>3, <2>4, <2>5 DEF Pending
<1>6. ASSUME NEW j \in Jobs, Lands(j) PROVE Asked'
  <2> SUFFICES ASSUME body' # "none" PROVE (asked <= ver)'
                 /\ (dbVer >= asked \/ Pending \/ \E k \in Jobs : Carries(k))'
    BY DEF Asked
  <2>1. body # "none" /\ asked <= ver /\ (dbVer >= asked \/ Pending \/ \E k \in Jobs : Carries(k))
    BY <1>6 DEF Lands, Asked
  <2>2. UNCHANGED <<ver, asked>> /\ dbVer' = job[j].snap.ver /\ dbVer' \in Nat /\ dbVer' >= dbVer
    BY <1>6, <1>t DEF Lands, Ended, Versions
  <2>3. \A k \in Jobs : Carries(k) => k = j \/ Carries(k)'
    BY <1>6, <2>2 DEF Lands, Ended, Same, Carries, LastKinds
  <2>4. Pending => Pending' BY <1>6, LeftPending DEF Lands
  <2>5. Carries(j) => dbVer' >= asked' BY <2>2 DEF Carries
  <2> QED BY <1>t, <2>1, <2>2, <2>3, <2>4, <2>5
<1> QED BY <1>1, <1>2, <1>3, <1>4, <1>5, <1>6, <1>7 DEF FlowStep

-----------------------------------------------------------------------------
(* The relog barrier.                                                      *)

\* Nothing unfinished, nothing that saves.
LEMMA NoneCounted == ASSUME SaveInv, outstanding = 0 PROVE NoSaves
<1>1. CountedJobs = {}
  BY CountedFinite, FS_EmptySet, ConstantsAssumption, FS_Subset DEF SaveInv, CountInv, CountedJobs
<1> QED BY <1>1 DEF NoSaves, CountedJobs, Counted, IsSnapshot

\* A new save is one of a character in the world, and of this session.
LEMMA FlowSession ==
    ASSUME OfSession, FlowStep
    PROVE  OfSession' /\ (body = "none" => (NoSaves => NoSaves'))
<1>1. ASSUME SavesKept, session' = session PROVE OfSession' /\ (NoSaves => NoSaves')
  BY <1>1 DEF OfSession, NoSaves, SavesKept, Same
<1>2. ASSUME NEW j \in Jobs, Ended(j), session' = session PROVE OfSession' /\ (NoSaves => NoSaves')
  BY <1>2 DEF OfSession, NoSaves, Ended, Same
<1>3. ASSUME NEW j \in Jobs, Taken(j), session' = session PROVE OfSession'
  BY <1>3 DEF OfSession, Taken, Same
<1>4. NoSaves' => OfSession' BY DEF NoSaves, OfSession
<1> QED BY <1>1, <1>2, <1>3, <1>4
     DEF FlowStep, Beside, Stores, Overtakes, Loads, Forgets, Reboots, TakesSave, Drops, Lands

\* Where the character and the connections stay, and main goes on or is done.
LEMMA Staying ==
    ASSUME Barrier, Seats, body = "none" => (NoSaves => NoSaves'), body' = body, conn' = conn,
           main' = main \/ main' \in {"idle", "flushing", "stopped"}
    PROVE  Barrier' /\ Seats'
BY DEF Barrier, Seats

\* The barrier holds as long as nobody is in the world with a wait settled.
LEMMA NextDoors ==
    ASSUME SaveInv, Doors, NoneOvertaken, [Next]_vars
    PROVE  Doors'
<1> USE DEF slotVars, entityVars, connVars, dbVars, historyVars
<1>a. OfSession /\ Barrier /\ Seats BY DEF Doors
<1>b. FlowStep BY NextFlow
<1>c. OfSession' /\ (body = "none" => (NoSaves => NoSaves')) BY <1>a, <1>b, FlowSession
<1>t. conn \in [Conns -> {"out", "select", "waiting", "settled", "expired", "playing"}]
      /\ caller \in Conns
  BY DEF SaveInv, DataTypes
<1>1. ASSUME \/ Entity \/ AutosaveScan \/ ChestDone \/ ShutdownSave \/ FlushDone \/ FlushTimeout
             \/ UNCHANGED vars
             \/ \E j \in Jobs : \/ AutosaveDue(j) \/ DrainPendingSave(j) \/ SaveRetry(j)
                                \/ SaveAnswered(j) \/ SaveDropped(j) \/ SaveCommand(j)
                                \/ SaveAbandoned(j) \/ SpawnTask(j) \/ Task(j)
      PROVE Barrier' /\ Seats'
  <2>1. body' = body /\ conn' = conn /\ (main' = main \/ main' \in {"idle", "flushing", "stopped"})
    BY <1>1 DEF Entity, Play, Die, AskSave, AutosaveScan, ChestDone, ShutdownSave, FlushDone,
       FlushTimeout, vars, AutosaveDue, DrainPendingSave, SaveRetry, SaveAnswered, SaveDropped,
       SaveCommand, SaveAbandoned, SpawnTask, Task, JoinTurn, BackgroundStale, StartWrite, Commit,
       WriteFails, FinalFails, RetryFails, RetryWake, RetrySuperseded, WaiterTurn, TaskRun
  <2> QED BY <1>a, <1>c, <2>1, Staying
<1>2. ASSUME NEW j \in Jobs, DrainRetiring(j) \/ DrainLinkdead(j)
                              \/ (\E c \in Conns : DisconnectRetire(c, j))
      PROVE Barrier' /\ Seats'
  <2>1. body # "none" /\ body' = "none" /\ main' = "idle"
        /\ \A c \in Conns : conn'[c] = conn[c] \/ conn'[c] = "out"
    BY <1>2, <1>a, <1>t DEF DrainRetiring, DrainLinkdead, DisconnectRetire, Idle, Retire, Seats
  <2>2. \A c \in Conns : conn'[c] # "playing"
    BY <1>2, <1>a, <1>t DEF DrainRetiring, DrainLinkdead, DisconnectRetire, Idle, Retire, Seats
  <2> QED BY <2>1, <2>2 DEF Barrier, Seats, NoneOvertaken
<1>3. ASSUME NEW c \in Conns, DisconnectBusy(c) \/ DisconnectLinkdead(c) PROVE Barrier' /\ Seats'
  <2>1. body # "none" /\ body' # "none" /\ main' = "idle"
        /\ \A d \in Conns : conn'[d] # "playing"
    BY <1>3, <1>a, <1>t DEF DisconnectBusy, DisconnectLinkdead, Idle, Seats
  <2> QED BY <2>1 DEF Barrier, Seats
<1>4. ASSUME NEW c \in Conns, CompleteLogin(c) \/ FinishSaveWait(c) PROVE Barrier' /\ Seats'
  <2>0. main = "idle" /\ job' = job BY <1>4 DEF CompleteLogin, FinishSaveWait, Idle
  <2>1. NoSaves => NoSaves' BY <2>0 DEF NoSaves, IsSnapshot
  <2>2. CASE Takeover(c)
    <3>1. body' = "playing" /\ main' = "idle" /\ \A d \in Conns : conn'[d] = "playing" => d = c
      BY <1>t, <2>0, <2>2 DEF Takeover
    <3> QED BY <3>1 DEF Barrier, Seats
  <2>3. CASE BeginLoad(c)
    <3>1. NoSaves
      BY <1>4, <1>a, <2>3, NoneCounted
         DEF CompleteLogin, FinishSaveWait, Takeover, BeginLoad, Barrier
    <3> QED BY <1>a, <2>1, <2>3, <3>1 DEF BeginLoad, Barrier, Seats
  <2>4. CASE ~Takeover(c) /\ ~BeginLoad(c)
    <3>1. UNCHANGED <<main, body>>
          /\ (conn' = [conn EXCEPT ![c] = "waiting"] \/ conn' = [conn EXCEPT ![c] = "out"])
      BY <1>4, <2>4 DEF CompleteLogin, FinishSaveWait
    <3>2. \A d \in Conns : conn'[d] = conn[d] \/ conn'[d] \in {"waiting", "out"} BY <1>t, <3>1
    <3> QED BY <1>a, <2>1, <3>1, <3>2 DEF Barrier, Seats
  <2> QED BY <2>2, <2>3, <2>4
<1>5. ASSUME NEW c \in Conns, Connect(c) \/ HangUp(c) PROVE Barrier' /\ Seats'
  <2>1. UNCHANGED <<main, body, job>>
        /\ \A d \in Conns : conn'[d] = conn[d] \/ conn'[d] \in {"select", "out"}
    BY <1>5, <1>t DEF Connect, HangUp
  <2>2. NoSaves => NoSaves' BY <2>1 DEF NoSaves, IsSnapshot
  <2> QED BY <1>a, <2>1, <2>2 DEF Barrier, Seats
<1>6. ASSUME NEW c \in Conns, WaitEnds(c) PROVE Barrier' /\ Seats'
  <2>1. UNCHANGED <<main, body, job>> /\ conn[c] = "waiting"
        /\ conn' = [conn EXCEPT ![c] = IF outstanding = 0 THEN "settled" ELSE "expired"]
    BY <1>6 DEF WaitEnds
  <2>2. NoSaves => NoSaves' BY <2>1 DEF NoSaves, IsSnapshot
  <2>3. CASE outstanding = 0
    <3>1. NoSaves BY <2>3, NoneCounted
    <3>2. \A d \in Conns : conn'[d] = conn[d] \/ conn'[d] = "settled" BY <1>t, <2>1, <2>3
    <3> QED BY <1>a, <2>1, <2>2, <3>1, <3>2 DEF Barrier, Seats
  <2>4. CASE outstanding # 0
    <3>1. \A d \in Conns : conn'[d] = conn[d] \/ conn'[d] = "expired" BY <1>t, <2>1, <2>4
    <3> QED BY <1>a, <2>1, <2>2, <3>1 DEF Barrier, Seats
  <2> QED BY <2>3, <2>4
<1>7. ASSUME LoginLoads PROVE Barrier' /\ Seats'
  <2>1. main' = "idle" /\ body' = "playing" /\ body = "none"
        /\ conn' = [conn EXCEPT ![caller] = "playing"]
    BY <1>7, <1>a DEF LoginLoads, Barrier
  <2>2. \A d \in Conns : conn'[d] = "playing" => d = caller BY <1>a, <1>t, <2>1 DEF Seats
  <2> QED BY <2>1, <2>2 DEF Barrier, Seats
<1>8. ASSUME LoginRefused PROVE Barrier' /\ Seats'
  <2>1. main' = "idle" /\ body' = body /\ \A d \in Conns : conn'[d] = conn[d] \/ conn'[d] = "out"
    BY <1>8, <1>t DEF LoginRefused
  <2> QED BY <1>a, <1>c, <2>1 DEF Barrier, Seats
<1>9. ASSUME Shutdown \/ ChestBegin PROVE Barrier' /\ Seats'
  <2>1. UNCHANGED <<body, conn>> /\ \/ main' = "flushing"
                                    \/ main' = "saving" /\ body # "none"
                                    \/ main' = "chest" /\ body = "playing"
    BY <1>9 DEF Shutdown, ChestBegin
  <2> QED BY <1>a, <1>c, <2>1 DEF Barrier, Seats
<1>10. ASSUME Restart PROVE Barrier' /\ Seats'
  <2>1. NoSaves' BY <1>10 DEF Restart, NoSaves, IsSnapshot, FreeJob
  <2>2. main' = "idle" /\ \A c \in Conns : conn'[c] = "out" BY <1>10 DEF Restart
  <2> QED BY <2>1, <2>2 DEF Barrier, Seats
<1>11. Barrier' /\ Seats'
  BY <1>1, <1>2, <1>3, <1>4, <1>5, <1>6, <1>7, <1>8, <1>9, <1>10
  DEF Next, Tick, Command, MainResumes, Session
<1> QED BY <1>c, <1>11 DEF Doors

\* Initially nobody is in the world and nothing is saved.
LEMMA InitDoors == Init => Doors
BY DEF Init, Doors, OfSession, Barrier, Seats, NoSaves, IsSnapshot, FreeJob

-----------------------------------------------------------------------------
(* Row writes: who may overtake a save.                                    *)

\* j is in the queue, ahead of a shutdown that waits there.
Ahead(j) ==
    \E i \in 1 .. Len(turn) :
        turn[i] = j /\ (main = "saving" => \A k \in 1 .. i : turn[k] # World)
\* A character's row writes are ahead of its end, in a game where no payer of a
\* quest writes rows after the character has left.
RowWrites ==
    /\ \A j \in Jobs : job[j].kind = "task" => Ahead(j)
    /\ Over => \A j \in Jobs : job[j].kind # "task"
NoRowWrites == main # "chest" /\ \A j \in Jobs : job[j].kind # "task"

\* Who waits ahead of the shutdown stays ahead of it.
LEMMA AheadStays ==
    ASSUME SaveInv, SaveInv', OrderStep, NEW j \in Jobs, Ahead(j),
           job[j].kind = "task", job'[j].kind = "task"
    PROVE  Ahead(j)'
<1> USE ConstantsAssumption
<1>0. DataTypes /\ TaskShape /\ QueueSound /\ TaskShape' BY DEF SaveInv, OrderInv
<1>1. job[j].at = "queued" /\ job'[j].at = "queued" BY <1>0 DEF TaskShape, ShapeOf
<1>2. PICK i \in 1 .. Len(turn) :
        turn[i] = j /\ (main = "saving" => \A k \in 1 .. i : turn[k] # World)
  BY DEF Ahead
<1>3. Len(turn) \in Nat /\ turn \in Seq(Jobs \cup {World}) BY <1>0, TurnSeq
<1>4. main \notin WorldWaits => \A k \in 1 .. i : turn[k] # World
  BY <1>0, <1>2, <1>3 DEF QueueSound
<1>5. ASSUME turn' = turn, MainKept PROVE Ahead(j)'
  <2>1. main' = "saving" => \A k \in 1 .. i : turn[k] # World
    BY <1>2, <1>4, <1>5 DEF MainKept, WorldWaits
  <2> QED BY <1>2, <1>5, <2>1 DEF Ahead
<1>6. ASSUME NEW x \in Jobs \cup {World}, Asks(x) PROVE Ahead(j)'
  <2>1. /\ Len(turn') = Len(turn) + 1 /\ \A k \in 1 .. Len(turn) : turn'[k] = turn[k]
    BY <1>3, <1>6 DEF Asks
  <2>2. main' = "saving" => \A k \in 1 .. i : turn[k] # World
    BY <1>2, <1>4, <1>6 DEF Asks, MainKept, WorldWaits
  <2> QED BY <1>2, <1>3, <2>1, <2>2 DEF Ahead
<1>7. ASSUME NEW x \in Jobs \cup {World}, Passes(x) PROVE Ahead(j)'
  <2>1. /\ turn[1] = x /\ Len(turn') = Len(turn) - 1
        /\ \A k \in 1 .. Len(turn') : turn'[k] = turn[k + 1]
    BY <1>3, <1>7 DEF Passes, HasTurn
  <2>2. x # j BY <1>1, <1>7 DEF Passes, AtTurn
  <2>3. i # 1 /\ i - 1 \in 1 .. Len(turn') BY <1>2, <1>3, <2>1, <2>2
  <2>4. main' = "saving" => \A k \in 2 .. i : turn[k] # World
    <3>1. CASE x = World BY <1>0, <1>2, <1>3, <2>1, <3>1 DEF QueueSound
    <3>2. CASE x # World BY <1>2, <1>4, <1>7, <3>2 DEF Passes, MainKept, WorldWaits
    <3> QED BY <3>1, <3>2
  <2>5. main' = "saving" => \A k \in 1 .. i - 1 : turn'[k] # World
    <3>1. \A k \in 1 .. i - 1 : turn'[k] = turn[k + 1] /\ k + 1 \in 2 .. i BY <1>3, <2>1, <2>3
    <3> QED BY <2>4, <3>1
  <2>6. turn'[i - 1] = j BY <1>2, <1>3, <2>1, <2>3
  <2> QED BY <2>3, <2>5, <2>6 DEF Ahead
<1>8. ASSUME NEW q \in Jobs, Quits(q) PROVE Ahead(j)'
  <2>1. PICK n \in 1 .. Len(turn) : turn[n] = q /\ LeaveQueue(n) BY <1>8 DEF Quits
  <2>2. /\ Len(turn') = Len(turn) - 1
        /\ \A k \in 1 .. Len(turn') : turn'[k] = IF k < n THEN turn[k] ELSE turn[k + 1]
    BY <1>3, <2>1 DEF LeaveQueue
  <2>3. q # j /\ n # i BY <1>1, <1>2, <1>8, <2>1 DEF Quits
  <2>4. main' = "saving" => \A k \in 1 .. i : turn[k] # World
    BY <1>2, <1>4, <1>8 DEF Quits, MainKept, WorldWaits
  <2>5. CASE i < n
    <3>1. i \in 1 .. Len(turn') /\ turn'[i] = j /\ \A k \in 1 .. i : turn'[k] = turn[k]
      BY <1>2, <1>3, <2>2, <2>5
    <3> QED BY <2>4, <3>1 DEF Ahead
  <2>6. CASE n < i
    <3>1. i - 1 \in 1 .. Len(turn') /\ turn'[i - 1] = j BY <1>2, <1>3, <2>2, <2>6
    <3>2. \A k \in 1 .. i - 1 : \E p \in 1 .. i : turn'[k] = turn[p] BY <1>2, <1>3, <2>2, <2>6
    <3>3. main' = "saving" => \A k \in 1 .. i - 1 : turn'[k] # World BY <2>4, <3>2
    <3> QED BY <3>1, <3>3 DEF Ahead
  <2> QED BY <1>2, <1>3, <2>3, <2>5, <2>6
<1>9. ASSUME NEW q \in Jobs, Takes(q) PROVE FALSE BY <1>2, <1>3, <1>9 DEF Takes
<1>10. ~StartsOver BY <1>1 DEF StartsOver
<1> QED BY <1>5, <1>6, <1>7, <1>8, <1>9, <1>10 DEF OrderStep, Aside, Begins

\* Row writes come from spawn_ordered and from the chest.
LEMMA RowWritesStart ==
    ASSUME SaveInv, [Next]_vars
    PROVE  /\ main' = "chest" => main = "chest" \/ ChestBegin
           /\ \A j \in Jobs : job'[j].kind = "task" => job[j].kind = "task" \/ SpawnTask(j)
<1> USE DEF slotVars, entityVars, connVars, dbVars, historyVars
<1>0. DataTypes BY DEF SaveInv
<1>1. main' = "chest" => main = "chest" \/ ChestBegin
  BY DEF Next, Entity, Tick, Command, MainResumes, Task, Session, vars, Play, Die, AskSave,
     AutosaveScan, AutosaveDue, DrainPendingSave, DrainRetiring, DrainLinkdead, SaveRetry,
     SaveAnswered, SaveDropped, SaveCommand, SaveAbandoned, SpawnTask, JoinTurn, BackgroundStale,
     StartWrite, Commit, WriteFails, FinalFails, RetryFails, RetryWake, RetrySuperseded,
     WaiterTurn, TaskRun, ChestDone, LoginLoads, LoginRefused, ShutdownSave, FlushDone,
     FlushTimeout, Shutdown, Restart, Connect, CompleteLogin, Takeover, BeginLoad, FinishSaveWait,
     HangUp, DisconnectBusy, DisconnectLinkdead, DisconnectRetire, WaitEnds
<1> DEFINE Fine == \A j \in Jobs : job'[j].kind = "task" => job[j].kind = "task" \/ SpawnTask(j)
<1>b. ASSUME NEW j \in Jobs, NEW r, Becomes(j, r), r.kind # "task" \/ job[j].kind = "task"
      PROVE Fine
  BY <1>0, <1>b, BecomesFields
<1>k. /\ \A s, t : Rec("background", "spawned", s, t).kind # "task"
      /\ \A s, t : Rec("checkpoint", "writing", s, t).kind # "task"
      /\ \A s, t : Rec("final", "writing", s, t).kind # "task"
      /\ \A s, t : Rec("retry", "spawned", s, t).kind # "task"
      /\ \A s, t : Rec("retry", "sleeping", s, t).kind # "task"
      /\ \A s, t : Rec("waiter", "spawned", s, t).kind # "task"
      /\ \A j, p : Moved(j, p).kind = job[j].kind
      /\ FreeJob.kind # "task"
  BY DEF Rec, Moved, FreeJob
<1>2. ASSUME UNCHANGED job PROVE Fine BY <1>2
<1>3. ASSUME NEW j \in Jobs, NEW v, NEW m, NEW d, SpawnBackground(j, v, m, d) PROVE Fine
  BY <1>3, <1>b, <1>k DEF SpawnBackground
<1>4. ASSUME NEW j \in Jobs, Retire(j) PROVE Fine BY <1>4, <1>b, <1>k DEF Retire
<1>5. ASSUME NEW j \in Jobs, NEW n, StartSave(j, n) PROVE Fine BY <1>5, <1>b, <1>k DEF StartSave
<1>6. ASSUME NEW j \in Jobs, Release(j) PROVE Fine
  <2>1. PICK r \in {Moved(j, "answered"), FreeJob} : Becomes(j, r) BY <1>6 DEF Release
  <2> QED BY <2>1, <1>b, <1>k
<1>7. ASSUME Die PROVE Fine
  <2>1. UNCHANGED job \/ \E j \in Jobs : SpawnBackground(j, clock + 1, marker, TRUE) BY <1>7 DEF Die
  <2> QED BY <2>1, <1>2, <1>3
<1>8. ASSUME NEW j \in Jobs, SaveAnswered(j) \/ SaveDropped(j) \/ SaveAbandoned(j) PROVE Fine
  BY <1>8, <1>b, <1>k DEF SaveAnswered, SaveDropped, SaveAbandoned
<1>9. ASSUME NEW j \in Jobs, SpawnTask(j) PROVE Fine
  BY <1>0, <1>9, BecomesFields DEF SpawnTask
<1>10. ASSUME ShutdownSave PROVE Fine
  <2>1. \/ UNCHANGED job
        \/ \E j \in Jobs :
              Becomes(j, Rec("retry", "spawned", SnapshotWith(FALSE, DeathAfter), 0))
    BY <1>10 DEF ShutdownSave
  <2> QED BY <2>1, <1>2, <1>b, <1>k
<1>11. ASSUME Restart PROVE Fine BY <1>11 DEF Restart, FreeJob
<1>12. ASSUME NEW j \in Jobs, JoinTurn(j) \/ StartWrite(j) \/ RetryWake(j) \/ WaiterTurn(j)
                               \/ FinalFails(j)
       PROVE Fine
  <2>1. \/ \E p \in Phases : Becomes(j, Moved(j, p))
        \/ Becomes(j, Rec("retry", "spawned", job[j].snap, 0))
    BY <1>12 DEF JoinTurn, StartWrite, RetryWake, WaiterTurn, FinalFails, Phases
  <2> QED BY <2>1, <1>b, <1>k
<1>13. ASSUME NEW j \in Jobs, RetryFails(j) PROVE Fine
  <2>1. Release(j) \/ Becomes(j, Rec("retry", "sleeping", job[j].snap, job[j].tries + 1))
    BY <1>13 DEF RetryFails
  <2> QED BY <2>1, <1>6, <1>b, <1>k
<1>14. ASSUME NEW j \in Jobs, AutosaveDue(j) \/ DrainPendingSave(j) PROVE Fine
  BY <1>14, <1>3 DEF AutosaveDue, DrainPendingSave
<1>15. ASSUME NEW j \in Jobs, DrainRetiring(j) \/ DrainLinkdead(j)
                               \/ (\E c \in Conns : DisconnectRetire(c, j))
       PROVE Fine
  BY <1>15, <1>4 DEF DrainRetiring, DrainLinkdead, DisconnectRetire
<1>16. ASSUME NEW j \in Jobs, SaveCommand(j) \/ SaveRetry(j) PROVE Fine
  BY <1>16, <1>5 DEF SaveCommand, SaveRetry
<1>17. ASSUME NEW j \in Jobs, BackgroundStale(j) \/ Commit(j) \/ WriteFails(j)
                               \/ RetrySuperseded(j) \/ TaskRun(j)
       PROVE Fine
  BY <1>17, <1>6 DEF BackgroundStale, Commit, WriteFails, RetrySuperseded, TaskRun
<1>18. LeavesTasks => job' = job BY LeavesTasksJob
<1> HIDE DEF Fine
<1>19. Fine
  BY <1>2, <1>7, <1>8, <1>9, <1>10, <1>11, <1>12, <1>13, <1>14, <1>15, <1>16, <1>17, <1>18
  DEF Next, Entity, Tick, Command, MainResumes, Task, Session, LeavesTasks
<1> QED BY <1>1, <1>19 DEF Fine

\* With the turn nobody is ahead of, there is no row write left.
LEMMA NobodyAhead ==
    ASSUME SaveInv, RowWrites, Alone PROVE \A j \in Jobs : job[j].kind # "task"
<1> SUFFICES ASSUME NEW j \in Jobs, Ahead(j) PROVE FALSE BY DEF RowWrites
<1>1. turn \in Seq(Jobs \cup {World}) BY DEF SaveInv, DataTypes
<1> QED BY <1>1 DEF Ahead, Alone, TurnFree, HasTurn

\* Row writes stay ahead of the character's end.
LEMMA NextRowWrites ==
    ASSUME SaveInv, SaveInv', Doors, RowWrites, "latetask" \notin Features, [Next]_vars
    PROVE  RowWrites'
<1>1. \A j \in Jobs : job'[j].kind = "task" => job[j].kind = "task" \/ SpawnTask(j)
  BY RowWritesStart
<1>2. ASSUME NEW j \in Jobs, SpawnTask(j) PROVE Ahead(j)' /\ ~Over'
  <2>1. main' = "idle" /\ body' = "playing" /\ turn' = Append(turn, j)
    BY <1>2 DEF SpawnTask, Idle, entityVars
  <2>2. turn \in Seq(Jobs \cup {World}) BY DEF SaveInv, DataTypes
  <2>3. Len(turn') \in 1 .. Len(turn') /\ turn'[Len(turn')] = j BY <2>1, <2>2
  <2> QED BY <2>1, <2>3 DEF Ahead, Over
<1>3. ASSUME NEW j \in Jobs, job'[j].kind = "task", ~SpawnTask(j) PROVE Ahead(j)'
  <2>1. job[j].kind = "task" /\ Ahead(j) BY <1>1, <1>3 DEF RowWrites
  <2>2. OrderStep BY NextOrder DEF SaveInv
  <2> QED BY <1>3, <2>1, <2>2, AheadStays
<1>4. ASSUME Over', NEW j \in Jobs, job'[j].kind = "task" PROVE FALSE
  <2>1. job[j].kind = "task" /\ ~Over BY <1>1, <1>2, <1>4 DEF RowWrites
  <2>2. ~Alone BY <2>1, NobodyAhead
  <2>3. FlowStep BY NextFlow
  <2> QED BY <1>4, <2>1, <2>2, <2>3
       DEF FlowStep, Beside, Stores, Overtakes, Loads, Forgets, Reboots, TakesSave, Drops, Lands,
           Over
<1> QED BY <1>2, <1>3, <1>4 DEF RowWrites

\* Nor do they come from nowhere, where nothing starts them.
LEMMA NextNoRowWrites ==
    ASSUME SaveInv, NoRowWrites, Features \cap {"chest", "task", "latetask"} = {}, [Next]_vars
    PROVE  NoRowWrites'
BY RowWritesStart DEF NoRowWrites, ChestBegin, SpawnTask

\* Initially there are none.
LEMMA InitRowWrites == Init => RowWrites /\ NoRowWrites
BY DEF Init, RowWrites, NoRowWrites, FreeJob

\* No save is overtaken by a row write once the character's last one was taken.
LEMMA OvertakenInTime ==
    ASSUME Doors, RowWrites, Overtakes PROVE ~Over
BY DEF Doors, Seats, RowWrites, Overtakes, Over

-----------------------------------------------------------------------------
(* One connection at a time.                                               *)

\* Nobody waits at the barrier while somebody is in the world or being let in.
OneAtTheDoor ==
    /\ body # "none" => \A c \in Conns : conn[c] \notin {"waiting", "settled"}
    /\ main = "login" => body = "none"

\* A single connection is not at the barrier and in the world at once.
LEMMA NextOneAtTheDoor ==
    ASSUME SaveInv, OneAtTheDoor, \A c, d \in Conns : c = d, [Next]_vars
    PROVE  OneAtTheDoor'
<1> USE DEF slotVars, entityVars, connVars, dbVars, historyVars
<1>t. conn \in [Conns -> {"out", "select", "waiting", "settled", "expired", "playing"}]
      /\ caller \in Conns
  BY DEF SaveInv, DataTypes
<1>1. ASSUME NEW c \in Conns, CompleteLogin(c) \/ FinishSaveWait(c) PROVE OneAtTheDoor'
  <2>1. CASE Takeover(c)
    BY <1>1, <1>t, <2>1 DEF OneAtTheDoor, Takeover, CompleteLogin, FinishSaveWait, Idle
  <2>2. CASE ~Takeover(c)
    BY <1>1, <1>t, <2>2 DEF OneAtTheDoor, BeginLoad, CompleteLogin, FinishSaveWait, Idle
  <2> QED BY <2>1, <2>2
<1>2. ASSUME NEW c \in Conns, Connect(c) \/ HangUp(c) \/ WaitEnds(c) \/ DisconnectBusy(c)
                              \/ DisconnectLinkdead(c)
      PROVE OneAtTheDoor'
  BY <1>2, <1>t
  DEF OneAtTheDoor, Connect, HangUp, WaitEnds, DisconnectBusy, DisconnectLinkdead, Idle
<1>3. ASSUME LoginLoads \/ LoginRefused PROVE OneAtTheDoor'
  BY <1>3, <1>t DEF OneAtTheDoor, LoginLoads, LoginRefused
<1>4. ASSUME NEW j \in Jobs, DrainRetiring(j) \/ DrainLinkdead(j)
                              \/ (\E c \in Conns : DisconnectRetire(c, j))
      PROVE OneAtTheDoor'
  BY <1>4 DEF OneAtTheDoor, DrainRetiring, DrainLinkdead, DisconnectRetire, Retire
<1>5. ASSUME Restart PROVE OneAtTheDoor' BY <1>5 DEF OneAtTheDoor, Restart
<1>6. ASSUME \/ Entity \/ AutosaveScan \/ ChestDone \/ ShutdownSave \/ FlushDone \/ FlushTimeout
             \/ Shutdown \/ ChestBegin \/ UNCHANGED vars
             \/ \E j \in Jobs : \/ AutosaveDue(j) \/ DrainPendingSave(j) \/ SaveRetry(j)
                                \/ SaveAnswered(j) \/ SaveDropped(j) \/ SaveCommand(j)
                                \/ SaveAbandoned(j) \/ SpawnTask(j) \/ Task(j)
      PROVE OneAtTheDoor'
  <2>1. body' = body /\ conn' = conn
        /\ (main' = main \/ main' \in {"idle", "flushing", "stopped", "chest", "saving"})
    BY <1>6 DEF Entity, Play, Die, AskSave, AutosaveScan, ChestDone, ShutdownSave, FlushDone,
       FlushTimeout, Shutdown, ChestBegin, vars, AutosaveDue, DrainPendingSave, SaveRetry,
       SaveAnswered, SaveDropped, SaveCommand, SaveAbandoned, SpawnTask, Task, JoinTurn,
       BackgroundStale, StartWrite, Commit, WriteFails, FinalFails, RetryFails, RetryWake,
       RetrySuperseded, WaiterTurn, TaskRun
  <2> QED BY <2>1 DEF OneAtTheDoor
<1> QED BY <1>1, <1>2, <1>3, <1>4, <1>5, <1>6 DEF Next, Tick, Command, MainResumes, Session

-----------------------------------------------------------------------------
(* What the saves mean for the character.                                  *)

\* As long as nobody is overtaken at the barrier, the doors and the versions hold.
VersionInv == SaveInv /\ Doors /\ Versions

\* It holds initially.
LEMMA InitVersionInv == Init => VersionInv
BY InitInv, InitDoors, InitVersions DEF VersionInv

\* Every step keeps it, and is one of the steps that the lemmas above are about.
LEMMA NextVersionInv == VersionInv /\ NoneOvertaken /\ [Next]_vars => VersionInv' /\ FlowStep
BY NextInv, NextDoors, NextFlow, NextVersions DEF VersionInv

\* So it holds throughout.
LEMMA VersionInvariant == Spec /\ []NoneOvertaken => [](VersionInv /\ NoneOvertaken)
BY InitVersionInv, NextVersionInv, PTL DEF Spec

\* With one connection a wait for the barrier is never overtaken by a login.
THEOREM OneConnection ==
    ASSUME \A c, d \in Conns : c = d
    PROVE  Spec => []NoneOvertaken
<1>1. Init => OneAtTheDoor BY DEF Init, OneAtTheDoor
<1>2. SaveInv /\ OneAtTheDoor /\ [Next]_vars => OneAtTheDoor' BY NextOneAtTheDoor
<1>3. OneAtTheDoor => NoneOvertaken BY DEF OneAtTheDoor, NoneOvertaken
<1> QED BY <1>1, <1>2, <1>3, SaveInvariant, PTL DEF Spec

\* Once a character is loaded nothing of an earlier session is left to be written.
THEOREM BarrierHolds == Spec /\ []NoneOvertaken => []NoOldSessionWrites
<1>1. VersionInv => NoOldSessionWrites BY DEF VersionInv, Doors, OfSession, NoOldSessionWrites
<1> QED BY <1>1, VersionInvariant, PTL

\* What is stored is never replaced by an earlier state of the character.
THEOREM NeverRolledBack == Spec /\ []NoneOvertaken => NoRollback
<1>1. VersionInv /\ VersionInv' /\ NoneOvertaken /\ [Next]_vars => [dbVer' >= dbVer]_vars
  <2> SUFFICES ASSUME VersionInv, NoneOvertaken, [Next]_vars PROVE dbVer' >= dbVer OBVIOUS
  <2>1. FlowStep BY NextVersionInv
  <2>2. /\ ver \in Nat /\ dbVer \in Nat
        /\ \A j \in Jobs : IsSnapshot(j) => job[j].snap.ver \in Nat
    BY VersionTypes DEF VersionInv, VersionNats
  <2>3. \A j \in Jobs : Lands(j) => dbVer' >= dbVer
    BY <2>2 DEF Lands, Ended, VersionInv, Versions
  <2> QED BY <2>1, <2>2, <2>3
       DEF FlowStep, Beside, Stores, Overtakes, Loads, Forgets, Reboots, TakesSave, Drops,
           VersionInv, Versions
<1> QED BY <1>1, VersionInvariant, PTL DEF Spec, NoRollback

\* With the last save in it.
LastInv == VersionInv /\ RowWrites /\ StoredAtLast

\* In a game whose row writes end with the session, the last save is not lost.
LEMMA LastInvariant ==
    ASSUME "latetask" \notin Features
    PROVE  Spec /\ []NoneOvertaken => [](LastInv /\ NoneOvertaken)
<1>1. Init => LastInv
  BY InitVersionInv, InitRowWrites DEF Init, LastInv, StoredAtLast, Last, Halted
<1>2. LastInv /\ NoneOvertaken /\ [Next]_vars => LastInv'
  <2> SUFFICES ASSUME LastInv, NoneOvertaken, [Next]_vars PROVE LastInv' OBVIOUS
  <2>1. VersionInv' /\ FlowStep BY NextVersionInv DEF LastInv
  <2>2. SaveInv' BY <2>1 DEF VersionInv
  <2>3. RowWrites' BY <2>2, NextRowWrites DEF LastInv, VersionInv
  <2>4. StoredAtLast' BY <2>1, <2>2, NextStored, OvertakenInTime DEF LastInv, VersionInv
  <2> QED BY <2>1, <2>3, <2>4 DEF LastInv
<1> QED BY <1>1, <1>2, PTL DEF Spec

\* A server that has stopped has stored the last state of the character, or has
\* logged that it did not.
THEOREM StopSaves ==
    ASSUME "latetask" \notin Features
    PROVE  Spec /\ []NoneOvertaken => []StopSavesAll
<1>1. LastInv => StopSavesAll
  BY DEF LastInv, StoredAtLast, Last, Halted, NoSaves, LastSave, Over, StopSavesAll
<1> QED BY <1>1, LastInvariant, PTL

\* A login starts from the state the last session ended with, or after an error
\* has been logged.
THEOREM LoginsLoadTheLatest ==
    ASSUME "latetask" \notin Features
    PROVE  Spec /\ []NoneOvertaken => LoginLoadsLatest
<1>1. LastInv /\ LastInv' /\ NoneOvertaken /\ [Next]_vars =>
        [session' # session => dbVer = ver \/ lostSave]_vars
  <2> SUFFICES ASSUME LastInv, NoneOvertaken, [Next]_vars, session' # session
               PROVE dbVer = ver \/ lostSave
    OBVIOUS
  <2>1. FlowStep BY NextVersionInv DEF LastInv
  <2>2. Loads
    BY <2>1 DEF FlowStep, Beside, Stores, Overtakes, Forgets, Reboots, TakesSave, Drops, Lands
  <2> QED BY <2>2 DEF Loads, LastInv, StoredAtLast, Last, Over, LastSave, NoSaves
<1> QED BY <1>1, LastInvariant, PTL DEF Spec, LoginLoadsLatest

\* Each step of the machinery is one of SavedCharacter, or none.
LEMMA AbstractStep ==
    ASSUME LastInv, NoneOvertaken, [Next]_vars
    PROVE  [Abstract!Next]_(Abstract!vars)
<1>1. FlowStep BY NextVersionInv DEF LastInv
<1>2. /\ ver \in Nat /\ dbVer \in Nat /\ clock \in Nat
      /\ \A j \in Jobs : IsSnapshot(j) => job[j].snap.ver \in Nat
  BY VersionTypes DEF LastInv, VersionInv, VersionNats
<1>3. dbVer <= ver /\ ver <= clock
      /\ \A j \in Jobs : IsSnapshot(j) =>
            /\ job[j].snap.ver <= ver
            /\ job[j].snap.gen > lastCommitted => dbVer <= job[j].snap.ver
  BY DEF LastInv, VersionInv, Versions
<1>4. lostSave \in BOOLEAN /\ lostSave' \in BOOLEAN
  <2>1. SaveInv /\ SaveInv' BY NextInv DEF LastInv, VersionInv
  <2> QED BY <2>1 DEF SaveInv, DataTypes
<1> DEFINE same == (body' # "none") = (body # "none") /\ UNCHANGED <<ver, dbVer, lostSave>>
<1>s. same => UNCHANGED Abstract!vars BY DEF Abstract!vars
<1>5. OneMore /\ body # "none" /\ body' # "none" /\ UNCHANGED <<dbVer, lostSave>> => Abstract!Change
  BY <1>2, <1>3 DEF OneMore, Abstract!Change
<1>6. (body' # "none") = (body # "none") /\ UNCHANGED <<ver, dbVer>> /\ (lostSave => lostSave')
        => same \/ Abstract!GiveUp
  BY <1>4 DEF Abstract!GiveUp
<1>7. ASSUME (body' # "none") = (body # "none"), UNCHANGED <<ver, lostSave>>, dbVer' \in Nat,
             dbVer <= dbVer', dbVer' <= ver
      PROVE same \/ Abstract!Save
  BY <1>2, <1>7 DEF Abstract!Save
<1>8. ASSUME Beside PROVE same \/ Abstract!Next
  BY <1>5, <1>6, <1>8 DEF Beside, Over, Abstract!Next
<1>9. ASSUME NEW j \in Jobs, TakesSave(j) PROVE same \/ Abstract!Next
  <2>1. CASE body' = "none"
    BY <1>9, <2>1 DEF TakesSave, Over, Abstract!Leave, Abstract!Next
  <2>2. CASE body' # "none" BY <1>5, <1>9, <2>2 DEF TakesSave, Abstract!Next
  <2> QED BY <2>1, <2>2
<1>10. ASSUME NEW j \in Jobs, Drops(j) PROVE same \/ Abstract!Next
  BY <1>6, <1>10 DEF Drops, Abstract!Next
<1>11. ASSUME NEW j \in Jobs, Lands(j) PROVE same \/ Abstract!Next
  BY <1>2, <1>3, <1>7, <1>11 DEF Lands, Ended, Abstract!Next
<1>12. ASSUME Stores PROVE same \/ Abstract!Next
  BY <1>2, <1>3, <1>7, <1>12 DEF Stores, Abstract!Next
<1>13. ASSUME Overtakes \/ Forgets PROVE same BY <1>13 DEF Overtakes, Forgets
<1>14. ASSUME Loads PROVE Abstract!Enter
  <2>1. dbVer = ver \/ lostSave
    BY <1>14 DEF Loads, LastInv, StoredAtLast, Last, Over, LastSave, NoSaves
  <2> QED BY <1>4, <1>14, <2>1 DEF Loads, Abstract!Enter
<1>15. ASSUME Reboots PROVE Abstract!Die
  <2>1. main = "stopped" /\ ~lostSave => dbVer = ver
    BY DEF LastInv, StoredAtLast, Last, Halted, NoSaves, LastSave, Over
  <2> QED BY <1>4, <1>15, <2>1 DEF Reboots, Abstract!Die
<1> HIDE DEF same
<1> QED BY <1>1, <1>s, <1>8, <1>9, <1>10, <1>11, <1>12, <1>13, <1>14, <1>15
     DEF FlowStep, Abstract!Next

\* The coordinator, its tasks and the paths that take and read snapshots implement
\* SavedCharacter: what is stored only moves forward and never past the character,
\* and a session starts from what the last one ended with.
THEOREM PromiseKept ==
    ASSUME "latetask" \notin Features
    PROVE  Spec /\ []NoneOvertaken => KeepsPromise
<1>1. Init => Abstract!Init BY DEF Init, Abstract!Init
<1>2. LastInv /\ NoneOvertaken /\ [Next]_vars => [Abstract!Next]_(Abstract!vars)
  BY AbstractStep
<1> QED BY <1>1, <1>2, LastInvariant, PTL DEF Spec, KeepsPromise, Abstract!Spec

\* A save a script or a quest asked for is stored, still marked, or on its way, in
\* a game where no row write overtakes it.
THEOREM RequestsKept ==
    ASSUME Features \cap {"chest", "task", "latetask"} = {}
    PROVE  Spec /\ []NoneOvertaken => []SaveRequestKept
<1> DEFINE I == VersionInv /\ NoRowWrites /\ Caught /\ Asked
<1>1. Init => I
  BY InitVersionInv, InitRowWrites DEF Init, Caught, Asked, IsSnapshot, FreeJob
<1>2. I /\ NoneOvertaken /\ [Next]_vars => I'
  <2> SUFFICES ASSUME I, NoneOvertaken, [Next]_vars PROVE I' OBVIOUS
  <2>1. VersionInv' /\ FlowStep BY NextVersionInv
  <2>2. NoRowWrites' BY NextNoRowWrites DEF VersionInv
  <2>3. ~Overtakes BY DEF NoRowWrites, Overtakes
  <2>4. Caught' BY <2>1, <2>3, NextCaught DEF VersionInv
  <2>5. Asked' BY <2>1, <2>3, NextAsked DEF VersionInv
  <2> QED BY <2>1, <2>2, <2>4, <2>5
<1>3. I => SaveRequestKept
  BY DEF Asked, Pending, Failed, Carries, InWorld, SaveRequestKept
<1> QED BY <1>1, <1>2, <1>3, PTL DEF Spec

\* With one connection the character's saves keep every one of these promises.
THEOREM OneConnectionKeepsAll ==
    ASSUME \A c, d \in Conns : c = d, "latetask" \notin Features
    PROVE  Spec => /\ []NoOldSessionWrites /\ NoRollback /\ []StopSavesAll
                   /\ LoginLoadsLatest /\ KeepsPromise
<1>1. Spec => []NoneOvertaken BY OneConnection
<1>2. Spec /\ []NoneOvertaken => []NoOldSessionWrites /\ NoRollback
  BY BarrierHolds, NeverRolledBack
<1>3. Spec /\ []NoneOvertaken => []StopSavesAll /\ LoginLoadsLatest /\ KeepsPromise
  BY StopSaves, LoginsLoadTheLatest, PromiseKept
<1> QED BY <1>1, <1>2, <1>3
=============================================================================
