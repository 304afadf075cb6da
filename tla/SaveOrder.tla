----------------------------- MODULE SaveOrder -----------------------------
(***************************************************************************)
(* One character's save machinery: the SaveCoordinator slot of autosave.rs *)
(* together with every path of login.rs and commands/save.rs that takes a  *)
(* snapshot of the character or reads it back.                             *)
(*                                                                         *)
(* The world thread ("main") runs the game loop and never shares a step    *)
(* with another world action; a write runs in a spawned task (a Job).  The *)
(* order mutex is a FIFO queue whose head holds the character's turn.      *)
(* The character's saved state is one version number; a snapshot carries   *)
(* the version, the session it was taken in and the one-shot work (a       *)
(* death's corpse insert, a consumed PendingSave marker) that rides on it. *)
(***************************************************************************)
EXTENDS Naturals, Sequences, FiniteSets

CONSTANTS
    Jobs,            \* spawned tasks of this character that may coexist
    Conns,           \* client connections that may log this character in
    World,           \* the world thread, as a waiter for the turn
    Features,        \* the parts of the environment that are switched on
    MaxVer,          \* bound: changes to the character's state
    MaxGen,          \* bound: generations handed out by one slot
    MaxDeaths,       \* bound: deaths of the character
    MaxSessions,     \* bound: logins that load the character
    RetryDelays,     \* length of QUIT_RETRY_BACKOFF
    SaveTurnRetries  \* SAVE_TURN_RETRIES of the save command

AllFeatures == {"fail", "lua", "save", "chest", "task", "latetask",
                "linkdead", "crash", "shutdown"}

ASSUME ConstantsAssumption ==
    /\ World \notin Jobs /\ IsFiniteSet(Jobs)
    /\ Features \subseteq AllFeatures
    /\ MaxVer \in Nat /\ MaxGen \in Nat /\ MaxDeaths \in Nat
    /\ MaxSessions \in Nat
    /\ RetryDelays \in Nat /\ SaveTurnRetries \in Nat

VARIABLES
    main,           \* what the world thread is doing
    turn,           \* the order mutex: holder first, then its waiters
    job,            \* the spawned tasks
    nextGen,        \* Slot.next_generation
    lastCommitted,  \* the value behind Slot.order
    inFlight,       \* Slot.in_flight
    outstanding,    \* Slot.outstanding
    done,           \* Shared.done, the completions not yet folded in
    body,           \* the character's entity in the world
    conn,           \* the client connections
    caller,         \* the connection main is logging in
    ver,            \* version of the entity's state (of the last one, once gone)
    marker,         \* PendingSave on the entity
    pendingDeath,   \* PendingDeath on the entity
    dbVer,          \* version the database holds
    dbCorpses,      \* rows of PlayerCorpses this character's deaths inserted
    \* history, read by the properties only
    clock,          \* highest version ever reached
    session,        \* number of the entity (a relog makes a new one)
    deaths,         \* deaths so far
    asked,          \* version the latest PendingSave request covers
    dbGen,          \* generation of the slot's latest database write
    lostSave        \* a save was given up on, loudly: retry or flush ran out

slotVars == <<nextGen, lastCommitted, inFlight, outstanding, done>>
entityVars == <<body, ver, marker, pendingDeath>>
dbVars == <<dbVer, dbCorpses, dbGen>>
connVars == <<conn, caller>>
historyVars == <<clock, session, deaths, asked>>
vars == <<main, turn, job, slotVars, entityVars, connVars, dbVars,
          historyVars, lostSave>>

-----------------------------------------------------------------------------
Kinds == {"free", "background", "checkpoint", "final", "retry", "task", "waiter"}
Phases == {"none", "spawned", "queued", "writing", "sleeping", "answered"}
Snapshots == [gen : Nat, ver : Nat, session : Nat, death : BOOLEAN, marker : BOOLEAN]
JobRecs == [kind : Kinds, at : Phases, snap : Snapshots, tries : Nat]
Outcomes == {"committed", "stale", "failed"}
Completions == [snap : Snapshots, outcome : Outcomes, owns : BOOLEAN]

NoSnap == [gen |-> 0, ver |-> 0, session |-> 0, death |-> FALSE, marker |-> FALSE]
FreeJob == [kind |-> "free", at |-> "none", snap |-> NoSnap, tries |-> 0]

\* A task's record, a task that moves to another phase, and job with j's changed.
Rec(kind, at, snap, tries) == [kind |-> kind, at |-> at, snap |-> snap, tries |-> tries]
Moved(j, at) == Rec(job[j].kind, at, job[j].snap, job[j].tries)
Becomes(j, rec) == job' = [job EXCEPT ![j] = rec]

Idle == main = "idle"
InWorld == body \in {"playing", "linkdead"}
TurnFree == turn = <<>>
HasTurn(x) == turn # <<>> /\ Head(turn) = x
Free(j) == job[j].kind = "free"
Is(j, kind, at) == job[j].kind = kind /\ job[j].at = at
GenLeft == nextGen <= MaxGen

-----------------------------------------------------------------------------
(* apply_completions: what the entity and the slot become once every       *)
(* finished write is folded in.                                            *)

Mine(c) == c.snap.session = session /\ body # "none"
\* Mutant: any completion releases the claim, a quit-save retry's too.
ClaimAfter_AnyCompletion == inFlight /\ done = {}
ClaimAfter == inFlight /\ ~ \E c \in done : c.owns
MarkerAfter ==
    marker \/ \E c \in done : Mine(c) /\ c.outcome = "failed" /\ c.snap.marker
DeathAfter ==
    pendingDeath /\ ~ \E c \in done : Mine(c) /\ c.outcome = "committed" /\ c.snap.death

ApplyCompletions ==
    /\ done' = {} /\ inFlight' = ClaimAfter
    /\ marker' = MarkerAfter /\ pendingDeath' = DeathAfter

\* snapshot_player of the state v, in generation order.
SnapshotOf(v, m, d) ==
    [gen |-> nextGen, ver |-> v, session |-> session, death |-> d, marker |-> m]
SnapshotWith(m, d) == SnapshotOf(ver, m, d)

(* A committed write_snapshot: one transaction stores the state and inserts *)
(* the corpse row of the death the snapshot carries.                        *)
Store(snap) ==
    /\ dbVer' = snap.ver
    /\ dbGen' = snap.gen
    /\ dbCorpses' = dbCorpses + (IF snap.death THEN 1 ELSE 0)

Publish(snap, outcome, owns) ==
    done' = done \cup {[snap |-> snap, outcome |-> outcome, owns |-> owns]}

Init ==
    /\ main = "idle" /\ turn = <<>>
    /\ job = [j \in Jobs |-> FreeJob]
    /\ nextGen = 1 /\ lastCommitted = 0
    /\ inFlight = FALSE /\ outstanding = 0 /\ done = {}
    /\ body = "none"
    /\ conn = [c \in Conns |-> "out"] /\ caller \in Conns
    /\ ver = 0 /\ marker = FALSE /\ pendingDeath = FALSE
    /\ dbVer = 0 /\ dbCorpses = 0
    /\ clock = 0 /\ session = 0 /\ deaths = 0 /\ asked = 0
    /\ dbGen = 0 /\ lostSave = FALSE

-----------------------------------------------------------------------------
(* A background save, and what changes the character between two saves.    *)

\* request_background with the claim free: the snapshot is taken now, the
\* task that will write it has not run yet.
SpawnBackground(j, v, m, d) ==
    /\ Free(j) /\ GenLeft
    /\ Becomes(j, Rec("background", "spawned", SnapshotOf(v, m, d), 0))
    /\ nextGen' = nextGen + 1
    /\ inFlight' = TRUE
    /\ outstanding' = outstanding + 1
    /\ marker' = FALSE

\* Anything that changes saved state.
Play ==
    /\ Idle /\ InWorld /\ clock < MaxVer
    /\ clock' = clock + 1 /\ ver' = clock + 1
    /\ UNCHANGED <<main, turn, job, slotVars, body, marker, pendingDeath, connVars,
                   dbVars, session, deaths, asked, lostSave>>

\* handle_death: gear and purse move to a corpse, the player is marked, and
\* save_player_soon asks for a save of that: a snapshot at once, or, while an
\* earlier one is unsettled, the PendingSave marker.  A ghost cannot die again
\* before the corpse it left is settled.
Die ==
    /\ Idle /\ InWorld /\ ~pendingDeath /\ deaths < MaxDeaths /\ clock < MaxVer
    /\ clock' = clock + 1 /\ ver' = clock + 1
    /\ deaths' = deaths + 1 /\ pendingDeath' = TRUE
    /\ \/ /\ ~inFlight
          /\ \E j \in Jobs : SpawnBackground(j, clock + 1, marker, TRUE)
          /\ UNCHANGED asked
       \/ /\ inFlight
          /\ marker' = TRUE /\ asked' = clock + 1
          /\ UNCHANGED <<job, nextGen, inFlight, outstanding>>
    /\ UNCHANGED <<main, turn, lastCommitted, done, body, connVars, dbVars,
                   session, lostSave>>

\* A script's actor:save(), or a quest step's save_player_soon while a write is
\* in flight: the marker asks for a save of this state.  (With no write in
\* flight save_player_soon takes the snapshot AutosaveDue takes.)
AskSave ==
    /\ Idle /\ "lua" \in Features /\ InWorld
    /\ marker' = TRUE /\ asked' = ver
    /\ UNCHANGED <<main, turn, job, slotVars, body, ver, pendingDeath, connVars,
                   dbVars, clock, session, deaths, lostSave>>

-----------------------------------------------------------------------------
(* Background saves.                                                       *)

\* The slot is dropped when nothing refers to it and the character is gone;
\* its next user starts a fresh one.
Unreferenced ==
    /\ TurnFree /\ \A j \in Jobs : Free(j) \/ job[j].at = "answered"
    /\ ~ClaimAfter /\ body \in {"none", "retiring"}

\* autosave_tick: fold in what finished, forget an unused slot.
AutosaveScan ==
    /\ Idle
    /\ ApplyCompletions
    /\ IF Unreferenced
       THEN nextGen' = 1 /\ lastCommitted' = 0 /\ dbGen' = 0
       ELSE UNCHANGED <<nextGen, lastCommitted, dbGen>>
    /\ UNCHANGED <<main, turn, job, outstanding, body, ver, connVars, dbVer,
                   dbCorpses, historyVars, lostSave>>

\* Mutant: the snapshot forgets that it consumed a PendingSave marker.
AutosaveDue_DropsMarker(j) ==
    /\ Idle /\ InWorld /\ ~ClaimAfter
    /\ done' = {} /\ pendingDeath' = DeathAfter
    /\ SpawnBackground(j, ver, FALSE, DeathAfter)
    /\ UNCHANGED <<main, turn, lastCommitted, body, ver, connVars, dbVars,
                   historyVars, lostSave>>

\* autosave_tick when the character is due: the same scan, then a snapshot.
AutosaveDue(j) ==
    /\ Idle /\ InWorld /\ ~ClaimAfter
    /\ done' = {} /\ pendingDeath' = DeathAfter
    /\ SpawnBackground(j, ver, MarkerAfter, DeathAfter)
    /\ UNCHANGED <<main, turn, lastCommitted, body, ver, connVars, dbVars,
                   historyVars, lostSave>>

\* drain_pending_saves: a marked player whose claim is free is snapshotted,
\* a retiring one included.
DrainPendingSave(j) ==
    /\ Idle /\ body # "none" /\ marker /\ ~inFlight
    /\ SpawnBackground(j, ver, TRUE, pendingDeath)
    /\ UNCHANGED <<main, turn, lastCommitted, done, body, ver, pendingDeath,
                   connVars, dbVars, historyVars, lostSave>>

-----------------------------------------------------------------------------
(* Spawned tasks taking the turn.                                          *)

\* A task polled for the first time (or after its backoff) joins the queue.
JoinTurn(j) ==
    /\ job[j].at = "spawned"
    /\ Becomes(j, Moved(j, "queued"))
    /\ turn' = Append(turn, j)
    /\ UNCHANGED <<main, slotVars, entityVars, connVars, dbVars, historyVars,
                   lostSave>>

\* The task is done with the turn and with its bookkeeping.  A save command
\* the player is still waiting for leaves its answer for the tick.
Release(j) ==
    /\ turn' = Tail(turn)
    /\ Becomes(j, IF job[j].kind = "checkpoint" /\ job[j].tries > 0
                  THEN Moved(j, "answered") ELSE FreeJob)
    /\ outstanding' = outstanding - 1

\* request_background's task with the turn: an overtaken snapshot is skipped.
BackgroundStale(j) ==
    /\ Is(j, "background", "queued") /\ HasTurn(j)
    /\ job[j].snap.gen <= lastCommitted
    /\ Publish(job[j].snap, "stale", TRUE)
    /\ Release(j)
    /\ UNCHANGED <<main, nextGen, lastCommitted, inFlight, entityVars, connVars,
                   dbVars, historyVars, lostSave>>

\* Mutant: a task with the turn writes without looking at its generation.
StartWrite_AnyAge(j) ==
    /\ job[j].kind \in {"background", "retry"} /\ job[j].at = "queued" /\ HasTurn(j)
    /\ Becomes(j, Moved(j, "writing"))
    /\ UNCHANGED <<main, turn, slotVars, entityVars, connVars, dbVars, historyVars,
                   lostSave>>

\* A task holding the turn starts its write; a retry whose snapshot was
\* overtaken ends instead (RetrySuperseded).
StartWrite(j) ==
    /\ job[j].kind \in {"background", "retry"} /\ job[j].at = "queued" /\ HasTurn(j)
    /\ job[j].snap.gen > lastCommitted
    /\ Becomes(j, Moved(j, "writing"))
    /\ UNCHANGED <<main, turn, slotVars, entityVars, connVars, dbVars, historyVars,
                   lostSave>>

\* Mutant: the commit is not recorded against the slot.
Commit_Unrecorded(j) ==
    /\ job[j].at = "writing" /\ job[j].kind # "task"
    /\ Store(job[j].snap)
    /\ Publish(job[j].snap, "committed", job[j].kind \in {"background", "checkpoint"})
    /\ Release(j)
    /\ UNCHANGED <<main, nextGen, lastCommitted, inFlight, entityVars, connVars,
                   historyVars, lostSave>>

\* The write commits: the generation is recorded and the completion is in the
\* list before the turn is passed on.  record_commit keeps the higher value.
Commit(j) ==
    LET snap == job[j].snap
    IN  /\ job[j].at = "writing" /\ job[j].kind # "task"
        /\ Store(snap)
        /\ lastCommitted' = IF snap.gen > lastCommitted THEN snap.gen ELSE lastCommitted
        /\ Publish(snap, "committed", job[j].kind \in {"background", "checkpoint"})
        /\ Release(j)
        /\ UNCHANGED <<main, nextGen, inFlight, entityVars, connVars, historyVars,
                       lostSave>>

\* The write of an autosave or of a save command fails: the completion says so.
WriteFails(j) ==
    /\ "fail" \in Features
    /\ job[j].at = "writing" /\ job[j].kind \in {"background", "checkpoint"}
    /\ Publish(job[j].snap, "failed", TRUE)
    /\ Release(j)
    /\ UNCHANGED <<main, nextGen, lastCommitted, inFlight, entityVars, connVars,
                   dbVars, historyVars, lostSave>>

-----------------------------------------------------------------------------
(* The last save of a session, and its retries.                            *)

\* spawn_final_save's write fails: the retry is registered, still counted as
\* an unfinished write, before the turn is passed on.
FinalFails(j) ==
    /\ "fail" \in Features /\ Is(j, "final", "writing")
    /\ turn' = Tail(turn)
    /\ Becomes(j, Rec("retry", "spawned", job[j].snap, 0))
    /\ UNCHANGED <<main, slotVars, entityVars, connVars, dbVars, historyVars,
                   lostSave>>

\* Mutant: the turn is kept while the retry sleeps.
RetryFails_KeepsTurn(j) ==
    /\ "fail" \in Features /\ Is(j, "retry", "writing")
    /\ IF job[j].tries < RetryDelays
       THEN /\ Becomes(j, Rec("retry", "sleeping", job[j].snap, job[j].tries + 1))
            /\ UNCHANGED <<turn, outstanding, lostSave>>
       ELSE Release(j) /\ lostSave' = TRUE
    /\ UNCHANGED <<main, nextGen, lastCommitted, inFlight, done, entityVars,
                   connVars, dbVars, historyVars>>

\* A retry's attempt fails: it sleeps off the backoff, or gives up.
RetryFails(j) ==
    /\ "fail" \in Features /\ Is(j, "retry", "writing")
    /\ IF job[j].tries < RetryDelays
       THEN /\ turn' = Tail(turn)
            /\ Becomes(j, Rec("retry", "sleeping", job[j].snap, job[j].tries + 1))
            /\ UNCHANGED <<outstanding, lostSave>>
       ELSE Release(j) /\ lostSave' = TRUE
    /\ UNCHANGED <<main, nextGen, lastCommitted, inFlight, done, entityVars,
                   connVars, dbVars, historyVars>>

\* Mutant: a later attempt writes without taking the turn again.
RetryWake_NoTurn(j) ==
    /\ Is(j, "retry", "sleeping")
    /\ Becomes(j, Moved(j, "writing"))
    /\ UNCHANGED <<main, turn, slotVars, entityVars, connVars, dbVars,
                   historyVars, lostSave>>

\* The backoff is over: the next attempt asks for the turn anew.
RetryWake(j) ==
    /\ Is(j, "retry", "sleeping")
    /\ Becomes(j, Moved(j, "spawned"))
    /\ UNCHANGED <<main, turn, slotVars, entityVars, connVars, dbVars,
                   historyVars, lostSave>>

\* A retry that finds a newer generation committed ends without a word.
RetrySuperseded(j) ==
    /\ Is(j, "retry", "queued") /\ HasTurn(j)
    /\ job[j].snap.gen <= lastCommitted
    /\ Release(j)
    /\ UNCHANGED <<main, nextGen, lastCommitted, inFlight, done, entityVars,
                   connVars, dbVars, historyVars, lostSave>>

\* Mutant: the final write is not counted as unfinished.
Retire_Uncounted(j) ==
    /\ TurnFree /\ Free(j)
    /\ Becomes(j, Rec("final", "writing", SnapshotWith(FALSE, DeathAfter), 0))
    /\ turn' = <<j>>
    /\ nextGen' = nextGen + 1
    /\ done' = {} /\ inFlight' = ClaimAfter
    /\ body' = "none" /\ marker' = FALSE /\ pendingDeath' = FALSE
    /\ UNCHANGED outstanding

\* retire_player with the turn free: what finished is folded in, the snapshot
\* taken and handed to spawn_final_save, the entity despawned.  A death still
\* pending on the entity rides on the snapshot.
Retire(j) ==
    /\ TurnFree /\ Free(j)
    /\ Becomes(j, Rec("final", "writing", SnapshotWith(FALSE, DeathAfter), 0))
    /\ turn' = <<j>>
    /\ nextGen' = nextGen + 1
    /\ outstanding' = outstanding + 1
    /\ done' = {} /\ inFlight' = ClaimAfter
    /\ body' = "none" /\ marker' = FALSE /\ pendingDeath' = FALSE

\* The exits that find the turn busy leave the entity for the next tick.
DrainRetiring(j) ==
    /\ Idle /\ body = "retiring"
    /\ Retire(j)
    /\ UNCHANGED <<main, lastCommitted, ver, connVars, dbVars, historyVars, lostSave>>

\* drain_linkdead: the fight is over for good.
DrainLinkdead(j) ==
    /\ Idle /\ body = "linkdead"
    /\ Retire(j)
    /\ UNCHANGED <<main, lastCommitted, ver, connVars, dbVars, historyVars, lostSave>>

\* on_disconnect of the playing connection (link loss, quit, camp, idle kick).
DisconnectRetire(c, j) ==
    /\ Idle /\ conn[c] = "playing"
    /\ conn' = [conn EXCEPT ![c] = "out"]
    /\ Retire(j)
    /\ UNCHANGED <<main, lastCommitted, ver, caller, dbVars, historyVars, lostSave>>

DisconnectBusy(c) ==
    /\ Idle /\ conn[c] = "playing" /\ ~TurnFree
    /\ conn' = [conn EXCEPT ![c] = "out"]
    /\ body' = "retiring"
    /\ UNCHANGED <<main, turn, job, slotVars, ver, marker, pendingDeath, caller,
                   dbVars, historyVars, lostSave>>

\* The link drops in a fight: a living character stays in the world.
DisconnectLinkdead(c) ==
    /\ "linkdead" \in Features
    /\ Idle /\ conn[c] = "playing" /\ ~pendingDeath
    /\ conn' = [conn EXCEPT ![c] = "out"]
    /\ body' = "linkdead"
    /\ UNCHANGED <<main, turn, job, slotVars, ver, marker, pendingDeath, caller,
                   dbVars, historyVars, lostSave>>

-----------------------------------------------------------------------------
(* The save command (commands/save.rs), split by off_tick.rs.              *)

Waiting(j) == job[j].kind = "waiter" \/ (job[j].kind = "checkpoint" /\ job[j].tries > 0)

\* A waiter carries no snapshot, only whom it waits for.
WaiterSnap ==
    [gen |-> 0, ver |-> 0, session |-> session, death |-> FALSE, marker |-> FALSE]

\* start_save: with the turn free and the claim ours the snapshot is taken
\* and its write spawned with the turn in hand.  Otherwise a spawned waiter
\* queues for the turn, or, with no retries left, the player is told.
StartSave(j, retries) ==
    \/ /\ TurnFree /\ ~ClaimAfter
       /\ Becomes(j, Rec("checkpoint", "writing", SnapshotWith(FALSE, DeathAfter), 1))
       /\ turn' = <<j>>
       /\ nextGen' = nextGen + 1 /\ outstanding' = outstanding + 1
       /\ inFlight' = TRUE /\ done' = {}
       /\ marker' = MarkerAfter /\ pendingDeath' = DeathAfter
    \/ /\ ~TurnFree \/ ClaimAfter
       /\ Becomes(j, IF retries > 0 THEN Rec("waiter", "spawned", WaiterSnap, retries)
                                    ELSE FreeJob)
       /\ UNCHANGED <<turn, nextGen, outstanding>>
       /\ IF TurnFree  \* the turn was ours: completions were folded in
          THEN ApplyCompletions ELSE UNCHANGED <<inFlight, done, marker, pendingDeath>>

\* A player who is not waiting for a save types the command.
SaveCommand(j) ==
    /\ "save" \in Features
    /\ Idle /\ body = "playing" /\ GenLeft
    /\ Free(j) /\ \A k \in Jobs : Waiting(k) => job[k].snap.session # session
    /\ StartSave(j, SaveTurnRetries)
    /\ UNCHANGED <<main, lastCommitted, body, ver, connVars, dbVars, historyVars,
                   lostSave>>

\* The waiter gets the turn, and lets it go at once.
WaiterTurn(j) ==
    /\ Is(j, "waiter", "queued") /\ HasTurn(j)
    /\ turn' = Tail(turn)
    /\ Becomes(j, Moved(j, "answered"))
    /\ UNCHANGED <<main, slotVars, entityVars, connVars, dbVars, historyVars,
                   lostSave>>

\* drain_command_jobs runs the waiter's finish step: one retry fewer, unless
\* the entity it was for is gone.
SaveRetry(j) ==
    /\ Is(j, "waiter", "answered") /\ Idle
    /\ body # "none" /\ job[j].snap.session = session
    /\ StartSave(j, job[j].tries - 1)
    /\ UNCHANGED <<main, lastCommitted, body, ver, connVars, dbVars, historyVars,
                   lostSave>>

\* drain_command_jobs for a save command's answer: fold it in, tell the player.
SaveAnswered(j) ==
    /\ Is(j, "checkpoint", "answered") /\ Idle
    /\ Becomes(j, FreeJob)
    /\ IF body # "none" /\ job[j].snap.session = session
       THEN /\ ApplyCompletions
       ELSE UNCHANGED <<done, inFlight, marker, pendingDeath>>
    /\ UNCHANGED <<main, turn, nextGen, lastCommitted, outstanding, body, ver,
                   connVars, dbVars, historyVars, lostSave>>

\* The finish step of a waiter whose player has left does nothing.
SaveDropped(j) ==
    /\ Is(j, "waiter", "answered") /\ Idle
    /\ body = "none" \/ job[j].snap.session # session
    /\ Becomes(j, FreeJob)
    /\ UNCHANGED <<main, turn, slotVars, entityVars, connVars, dbVars,
                   historyVars, lostSave>>

\* The k-th waiter gives up its place.
LeaveQueue(k) ==
    turn' = [i \in 1 .. Len(turn) - 1 |-> IF i < k THEN turn[i] ELSE turn[i + 1]]

\* JOB_TIMEOUT: the player is released.  The waiter is aborted, a write that
\* has started goes on alone.
SaveAbandoned(j) ==
    /\ \/ /\ Is(j, "waiter", "spawned")
          /\ Becomes(j, FreeJob) /\ UNCHANGED turn
       \/ /\ Is(j, "waiter", "queued")
          /\ Becomes(j, FreeJob)
          /\ \E k \in 1 .. Len(turn) : turn[k] = j /\ LeaveQueue(k)
       \/ /\ Is(j, "checkpoint", "writing") /\ job[j].tries > 0
          /\ Becomes(j, Rec("checkpoint", "writing", job[j].snap, 0)) /\ UNCHANGED turn
    /\ UNCHANGED <<main, slotVars, entityVars, connVars, dbVars, historyVars,
                   lostSave>>

-----------------------------------------------------------------------------
(* Writes of this character's rows that are not snapshots.                 *)

\* spawn_ordered: the turn is asked for at once, and the task is counted.
\* The house code does it for a character in the world; the quest payers also
\* do it from tasks that outlive the session ("latetask").
SpawnTask(j) ==
    /\ \/ "task" \in Features /\ Idle /\ body = "playing"
       \/ "latetask" \in Features /\ session > 0 /\ main # "stopped"
    /\ Free(j) /\ GenLeft
    /\ Becomes(j, Rec("task", "queued", NoSnap, 0))
    /\ turn' = Append(turn, j)
    /\ outstanding' = outstanding + 1
    /\ UNCHANGED <<main, nextGen, lastCommitted, inFlight, done, entityVars,
                   connVars, dbVars, historyVars, lostSave>>

\* supersede_earlier_snapshots after the row change: every snapshot taken so
\* far goes stale.
Supersede ==
    /\ nextGen' = nextGen + 1
    /\ lastCommitted' = IF nextGen > lastCommitted THEN nextGen ELSE lastCommitted
    /\ dbGen' = nextGen

\* The task with the turn changes its rows, or fails, or finds that there is
\* nothing left to change.
TaskRun(j) ==
    /\ Is(j, "task", "queued") /\ HasTurn(j)
    /\ Supersede \/ UNCHANGED <<nextGen, lastCommitted, dbGen>>
    /\ Release(j)
    /\ UNCHANGED <<main, inFlight, done, entityVars, connVars, dbVer, dbCorpses,
                   historyVars, lostSave>>

\* The account chest and bank await the turn on the world thread.
ChestBegin ==
    /\ "chest" \in Features
    /\ Idle /\ body = "playing" /\ GenLeft
    /\ main' = "chest" /\ turn' = Append(turn, World)
    /\ UNCHANGED <<job, slotVars, entityVars, connVars, dbVars, historyVars, lostSave>>

\* With the turn: completions first, then the transfer, unless it is refused.
ChestDone ==
    /\ main = "chest" /\ HasTurn(World)
    /\ main' = "idle" /\ turn' = Tail(turn)
    /\ ApplyCompletions
    /\ Supersede \/ UNCHANGED <<nextGen, lastCommitted, dbGen>>
    /\ UNCHANGED <<job, outstanding, body, ver, connVars, dbVer, dbCorpses,
                   historyVars, lostSave>>

-----------------------------------------------------------------------------
(* Login (login.rs, complete_login and the relog barrier).                 *)

\* A connection gets to character select.
Connect(c) ==
    /\ Idle /\ conn[c] = "out" /\ GenLeft /\ session < MaxSessions
    /\ conn' = [conn EXCEPT ![c] = "select"]
    /\ UNCHANGED <<main, turn, job, slotVars, entityVars, caller, dbVars,
                   historyVars, lostSave>>

\* try_takeover: the entity gets the new connection, the old one is closed.
Takeover(c) ==
    /\ body # "none"
    /\ body' = "playing"
    /\ conn' = [d \in Conns |-> IF d = c THEN "playing"
                                ELSE IF conn[d] = "playing" THEN "out" ELSE conn[d]]
    /\ UNCHANGED <<main, turn, caller>>

\* Past the barrier, main awaits the turn.
BeginLoad(c) ==
    /\ body = "none"
    /\ main' = "login" /\ caller' = c
    /\ turn' = Append(turn, World)
    /\ UNCHANGED <<body, conn>>

\* Mutant: no relog barrier.
CompleteLogin_NoBarrier(c) ==
    /\ Idle /\ conn[c] = "select" /\ GenLeft
    /\ Takeover(c) \/ BeginLoad(c)
    /\ UNCHANGED <<job, slotVars, ver, marker, pendingDeath, dbVars, historyVars,
                   lostSave>>

\* complete_login_inner for a connection that has chosen this character.
CompleteLogin(c) ==
    /\ Idle /\ conn[c] = "select" /\ GenLeft
    /\ \/ Takeover(c)
       \/ outstanding = 0 /\ BeginLoad(c)
       \/ /\ body = "none" /\ outstanding > 0
          /\ conn' = [conn EXCEPT ![c] = "waiting"]
          /\ UNCHANGED <<main, turn, body, caller>>
    /\ UNCHANGED <<job, slotVars, ver, marker, pendingDeath, dbVars, historyVars,
                   lostSave>>

\* Mutant: the wait is over as soon as the turn is free.
WaitEnds_TurnFree(c) ==
    /\ conn[c] = "waiting"
    /\ conn' = [conn EXCEPT ![c] = IF TurnFree THEN "settled" ELSE "expired"]
    /\ UNCHANGED <<main, turn, job, slotVars, entityVars, caller, dbVars,
                   historyVars, lostSave>>

\* wait_settled looked, and there was nothing unfinished at that moment; or
\* its time was up.
WaitEnds(c) ==
    /\ conn[c] = "waiting"
    /\ conn' = [conn EXCEPT ![c] = IF outstanding = 0 THEN "settled" ELSE "expired"]
    /\ UNCHANGED <<main, turn, job, slotVars, entityVars, caller, dbVars,
                   historyVars, lostSave>>

\* Mutant: a wait that timed out is never answered.
FinishSaveWait_OnlySettled(c) ==
    /\ Idle /\ conn[c] = "settled"
    /\ Takeover(c) \/ BeginLoad(c)
    /\ UNCHANGED <<job, slotVars, ver, marker, pendingDeath, dbVars, historyVars,
                   lostSave>>

\* finish_save_wait: refused, or complete_login_inner without the barrier.
FinishSaveWait(c) ==
    /\ Idle
    /\ \/ /\ conn[c] = "expired"
          /\ conn' = [conn EXCEPT ![c] = "out"]
          /\ UNCHANGED <<main, turn, body, caller>>
       \/ conn[c] = "settled" /\ (Takeover(c) \/ BeginLoad(c))
    /\ UNCHANGED <<job, slotVars, ver, marker, pendingDeath, dbVars, historyVars,
                   lostSave>>

\* The row is read and the entity spawned, all under the turn.
LoginLoads ==
    /\ main = "login" /\ HasTurn(World)
    /\ main' = "idle" /\ turn' = Tail(turn)
    /\ body' = "playing" /\ conn' = [conn EXCEPT ![caller] = "playing"]
    /\ ver' = dbVer /\ session' = session + 1 /\ asked' = dbVer
    /\ lostSave' = FALSE
    /\ UNCHANGED <<job, slotVars, marker, pendingDeath, caller, dbVars, clock, deaths>>

\* A failed read refuses the login.
LoginRefused ==
    /\ "fail" \in Features
    /\ main = "login" /\ HasTurn(World)
    /\ main' = "idle" /\ turn' = Tail(turn)
    /\ conn' = [conn EXCEPT ![caller] = "out"]
    /\ UNCHANGED <<job, slotVars, entityVars, caller, dbVars, historyVars, lostSave>>

\* A connection that is not playing goes away; an answer for it is dropped.
HangUp(c) ==
    /\ Idle /\ conn[c] \in {"select", "waiting", "settled", "expired"}
    /\ conn' = [conn EXCEPT ![c] = "out"]
    /\ UNCHANGED <<main, turn, job, slotVars, entityVars, caller, dbVars,
                   historyVars, lostSave>>

-----------------------------------------------------------------------------
(* Shutdown and crashes.                                                   *)

\* Mutant: a character waiting to be retired is not saved at shutdown.
Shutdown_SkipsRetiring ==
    /\ "shutdown" \in Features /\ Idle
    /\ IF InWorld THEN main' = "saving" /\ turn' = Append(turn, World)
                  ELSE main' = "flushing" /\ UNCHANGED turn
    /\ UNCHANGED <<job, slotVars, entityVars, connVars, dbVars, historyVars, lostSave>>

\* The loop ends; save_all_online waits for the turn of whoever is online.
Shutdown ==
    /\ "shutdown" \in Features /\ Idle
    /\ IF body = "none" THEN main' = "flushing" /\ UNCHANGED turn
                        ELSE main' = "saving" /\ turn' = Append(turn, World)
    /\ UNCHANGED <<job, slotVars, entityVars, connVars, dbVars, historyVars, lostSave>>

\* save_player_final: completions first, then the snapshot, written here.
ShutdownSave ==
    LET snap == SnapshotWith(FALSE, DeathAfter)
    IN  /\ main = "saving" /\ HasTurn(World)
        /\ main' = "flushing" /\ turn' = Tail(turn)
        /\ nextGen' = nextGen + 1
        /\ done' = {} /\ inFlight' = ClaimAfter
        /\ marker' = MarkerAfter
        /\ \/ /\ Store(snap) /\ lastCommitted' = snap.gen
              /\ pendingDeath' = FALSE
              /\ UNCHANGED <<job, outstanding>>
           \/ /\ "fail" \in Features
              /\ \E j \in Jobs :
                   /\ Free(j)
                   /\ Becomes(j, Rec("retry", "spawned", snap, 0))
              /\ outstanding' = outstanding + 1
              /\ pendingDeath' = DeathAfter
              /\ UNCHANGED <<lastCommitted, dbVars>>
        /\ UNCHANGED <<body, ver, connVars, historyVars, lostSave>>

\* flush: every spawned write has finished, or 30 seconds are over.
FlushDone ==
    /\ main = "flushing"
    /\ \A j \in Jobs : Free(j) \/ job[j].at = "answered"
    /\ main' = "stopped"
    /\ ApplyCompletions
    /\ UNCHANGED <<turn, job, nextGen, lastCommitted, outstanding, body, ver,
                   connVars, dbVars, historyVars, lostSave>>

FlushTimeout ==
    /\ main = "flushing" /\ "fail" \in Features
    /\ \E j \in Jobs : ~Free(j) /\ job[j].at # "answered"
    /\ main' = "stopped" /\ lostSave' = TRUE
    /\ UNCHANGED <<turn, job, slotVars, entityVars, connVars, dbVars, historyVars>>

\* The process dies, or exits; what was only in memory is gone, the database
\* stays.  A transaction that had not committed did not happen.
Restart ==
    /\ main = "stopped" \/ "crash" \in Features
    /\ main' = "idle" /\ turn' = <<>> /\ job' = [j \in Jobs |-> FreeJob]
    /\ nextGen' = 1 /\ lastCommitted' = 0 /\ inFlight' = FALSE
    /\ outstanding' = 0 /\ done' = {} /\ dbGen' = 0
    /\ body' = "none" /\ marker' = FALSE /\ pendingDeath' = FALSE
    /\ conn' = [c \in Conns |-> "out"]
    /\ ver' = IF main = "stopped" /\ ~lostSave THEN ver ELSE dbVer
    /\ lostSave' = FALSE
    /\ UNCHANGED <<caller, dbVer, dbCorpses, historyVars>>

-----------------------------------------------------------------------------
Entity == Play \/ Die \/ AskSave
Tick ==
    \/ AutosaveScan
    \/ \E j \in Jobs : \/ AutosaveDue(j) \/ DrainPendingSave(j)
                       \/ DrainRetiring(j) \/ DrainLinkdead(j)
                       \/ SaveRetry(j) \/ SaveAnswered(j) \/ SaveDropped(j)
Task(j) ==
    \/ JoinTurn(j) \/ BackgroundStale(j) \/ StartWrite(j) \/ Commit(j)
    \/ WriteFails(j) \/ FinalFails(j) \/ RetryFails(j) \/ RetryWake(j)
    \/ RetrySuperseded(j) \/ WaiterTurn(j) \/ TaskRun(j)
Session(c) ==
    \/ Connect(c) \/ CompleteLogin(c) \/ FinishSaveWait(c) \/ HangUp(c)
    \/ DisconnectBusy(c) \/ DisconnectLinkdead(c)
    \/ \E j \in Jobs : DisconnectRetire(c, j)
Command == \/ ChestBegin
           \/ \E j \in Jobs : SaveCommand(j) \/ SaveAbandoned(j) \/ SpawnTask(j)
MainResumes == ChestDone \/ LoginLoads \/ LoginRefused \/ ShutdownSave
               \/ FlushDone \/ FlushTimeout

Next ==
    \/ Entity \/ Tick \/ Command \/ MainResumes \/ Shutdown \/ Restart
    \/ \E j \in Jobs : Task(j)
    \/ \E c \in Conns : Session(c) \/ WaitEnds(c)

Spec == Init /\ [][Next]_vars

\* The runtime polls every runnable task, the database answers every request,
\* sleeps and timeouts end (weak fairness).  The main loop's select! picks at
\* random among its ready branches, so a loop that is back at it infinitely
\* often takes the tick, and every answer waiting for it, infinitely often
\* (strong fairness).  Each tick runs drain_retiring right after
\* drain_pending_saves with no await between: a save spawned by the tick cannot
\* have taken the turn yet, so such saves do not keep an exit waiting for ever.
Fairness ==
    /\ \A j \in Jobs : WF_vars(Task(j))
    /\ WF_vars(MainResumes)
    /\ SF_vars(AutosaveScan)
    /\ \A j \in Jobs : SF_vars(SaveRetry(j) \/ SaveAnswered(j) \/ SaveDropped(j))
    /\ SF_vars(\E j \in Jobs : DrainRetiring(j))
    /\ \A c \in Conns : WF_vars(WaitEnds(c)) /\ SF_vars(FinishSaveWait(c))

FairSpec == Spec /\ Fairness

-----------------------------------------------------------------------------
(* Properties.                                                             *)

\* Every variable stays in the set its code counterpart ranges over; the
\* unsigned counter of unfinished writes does not underflow.
DataTypes ==
    /\ main \in {"idle", "login", "chest", "saving", "flushing", "stopped"}
    /\ turn \in Seq(Jobs \cup {World})
    /\ job \in [Jobs -> JobRecs]
    /\ nextGen \in Nat \ {0} /\ lastCommitted \in Nat
    /\ inFlight \in BOOLEAN /\ done \subseteq Completions
    /\ body \in {"none", "playing", "linkdead", "retiring"}
    /\ conn \in [Conns -> {"out", "select", "waiting", "settled", "expired", "playing"}]
    /\ caller \in Conns
    /\ ver \in Nat /\ marker \in BOOLEAN /\ pendingDeath \in BOOLEAN
    /\ dbVer \in Nat /\ dbCorpses \in Nat /\ dbGen \in Nat
    /\ clock \in Nat /\ session \in Nat /\ deaths \in Nat /\ asked \in Nat
    /\ lostSave \in BOOLEAN
TypeOK == DataTypes /\ outstanding \in Nat

IsSnapshot(j) == job[j].kind \in {"background", "checkpoint", "final", "retry"}
                 /\ job[j].at # "answered"
OwnsClaim(j) == job[j].kind \in {"background", "checkpoint"} /\ job[j].at # "answered"
Counted(j) == job[j].kind \notin {"free", "waiter"} /\ job[j].at # "answered"

\* The write turn excludes: whoever is writing holds the turn, and what is
\* being written is newer than anything this slot has committed.
WriterHoldsTurn ==
    \A j \in Jobs : job[j].at = "writing" =>
        HasTurn(j) /\ job[j].snap.gen > lastCommitted

\* The latest write of a slot is never followed by one of an older generation;
\* the count starts over (a new slot) only when no snapshot numbered under the
\* old one is left to be written.
NoStaleOverwrite ==
    [][dbGen' < dbGen => \A j \in Jobs : job'[j].at \in {"none", "answered"}]_vars

\* The stored character never goes back to an earlier state, whatever was
\* saved, retried, superseded or reloaded in between.
NoRollback == [][dbVer' >= dbVer]_vars

\* The in_flight flag has exactly one owner: a background or checkpoint write
\* or its completion.  Without one the character would never be saved again;
\* with two, the same one-shot work would be snapshotted twice.
ClaimOwned ==
    LET settled == {c \in done : c.owns}
    IN  /\ inFlight <=> (\E j \in Jobs : OwnsClaim(j)) \/ settled # {}
        /\ \A j, k \in Jobs : OwnsClaim(j) /\ OwnsClaim(k) => j = k
        /\ \A c, d \in settled : c = d
        /\ settled # {} => \A j \in Jobs : ~OwnsClaim(j)

\* Once a character is loaded, no write of an earlier session is left that
\* could land over the new one (the relog barrier's purpose).
NoOldSessionWrites ==
    body # "none" => \A j \in Jobs : IsSnapshot(j) => job[j].snap.session = session

\* A login loads the state its last session ended with, unless the save was
\* given up on with an error.
LoginLoadsLatest ==
    [][session' # session => dbVer = ver \/ lostSave]_vars

\* Each death inserts at most one corpse row.
CorpseOnce == dbCorpses <= deaths

\* A save a script asked for is stored, or still marked, or being written.
SaveRequestKept ==
    InWorld =>
        \/ dbVer >= asked
        \/ marker
        \/ \E j \in Jobs : IsSnapshot(j) /\ job[j].snap.ver >= asked
        \/ \E c \in done : c.snap.marker /\ c.outcome = "failed"

\* A stopped server has stored the last state of the character, unless it
\* logged that it did not.
StopSavesAll == main = "stopped" => dbVer = ver \/ lostSave

Abstract == INSTANCE SavedCharacter WITH
    present <- body # "none", latest <- ver, stored <- dbVer, abandoned <- lostSave

\* The machinery keeps the promise of SavedCharacter.
KeepsPromise == Abstract!Spec

\* Every save that is started ends, and the claim it took is given back or
\* taken by the next.
SavesEnd == \A j \in Jobs : ~Free(j) ~> Free(j)

\* Nobody waits for the turn for good: a connection held at the barrier is let in
\* or refused, and an exit put off because the turn was busy is carried out.
WaitsEnd ==
    /\ \A c \in Conns : conn[c] = "waiting" ~> conn[c] \in {"playing", "out"}
    /\ body = "retiring" ~> body # "retiring"
=============================================================================
