--------------------------- MODULE RewardPayments ---------------------------
(***************************************************************************)
(* Paying a quest's reward to one character.  A payer task writes the      *)
(* database first, under the character's write turn, and mirrors what it   *)
(* paid to the world through the bounded player-update queue.  Gold is in  *)
(* the character's row once it is paid; an item exists only in the queue   *)
(* until the world spawns it and a save writes it.  Snapshots of the       *)
(* character, absolute writes of everything it owns, race with that.       *)
(*                                                                         *)
(* What the character owns is the number of times it owns each payer's     *)
(* reward.  The turn, the generations and the tasks that write snapshots   *)
(* are those of SaveOrder, with one step for a write and no bookkeeping.   *)
(***************************************************************************)
EXTENDS Naturals, Sequences, FiniteSets

CONSTANTS
    Payers,       \* payouts to this character
    ItemPayers,   \* those that pay an item; the others pay gold
    Scenes,       \* what happens together: payouts, room in the queue, features
    MaxGen,       \* bound: generations handed out before autosaves stop
    MaxSessions   \* bound: logins

ASSUME RewardAssumption ==
    /\ IsFiniteSet(Payers) /\ ItemPayers \subseteq Payers
    /\ Scenes \subseteq [payers : SUBSET Payers, cap : Nat \ {0},
                         features : SUBSET {"other", "payfail", "savefail", "grantfail",
                                            "shutdown"}]
    /\ MaxGen \in Nat /\ MaxSessions \in Nat

VARIABLES
    main,           \* what the world thread is doing
    turn,           \* the character's order mutex: holder first, then waiters
    payer,          \* the payer tasks
    permits,        \* payers that hold a reserved place in the queue
    queue,          \* the payers of the queued updates, in order
    others,         \* updates of other characters in the queue
    grant,          \* grant_item_to_offline tasks, one per item
    saver,          \* the background save and the session's final save
    nextGen,        \* Slot.next_generation
    lastCommitted,  \* the value behind Slot.order
    live,           \* Slot.session_live
    closing,        \* Shared.closing
    present,        \* the character has an entity in the world
    world,          \* what the entity owns
    db,             \* what the character's rows say it owns
    session,        \* logins so far
    scene,          \* the scene of Scenes; its cap is PLAYER_UPDATE_QUEUE_CAP
    paid,           \* history: payers whose payment committed
    lost,           \* history: a loss of saves was logged as an error
    dropped         \* history: items whose loss grant_item_to_offline has logged

taskVars == <<payer, permits, grant, saver>>
slotVars == <<nextGen, lastCommitted, live, closing>>
worldVars == <<present, world, session, scene>>
vars == <<main, turn, taskVars, queue, others, slotVars, worldVars, db, paid, lost,
          dropped>>

-----------------------------------------------------------------------------
Savers == {"background", "final"}
Owned == [Payers -> Nat]
Nothing == [p \in Payers |-> 0]
Snapshot(gen, pack) == [at |-> "spawned", gen |-> gen, pack |-> pack]
NoSave == [at |-> "free", gen |-> 0, pack |-> Nothing]

Idle == main = "idle"
TurnFree == turn = <<>>
HasTurn(x) == turn # <<>> /\ Head(turn) = x
\* Who waits for the turn.
World == <<"world", "tick">>
PayTask(p) == <<"pay", p>>
GrantTask(p) == <<"grant", p>>
SaveTask(s) == <<"save", s>>
Free(s) == saver[s].at = "free"
Newest(gen) == IF gen > lastCommitted THEN gen ELSE lastCommitted

HasRoom == Len(queue) + others + Cardinality(permits) < scene.cap

\* has_unsettled_saves: a payer or a save of this character is unfinished.
Unsettled ==
    \/ \E p \in Payers : payer[p] \notin {"none", "done"}
    \/ \E s \in Savers : ~Free(s)

\* p's updates among them, and the entity once they are applied.
Of(p, updates) == Cardinality({i \in DOMAIN updates : updates[i] = p})
With(updates) == [p \in Payers |-> world[p] + Of(p, updates)]

\* The items in the queue, by their place.
ItemPlaces == {i \in DOMAIN queue : queue[i] \in ItemPayers}

(* drain_player_updates.  With the character in the world every update is  *)
(* applied, and the first item asks for a save at once: its snapshot holds *)
(* the updates up to the item and none behind it.  Without the character   *)
(* an item goes to grant_item_to_offline and the rest is dropped.          *)
DrainQueue ==
    /\ queue' = <<>> /\ others' = 0
    /\ grant' = [p \in ItemPayers |->
                    IF ~present /\ Of(p, queue) > 0 THEN "spawned" ELSE grant[p]]

LiveAfterDrain == live /\ (present \/ ItemPlaces = {})

\* The background save and the next generation that the drain leaves behind:
\* save_player_soon starts a save, or leaves a marker for the next tick if one
\* is under way (BackgroundSave stands for that one).
SavesAfterDrain ==
    IF present /\ ItemPlaces # {} /\ Free("background")
    THEN LET first == CHOOSE i \in ItemPlaces : \A j \in ItemPlaces : i <= j
         IN  [save |-> Snapshot(nextGen, With(SubSeq(queue, 1, first))),
              gen |-> nextGen + 1]
    ELSE [save |-> saver["background"], gen |-> nextGen]

Init ==
    /\ main = "idle" /\ turn = <<>>
    /\ payer = [p \in Payers |-> "none"] /\ permits = {}
    /\ queue = <<>> /\ others = 0
    /\ grant = [p \in ItemPayers |-> "none"]
    /\ saver = [s \in Savers |-> NoSave]
    /\ nextGen = 1 /\ lastCommitted = 0 /\ live = FALSE /\ closing = FALSE
    /\ present = FALSE /\ world = Nothing /\ db = Nothing
    /\ scene \in Scenes
    /\ session = 0 /\ paid = {} /\ lost = FALSE /\ dropped = {}

-----------------------------------------------------------------------------
(* The payer task.                                                         *)

\* grant_completion_rewards, start_completion, start_claim: spawn_ordered asks
\* for the turn at once.  The quest code runs in tasks that may outlive the
\* session.
Start(p) ==
    /\ main # "stopped" /\ session > 0 /\ p \in scene.payers /\ payer[p] = "none"
    /\ payer' = [payer EXCEPT ![p] = "queued"]
    /\ turn' = Append(turn, PayTask(p))
    /\ UNCHANGED <<main, permits, grant, saver, queue, others, slotVars, worldVars,
                   db, paid, lost, dropped>>

\* reserve_under_turn: there is room, or at shutdown none is waited for.
Reserve(p) ==
    /\ payer[p] = "queued" /\ HasTurn(PayTask(p))
    /\ HasRoom \/ closing
    /\ payer' = [payer EXCEPT ![p] = "ready"]
    /\ permits' = IF HasRoom THEN permits \cup {p} ELSE permits
    /\ UNCHANGED <<main, turn, grant, saver, queue, others, slotVars, worldVars, db,
                   paid, lost, dropped>>

\* Mutant: room is waited for under the turn.
WaitForRoom_UnderTurn(p) ==
    /\ payer[p] = "queued" /\ HasTurn(PayTask(p)) /\ ~HasRoom /\ ~closing
    /\ UNCHANGED vars

\* The queue is full: the turn is let go before anything is paid.
WaitForRoom(p) ==
    /\ payer[p] = "queued" /\ HasTurn(PayTask(p)) /\ ~HasRoom /\ ~closing
    /\ payer' = [payer EXCEPT ![p] = "room"]
    /\ turn' = Tail(turn)
    /\ UNCHANGED <<main, permits, grant, saver, queue, others, slotVars, worldVars,
                   db, paid, lost, dropped>>

\* The room won is kept while the turn is taken again.
RoomFound(p) ==
    /\ payer[p] = "room"
    /\ \/ HasRoom /\ permits' = permits \cup {p}
       \/ closing /\ UNCHANGED permits
    /\ payer' = [payer EXCEPT ![p] = "back"]
    /\ turn' = Append(turn, PayTask(p))
    /\ UNCHANGED <<main, grant, saver, queue, others, slotVars, worldVars, db, paid,
                   lost, dropped>>

\* One transaction: gold is added to whatever the row holds, an item is not
\* written.
Pay(p) ==
    /\ payer[p] \in {"ready", "back"} /\ HasTurn(PayTask(p))
    /\ payer' = [payer EXCEPT ![p] = "paid"]
    /\ paid' = paid \cup {p}
    /\ db' = IF p \in ItemPayers THEN db ELSE [db EXCEPT ![p] = @ + 1]
    /\ UNCHANGED <<main, turn, permits, grant, saver, queue, others, slotVars,
                   worldVars, lost, dropped>>

\* The payment fails.  qcomplete reports it and pays nothing; the objective
\* path logs it and goes on to mirror the reward.
PayFails(p) ==
    /\ "payfail" \in scene.features
    /\ payer[p] \in {"ready", "back"} /\ HasTurn(PayTask(p))
    /\ \/ /\ payer' = [payer EXCEPT ![p] = "done"]
          /\ permits' = permits \ {p} /\ turn' = Tail(turn)
       \/ /\ payer' = [payer EXCEPT ![p] = "paid"]
          /\ UNCHANGED <<permits, turn>>
    /\ UNCHANGED <<main, grant, saver, queue, others, slotVars, worldVars, db, paid,
                   lost, dropped>>

\* Mutant: earlier snapshots stay valid.
Deliver_NoSupersede(p) ==
    /\ payer[p] = "paid" /\ HasTurn(PayTask(p))
    /\ payer' = [payer EXCEPT ![p] = "done"]
    /\ queue' = (IF p \in permits THEN Append(queue, p) ELSE queue)
    /\ permits' = permits \ {p}
    /\ turn' = Tail(turn)
    /\ UNCHANGED <<main, grant, saver, others, slotVars, worldVars, db, paid, lost,
                   dropped>>

\* deliver_under_turn: snapshots taken so far go stale, the update is sent into
\* the reserved place, and only then is the turn released.
Deliver(p) ==
    /\ payer[p] = "paid" /\ HasTurn(PayTask(p))
    /\ payer' = [payer EXCEPT ![p] = "done"]
    /\ nextGen' = nextGen + 1 /\ lastCommitted' = Newest(nextGen)
    /\ queue' = (IF p \in permits THEN Append(queue, p) ELSE queue)
    /\ permits' = permits \ {p}
    /\ turn' = Tail(turn)
    /\ UNCHANGED <<main, grant, saver, others, live, closing, worldVars, db,
                   paid, lost, dropped>>

\* Updates of other characters take up room.
OtherSend ==
    /\ "other" \in scene.features /\ HasRoom /\ main # "stopped"
    /\ others' = others + 1
    /\ UNCHANGED <<main, turn, taskVars, queue, slotVars, worldVars, db, paid,
                   lost, dropped>>

-----------------------------------------------------------------------------
(* grant_item_to_offline: an item for a character the drain did not find.  *)

GrantJoins(p) ==
    /\ grant[p] = "spawned"
    /\ grant' = [grant EXCEPT ![p] = "queued"]
    /\ turn' = Append(turn, GrantTask(p))
    /\ UNCHANGED <<main, payer, permits, saver, queue, others, slotVars, worldVars,
                   db, paid, lost, dropped>>

\* Mutant: the row is written without asking whether the character is back.
GrantTurn_IgnoresLive(p) ==
    /\ grant[p] = "queued" /\ HasTurn(GrantTask(p))
    /\ turn' = Tail(turn)
    /\ grant' = [grant EXCEPT ![p] = "none"] /\ db' = [db EXCEPT ![p] = @ + 1]
    /\ UNCHANGED <<main, payer, permits, saver, queue, others, slotVars, worldVars,
                   paid, lost, dropped>>

\* With the turn: back through the queue if the character has logged in, else
\* a row of its own.  An insert that fails is logged, and the item is gone.
GrantTurn(p) ==
    /\ grant[p] = "queued" /\ HasTurn(GrantTask(p))
    /\ turn' = Tail(turn)
    /\ \/ /\ live /\ grant' = [grant EXCEPT ![p] = "sending"]
          /\ UNCHANGED <<db, dropped>>
       \/ /\ ~live /\ grant' = [grant EXCEPT ![p] = "none"]
          /\ db' = [db EXCEPT ![p] = @ + 1] /\ UNCHANGED dropped
       \/ /\ "grantfail" \in scene.features
          /\ ~live /\ grant' = [grant EXCEPT ![p] = "none"]
          /\ dropped' = dropped \cup {p} /\ UNCHANGED db
    /\ UNCHANGED <<main, payer, permits, saver, queue, others, slotVars, worldVars,
                   paid, lost>>

\* The send waits for room; once the world is dropped the channel is closed, and
\* the loss is logged.
GrantSends(p) ==
    /\ grant[p] = "sending"
    /\ grant' = [grant EXCEPT ![p] = "none"]
    /\ \/ main # "stopped" /\ HasRoom /\ queue' = Append(queue, p) /\ UNCHANGED dropped
       \/ main = "stopped" /\ dropped' = dropped \cup {p} /\ UNCHANGED queue
    /\ UNCHANGED <<main, turn, payer, permits, saver, others, slotVars,
                   worldVars, db, paid, lost>>

-----------------------------------------------------------------------------
(* Snapshots of the character.                                             *)

\* drain_player_updates in the tick's schedule.
TickDrain ==
    /\ Idle
    /\ DrainQueue /\ live' = LiveAfterDrain
    /\ world' = IF present THEN With(queue) ELSE world
    /\ LET a == SavesAfterDrain
       IN  saver' = [saver EXCEPT !["background"] = a.save] /\ nextGen' = a.gen
    /\ UNCHANGED <<main, turn, payer, permits, lastCommitted, closing, present,
                   session, scene, db, paid, lost, dropped>>

\* spawn_background_save (the autosave, a PendingSave marker): the queue is
\* drained into the entity, then the snapshot is taken.
BackgroundSave ==
    /\ Idle /\ present /\ Free("background") /\ nextGen <= MaxGen
    /\ DrainQueue /\ world' = With(queue)
    /\ saver' = [saver EXCEPT !["background"] = Snapshot(nextGen, With(queue))]
    /\ nextGen' = nextGen + 1
    /\ UNCHANGED <<main, turn, payer, permits, lastCommitted, live, closing,
                   present, session, scene, db, paid, lost, dropped>>

\* A spawned save joins the queue for the turn.
SaverJoins(s) ==
    /\ saver[s].at = "spawned"
    /\ saver' = [saver EXCEPT ![s].at = "queued"]
    /\ turn' = Append(turn, SaveTask(s))
    /\ UNCHANGED <<main, payer, permits, grant, queue, others, slotVars,
                   worldVars, db,
                   paid, lost, dropped>>

\* With the turn: skipped if it is overtaken, else the whole pack and purse are
\* written as they were in the snapshot.
SaverWrites(s) ==
    LET snap == saver[s]
    IN  /\ snap.at = "queued" /\ HasTurn(SaveTask(s))
        /\ IF snap.gen > lastCommitted
           THEN db' = snap.pack /\ lastCommitted' = snap.gen
           ELSE UNCHANGED <<db, lastCommitted>>
        /\ saver' = [saver EXCEPT ![s] = NoSave] /\ turn' = Tail(turn)
        /\ UNCHANGED <<main, payer, permits, grant, queue, others, nextGen, live,
                       closing, worldVars, paid, lost, dropped>>

\* The write fails: a background save is over, a final one is retried later, or
\* given up on.
SaverFails(s) ==
    /\ "savefail" \in scene.features
    /\ saver[s].at = "queued" /\ HasTurn(SaveTask(s)) /\ saver[s].gen > lastCommitted
    /\ turn' = Tail(turn)
    /\ \/ /\ s = "final"
          /\ saver' = [saver EXCEPT ![s].at = "spawned"] /\ UNCHANGED lost
       \/ saver' = [saver EXCEPT ![s] = NoSave] /\ lost' = (lost \/ s = "final")
    /\ UNCHANGED <<main, payer, permits, grant, queue, others, slotVars,
                   worldVars, db,
                   paid, dropped>>

-----------------------------------------------------------------------------
(* Login, exit and shutdown.                                               *)

\* complete_login_inner past the barrier: the world thread awaits the turn.
LoginBegins ==
    /\ Idle /\ ~present /\ ~Unsettled /\ session < MaxSessions
    /\ main' = "login" /\ turn' = Append(turn, World)
    /\ UNCHANGED <<taskVars, queue, others, slotVars, worldVars, db, paid, lost, dropped>>

\* Mutant: the queue is not drained before the row is read.
LoginLoads_NoDrain ==
    /\ main = "login" /\ HasTurn(World)
    /\ main' = "idle" /\ turn' = Tail(turn)
    /\ live' = TRUE
    /\ present' = TRUE /\ world' = db /\ session' = session + 1 /\ UNCHANGED scene
    /\ UNCHANGED <<taskVars, queue, others, nextGen, lastCommitted, closing, db,
                   paid,
                   lost, dropped>>

\* With the turn: updates queued for the absent character are discarded (its
\* row holds them), the row is read, the entity spawned and marked live.
LoginLoads ==
    /\ main = "login" /\ HasTurn(World)
    /\ main' = "idle" /\ turn' = Tail(turn)
    /\ DrainQueue /\ live' = TRUE
    /\ present' = TRUE /\ world' = db /\ session' = session + 1 /\ UNCHANGED scene
    /\ UNCHANGED <<payer, permits, saver, nextGen, lastCommitted, closing, db, paid,
                   lost, dropped>>

\* retire_player with the turn free: the queue is drained, the snapshot taken
\* with the turn in hand and its write spawned, the entity despawned.
Retire ==
    /\ Idle /\ present /\ TurnFree /\ Free("final")
    /\ DrainQueue
    /\ LET a == SavesAfterDrain
           last == [Snapshot(a.gen, With(queue)) EXCEPT !.at = "queued"]
       IN    /\ saver' = [saver EXCEPT !["background"] = a.save, !["final"] = last]
             /\ nextGen' = a.gen + 1
    /\ turn' = <<SaveTask("final")>>
    /\ present' = FALSE /\ world' = Nothing
    /\ UNCHANGED <<main, payer, permits, lastCommitted, live, closing, session,
                   scene, db, paid, lost, dropped>>

\* save_all_online: payers are told, then the character's turn is awaited.
Shutdown ==
    /\ "shutdown" \in scene.features /\ Idle
    /\ closing' = TRUE
    /\ IF present THEN main' = "saving" /\ turn' = Append(turn, World)
                  ELSE main' = "flushing" /\ UNCHANGED turn
    /\ UNCHANGED <<taskVars, queue, others, nextGen, lastCommitted, live,
                   worldVars, db,
                   paid, lost, dropped>>

\* save_player_inner: drain, snapshot, write.
ShutdownSave ==
    /\ main = "saving" /\ HasTurn(World)
    /\ main' = "flushing" /\ turn' = Tail(turn)
    /\ DrainQueue /\ world' = With(queue)
    /\ LET a == SavesAfterDrain IN
         /\ nextGen' = a.gen + 1
         /\ \/ /\ db' = With(queue) /\ lastCommitted' = a.gen
               /\ saver' = [saver EXCEPT !["background"] = a.save]
            \/ /\ "savefail" \in scene.features /\ Free("final")
               /\ saver' = [saver EXCEPT !["background"] = a.save,
                                         !["final"] = Snapshot(a.gen, With(queue))]
               /\ UNCHANGED <<db, lastCommitted>>
    /\ UNCHANGED <<payer, permits, live, closing, present, session, scene, paid,
                   lost, dropped>>

\* flush: nothing is pending, or its 30 seconds are over.
Flushed ==
    /\ main = "flushing"
    /\ main' = "stopped"
    /\ lost' = (lost \/ Unsettled \/ \E p \in ItemPayers : grant[p] # "none")
    /\ UNCHANGED <<turn, taskVars, queue, others, slotVars, worldVars, db, paid, dropped>>

-----------------------------------------------------------------------------
Task(p) == Reserve(p) \/ WaitForRoom(p) \/ RoomFound(p) \/ Pay(p) \/ PayFails(p)
           \/ Deliver(p)
Grant(p) == GrantJoins(p) \/ GrantTurn(p) \/ GrantSends(p)
Save(s) == SaverJoins(s) \/ SaverWrites(s) \/ SaverFails(s)
MainResumes == LoginLoads \/ ShutdownSave

Next ==
    \/ TickDrain \/ BackgroundSave \/ LoginBegins \/ Retire \/ Shutdown \/ Flushed
    \/ OtherSend \/ MainResumes
    \/ \E p \in Payers : Start(p) \/ Task(p)
    \/ \E p \in ItemPayers : Grant(p)
    \/ \E s \in Savers : Save(s)

Spec == Init /\ [][Next]_vars

\* Tasks are polled and the database answers (weak fairness).  The main loop
\* takes its tick again and again whenever it is back at its select, and the
\* queue hands room to its waiters in the order they came (strong fairness).
Fairness ==
    /\ \A p \in Payers : WF_vars(Task(p)) /\ SF_vars(RoomFound(p))
    /\ \A p \in ItemPayers : WF_vars(Grant(p)) /\ SF_vars(GrantSends(p))
    /\ \A s \in Savers : WF_vars(Save(s))
    /\ WF_vars(MainResumes) /\ SF_vars(TickDrain)

FairSpec == Spec /\ Fairness

-----------------------------------------------------------------------------
(* Properties.                                                             *)

\* Every variable stays in its set, and the queue with its reserved places
\* never exceeds the channel's capacity.
TypeOK ==
    /\ main \in {"idle", "login", "saving", "flushing", "stopped"}
    /\ turn \in Seq({World} \cup {PayTask(p) : p \in Payers} \cup
                     {GrantTask(p) : p \in ItemPayers} \cup {SaveTask(s) : s \in Savers})
    /\ payer \in [Payers -> {"none", "queued", "room", "back", "ready", "paid", "done"}]
    /\ permits \subseteq Payers /\ queue \in Seq(Payers) /\ others \in Nat
    /\ Len(queue) + others + Cardinality(permits) <= scene.cap
    /\ grant \in [ItemPayers -> {"none", "spawned", "queued", "sending"}]
    /\ saver \in [Savers -> [at : {"free", "spawned", "queued"}, gen : Nat, pack : Owned]]
    /\ nextGen \in Nat /\ lastCommitted \in Nat
    /\ live \in BOOLEAN /\ closing \in BOOLEAN /\ present \in BOOLEAN
    /\ world \in Owned /\ db \in Owned /\ session \in Nat /\ scene \in Scenes
    /\ paid \subseteq Payers /\ lost \in BOOLEAN /\ dropped \subseteq ItemPayers

\* Copies of p's reward that are on their way to the world.
OnTheWay(p) ==
    Of(p, queue)
    + (IF p \in ItemPayers THEN (IF grant[p] = "none" THEN 0 ELSE 1) ELSE 0)

\* No reward reaches the character twice: not as the row's balance and again
\* through the queue, nor as a stored item and again as a spawned one (nor does
\* the queue ever hold more than its capacity, TypeOK).
PaidOnce ==
    /\ TypeOK
    /\ \A p \in Payers :
        /\ db[p] <= 1
        /\ present => world[p] + OnTheWay(p) <= 1
        /\ ~present /\ p \in ItemPayers => db[p] + OnTheWay(p) <= 1

\* What the database holds of a reward is not written over by a snapshot that
\* does not have it.
RewardNotErased == [][\A p \in Payers : db'[p] >= db[p]]_vars

\* Where a paid reward will be found: gold in the row at once, and with the
\* character once that is in the world; an item on its way, on the character, or,
\* with the character gone, stored or about to be.
InWrite(p) == \E s \in Savers : saver[s].gen > lastCommitted /\ saver[s].pack[p] = 1
ItemFound(p) == OnTheWay(p) = 1 \/ IF present THEN world[p] = 1 ELSE db[p] = 1 \/ InWrite(p)
GoldFound(p) == db[p] = 1 /\ (present => world[p] + OnTheWay(p) = 1)

\* A paid reward is found, or is an item whose loss was logged with what it takes
\* to restore it: never neither, and never both, for the operator who does restore
\* it must not make two of it.  A stopped server has every paid reward in the
\* database, says that saves or this item were lost, or has left the item in the
\* queue, delivered after the world drained it for the last time.
RewardKept ==
    /\ \A p \in Payers : p \in paid /\ payer[p] = "done" =>
          IF p \in ItemPayers THEN ItemFound(p) <=> p \notin dropped ELSE GoldFound(p)
    /\ main = "stopped" =>
          lost \/ \A p \in paid : db[p] = 1 \/ p \in dropped \/ Of(p, queue) = 1

\* Every payer gets through, however full the queue: nobody waits for room
\* while holding the turn that the tick, which makes room, is waiting for.
PaymentsEnd == \A p \in Payers : payer[p] = "queued" ~> payer[p] = "done"
=============================================================================
