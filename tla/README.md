# Verification of the FieryMUD server

TLA+ models of `fierymud-rs`, their TLC configurations and TLAPS proofs. Paths
are relative to the repository; `server/` stands for `crates/mud-server/src/`,
`net` for `crates/mud-net/src/lib.rs`.

The models cover the parts of the server in which several things happen at once: how
a character's state gets from memory to the database and back (`SaveOrder`), how quest
rewards are paid while that goes on (`RewardPayments`), how the items of a dead
character get from rows to corpse to looter (`Corpses`), how a connection is admitted,
served and closed (`Gate`, `Connections`), how it logs in (`Logins`), how the lines
a player types wait for spells, delays and database work (`Commands`), and how a quest is
taken, advanced and finished by tasks that race (`Quests`, `QuestVariables`).

## The system

One process, five crates: `mud-net` (sockets, telnet), `mud-server` (everything
that happens), `mud-world` (components and loader), `mud-db` (SQL), `mud-script`
(Lua). The runtime is a single-threaded tokio. The *world* is one ECS owned by the
main loop (`server/main.rs`), a `select!` over

- the 10 Hz tick: finished command jobs, staff requests, the schedule
  (`drain_player_updates` among its systems), players' queued input, then
  `autosave_tick` once a second, `drain_pending_saves`, `drain_idle_kicks`,
  `drain_quitting`, `drain_linkdead`, `drain_retiring`, the last ones with no
  `await` between them;
- answers of login tasks (`on_auth_done`);
- input of connections;
- shutdown, after which `save_all_online`, a flush of at most 30 s and the snapshots
  of weather, clock and shops end the process.

World actions never overlap, but they can `await` (a login and a chest deposit wait
for the character's turn); while they do, every spawned task goes on. Tasks and world
talk through the `SaveCoordinator`, through the mutex of the connection gate, and
through bounded channels: the input of all connections (one channel), the output of
each connection, credential results, corpse deletes, player updates.

### Components

| Component | State | Operations | What makes it correct | Where |
|---|---|---|---|---|
| Save coordinator `server/autosave.rs` | per character: order mutex with `last_committed`, `next_generation`, `in_flight`, `outstanding`, `session_live`; shared: completions, `closing` | turn, background / checkpoint / final saves, retries, tracked tasks, fold-in, flush, pruning | no older snapshot over a newer one; counters and claims balance; every write ends | `SaveOrder` |
| Session life cycle `server/login.rs` | entity, `Retiring`, `Linkdead` | login behind the relog barrier, takeover, quit, link loss, exits, shutdown | a session starts from what the last one ended with; nobody waits for ever | `SaveOrder` |
| Login menus and credentials `server/login.rs`, `mud-db` codes | stages, jobs, code rows, pollers | identifier, password, creation, codes, takeover | results meet their stage; a code is spent once; one body, one connection | `Logins` |
| `save` and command jobs `server/commands/save.rs`, `off_tick.rs` | `CommandJob`, claimed flag, `AsyncBusy` | start, stage, retry, answer, time-out | the claim has one owner; an abort leaves the turn's queue intact; lines wait | `SaveOrder`, `Commands` |
| Direct row writes: chest, account bank, houses | rows | write under the turn, supersede | no save puts the rows back | `SaveOrder` (turn and generations) |
| Reward payments `server/quest_progress.rs`, `commands.rs` | queue, reservations, rows | reserve, pay, deliver, drain, grant offline | paid once, never erased, never lost | `RewardPayments` |
| Player corpses `server/corpses.rs` | corpse row, loot ledger, delete channel | death, loot, release, resurrection, decay, purge, boot | each item and coin exists once | `Corpses` |
| Item rows `mud-db` | `CharacterItems` | `save_inventory_diff`, cascade, load | a row per carried item, a holder per row | `Corpses` |
| Connections `net`, `server/idle.rs` | gate counters, throttle, reader, writer, sink, channel | admit, handshake, read, announce, flush, close, kick | slots exact, events in order, output written before the end | `Gate`, `Connections` |
| Input queue `server/commands/input_queue.rs` | `InputQueue`, `WaitState`, `AliasRun`, drafts | defer, flush, replay, compose | lines in order, none stuck | `Commands` |
| Casting `server/casting.rs` | `Casting`, `CastLag`, `SlotHold`, `SpellSlots` | wind-up, interruption, abort, resolution, recovery | a slot is charged once or given back | `Commands` |
| Idle, camp, rest | clocks, `drain_idle_kicks`, `sync_authenticated` | kick, report logins | ends in an exit that saves | `Connections`, `SaveOrder` in part |
| Quest state `server/quest_progress.rs`, `quest_vars.rs`, `mud-db` quests | quest and objective rows, `CollectWatch`, variable cache | accept, bump, collect, advance, abandon, expire, staff, claim, flush | phases are earned, a completion is paid once, items held are noticed, variables agree | `Quests`, `QuestVariables` |
| Combat, effects, AI, respawn, triggers | world components | systems of the tick | relations stay symmetric | not modelled |
| Commands that only read, staff commands, weather, shops, loader, SQL, formatting | | | | not modelled |

`PROJECT.json` lists every component with its files and, under `hazards`, each place
where the code is hard to test, with the properties that watch it.

How the components interact: `Connections` hands lines to `Logins` (before the game)
and to `Commands` (in it); `Logins` ends in `complete_login`, which `SaveOrder` has in
detail, and `Logins` only as "the wait for saves ends well or badly"; the exits of
`Connections` and `Commands` are the exits of `SaveOrder`; `Corpses` keeps of the save
protocol what `SaveOrder` shows about it (snapshots of one character are written one
at a time and in order, a failed last save is retried with the same snapshot and at last
given up, a save that an exit found queued is stale once the exit's own is written); a payment
of `Quests` is one step, whose own steps are `RewardPayments`, and both put their messages
in the queue of player updates.

## Modules

    SavedCharacter        what the save machinery promises about one character
    SaveOrder             the machinery; refines SavedCharacter
      MCSaveOrder, SaveOrderProofs
    RewardPayments        payments to one character and the snapshots they race with
      MCRewardPayments, RewardPaymentsProofs
    Corpses               the item rows of a corpse, its owner and a looter
      MCCorpses, CorpsesProofs
    Gate                  the admission gate on its own
      GateProofs
    Connections           the tasks of a connection; EXTENDS and refines Gate
      MCConnections, ConnectionsProofs
    Logins                the login dialogue of several connections
      MCLogins, LoginsProofs
    Commands              one player's command lines
      MCCommands, CommandsProofs
    QuestVariables        the variables of a quest: row, cache, flush
    Quests                one quest of one character; EXTENDS QuestVariables
      MCQuests, QuestsProofs

### SaveOrder

One character. `turn` is the fair mutex of the slot: its head holds the character's
turn, the rest wait in order. `job` holds the spawned tasks of the character; each
is a background save, a checkpoint (the `save` command's write), a final save, its
retry, a tracked task that writes rows, or a waiting `save` command, and goes through
the phases *spawned* (not polled yet), *queued*, *writing*, *sleeping* (retry backoff),
*answered* (its result is for the tick to pick up). `main` is the world thread: idle,
or inside one of the handlers that await the turn. The whole state of the character
is a version number `ver`, and `dbVer` is the version in the database. What else a
snapshot carries is kept because something depends on it: the session it was taken
in, a death (a corpse insert rides on the commit) and a consumed `PendingSave` marker.

| Code | Actions |
|---|---|
| `handle_death`, `actor:save`, any change of the character | `Die`, `AskSave`, `Play` |
| `autosave_tick`, `spawn_background_save`, `drain_pending_saves` | `AutosaveScan`, `AutosaveDue`, `DrainPendingSave` |
| the task of `request_background` | `JoinTurn`, `BackgroundStale`, `StartWrite`, `Commit`, `WriteFails` |
| `spawn_final_save`, `retry_snapshot` | `FinalFails`, `RetryFails`, `RetryWake`, `RetrySuperseded`, `Commit` |
| `retire_player` and the ways to it | `DrainRetiring`, `DrainLinkdead`, `DisconnectRetire`, `DisconnectBusy`, `DisconnectLinkdead` |
| `cmd_save`, `start_save`, `off_tick` | `SaveCommand`, `WaiterTurn`, `SaveRetry`, `SaveAnswered`, `SaveDropped`, `SaveAbandoned` |
| `spawn_ordered` and its users, the account chest | `SpawnTask`, `TaskRun`, `ChestBegin`, `ChestDone` |
| `complete_login`, save wait, takeover | `Connect`, `CompleteLogin`, `WaitEnds`, `FinishSaveWait`, `LoginLoads`, `LoginRefused`, `HangUp` |
| shutdown and process death | `Shutdown`, `ShutdownSave`, `FlushDone`, `FlushTimeout`, `Restart` |

A crash (`Restart`) may come at any point; a transaction not committed by then
did not happen. A failing write leaves the database unchanged; the case of a
commit whose acknowledgement is lost is a listed hazard, not in the model.

### RewardPayments

One character, several payouts. The database is the number of times each reward is
owned in the rows; the world is the same for the entity. A payer takes the turn,
reserves a place in the queue (letting the turn go while it waits for one), pays,
makes earlier snapshots stale, delivers, lets the turn go. The tick drains the queue,
and so do the snapshot takers. An item for an absent character goes to
`grant_item_to_offline`, whose insert may fail and whose send finds the channel closed once
the world is gone; both are logged, with what it takes to restore the item (the history
`dropped`). Saves write everything they saw. Who pays, the room in the
queue and what may go wrong are a *scene*, chosen in the initial state.

Compared with `SaveOrder`, a write is one step, `in_flight` is free again when the
write ends rather than when the completion is folded in, the relog wait only shows as
the guard of `LoginBegins`, slots are not pruned, a `PendingSave` marker is represented
by a later `BackgroundSave`, and there are no deaths, commands or crashes: those are
the subject of `SaveOrder`. The objective path of the payment (which logs a failed
payment and mirrors the reward all the same) and the `qcomplete` path (which stops)
are the two disjuncts of `PayFails`.

### Corpses

Several players, one of whom dies; the rows of `CharacterItems`, the row of the corpse,
and the world's idea of both. `place` is where an item's entity is, `rowId` its
`PersistedItemId`. A snapshot (`snap`) carries the pack, after a death the corpse and
its contents, the coins taken from corpses, the loot mark and the corpse's
retirement; it is committed (`Commit`, one transaction with the whole diff of
`save_inventory_diff`: `Written`) and, later, folded back (`ApplyCommit`: `FoldedIn`). The
ledger is the sequence number of each looter's mark.

An exit needs a free turn and no more: a background save whose task has not been polled yet does
not hold it up. `Quit` leaves such a save in `left` and takes the last snapshot, which may
carry the same death and the same debts. The last save has the turn at once, so `left`, queued
behind it, is usually stale when its own turn comes (`Commit` drops it). Only when
the first write of the last save fails does `left` come next (`LeftCommits`, `LeftApplies`);
if both then store the death, `twice` is true: the corpse is in the database two times
(the finding of `DeathAndQuit`). `GiveUp` is the end of `QUIT_RETRY_BACKOFF`. A death lost
that way leaves the corpse "stranded": it is in the world, unsettled for good, and its contents have
their rows in the owner's pack as before.

| Code | Actions |
|---|---|
| `handle_death`, looting, `release`, resurrection | `Die`, `Loot`, `Release`, `Resurrect` |
| decay: `corpse_decay_tick`, `begin_decay_delete`, `take_decayed`; staff purge | `DecayBegins`, `TakeDecayed`, `Purge` |
| an item is destroyed in the corpse (observer of `PersistedItemId`) | `Rot` |
| `give` | `Give` |
| `snapshot_player`, `write_snapshot`, `apply_commit`, login | `Save`, `Commit`, `SaveFails`, `ApplyCommit`, `Login` |
| `retire_player`, `retry_snapshot`, the save queued behind the exit's | `Quit`, `GiveUp`, `LeftCommits`, `LeftApplies` |
| the task that applies corpse deletes | `OpDone`, `OpFails` |
| process death and boot (`load_from_db`) | `Crash` |

### Gate and Connections

`Gate` is the mutex-protected `GateState`: three counters, the throttle map with its
sweeps, and one guard per open connection. Each action is one critical section.
An `Instant` is an age in ticks that stops growing where no comparison changes any more.

`Connections` adds the tasks: the accept loop and the TLS handshake (`Accept`,
`TurnAway`, `HandshakeDone`, `HandshakeFails`), the reader with its `Sink`
(`Read`, `Greet`, `FlushNaws`, `ReadEnds`, `Deliver`), the end of a connection
(`Announce`, `Settle`, `Finish`), the writer (`WriteFrame`, `WriterEnds`), the client
(`Type`, `HangUp`, `StopReading`), and the game's side (`OnConnect`, `LoginLine`,
`PlayLine`, `OnControl`, `OnDisconnected`, `Kick`, `SyncAuthenticated`). One `Read` is one
turn of the read loop over a chunk: control frames first, then lines, as
`handle_connection` has it. Connection ids are used again when nothing mentions them,
which stands for fresh ids; timers are steps that may come at any time their code
waits for them.

### Logins

`ConnRouter`'s maps (`login`, `playing`), the bodies in the world, the jobs that check
credentials beside the world thread, the code rows with their pollers and wakes, and the
rows of characters and accounts. One action is one event of the world thread
(`Line`, `OnAuthDone`, `Wake`, `OnConnect`, `OnDisconnect`, `BodyLeaves`), one step of a
task (`RunJob`, `Poll`, `ExpireTask`), of the clock or of the website. A handler that
awaits between two statements holds the world but not the website: `Moves` gives what
the row may have become by the second statement. The stages of creation that only
collect answers are one set, `Menu`, with `Following`.

### Commands

One player's lines. Dispatch (`Type`, `Defer`, `Dispatch`, `Compose`) handles a typed
line, or the lines of an alias one after the other, in one go of the world thread;
`BeginTick` starts a tick, whose parts come in the code's order: finished jobs
(`FinishJob`, `JobsDone`), clocks (`Clock`), the wind-up (`NoWindUp`, `WindUpBreaks`,
`WindUpTick`, `Resolve`), whatever else befalls the player (`Mishap`, `Revived`,
`SlotRecovers`, `NoMishap`), the queue (`Replay`, `NothingReady`). Only a job's database
work runs beside (`WorkEnds`). Commands are a few kinds: those refused during a wind-up,
those allowed, one that flushes the queue, and those with database work in one or two
stages.

### Quests and QuestVariables

The rows of one quest (`row`, `obj`), the tasks that read and write them (`tasks`), the
queue through which they reach the world, and the world's part: the player's entity, the
matching items in the pack, the watch over them. One action is one statement or one
transaction of a task, one message of the drain, or one step of the world; a task keeps
what it has read, so it can be late. `hist` counts what became of each run of the quest.
Nothing serialises two accepts: each may pass `Gates` before the other's `Insert`, which takes
the row whatever its status is by then (`hist.revived` counts the completed ones). A link
may be lost at any time, and any lookup of the watch may fail; `blind` is true while the watch
has no targets for one of these reasons or by an old list.

A drained bag goes to a task of its own (`flush`), and nobody waits for it: another may be out
already, the row may be missing, the lookup or the statement of any key may fail (`FlushFails`).
`stale` has the keys whose row is not, and will not be, what the cache says for one of these
reasons, or because a reset or an accept came while a task was out.

| Code | Actions |
|---|---|
| `bump_quest_progress_with`, `record_progress`, CUSTOM_LUA sweep | `Bump`, `Increment` |
| `advance_quest`, `try_advance_phase`, `grant_completion_rewards` | `TryAdvance`, `Enter`, `Pay` |
| `recheck_collect_task`, `claim_collect` | `Lookup`, `SendTargets`, `CheckRow`, `SendClaimed` |
| `finish_collect`, `release_claim`, the lease | `Drain`, `Record`, `Release`, `LeaseExpires` |
| `collect_watch_tick`, `set_collect_targets` | `WatchTick`, `Drain` |
| `qaccept`, auto-accepting triggers | `Gates`, `Insert`, `Notice`, `Finish` |
| `abandon`, the expiry sweep; `qcomplete`, `qreset`, `qload`, `qgive` | `Ends`; `ForceComplete`, `Reset`, `Assign` |
| `qreward` | `PlanClaim`, `ClaimReward` |
| `setvar`, `clearvar`, `quest_var_flush_tick`, boot | `SetVar`, `ClearVar`, `FlushTick`, `FlushWrites`, `FlushFails`, `Hydrate` |
| `reset_quest`, the variables of an accept | `ResetQuest`, `ClearRow` |

## Runs

Where a module has *scenes* or *scenarios*, a run explores each of them from its own
initial states: what takes part and what may go wrong differs, the actions are the same.
`SaveOrder` switches its environment on in parts by `Features`. This keeps each run
exhaustive within a few minutes while the bounds stay at the size where actors meet.

| Run | Asks | States |
|---|---|---|
| `Sessions` | failing writes, retries, a death, crashes and stops across two sessions: the barrier, what a login loads, scripted saves, the last save, refinement of `SavedCharacter` | 1 217 428 |
| `FailingWrites` | failures, retries, crashes and row writes made after the exit: exclusion, order, no rollback | 499 295 |
| `Progress` | liveness of saves, relog and exits | 23 686 |
| `Rewards` | *contended*: a queue with room for one, failing payments and grants, relogs; *stopping*: gold through failing saves and a shutdown; *ending*: an item through failing grants and a shutdown | 95 880 |
| `Corpse` | *graveyard*: an item through death, looting, rot, decay, purge, failures and a crash or an exit, its last save retried, given up or followed by the one it found queued; *market*: items that change hands | 376 178 |
| `Connection` | *crowd*: two connections against the caps; *burst*: addresses against the throttle; *session*: one connection that types, resizes, stalls, hangs up | 118 838 |
| `Login` | *duel*: two connections for one character; *codes*: two codes in turn; *approvals*: accounts and a legacy character; *creation*: two creators of one name | 64 702 |
| `Quest` | *collector*: items, an unsteady link, failing lookups, statements and payments, a crash; *racer*: two phases taken up, dropped, repeated, by two accepts at a time too; *finder*: a phase met on entry, a time limit; *staffed*: forced completion, reset, assignment; *claimant*: rewards and script variables, failing flushes, a crash; *scripted*: variables of a quest not held yet, given up, taken again | 797 557 |
| `Command` | a caster and a writer of mail, aliases, two-stage jobs, deaths, lost links, takeovers, relogs | 302 211 |

### Bounds

- `SaveOrder`: versions (`MaxVer`), generations (`MaxGen`), deaths, sessions; retry delays
  and the retries of the `save` command keep their role with a shorter list. Two task
  slots suffice for each pair of writers that race for the turn, with the world thread
  as a third user. `Sessions` leaves direct row writes out because with them and failures
  the code does lose a save (first finding below) and forgets a scripted one (hazard at
  `autosave.rs:576`); `FailingWrites` has both, and the properties of the write order
  still hold.
- `RewardPayments`: generations and sessions. *Contended* and *ending* have no failing saves,
  *stopping* no items and room for every payer, so that what is listed under
  "Observed" stays out of the way of the properties that hold. In no scene can gold stand
  behind an item in the queue: the two payers of *contended* share one place. An item left in the
  queue at the end is allowed by `RewardKept`, by name.
- `Corpses`: row ids (`MaxRow`), loot marks (`MaxSeq`), exits and crashes, one hand-over
  of each item. One item is enough for every property, since rows never depend on each
  other but through the coins and the corpse, which are there; two marks are what a
  race between a mark and the save that clears an older one needs. An exit or a crash, one of
  them in *graveyard*: the exit with its save left behind, its retries and its giving up is the case
  of interest, and a crash discards all of that. Once a corpse is stored twice nothing
  but the coins' and items' exceptions (`twice`) is said of it, and no crash follows; the second
  copies of a stranded corpse's contents are not followed either. *Market* has no exits,
  because of the third finding.
- `Connections`: inputs of a connection, frames of the outbound queue, the channel's room
  (2, so that a reader waits), `MAX_PENDING_EVENTS` (2, so that it overflows). Caps of 1 and
  2 make each of the three limits the binding one in some state; a throttle map with room
  for one address has the sweep, the full map and the untracked address.
- `Logins`: two connections, each used once (a third would be a second duel), two codes,
  at most two failed passwords.
- `Commands`: four typed lines, a queue of two, one mishap, one return. A line overtakes
  another with two; the third and fourth make an alias meet a full queue.
- `Quests`: two or three tasks at a time (`room` of a scene: nothing new begins while a
  message in the queue might need the place), two accepts, three changes of the pack and
  the link, one failure or crash, which is what a race of two stale tasks with a new run
  needs. `Flushers`: two flush tasks may be out at a time, so that one overtakes the other.
  A completed quest of *claimant* is not accepted again.

`CHECK_DEADLOCK FALSE` is said where the bounds or a shutdown end the behaviour:
`Rewards` (a stopped server), `Connection`, `Login` (connections are used up),
`Command` (a player who has left for good while nothing ticks), `Quest` (all runs of the
quest are over). The other runs check for deadlock.

### What the code does differently from what it says

Three runs expect a violation, each of one property that a comment states.

| Run | Property | The comment | What happens |
|---|---|---|---|
| `LateReward` | `LoginLoadsLatest` | `autosave.rs:235` skipped saves are not lost, the next autosave carries the state | a reward paid after the exit makes the retry of the failed last save stale; there is no next autosave |
| `DeathAndQuit` | `CorpseOnce` | `autosave.rs:219`, `corpses.rs:9` one-shot work is written once | the exit does not ask for the claim; background and final snapshot both insert the corpse |
| `StaleHandover` | `QuitKeepsPack` | `character_items.rs:463` whichever owner saves first, the item ends up as one row of its holder | a giver's snapshot taken before the hand-over and written after the taker's last save takes the row back, and the giver's next save deletes it |

## Fairness

- `SaveOrder`: weak fairness for tasks (the runtime polls what is runnable), for the
  database's answers, timers and sleeps, and for a handler of the main loop that awaits.
  Strong fairness for the tick's drains and for the main loop's taking of a result: they
  are enabled only while the loop is at its `select!`, which picks at random among the
  ready branches, and the loop comes back to it again and again. `drain_retiring` is
  strongly fair although a save spawned by the same tick is about to take the turn:
  the tick runs both without an `await`, so a task spawned in it has not been polled.
- `RewardPayments`: the queue serves waiters for room in order (tokio's semaphore
  is fair), which is the strong fairness of `RoomFound` and `GrantSends`.
- `Corpses`: weak fairness of the delete task, of the drain of its results, of a save
  that is due (the autosave interval) and of every fold-in, and of a last save's being written
  or given up (`retry_snapshot` has a schedule that ends); strong fairness of the `Commit` of saves
  in the world, that is, a database that fails again and again still accepts one again
  and again. No last save is assumed to succeed.
- `Connections`: a reader that waits for room in the shared channel is served in turn
  (strong fairness of the reader), the writer and the game's turn are weakly fair.
- `Logins`: jobs, clocks, pollers, wakes and expiry tasks of each connection or code,
  weakly. A login job always ends: every statement has a time-out.
- `Commands`: dispatch, the begin and the parts of a tick, the end of database work
  (at the latest by `JOB_TIMEOUT`), weakly.
- `Quests`: some task that can go on does, the queue is drained, packs are watched, leases run
  out, dirty bags are flushed, weakly. `WatchTick` takes a pack to be overdue only when
  nothing is under way, which a minute without a change is.

Nothing is assumed of players, clients, the website, failures or crashes, except for
the database in `Corpses` as said.

## Proofs

Eight modules, all for every value of the constants that the named assumptions allow.

### SaveOrderProofs

For any finite set of tasks, any set of connections and any bounds
(`ConstantsAssumption`, the only assumption: the world thread is not a task, the
sets of tasks are finite, the bounds are naturals):

- `SaveInvariant`: `Spec => []SaveInv`, the inductive invariant;
- `TypeCorrect`: `Spec => []TypeOK`;
- `WritersExclude`: `Spec => []WriterHoldsTurn`;
- `NeverOverwritten`: `Spec => NoStaleOverwrite`;
- `OneClaimOwner`: `Spec => []ClaimOwned`;

and, for behaviours in which no login overtakes another at the barrier (`NoneOvertaken`:
with a character in the world no connection still holds a settled wait),

- `BarrierHolds`: `[]NoOldSessionWrites`, and `NeverRolledBack`: `NoRollback`, with
  every feature of the environment switched on;
- `StopSaves`: `[]StopSavesAll`, `LoginsLoadTheLatest`: `LoginLoadsLatest`, and
  `PromiseKept`: `KeepsPromise`, the refinement of `SavedCharacter`, when no payer of
  a quest writes rows after the character has left (`"latetask" \notin Features`; with
  it run `LateReward` refutes `LoginLoadsLatest`). The chest and houses may;
- `RequestsKept`: `[]SaveRequestKept` when no row write overtakes a snapshot at all (with one
  a request is forgotten: hazard at `autosave.rs:576`);
- `OneConnection`: `Spec => []NoneOvertaken` for one connection, whatever the rest of the
  constants; `OneConnectionKeepsAll` puts these together, without the hypothesis.

`NoneOvertaken` is what the code lacks at `login.rs:4411` (see "Observed"), and these theorems
say that nothing else is lacking: they hold for any number of connections that come and go, wait
at the barrier or take over.

None of the properties is inductive. `SaveInv` is the conjunction of

- `DataTypes`;
- `TaskShape`: which kinds of task can be in which phase (a background save never
  sleeps, a waiter never writes, ...);
- `OrderInv`: nobody is in the turn's queue twice, those in it are the tasks in a
  phase that waits or writes, all writers are at its head; every generation in use is
  below `nextGen` and `lastCommitted` and the generation of the last write are ordered;
- `CountInv`: `outstanding` *is* the number of tasks that have not released it. This is
  what makes the unsigned counter safe: a decrement always has a task to pay for it;
- `ClaimOwned`.

`OrderInv` is not proved action by action. Seven abstract steps of the queue and the
generations (`Aside`: nothing of it changes, `Asks`: somebody joins, `Takes`, `Begins`:
the holder starts to write, `Passes`: the holder leaves, `Quits`: a waiter is aborted,
`StartsOver`) each keep it; `NextOrder` shows that every action of `SaveOrder` is
one of the seven. `CountInv` and `ClaimOwned` are proved the same way, over `CountStep`
and `ClaimStep`. `NoStaleOverwrite` follows from the same classification: the
generation of the last write can only fall in `StartsOver`, after which no snapshot
of the old slot is left.

What is saved is proved over a fourth classification, `FlowStep`: a step takes a snapshot
(`TakesSave`), ends one unwritten (`Drops`), writes one (`Lands`), is the shutdown's own write
(`Stores`), a row write that overtakes (`Overtakes`), a login's read (`Loads`), forgets an unused
slot, restarts, or leaves the saves alone (`Beside`). `NextFlow` shows it of every action. The
invariant is

- `Doors`: every snapshot is of this session; none is left while a login reads the row, nor
  while a connection has been told that it may (`Barrier`); who plays, and who awaits
  the turn, has the character in the world (`Seats`). It is proved by action, from
  `NoneOvertaken` and from `CountInv`: `outstanding = 0` means that nothing saves;
- `Versions`: snapshots of later generations carry later versions, none carries one the
  character has not reached, and one that may still be written is not behind the row;
- `RowWrites`: a queued row write is ahead of a shutdown in the turn's queue (`Ahead`), and there is
  none once the character has left. So when the last snapshot is taken nothing will
  overtake it. `OrderStep` is used again here: what a step does to the queue;
- `StoredAtLast`: once the character has left or the server flushes, its last version is stored, or in
  a final save or retry not yet overtaken, or the server has logged that it gave up;
- `Caught` and `Asked`, without row writes: an overtaken snapshot is behind the
  row, and a request is met by the row, by the marker, by a failed write not yet folded
  in, or by the background save that consumed the marker.

The refinement maps each `FlowStep` to one step of `SavedCharacter` or a stutter
(`AbstractStep`): `Loads` to `Enter`, which needs `StoredAtLast`, and `Lands` and `Stores` to `Save`,
which needs `Versions`.

### GateProofs and ConnectionsProofs

For any finite sets of connections and addresses, any limits and any throttle constants:

- `GateSlotsExact`: `GateSpec => []SlotsExact`. The counters are cardinalities of sets of
  guards (all, those not logged in, those of one address); each critical section adds or
  removes one element, or none, and the lemmas say what that does to the three sets.
  The guards `RoomFor` give the caps.
- `GateThrottleHolds`: `GateSpec => ThrottleHolds`. `RateInv` reads the sequences of ages from the newest
  attempt back (`Recent`). An address's entry is a tail of its attempts (`TailOf`): none within the
  window is missing, and none that is left is invented, whatever was popped by a sweep or an attempt,
  and popping the front is the same as dropping what has expired because ages are in order
  (`WithinDrops`). Between two sweeps entries expire by less than the time since the last
  one (`Young`); so a map that is full right after the code declined to sweep it is full of
  addresses that connected within the window and the gap, which is the only reason to let
  an address in untracked.
- `ConnectionsImplementGate`: every step of `Connections` is a step of `GateNext` or leaves the
  gate alone, so a connection's tasks use the gate only as the gate allows.
- `ConnectionSlotsExact`, `ConnectionThrottleHolds`: hence `Spec => []SlotsExact` and
  `Spec => ThrottleHolds` for the tasks, without looking at them again;
- `NothingUnwritten`: `Spec => FlushedBeforeEnd`. The property is about the one step that ends a
  task, which waits for the writer; `OutboundInv` says what it relies on: nothing is queued where no
  writer runs, and a writer runs only between the end of the handshake and the end of its task.
- `SessionsShaped`: `Spec => []SessionShape`.

The last one is about sequences that are computed: what a reader makes of a chunk (`Controls`,
`Lines`) and what of the channel is one connection's (`EventsOf`). These are recursive
functions, and the library's induction theorems cannot be instantiated; but every set of positions has a
smallest one (`Smallest`), and a claim that holds at 0 and is passed on from each position to the
next has no smallest counterexample. `Induction` is that argument, stated with a set of positions
instead of a predicate. `Recursion` is the same for the existence of a function defined by
recursion, without which nothing is known of its values; `EventsOfSteps`, `ControlsSteps` and `LinesSteps` give the
recursive equations of the three operators, and what they return follows by `Induction`:
`EventsOfAppend` and `EventsOfTail` (a channel that is appended to or popped), `ControlsKeep` and
`LinesKeep`, together `ChunkKeeps`.

The invariant `SessionInv` follows an event from the client to the game. What is not read yet comes
after all that was (`Unread`); what the sink has let through, or keeps until the greeting,
is in order (`SinkOK`: no line is kept, and nothing is ahead of the greeting); and of the sizes (`Latest`)
the last one read was let through last, or is held back with a flush due, and then it is
newer than all that were let through. The last is what a shed frame can break, and is why `Control`
flushes before it lets another frame pass. A step that moves an event, from the sink to the
channel (`DeliverKeeps`) or to the game (`TurnKeeps`), leaves their concatenation `Heard` alone;
the end is announced behind everything (`EndCloses`), so it is the last that is heard
(`LastHeard`), which is why the router has nothing left of a connection whose id comes back (`Quiet`).

### LoginsProofs

For any number of connections, characters, accounts and codes (the values that stand for
none are none of them, the accounts at the start are typed, a connection may miss at least
one password):

- `OneBodyEach`: `Spec => []OneBody`. Six things happen to the maps `login`, `playing` and
  `body` (a connection stays, takes over a body, spawns one, opens, closes, a body leaves);
  `NextSorts` shows that each of the dialogue's branches is one of them. The invariant adds
  to `OneBody` that a connection id is used once and never stands for none.
- `OneJobEach`: `Spec => []JobsMatchStage`, with `TypeOK` in it;
- `CreationsWhole`: `Spec => []CreatedWhole`;
- `CodeSpentOnce`: `Spec => CodeSpentOnLogin`.

The last three follow from `DialogueInv`. What makes it inductive: a character and an
account that stand together in a password or code stage, or in the job that leads there,
belong together in the rows (`Linked`, in `Suits` and `JobSuits`), which is stable because an
owner, once set, is never changed; a job's connection, if it is still there, waits in
`Authenticating` and has no other job (`Waiting`), and a job of a connection that has gone
can never meet a new one; a character without a row has had no kit. A handler is described
once, by `Turn`: its connection gets a new stage, a new job, or is done; the lemmas of the
middle part show that every handler takes a turn, those after it that a turn keeps the
invariant whoever else is logging in.

### CommandsProofs

For any lines, queue length, delays, number of slots and mishaps (`CommandsAssumption`):

- `SlotsAccounted`: `Spec => []SlotsOwned`;
- `LinesRunInOrder`: `Spec => LinesInOrder`.

`SlotsOwned` is not inductive: a wind-up that ends gives its id to the hold, and a charge
must find the id among the reservations. `CastInv` adds the types and `Places`: the hold
is only in use between the end of a wind-up and its resolution, and a wind-up under way and
a hold are never there at once. As in `SaveOrderProofs` the actions are not taken one by
one: `SlotStep` lists what a step may do to the spell slots (nothing, reserve, give back,
park, settle, recover, start over), and each keeps the invariant.

A line that runs is compared with those that wait, so the invariant places every line:
`QueueOrder` says that the queue and the lines being dispatched (an alias has several) are
each in the order they were typed, and that whoever waits was typed before whoever is being
dispatched; `SameLife` that a dispatched line was typed in this life, and so was each that
waits unless its connection is gone; `OneJob`, an invariant of its own, that at most one job
of the body is out, that the player is busy while it is, and that no draft is open then.
`LineStep` has five cases (the lines rest, are cleared, a line is taken, replayed, typed),
each of which keeps the order.

### RewardPaymentsProofs

For any finite set of payers, any scenes and bounds (`RewardAssumption`):

- `RewardsPaidOnce`: `Spec => []PaidOnce`, in every scene;
- `RewardsNotErased`: `Spec /\ []Calm => RewardNotErased`;
- `RewardsKept`: `Spec /\ []Calm => []RewardKept`;
- `CalmScenesStayCalm`: `Spec => []Calm` if every scene is a `CalmScene`.

`PaidInv` counts the copies of a reward wherever they are: `Accounted` bounds the entity plus what
is on its way, the rows, and each snapshot that may be written, and says that before the delivery
there is a copy nowhere but, of gold, in the row, while the payer has the turn. That last part is
what a login needs: it reads the row with the turn in hand, so it cannot find gold there that
reaches it again through the queue.

`RewardKept` says of an item that it is found exactly if its loss was not logged. `DroppedGone` is the half of
it that failing grants add: an item logged as lost is in no row, on no entity, in no
snapshot and not on its way, so restoring it by hand makes no second one.

The last two are about a race that the code can lose in four ways, under *Observed* at
`quest_progress.rs:581` and `:546`, `commands.rs:209` and `:470`; `Calm` excludes just these, state by
state, and the theorems say that there is no fifth. The invariant `KeptInv` orders the snapshots:
a snapshot that may still be written holds what the rows hold (`Fresh`) and no more than a later one
or the entity (`Growing`); with an item about, the last save of an absent character has the turn and is
the newest (`LastFirst`), which is why `grant_item_to_offline`, which takes the turn after it, can
write a row that no snapshot deletes; and an item is in one of the places `RewardKept` names
(`ItemKept`). A snapshot taken by the drain holds only part of the queue (`SavesFollow`,
`SnapshotsHold`): up to the first item. `Calm` is not an empty condition: `CalmScene` gives scenes,
*contended* and *stopping* among them, whose every state is calm, since nothing can be behind an item or
because there is room for every payer (`RoomForAll`, a count of the queue and the reserved
places). *Ending*, an item about a shutdown, is not one of them and is TLC's alone.

### CorpsesProofs

For any finite sets of players and items and any scenes (`CorpsesAssumption`: a player is none of
the places an item can be in, there is an id for each item; the bounds are naturals):

- `CoinsInOnePlace`: `Spec /\ []LeftUnwritten => []CoinsOnce`;
- `EveryIdHasItsRow`, `CorpseHasItsRows`: the same of `ItemRows` and `CorpseMatchesRows`;
- `PacksKept`: the same of `QuitKeepsPack` in every state in which no item has changed hands during
  a save of its giver (`handed` is not "busy").

All four in every scene, with exits at any time (a death unsettled, a save still queued), with saves
that fail, are retried and given up. The one hypothesis, `LeftUnwritten`, says that no save
which an exit left queued is written after all. It is not an invariant: when the first write of the last
save fails, the queued one is written before the retry, and a death in both is stored twice. That is
the finding of `DeathAndQuit`, which `CoinsOnce` excludes by name (`twice`); the theorems exclude one
step more, a queued save that is written but carries no death, and TLC has that case. Under
the hypothesis each step is `Quiet`: any but `LeftCommits` and `LeftApplies` (`QuietSteps`).

The coins are counted in rows, but they move in the world: a looter's purse grows when they
loot, their row when their save commits, and the corpse's row shrinks in the same transaction. So
`LifeInv` keeps what is *due*: what a player has taken out of the corpse and no commit has
debited yet. `Due` depends on where the player's snapshot is (a last one that is being written takes
the debt along, a committed one that is not folded in has paid part of it already). `Purse` says
that a purse is the row plus what is due, that what is due is still in the corpse's row, and that
a mark or the owner's retirement stands for it; without the last the row could be deleted before the
debt is paid. Since a debt is at most one coin of the one there is, two players never owe it both
(`Apart`). A last save given up takes its debt along: the coins stay in the corpse's row, and are gone
with it (`forsaken`). The rest orders the life of the corpse: `Death` (unsettled exactly as long as
its death is due to be stored, stranded afterwards if it never is), `Writer` (one deletion at most, and the corpse waits for its outcome),
`Mark` (a mark is gone before a deletion is sent).

The rows need an invariant for each place an item can be (`ItemOK`): in hand, its row is the
holder's, or still filed under the corpse while the holder is marked, or being inserted under an id the
entity has not heard of; in an unsettled corpse it is the owner's until the death commits;
in a settled one it is the corpse's; out of the world it is in a last snapshot, rotted away,
or its row belongs to somebody who is gone. To these `RowInv` adds that an id is remembered
(by row, entity or snapshot) for one item only and is below the sequence (`Ids`), so ids are never
used again; that ids on their way to a deletion are no entity's (`Dead`); what a snapshot
holds (`SnapShape`); and the pack of who is gone (`Stock`). Each handler is shown to keep all of it.

`RowInv` speaks of items nobody has given away (`Untraded`): from a gift on, the row is still the
giver's, and the giver's next save deletes it if the taker's does not come first, so "every id
has its row" is not true of the item any more. A second invariant, `CalmOK`, keeps what remains true
of it as long as no save of the giver was out when it was given: it has one row at most; a row in a
pack is of someone who is in the game or being saved (`Open`), or else the item is nowhere but in that
row (`AtRest`); a snapshot that names it will claim all its rows (`EntryOK`), and nobody else's
names it; in someone's hands its row has the id the next save will name, or one about to be stamped
(`HandOK`). From these follow the pack of everyone who is gone (`PackOK`) and one row for each item.
An item given while a save of the giver is out is in two snapshots: for that one
`QuitKeepsPack` is false (the run `StaleHandover`), and `CalmOK` with it.

### QuestsProofs

For any finite set of tasks, any objectives and any scenes (`QuestsAssumption`: a scene has at
least one phase, a phase at least one objective, a status that a row can have, a number to
collect of at least one and a pack no larger than the bound):

- `RewardedOnce`: `Spec => []RewardOnce`;
- `PhasesAreEarned`: `Spec => []PhasesEarned`, with the types of the state in it;
- `NobodyStranded`: `Spec => []NoneStranded`;
- `ClaimsGrantedOnce`: `Spec /\ []Timely => []GrantedOnce`: every claim of a reward that finds its
  quest row finds it completed;
- `ClaimsInTime`: `Spec /\ []NoneRevived => [](Timely /\ GrantedOnce)`, if no quest with rewards to
  claim is repeatable or touched by staff (the quests of the run are such). `NoneRevived` says that no
  accept has taken up a completed row it had found open; the code does not prevent that
  (see "Observed"), and the theorem says that nothing else lets a reward be granted twice.

`RewardOnce` speaks of counters, so `BookInv` adds what they are worth for a quest that cannot be
repeated (`Settled`): the completions are those of revived rows and, once it is complete again, one
more. Accepts may pass the gates in any number before one of them takes the row; none of the books moves
until it does. `EveryBookStep` sorts all actions into eight kinds of step (nothing of
the books moves, an accept asks, takes the quest, the quest is dropped, completes, is forced, a
payment settles, the server dies), each of which keeps the invariant.

The other two follow from `PhaseInv`: the types, with what a task carries by the step it is at;
`Untouched`, that a quest without a row has nothing done; `Earned`, the second property's core;
and `Watched`, the third's. Here there are five kinds of step (work on the objectives, an
advance, a new run, a mark on the row, an assignment by staff). Only an advance moves the phase,
and it moves to the first phase ahead with something left to do: each phase it jumps over is
done, which is what `Earned` needs, and the phase it stops at is not, which is what `Watched`
needs. Work never undoes an objective, the releases of a lease included, and whoever completes
one is at the step before the advance.

`GrantedOnce` compares counters; `ClaimInv` adds the completion that is still `Owed` a reward, and that
the claim list is in the row alone (`ListInRowAlone`): in no bag, which is what `hydrate_bag` takes
care of, so in no flush that could write an old list back. `Timely` names the race left open,
a claim that is planned and then overtaken by a new run of its quest, listed under "Observed".
Without staff, repeats and revivals it cannot arise: a completed quest stays so (`StaysCompleted`).

### Only model-checked

Every liveness property (`SavesEnd`, `WaitsEnd`,
`PaymentsEnd`, `CorpseRests`, `SlotsComeBack`, `OrphanCodesClose`, `LoginsMoveOn`, `LinesRun`,
`CollectedCounts`, `VariablesSettle`), since the prover does not reason about fairness or `ENABLED`;
`RewardKept` in a scene with items and a shutdown; the properties of `Corpses` once a save left
queued by an exit has been written (`LeftCommits`, `LeftApplies`).

## Observed

What the models showed about the code and no run of its own states. The first nine are disagreements
with a comment of the code; with the named condition or bound taken away, a run violates the property.

- `login.rs:4411`: a connection held by the relog barrier is let in with
  `save_wait_done = true` whatever has happened since its wait settled. With two connections
  waiting for one character, the second result can arrive after the first connection has played,
  quit and left a failed final save in its backoff; the second login then reads the row
  with that save pending. The comment above the check says that nothing below may. With
  `Conns = {c1, c2}` and failing writes alone TLC finds both `NoOldSessionWrites` and
  `LoginLoadsLatest` violated: `WaitEnds` for one connection, a session of the other with
  `FinalFails` at its end, then `FinishSaveWait` and `LoginLoads` of the first.
- `quest_progress.rs:581`: an item reward exists only as a queued update until the world spawns
  it. A payer that reserved its place before a shutdown and delivers after the last drain loses the
  item, without a line in the log; the comment says the database already holds the reward. In
  *ending*, `RewardKept` allows an item left in the queue of a stopped server, and no other loss.
- `quest_progress.rs:546`: with a full queue at shutdown gold is paid in the row alone, and the
  character's shutdown save, snapshotted later, writes the old purse over it; the
  comment at 516 says it is restored on the next login (`RewardNotErased` fails with two
  gold payers, room for one and a shutdown).
- `commands.rs:209`: `grant_item_to_offline` does not supersede the retry of a failed
  last save, whose `save_inventory_diff` then deletes the granted row; the comment at 187 names
  two outcomes and not this one (`RewardNotErased` fails with an item and failing saves).
- `commands.rs:470`: a drain takes the whole queue into a list and applies it one by one; an
  item asks for a save at once, so the snapshot lacks the gold behind it in the list, which
  the row already holds, and its write puts the old purse back until the next save. The
  comment at `login.rs:6748` says that updates not yet on the character go in before the
  snapshot. A quest whose rewards list the item first is enough (`RewardNotErased` fails with
  two places in the queue).
- `input_queue.rs:293`: a line typed while the lookup of `mail <name>` runs off the tick waits
  in the queue; the draft that then opens takes the lines typed next, and the one that waits
  runs as a command when the letter is sent, although `input_queue.rs:22` and `off_tick.rs:16`
  say that commands run in the order they were typed. Boards do the same.
- `quest_progress.rs:733`: the list of watched items is looked up by a task and applied when
  its message arrives, whatever has happened in between. An empty list read before an accept or a
  phase advance and applied after the new one stops the watch for the whole session, although
  `quest_progress.rs:974` says that a quiet pack is still re-verified periodically: a player with the items
  in the pack waits until the next quest event or login. The same holds of a first look that fails
  (`quest_progress.rs:714-722`, after the empty watch was inserted at 1024) or that finds the player
  link-dead (`Notifier::for_player` has no connection, 697-704). `CollectedCounts` is asked of every
  scene, with the link lost at any time and lookups that fail; without its last conjunct
  (`~blind`, exactly these three) it is violated.
- `mud-db/quests.rs:706`: the upsert of an accept does not ask what the gates asked. Two accepts
  that pass the gates together both take the row; if the first run is complete by the time of the second
  upsert, a quest that cannot be repeated is in progress again, and is completed and paid a second
  time, while `commands/quests.rs:612` counts on the refusal. `RewardOnce` has the exact count:
  one completion, and one for each revived row.
- `quest_vars.rs:37-40`: "The cache entry is dropped anyway by `drain_dirty`, so a re-accept later starts
  with a clean bag." `drain_dirty` drops tombstones and empty bags only; the values stay in the
  cache, clean, while the row never gets them.
- Quests: `mud-db/quest_objectives.rs:1221` says that the items of a COLLECT objective are only
  ever taken once. `set_open_progress` and the release of a loser clear a claim that somebody
  else holds, and a lease may run out while its message waits in the queue: the objective
  is claimed again and a player who has as many items again gives those too.
- Quests (read, not run): `finish_collect` despawns the items before the task that records the
  completion; if that statement fails they are gone for nothing. A crash, or a
  failed statement, between the completion of an objective and the advance leaves the phase
  complete and nobody to advance it (`NoneStranded` leaves crashes out).
- Script variables: row and cache part for good (`stale`; without it `VariablesSettle` fails) when a
  flush finds no row, when its lookup or a statement fails (`quest_vars.rs:81-115` warns, and
  `drain_dirty` has cleared the marks), when two flush tasks run in the wrong order, when one that
  is out lands its old values in a quest accepted or reset meanwhile, when an accept cut off by the
  watchdog clears the row and not the bag. A variable set before the quest is accepted is dropped by
  both the flush and the accept, where the comment of `LuaQuest` (`mud-script/lib.rs:4437`)
  says it is merged in. The next `setvar` of the quest repairs the keys that are still in the bag.
- `claim_reward` does not look at the status, so a claim planned
  before the quest was taken again may grant the reward in the new run (`Timely`
  in `QuestsProofs` is what excludes it).
- Corpses: when a last save that has a death is given up (`autosave.rs:720`), its corpse stays in
  the world without a `PlayerCorpseId`: nobody can open it, and the owner comes back alive, with pack and
  purse from before the death. After `PLAYER_CORPSE_DECAY_SECS` the decay finds no row to delete
  (`begin_decay_delete` is false) and lets the contents fall: second copies of what the owner has. Given up,
  the last save of a looter leaves loot and coins in the corpse's rows while the entities are gone.
- Corpses: an exit's last save and the save it left queued may both debit the corpse's row for the
  same coins. The debit stops at zero (`GREATEST`), so nothing is lost of the one coin of the model;
  of a larger pile, taken in part, the row would be short of as much again.
- Corpses: a looter who passes loot on before their save takes the mark with them at
  their next save (a mark is per looter, not per item). The row stays filed under the corpse
  until the holder's save, so a decay or purge in between cascades it away; the holder's next
  save inserts it again, a crash in between loses it. `CorpseMatchesRows` and `ItemRows`
  except items that were handed on.
- Corpses: an item without a row that rots in an unsettled corpse comes back at boot with
  the death's write that is on its way (`corpses.rs:243` has no row id to remember). One that rots
  while a decay's delete runs keeps its row when that delete fails. An item given away before it
  had a row can be inserted by both players until the giver's next save.
- Corpses: a retirement that was filtered from the owner's last snapshot because of another
  looter's mark is lost with the owner's exit; an empty corpse row stays until the next boot.
- Logins: a creation whose rows are committed but cannot be read back
  (`login.rs:4515`) never marks the character as new, so its first login hands out no kit
  (`stray` in the model). A failed read of the account row makes a linked character look
  unlinked (`login.rs:1275`).
- Commands: a flush verb (`abort`) with lines waiting runs even while a job is out. A job given up
  on at `JOB_TIMEOUT` may still land. A failed `send` gives the draft back, one that timed out
  loses it. A death caused by an alias's own command does not end the alias: its other lines
  run as a ghost's.
- Connections: a writer whose last sender is a body still waiting for its save turn keeps
  its slot until the time-out of the drain.

## Not modelled

- Save machinery: what is in a snapshot beyond what the properties tell apart (attributes,
  effects, item nesting); the SQL below a transaction; the writer semaphore of
  `autosave.rs` (it delays writes, and its permit is taken with the turn held, never the
  other way round); the autosave interval (which character is due is a free choice);
  more than one character in `SaveOrder` (slots share only the semaphore, the completion
  list and the queue; the queue's share of others is `others` in `RewardPayments`); the
  system clock, panics inside a write, the order of parked timers; a commit whose
  acknowledgement is lost.
- Corpses: dragging a corpse between rooms, the grace sweep of abandoned marks, consent,
  nesting of items in containers, equipment.
- Connections: the arithmetic of the token buckets (a line or frame over its rate is a free
  choice), compression, the telnet byte format, GMCP payloads, ban lists.
- Logins: strikes, locks, wizlock and bans (any attempt may be refused); the window of
  `CodeRateLimiter` (one quota that is never given back); a restart; the texts and rerolls
  of creation; code rows are never deleted.
- Commands: instant casts of staff, casts of mobs, circles above the spell's own, quick
  chant, the world pause, effects of commands on anything but lines, slots and drafts.
- Quests: levels, prerequisites, cooldowns and exclusive groups at the gates, the offers of
  triggers, dialogue gates, party credit, which items a quest wants, worn items; the steps of the
  payment (`RewardPayments`); variables of entities, whose cache works like that of quests.
- The rest of the server: combat, effects, AI, respawn, triggers, commands.
  Most of its lines are tables, formatting and single-threaded passes over the world, where
  a model would repeat the code; the part with a protocol of its own (deferred triggers)
  is in the plan.

Every component marked `partly` or `not_modelled` in `PROJECT.json` has its reason there.

## Plan

Done: `SaveOrder` with `SavedCharacter`, `RewardPayments`, `Corpses`, `Gate` with
`Connections`, `Logins`, `Commands`, `Quests` with `QuestVariables`, and the proofs above.

Next, in this order:

1. `Deferred`: triggers deferred during a script, despawn before they run, chains at their
   bound.
2. `Houses`: placement and refund in `house_items.rs` on the turn of `SaveOrder`.
3. Combat relations (`Fighting`, pets, mounts, groups) through death and exit.

## Use

    tlc -workers 2 -config Sessions.cfg MCSaveOrder
    tlapm SaveOrderProofs.tla

Properties, mutants of the code's definitions that each property catches (operators
named `<Definition>_<Bug>`), and the source lines of every definition are in
`PROJECT.json`.
