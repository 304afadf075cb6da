------------------------------- MODULE Quests -------------------------------
(***************************************************************************)
(* One quest of one character: acceptance, objectives, phases, completion. *)
(*                                                                         *)
(* The quest lives in rows of the database.  Detached tasks read them and  *)
(* write them back one statement at a time: bumps of an objective, checks  *)
(* of a COLLECT objective against the pack, the phase advance, the accept, *)
(* the payment.  They reach the world through the queue of player updates. *)
(* The world takes the items of a satisfied COLLECT objective, watches the *)
(* pack, and starts the tasks.  The turn under which rewards are paid, and *)
(* what becomes of them, is module RewardPayments; here a payment counts.  *)
(***************************************************************************)
EXTENDS QuestVariables

CONSTANTS
    Tasks,      \* bound: places for tasks in flight
    Objectives, \* objectives of the quest
    Scenes,     \* [phases, collect, need, repeatable, status, pack: the quest, its row;
                \*  failing, features: what may happen; room: tasks at a time]
    QueueMax,   \* room of the update queue
    MaxPack,    \* bound: matching items a player can hold
    MaxRuns,    \* bound: accepts
    MaxMoves,   \* bound: changes of the pack, links lost and found
    MaxFaults   \* bound: failed statements and crashes

ASSUME QuestsAssumption ==
    /\ QueueMax \in Nat \ {0} /\ IsFiniteSet(Tasks) /\ MaxPack \in Nat /\ MaxRuns \in Nat
    /\ MaxMoves \in Nat /\ MaxFaults \in Nat
    /\ \A sc \in Scenes : /\ sc.room \in 0..Cardinality(Tasks) /\ sc.pack \in 0..MaxPack
                          /\ sc.need \in Nat \ {0}
                          /\ sc.collect \subseteq Objectives
                          /\ sc.phases \in Seq((SUBSET Objectives) \ {{}}) \ {<<>>}
                          /\ sc.status \in {"none", "active", "completed"}

VARIABLES
    scene,      \* the quest, its holder, and what may happen
    row,        \* CharacterQuest: [id, status, phase], phase 0 for NULL
    obj,        \* CharacterQuestObjective: [count, done, lease] of each objective
    tasks,      \* what each task is about to do
    queue,      \* PendingPlayerUpdate messages
    presence,   \* the character's entity: "here", "linkdead", "away"
    pack,       \* matching items it holds
    watch,      \* its CollectWatch: [known, targets, signature]
    blind,      \* history: the watch has no targets, for want of a look or by an old list
    hist        \* history: accepts, completions and what became of their rewards

qvars == <<scene, row, obj, tasks, queue, presence, pack, watch, blind, hist>>
vars == <<qvars, vvars>>

Has(feature) == feature \in scene.features

Idle == [pc |-> "idle"]
Fresh == [o \in Objectives |-> [count |-> 0, done |-> FALSE, lease |-> "free"]]
AllDone == [o \in Objectives |-> [count |-> scene.need, done |-> TRUE, lease |-> "free"]]
Unwatched == [known |-> FALSE, targets |-> FALSE, signature |-> 0]

Init ==
    /\ scene \in Scenes
    /\ row = [id |-> 1, status |-> scene.status, phase |-> 0]
    /\ obj = IF scene.status = "completed" THEN AllDone ELSE Fresh
    /\ tasks = [t \in Tasks |-> Idle]
    /\ queue = <<>>
    /\ presence = "here"
    /\ pack = scene.pack
    /\ watch = Unwatched
    /\ blind = FALSE
    /\ hist = [accepted |-> IF scene.status = "none" THEN 0 ELSE 1,
               completed |-> IF scene.status = "completed" THEN 1 ELSE 0,
               paid |-> IF scene.status = "completed" THEN 1 ELSE 0,
               withheld |-> 0, lost |-> 0, revived |-> 0, forced |-> FALSE,
               moves |-> 0, faults |-> 0, granted |-> [r \in Rewards |-> 0]]
    /\ variables = None /\ bag = None /\ dirty = FALSE
    /\ flush = [f \in Flushers |-> NoFlush] /\ stale = {}

-----------------------------------------------------------------------------
\* The row and the phases

Held == row.status = "active"
Phases == DOMAIN scene.phases
Current == IF row.phase = 0 THEN 1 ELSE row.phase
PhaseDone(p) == \A o \in scene.phases[p] : obj[o].done
\* Objectives the list queries find: the current phase of a quest in progress.
Open == IF Held THEN {o \in scene.phases[Current] : ~obj[o].done} ELSE {}
\* A statement keyed by a row id finds the row.
Exists(id) == row.status # "none" /\ row.id = id

\* A step of task t; statements of the quest rows leave the rest alone.
Goes(t, task) == tasks' = [tasks EXCEPT ![t] = task]
Slot == CHOOSE t \in Tasks : tasks[t].pc = "idle"
Starts(task) == (\E t \in Tasks : tasks[t].pc = "idle") /\ Goes(Slot, task)
WorldKept == UNCHANGED <<presence, pack, watch, blind>>
RowsKept == UNCHANGED <<row, obj, variables>>
CacheKept == UNCHANGED <<bag, dirty, flush, stale>>

\* Bound: something new begins only while scene.room has a place for it and for what the
\* messages in the queue will start, so that a message never waits for a task.
Room(n) ==
    Cardinality({t \in Tasks : tasks[t].pc # "idle"})
        + Cardinality({i \in DOMAIN queue : queue[i].kind # "targets"}) + n
    <= scene.room

\* Room for a message is waited for.
Sends(message) ==
    /\ Len(queue) < QueueMax
    /\ queue' = Append(queue, message)

\* Notifier::for_player finds no connection on a link-dead character: no look.
Rechecks(n) ==
    /\ IF presence = "here" THEN Starts([pc |-> "lookup", held |-> n])
                            ELSE UNCHANGED tasks
    /\ blind' = (blind \/ (presence # "here" /\ ~watch.targets))

-----------------------------------------------------------------------------
\* Kills, visits, talks, deliveries, skills and CUSTOM_LUA: read, then bump

Bump ==
    /\ Room(1) /\ presence = "here"
    /\ \E o \in Open \ scene.collect :
          Starts([pc |-> "increment", id |-> row.id, o |-> o])
    /\ RowsKept /\ WorldKept /\ CacheKept /\ UNCHANGED <<scene, queue, hist>>

Increment(t) ==
    LET o == tasks[t].o
        count == obj[o].count + 1
        counts == Exists(tasks[t].id) /\ ~obj[o].done
    IN /\ tasks[t].pc = "increment"
       /\ obj' = IF counts
                 THEN [obj EXCEPT ![o] = [count |-> count, done |-> count >= scene.need,
                                          lease |-> "free"]]
                 ELSE obj
       /\ Goes(t, IF counts /\ count >= scene.need
                  THEN [pc |-> "advance", id |-> tasks[t].id] ELSE Idle)
       /\ WorldKept /\ CacheKept /\ UNCHANGED <<scene, row, variables, queue, hist>>

\* Mutant: whatever status the row has.
TryAdvance_AnyStatus(t) ==
    LET ahead == {p \in Phases : p >= Current /\ ~PhaseDone(p)}
    IN /\ tasks[t].pc = "advance"
       /\ \/ /\ ahead # {}
             /\ row' = [row EXCEPT !.phase = Min(ahead)]
             /\ Goes(t, IF Min(ahead) > Current THEN [pc |-> "enter"] ELSE Idle)
             /\ UNCHANGED hist
          \/ /\ ahead = {}
             /\ row' = [row EXCEPT !.phase = Len(scene.phases), !.status = "completed"]
             /\ Goes(t, [pc |-> "pay"])
             /\ hist' = [hist EXCEPT !.completed = @ + 1, !.forced = FALSE]
       /\ WorldKept /\ CacheKept /\ UNCHANGED <<scene, obj, variables, queue>>

\* Mutant: one phase at a time, complete or not.
TryAdvance_OneHop(t) ==
    LET active == Held /\ Exists(tasks[t].id)
        next == Current + (IF PhaseDone(Current) THEN 1 ELSE 0)
    IN /\ tasks[t].pc = "advance"
       /\ \/ /\ active /\ next \in Phases
             /\ row' = [row EXCEPT !.phase = next]
             /\ Goes(t, IF next > Current THEN [pc |-> "enter"] ELSE Idle)
             /\ UNCHANGED hist
          \/ /\ active /\ next \notin Phases
             /\ row' = [row EXCEPT !.phase = Len(scene.phases), !.status = "completed"]
             /\ Goes(t, [pc |-> "pay"])
             /\ hist' = [hist EXCEPT !.completed = @ + 1, !.forced = FALSE]
          \/ ~active /\ Goes(t, Idle) /\ UNCHANGED <<row, hist>>
       /\ WorldKept /\ CacheKept /\ UNCHANGED <<scene, obj, variables, queue>>

\* One transaction with the row locked: from the current phase on, over every
\* phase whose objectives are all complete.
TryAdvance(t) ==
    LET active == Held /\ Exists(tasks[t].id)
        ahead == {p \in Phases : p >= Current /\ ~PhaseDone(p)}
    IN /\ tasks[t].pc = "advance"
       /\ \/ /\ active
             /\ \E next \in ahead :
                   /\ \A p \in ahead : next <= p
                   /\ row' = [row EXCEPT !.phase = next]
                   /\ Goes(t, IF next > Current THEN [pc |-> "enter"] ELSE Idle)
             /\ UNCHANGED hist
          \/ /\ active /\ ahead = {}
             /\ row' = [row EXCEPT !.phase = Len(scene.phases), !.status = "completed"]
             /\ Goes(t, [pc |-> "pay"])
             /\ hist' = [hist EXCEPT !.completed = @ + 1, !.forced = FALSE]
          \/ /\ ~active
             /\ Goes(t, Idle)
             /\ UNCHANGED <<row, hist>>
       /\ WorldKept /\ CacheKept /\ UNCHANGED <<scene, obj, variables, queue>>

\* QuestPhaseEntered: the world looks at the pack again.
Enter(t) ==
    /\ tasks[t].pc = "enter"
    /\ Sends([kind |-> "entered"])
    /\ Goes(t, Idle)
    /\ RowsKept /\ WorldKept /\ CacheKept /\ UNCHANGED <<scene, hist>>

Pay(t) ==
    /\ tasks[t].pc = "pay"
    /\ hist' = [hist EXCEPT !.paid = @ + 1]
    /\ Goes(t, Idle)
    /\ RowsKept /\ WorldKept /\ CacheKept /\ UNCHANGED <<scene, queue>>

-----------------------------------------------------------------------------
\* COLLECT objectives: the pack as it was seen against the rows as they are

Lookup(t) ==
    /\ tasks[t].pc = "lookup"
    /\ Goes(t, [pc |-> "targets", id |-> row.id, held |-> tasks[t].held,
                todo |-> {[o |-> o, count |-> obj[o].count] :
                            o \in Open \cap scene.collect}])
    /\ RowsKept /\ WorldKept /\ CacheKept /\ UNCHANGED <<scene, queue, hist>>

NextRow(task, todo) ==
    IF todo = {} THEN Idle
    ELSE [pc |-> "rows", id |-> task.id, held |-> task.held, todo |-> todo]

SendTargets(t) ==
    /\ tasks[t].pc = "targets"
    /\ Sends([kind |-> "targets", targets |-> tasks[t].todo # {}])
    /\ Goes(t, NextRow(tasks[t], tasks[t].todo))
    /\ RowsKept /\ WorldKept /\ CacheKept /\ UNCHANGED <<scene, hist>>

\* Mutant: without completed = false in the statement.
OpenProgress_Reopens(task, r) ==
    /\ task.held < scene.need /\ task.held # r.count
    /\ obj' = IF Exists(task.id)
              THEN [obj EXCEPT ![r.o] = [count |-> task.held, done |-> FALSE,
                                         lease |-> "free"]]
              ELSE obj

\* set_open_progress clears whatever claim the objective has.
OpenProgress(task, r) ==
    /\ task.held < scene.need /\ task.held # r.count
    /\ obj' = IF Exists(task.id) /\ ~obj[r.o].done
              THEN [obj EXCEPT ![r.o] = [count |-> task.held, done |-> FALSE,
                                         lease |-> "free"]]
              ELSE obj

\* claim_objective: a claim is a lease, free, or expired.
Claimable(id, o) == Exists(id) /\ ~obj[o].done /\ obj[o].lease # "held"

Claim(task, r) ==
    /\ task.held >= scene.need
    /\ obj' = IF Claimable(task.id, r.o)
              THEN [obj EXCEPT ![r.o] = [count |-> scene.need, done |-> FALSE,
                                         lease |-> "held"]]
              ELSE obj

CheckRow(t) ==
    /\ tasks[t].pc = "rows"
    /\ \E r \in tasks[t].todo :
          LET task == tasks[t]
              rest == NextRow(task, task.todo \ {r})
          IN \/ /\ task.held < scene.need /\ task.held = r.count
                /\ Goes(t, rest)
                /\ UNCHANGED obj
             \/ OpenProgress(task, r) /\ Goes(t, rest)
             \/ /\ Claim(task, r)
                /\ Goes(t, IF Claimable(task.id, r.o)
                           THEN [pc |-> "claimed", id |-> task.id, o |-> r.o,
                                 held |-> task.held, todo |-> task.todo \ {r}]
                           ELSE rest)
    /\ WorldKept /\ CacheKept /\ UNCHANGED <<scene, row, variables, queue, hist>>

SendClaimed(t) ==
    /\ tasks[t].pc = "claimed"
    /\ Sends([kind |-> "claimed", id |-> tasks[t].id, o |-> tasks[t].o])
    /\ Goes(t, NextRow(tasks[t], tasks[t].todo))
    /\ RowsKept /\ WorldKept /\ CacheKept /\ UNCHANGED <<scene, hist>>

\* The task of finish_collect: the items are gone, the objective is complete.
Record(t) ==
    /\ tasks[t].pc = "record"
    /\ IF Exists(tasks[t].id)
       THEN /\ obj' = [obj EXCEPT ![tasks[t].o] =
                        [count |-> scene.need, done |-> TRUE, lease |-> "free"]]
            /\ Goes(t, [pc |-> "advance", id |-> tasks[t].id])
       ELSE Goes(t, Idle) /\ UNCHANGED obj
    /\ WorldKept /\ CacheKept /\ UNCHANGED <<scene, row, variables, queue, hist>>

Release(t) ==
    LET o == tasks[t].o
    IN /\ tasks[t].pc = "release"
       /\ obj' = IF Exists(tasks[t].id) /\ ~obj[o].done
                 THEN [obj EXCEPT ![o] = [count |-> 0, done |-> FALSE, lease |-> "free"]]
                 ELSE obj
       /\ Goes(t, Idle)
       /\ WorldKept /\ CacheKept /\ UNCHANGED <<scene, row, variables, queue, hist>>

\* Thirty seconds after a claim, whether its claimant is gone or only slow.
LeaseExpires ==
    /\ \E o \in scene.collect :
          /\ obj[o].lease = "held"
          /\ obj' = [obj EXCEPT ![o].lease = "over"]
    /\ WorldKept /\ CacheKept
    /\ UNCHANGED <<scene, row, variables, tasks, queue, hist>>

-----------------------------------------------------------------------------
\* The world: messages, the pack and its watch

\* drain_player_updates, one message at a time.
Drain ==
    /\ queue # <<>>
    /\ queue' = Tail(queue)
    /\ RowsKept /\ UNCHANGED <<scene, presence, hist>>
    /\ LET m == Head(queue)
           takes == presence = "here" /\ pack >= scene.need
       IN \/ /\ m.kind = "entered" /\ presence # "away"
             /\ Rechecks(pack)
             /\ CacheKept /\ UNCHANGED <<pack, watch>>
          \/ /\ m.kind = "accepted" /\ presence # "away"
             /\ Rechecks(pack)
             /\ ResetQuest /\ UNCHANGED <<pack, watch>>
          \/ /\ m.kind = "targets" /\ presence # "away"
             /\ watch' = [known |-> TRUE, targets |-> m.targets,
                          signature |-> IF m.targets THEN pack ELSE 0]
             /\ blind' = (~m.targets /\ Open \cap scene.collect # {})
             /\ CacheKept /\ UNCHANGED <<pack, tasks>>
          \/ /\ m.kind = "claimed" /\ takes
             /\ pack' = pack - scene.need
             /\ Starts([pc |-> "record", id |-> m.id, o |-> m.o])
             /\ CacheKept /\ UNCHANGED <<watch, blind>>
          \/ /\ m.kind = "claimed" /\ ~takes
             /\ Starts([pc |-> "release", id |-> m.id, o |-> m.o])
             /\ CacheKept /\ UNCHANGED <<pack, watch, blind>>
          \/ /\ m.kind # "claimed" /\ presence = "away"
             /\ CacheKept /\ UNCHANGED <<pack, watch, blind, tasks>>

\* Mutant: only a changed pack is looked at.
WatchTick_OnChange ==
    /\ Room(1) /\ presence # "away"
    /\ \/ ~watch.known /\ watch' = [Unwatched EXCEPT !.known = TRUE]
       \/ /\ watch.targets /\ pack # watch.signature
          /\ watch' = [watch EXCEPT !.signature = pack]
    /\ Rechecks(pack)
    /\ RowsKept /\ CacheKept /\ UNCHANGED <<scene, queue, presence, pack, hist>>

\* collect_watch_tick: a character seen for the first time, a watched pack that
\* changed, or one not looked at for a minute (nothing is under way by then).
WatchTick ==
    LET overdue == queue = <<>> /\ \A u \in Tasks : tasks[u].pc = "idle"
    IN /\ Room(1) /\ presence # "away"
       /\ \/ ~watch.known /\ watch' = [known |-> TRUE, targets |-> FALSE, signature |-> 0]
          \/ /\ watch.targets
             /\ pack # watch.signature \/ overdue
             /\ watch' = [watch EXCEPT !.signature = pack]
       /\ Rechecks(pack)
       /\ RowsKept /\ CacheKept /\ UNCHANGED <<scene, queue, presence, pack, hist>>

Moves == hist.moves < MaxMoves /\ hist' = [hist EXCEPT !.moves = @ + 1]

\* get, drop, give, loot...
PackChanges ==
    /\ Has("items") /\ presence # "away" /\ Moves
    /\ pack' \in 0..MaxPack \ {pack}
    /\ RowsKept /\ CacheKept
    /\ UNCHANGED <<scene, tasks, queue, presence, watch, blind>>

\* Links lost and found, exits and logins; the pack comes back with the character.
\* A link is lost at any time, before the first look at the pack too.
PresenceChanges ==
    /\ Has("relog") /\ Moves
    /\ \/ presence = "here" /\ presence' \in {"linkdead", "away"}
       \/ presence = "linkdead" /\ presence' \in {"here", "away"}
       \/ presence = "away" /\ presence' = "here"
    /\ IF presence' = "away" THEN watch' = Unwatched /\ blind' = FALSE
                             ELSE UNCHANGED <<watch, blind>>
    /\ RowsKept /\ CacheKept /\ UNCHANGED <<scene, tasks, queue, pack>>

-----------------------------------------------------------------------------
\* Acceptance: the gates are read, the row is written, the world is told

\* via is "qaccept" or "auto" (an auto-accepting trigger).  Nothing keeps two from
\* passing the gates together.
Gates ==
    /\ Has("accept") /\ presence = "here"
    /\ hist.accepted + Cardinality({t \in Tasks : tasks[t].pc = "insert"}) < MaxRuns
    /\ ~Held /\ ~(row.status = "completed" /\ ~scene.repeatable)
    /\ \/ Room(2) /\ Starts([pc |-> "insert", via |-> "qaccept"])
       \/ Room(1) /\ Starts([pc |-> "insert", via |-> "auto"])
    /\ RowsKept /\ WorldKept /\ CacheKept /\ UNCHANGED <<scene, queue, hist>>

\* A new row or the old one revived, whatever its status is by now; counts and
\* variables of the last run go.
Insert(t) ==
    /\ tasks[t].pc = "insert"
    /\ row' = [row EXCEPT !.status = "active", !.phase = 0]
    /\ obj' = Fresh
    /\ ClearRow
    /\ hist' = [hist EXCEPT !.accepted = @ + 1,
                            !.revived = @ + (IF row.status = "completed" THEN 1 ELSE 0)]
    /\ Goes(t, [pc |-> "notice", via |-> tasks[t].via])
    /\ WorldKept /\ UNCHANGED <<scene, queue, bag, dirty, flush>>

Notice(t) ==
    /\ tasks[t].pc = "notice"
    /\ \/ /\ tasks[t].via = "auto"
          /\ Sends([kind |-> "accepted"])
          /\ Goes(t, Idle)
       \/ /\ tasks[t].via = "qaccept"
          /\ Sends([kind |-> "entered"])
          /\ Goes(t, [pc |-> "finish"])
    /\ RowsKept /\ WorldKept /\ CacheKept /\ UNCHANGED <<scene, hist>>

\* finish_accept on the tick, unless the command's wait was cut off.
Finish(t) ==
    /\ tasks[t].pc = "finish"
    /\ RowsKept /\ WorldKept /\ UNCHANGED <<scene, queue, hist>>
    /\ \/ /\ presence = "here"
          /\ ResetQuest
          /\ Goes(t, [pc |-> "lookup", held |-> pack])
       \/ /\ presence # "here" \/ Has("timeout")
          /\ Goes(t, Idle)
          /\ CacheKept

-----------------------------------------------------------------------------
\* Single guarded statements: abandon, the expiry sweep, and the staff's

\* abandon and fail_expired_quests.
Ends ==
    /\ Held
    /\ \/ Has("abandon") /\ presence = "here" /\ row' = [row EXCEPT !.status = "abandoned"]
       \/ Has("limit") /\ row' = [row EXCEPT !.status = "failed"]
    /\ WorldKept /\ CacheKept /\ UNCHANGED <<scene, obj, variables, tasks, queue, hist>>

\* qcomplete: the flip and the rewards are one transaction, or the flip alone.
ForceComplete ==
    /\ Has("staff") /\ Held
    /\ row' = [row EXCEPT !.status = "completed"]
    /\ \E fate \in {"paid", "withheld"} :
          hist' = [hist EXCEPT !.completed = @ + 1, !.forced = TRUE, ![fate] = @ + 1]
    /\ WorldKept /\ CacheKept /\ UNCHANGED <<scene, obj, variables, tasks, queue>>

\* qreset deletes the row with all that hangs on it.
Reset ==
    /\ Has("staff") /\ row.status # "none"
    /\ row' = [id |-> row.id + 1, status |-> "none", phase |-> 0]
    /\ obj' = Fresh
    /\ variables' = None
    /\ ResetQuest
    /\ WorldKept /\ UNCHANGED <<scene, tasks, queue, hist>>

\* qload and qgive: a row where there was none.
Assign ==
    /\ Has("staff") /\ row.status = "none" /\ presence # "away"
    /\ Room(1) /\ hist.accepted < MaxRuns
    /\ row' = [row EXCEPT !.status = "active"]
    /\ hist' = [hist EXCEPT !.accepted = @ + 1]
    /\ Rechecks(pack)
    /\ CacheKept /\ UNCHANGED <<scene, obj, variables, queue, presence, pack, watch>>

-----------------------------------------------------------------------------
\* qreward: planned from what was read, granted under the row's lock

PlanClaim ==
    /\ Has("claim") /\ Room(1) /\ presence = "here" /\ row.status = "completed"
    /\ \E r \in Rewards \ ClaimedRewards :
          Starts([pc |-> "grant", id |-> row.id, reward |-> r])
    /\ RowsKept /\ WorldKept /\ CacheKept /\ UNCHANGED <<scene, queue, hist>>

ClaimReward(t) ==
    LET r == tasks[t].reward
    IN /\ tasks[t].pc = "grant"
       /\ Goes(t, Idle)
       /\ IF Exists(tasks[t].id) /\ r \notin ClaimedRewards
          THEN /\ variables' = Over(Single(Claimed, ClaimedRewards \cup {r}), variables)
               /\ hist' = [hist EXCEPT !.granted[r] = @ + 1]
          ELSE UNCHANGED <<variables, hist>>
       /\ WorldKept /\ CacheKept /\ UNCHANGED <<scene, row, obj, queue>>

-----------------------------------------------------------------------------
\* Scripts, failures, crashes

Scripts ==
    /\ Has("script") /\ Moves
    /\ SetVar \/ ClearVar
    /\ WorldKept /\ UNCHANGED <<scene, row, obj, tasks, queue>>

Flushes ==
    /\ FlushTick \/ \E f \in Flushers : FlushWrites(f, row.status # "none", {})
    /\ WorldKept /\ UNCHANGED <<scene, row, obj, tasks, queue, hist>>

Faults == hist.faults < MaxFaults

\* The lookup of a flush, or the statements of some of its keys, fail.
FlushFails ==
    /\ Faults /\ "flush" \in scene.failing
    /\ \E f \in Flushers : \E lost \in (SUBSET Keys(flush[f])) \ {{}} :
          FlushWrites(f, row.status # "none", lost)
    /\ hist' = [hist EXCEPT !.faults = @ + 1]
    /\ WorldKept /\ UNCHANGED <<scene, row, obj, tasks, queue>>

\* A statement fails: its task logs it and ends, or goes on to the next row.  A
\* payment whose rewards cannot be read pays nothing; a lookup that fails tells the
\* watch nothing.
StatementFails(t) ==
    /\ Faults /\ tasks[t].pc \in scene.failing
    /\ \/ /\ tasks[t].pc # "rows"
          /\ Goes(t, Idle)
       \/ /\ tasks[t].pc = "rows"
          /\ \E r \in tasks[t].todo : Goes(t, NextRow(tasks[t], tasks[t].todo \ {r}))
    /\ hist' = [hist EXCEPT !.faults = @ + 1,
                            !.lost = @ + (IF tasks[t].pc = "pay" THEN 1 ELSE 0)]
    /\ blind' = (blind \/ (tasks[t].pc = "lookup" /\ ~watch.targets))
    /\ RowsKept /\ CacheKept /\ UNCHANGED <<scene, queue, presence, pack, watch>>

\* A crash: tasks and messages are gone, the pack is what was saved last.
Crash ==
    /\ Has("crash") /\ Faults
    /\ tasks' = [t \in Tasks |-> Idle]
    /\ queue' = <<>>
    /\ presence' = "away"
    /\ watch' = Unwatched /\ blind' = FALSE
    /\ pack' \in IF Has("items") THEN 0..MaxPack ELSE {pack}
    /\ Hydrate
    /\ hist' = [hist EXCEPT !.faults = @ + 1,
                            !.lost = @ + Cardinality({t \in Tasks : tasks[t].pc = "pay"})]
    /\ UNCHANGED <<scene, row, obj>>

\* Players come back after a crash.
Returns ==
    /\ Has("crash") /\ presence = "away"
    /\ presence' = "here"
    /\ RowsKept /\ CacheKept /\ UNCHANGED <<scene, tasks, queue, pack, watch, blind, hist>>

-----------------------------------------------------------------------------
TaskStep(t) ==
    \/ Increment(t) \/ TryAdvance(t) \/ Enter(t) \/ Pay(t)
    \/ Lookup(t) \/ SendTargets(t) \/ CheckRow(t) \/ SendClaimed(t)
    \/ Record(t) \/ Release(t)
    \/ Insert(t) \/ Notice(t) \/ Finish(t) \/ ClaimReward(t)

Next ==
    \/ \E t \in Tasks : TaskStep(t) \/ StatementFails(t)
    \/ Drain \/ WatchTick \/ Bump \/ Gates \/ Assign \/ PlanClaim
    \/ LeaseExpires \/ PackChanges \/ PresenceChanges
    \/ Ends \/ ForceComplete \/ Reset
    \/ Scripts \/ Flushes \/ FlushFails \/ Crash \/ Returns

\* Some task runs, the tick drains the queue, watches packs and flushes, time passes.
Fairness ==
    /\ WF_vars(\E t \in Tasks : TaskStep(t))
    /\ WF_vars(Drain)
    /\ WF_vars(WatchTick)
    /\ WF_vars(LeaseExpires)
    /\ WF_vars(Flushes)

Spec == Init /\ [][Next]_vars /\ Fairness

-----------------------------------------------------------------------------
At(pc) == {t \in Tasks : tasks[t].pc = pc}

\* The types of the state.
TypeOK ==
    /\ VariablesTypeOK
    /\ row.status \in {"none", "active", "completed", "abandoned", "failed"}
    /\ row.phase \in 0..Len(scene.phases)
    /\ obj \in [Objectives -> [count : 0..scene.need, done : BOOLEAN,
                                lease : {"free", "held", "over"}]]
    /\ presence \in {"here", "linkdead", "away"} /\ pack \in 0..MaxPack
    /\ watch \in [known : BOOLEAN, targets : BOOLEAN, signature : 0..MaxPack]
    /\ blind \in BOOLEAN
    /\ Len(queue) <= QueueMax

\* A quest is completed at most once for each time it was taken, however bumps,
\* abandons, expiry and staff race with the advance (try_advance_phase: only one
\* caller gets QuestComplete), and each completion is paid exactly once.  A quest that
\* cannot be repeated is completed again only when an accept that had passed the gates
\* before found it completed (hist.revived; README, "Observed").
RewardOnce ==
    /\ hist.completed + (IF Held THEN 1 ELSE 0) <= hist.accepted
    /\ hist.paid + hist.withheld + hist.lost + Cardinality(At("pay")) = hist.completed
    /\ scene.repeatable \/ Has("staff") \/ hist.completed <= 1 + hist.revived

\* A phase is left only with all its objectives complete, and nothing undoes one of
\* them later in the same run: not a bump, a check of the pack or a released claim
\* that was read before (the completed = false of every statement).
PhasesEarned ==
    /\ TypeOK
    /\ \A p \in Phases :
        \/ p < row.phase
        \/ row.status = "completed" /\ ~hist.forced
        => PhaseDone(p)

\* A quest in progress whose phase is complete has a task that will advance it:
\* nobody else looks, and no objective is left to bump (advance_quest after every
\* completing write, the loop of try_advance_phase over phases already done).
NoneStranded ==
    (Held /\ PhaseDone(Current) /\ ~Has("crash") /\ "advance" \notin scene.failing)
        => \E t \in At("advance") : tasks[t].id = row.id

\* A reward of qreward is granted once for each completion: two claims that planned
\* with the same list, and the flush of script variables, which share the column.
GrantedOnce == \A r \in Rewards : hist.granted[r] <= hist.completed

\* A player does not stand for good with enough in the pack and the objective open:
\* lost claims lapse, missed changes of the pack are found by the overdue check.  Only
\* a watch that was never told its targets, or told by an old list that it has none,
\* is not looked at again (blind; README, "Observed").
CollectedCounts ==
    \A o \in Objectives :
        []<>(~(/\ presence = "here" /\ pack >= scene.need
               /\ o \in Open \cap scene.collect
               /\ ~blind))

\* Once scripts are quiet the row has what they stored, tombstones included, unless the
\* write was lost: no row to write to, a failed statement, tasks that overtake each
\* other, a reset while one is out (stale; README, "Observed").
VariablesSettle == <>[](Stage \in stale \/ Seen(bag, Stage) = Seen(variables, Stage))
=============================================================================
