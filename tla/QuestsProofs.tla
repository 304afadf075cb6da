---------------------------- MODULE QuestsProofs ----------------------------
(***************************************************************************)
(* A quest is paid once, its phases are earned, it goes on when it can and *)
(* its rewards are claimed once, for any quest, any number of tasks, and   *)
(* failures.                                                               *)
(***************************************************************************)
EXTENDS Quests, FiniteSetTheorems, TLAPS

Statuses == {"none", "active", "completed", "abandoned", "failed"}

RowsOf(n) == [id : Nat, status : Statuses, phase : 0..n]
Histories == [accepted : Nat, completed : Nat, paid : Nat, withheld : Nat, lost : Nat,
              revived : Nat, forced : BOOLEAN, moves : Nat, faults : Nat, granted : [Rewards -> Nat]]

\* What the books are kept in; tasks are a function, whatever they carry.
Shape ==
    /\ scene \in Scenes
    /\ tasks = [t \in Tasks |-> tasks[t]]
    /\ row \in RowsOf(Len(scene.phases))
    /\ hist \in Histories

\* A quest that cannot be repeated is completed again only after an accept has
\* revived its completed row.
Unrepeated == ~scene.repeatable /\ ~Has("staff")
Settled ==
    Unrepeated =>
        hist.completed <= hist.revived + (IF row.status = "completed" THEN 1 ELSE 0)

BookInv == Shape /\ RewardOnce /\ Settled

-----------------------------------------------------------------------------
(* What a step does to the books.                                          *)

Books == <<hist.accepted, hist.completed, hist.paid, hist.withheld, hist.lost, hist.revived>>
Calm == UNCHANGED <<scene, row.status, Books>>

\* No money moves, no row is written.
Quiet == Calm /\ At("pay")' = At("pay")
\* The advance finds the last phase complete.
Completes(t) ==
    /\ UNCHANGED scene /\ Held /\ row'.status = "completed"
    /\ t \notin At("pay") /\ At("pay")' = At("pay") \cup {t}
    /\ hist'.completed = hist.completed + 1
    /\ UNCHANGED <<hist.accepted, hist.paid, hist.withheld, hist.lost, hist.revived>>
\* A payment is made, or given up.
Settles(t) ==
    /\ UNCHANGED <<scene, row.status, hist.accepted, hist.completed, hist.withheld, hist.revived>>
    /\ t \in At("pay") /\ At("pay")' = At("pay") \ {t}
    /\ \/ hist'.paid = hist.paid + 1 /\ UNCHANGED hist.lost
       \/ hist'.lost = hist.lost + 1 /\ UNCHANGED hist.paid
\* The row of an accepted quest is written, by the player's accept or by staff.
Takes ==
    /\ UNCHANGED <<scene, hist.completed, hist.paid, hist.withheld, hist.lost>>
    /\ row'.status = "active" /\ hist'.accepted = hist.accepted + 1
    /\ hist'.revived = hist.revived + (IF row.status = "completed" THEN 1 ELSE 0)
    /\ At("pay")' = At("pay")
\* The quest is dropped, or its row deleted by staff.
Drops ==
    /\ UNCHANGED <<scene, Books>>
    /\ At("pay")' = At("pay")
    /\ \/ Held /\ row'.status \in {"abandoned", "failed"}
       \/ Has("staff") /\ row'.status = "none"
\* Staff complete and pay in one transaction.
Forces ==
    /\ UNCHANGED <<scene, hist.accepted, hist.lost, hist.revived>> /\ Has("staff") /\ Held
    /\ row'.status = "completed" /\ hist'.completed = hist.completed + 1
    /\ \/ hist'.paid = hist.paid + 1 /\ UNCHANGED hist.withheld
       \/ hist'.withheld = hist.withheld + 1 /\ UNCHANGED hist.paid
    /\ At("pay")' = At("pay")
\* The tasks are gone, with the payments they were about to make.
Dies ==
    /\ UNCHANGED <<scene, row.status, hist.accepted, hist.completed, hist.paid, hist.withheld,
                   hist.revived>>
    /\ At("pay")' = {}
    /\ hist'.lost = hist.lost + Cardinality(At("pay"))

BookStep ==
    \/ Quiet \/ Takes \/ Drops \/ Forces \/ Dies
    \/ \E t \in Tasks : Completes(t) \/ Settles(t)

LEMMA PaysFinite == IsFiniteSet(At("pay")) /\ Cardinality(At("pay")) \in Nat
<1>1. At("pay") \subseteq Tasks
  BY DEF At
<1> QED
  BY <1>1, QuestsAssumption, FS_Subset, FS_CardinalityType

\* A task that goes on moves nobody else.
LEMMA Moving ==
    ASSUME Shape, NEW t \in Tasks, NEW task, Goes(t, task)
    PROVE  /\ tasks' = [u \in Tasks |-> tasks'[u]]
           /\ At("pay")' = IF task.pc = "pay" THEN At("pay") \cup {t} ELSE At("pay") \ {t}
<1>1. tasks'[t] = task /\ \A u \in Tasks \ {t} : tasks'[u] = tasks[u]
  BY DEF Shape, RowsOf, Histories, Goes
<1>2. tasks' = [u \in Tasks |-> tasks'[u]]
  BY DEF Shape, RowsOf, Histories, Goes
<1> QED
  BY <1>1, <1>2 DEF At

\* A step of one task that is not about the books.
LEMMA Minding ==
    ASSUME Shape, NEW t \in Tasks, NEW task, Goes(t, task), Calm,
           tasks[t].pc # "pay", task.pc # "pay"
    PROVE  Quiet
<1>1. t \notin At("pay")
  BY DEF At
<1> QED
  BY <1>1, Moving DEF Quiet

\* The tasks the world starts are not about the books either.
LEMMA Starting ==
    ASSUME Shape, NEW task, Starts(task), Calm, task.pc # "pay"
    PROVE  Quiet
<1>1. Slot \in Tasks /\ tasks[Slot].pc = "idle"
  BY DEF Starts, Slot
<1>2. Goes(Slot, task)
  BY DEF Starts
<1> QED
  BY <1>1, <1>2, Minding

LEMMA Resting == ASSUME Shape, UNCHANGED tasks, Calm PROVE Quiet
BY DEF Quiet, At

\* What statements and messages that keep the books have in common.
LEMMA Keeping ==
    /\ UNCHANGED <<scene, row, hist>> => Calm
    /\ Shape /\ Moves /\ UNCHANGED <<scene, row>> => Calm
    /\ Shape /\ FlushFails => Calm
BY DEF Calm, Books, Moves, FlushFails, Shape, RowsOf, Histories

LEMMA Rechecking ==
    ASSUME Shape, NEW n, Rechecks(n), Calm
    PROVE  Quiet
<1>1. CASE presence = "here"
  BY <1>1, Starting DEF Rechecks
<1>2. CASE presence # "here"
  BY <1>2, Resting DEF Rechecks
<1> QED
  BY <1>1, <1>2

\* The statements of the objectives, and the messages about them.
LEMMA ObjectiveBooks ==
    ASSUME Shape, NEW t \in Tasks,
           \/ Increment(t) \/ Enter(t) \/ Lookup(t) \/ SendTargets(t) \/ CheckRow(t)
           \/ SendClaimed(t) \/ Record(t) \/ Release(t)
    PROVE  Quiet
<1>1. Calm
  BY Keeping DEF Increment, Enter, Lookup, SendTargets, CheckRow, SendClaimed, Record, Release,
                 RowsKept
<1>2. CASE Increment(t)
  BY <1>1, <1>2, Minding DEF Increment, Idle
<1>3. CASE Enter(t)
  BY <1>1, <1>3, Minding DEF Enter, Idle
<1>4. CASE Lookup(t)
  BY <1>1, <1>4, Minding DEF Lookup
<1>5. CASE SendTargets(t)
  BY <1>1, <1>5, Minding DEF SendTargets, NextRow, Idle
<1>6. CASE CheckRow(t)
  <2>1. PICK task : Goes(t, task) /\ task.pc \in {"idle", "rows", "claimed"}
    BY <1>6 DEF CheckRow, NextRow, Idle
  <2> QED
    BY <1>1, <1>6, <2>1, Minding DEF CheckRow
<1>7. CASE SendClaimed(t)
  BY <1>1, <1>7, Minding DEF SendClaimed, NextRow, Idle
<1>8. CASE Record(t)
  BY <1>1, <1>8, Minding DEF Record, Idle
<1>9. CASE Release(t)
  BY <1>1, <1>9, Minding DEF Release, Idle
<1> QED
  BY <1>2, <1>3, <1>4, <1>5, <1>6, <1>7, <1>8, <1>9

\* Accepting: the gates, the row, the notice, the end on the tick.
LEMMA AcceptBooks ==
    ASSUME Shape, NEW t \in Tasks, Insert(t) \/ Notice(t) \/ Finish(t)
    PROVE  Quiet \/ Takes
<1>1. CASE Insert(t)
  <2>1. /\ UNCHANGED <<scene, hist.completed, hist.paid, hist.withheld, hist.lost>>
        /\ row'.status = "active" /\ hist'.accepted = hist.accepted + 1
        /\ hist'.revived = hist.revived + (IF row.status = "completed" THEN 1 ELSE 0)
    BY <1>1 DEF Insert, Shape, RowsOf, Histories
  <2>2. t \notin At("pay")
    BY <1>1 DEF Insert, At
  <2>3. PICK task : Goes(t, task) /\ task.pc = "notice"
    BY <1>1 DEF Insert
  <2> QED
    BY <2>1, <2>2, <2>3, Moving DEF Takes
<1>2. CASE Notice(t)
  <2>1. Calm
    BY <1>2, Keeping DEF Notice, RowsKept
  <2> QED
    BY <1>2, <2>1, Minding DEF Notice, Idle
<1>3. CASE Finish(t)
  <2>1. Calm
    BY <1>3, Keeping DEF Finish, RowsKept
  <2> QED
    BY <1>3, <2>1, Minding DEF Finish, Idle
<1> QED
  BY <1>1, <1>2, <1>3

\* The advance, and the payment it leads to.
LEMMA AdvanceBooks ==
    ASSUME Shape, NEW t \in Tasks, TryAdvance(t)
    PROVE  Quiet \/ Completes(t)
<1>1. tasks[t].pc = "advance" /\ t \notin At("pay") /\ UNCHANGED scene
  BY DEF TryAdvance, At
<1>2. CASE row'.status = "completed" /\ Held /\ Goes(t, [pc |-> "pay"])
            /\ hist' = [hist EXCEPT !.completed = @ + 1, !.forced = FALSE]
  <2>1. hist'.completed = hist.completed + 1
        /\ UNCHANGED <<hist.accepted, hist.paid, hist.withheld, hist.lost, hist.revived>>
    BY <1>2 DEF Shape, RowsOf, Histories
  <2> QED
    BY <1>1, <1>2, <2>1, Moving DEF Completes
<1>3. ASSUME UNCHANGED <<row.status, hist>>,
             NEW task, Goes(t, task), task.pc \in {"idle", "enter"}
      PROVE  Quiet
  BY <1>1, <1>3, Minding DEF Calm, Books
<1>4. Idle.pc = "idle" /\ [pc |-> "enter"].pc = "enter"
  BY DEF Idle
<1>5. ASSUME NEW next, row' = [row EXCEPT !.phase = next], UNCHANGED hist,
             Goes(t, IF next > Current THEN [pc |-> "enter"] ELSE Idle)
      PROVE  Quiet
  <2>1. UNCHANGED <<row.status, hist>>
    BY <1>5 DEF Shape, RowsOf, Histories
  <2> QED
    BY <1>3, <1>4, <1>5, <2>1
<1>6. CASE UNCHANGED <<row, hist>> /\ Goes(t, Idle)
  BY <1>3, <1>4, <1>6
<1>7. CASE /\ Held /\ row' = [row EXCEPT !.phase = Len(scene.phases), !.status = "completed"]
           /\ Goes(t, [pc |-> "pay"])
           /\ hist' = [hist EXCEPT !.completed = @ + 1, !.forced = FALSE]
  BY <1>2, <1>7 DEF Shape, RowsOf, Histories
<1> QED
  BY <1>5, <1>6, <1>7 DEF TryAdvance

LEMMA PayBooks ==
    ASSUME Shape, NEW t \in Tasks, Pay(t)
    PROVE  Settles(t)
<1>1. t \in At("pay") /\ Goes(t, Idle) /\ Idle.pc = "idle"
  BY DEF Pay, At, Idle
<1>2. /\ hist'.paid = hist.paid + 1
      /\ UNCHANGED <<scene, row, hist.lost, hist.accepted, hist.completed, hist.withheld,
                     hist.revived>>
  BY DEF Pay, Shape, RowsOf, Histories, RowsKept
<1> QED
  BY <1>1, <1>2, Moving DEF Settles

LEMMA FailureBooks ==
    ASSUME Shape, NEW t \in Tasks, StatementFails(t)
    PROVE  Quiet \/ Settles(t)
<1>1. UNCHANGED <<scene, row, hist.accepted, hist.completed, hist.withheld, hist.paid,
                  hist.revived>>
      /\ hist'.lost = hist.lost + (IF tasks[t].pc = "pay" THEN 1 ELSE 0)
  BY DEF StatementFails, Shape, RowsOf, Histories, RowsKept
<1>2. PICK task : Goes(t, task) /\ task.pc \in {"idle", "rows"}
  <2>1. Idle.pc = "idle" /\ \A todo : NextRow(tasks[t], todo).pc \in {"idle", "rows"}
    BY DEF Idle, NextRow
  <2> QED
    BY <2>1 DEF StatementFails
<1>3. CASE tasks[t].pc = "pay"
  <2>1. t \in At("pay")
    BY <1>3 DEF At
  <2> QED
    BY <1>1, <1>2, <1>3, <2>1, Moving DEF Settles
<1>4. CASE tasks[t].pc # "pay"
  <2>1. Calm
    BY <1>1, <1>4 DEF Calm, Books, Shape, RowsOf, Histories
  <2> QED
    BY <1>2, <1>4, <2>1, Minding
<1> QED
  BY <1>3, <1>4

LEMMA ClaimBooks ==
    ASSUME Shape, NEW t \in Tasks, ClaimReward(t)
    PROVE  Quiet
<1>1. Calm
  BY DEF ClaimReward, Calm, Books, Shape, RowsOf, Histories
<1> QED
  BY <1>1, Minding DEF ClaimReward, Idle

\* The world, scripts, the passing of time.
LEMMA WorldBooks ==
    ASSUME Shape,
           \/ Drain \/ WatchTick \/ Bump \/ PlanClaim \/ LeaseExpires \/ PackChanges
           \/ PresenceChanges \/ Scripts \/ Flushes \/ FlushFails \/ Returns
    PROVE  Quiet
<1>1. Calm
  BY Keeping DEF Drain, WatchTick, Bump, PlanClaim, LeaseExpires, PackChanges,
                 PresenceChanges, Scripts, Flushes, FlushFails, Returns, RowsKept
<1>2. CASE Drain
  BY <1>1, <1>2, Rechecking, Starting, Resting DEF Drain
<1>3. CASE WatchTick
  BY <1>1, <1>3, Rechecking DEF WatchTick
<1>4. CASE Bump
  BY <1>1, <1>4, Starting DEF Bump
<1>5. CASE PlanClaim
  BY <1>1, <1>5, Starting DEF PlanClaim
<1>6. CASE \/ LeaseExpires \/ PackChanges \/ PresenceChanges \/ Scripts \/ Flushes
          \/ FlushFails \/ Returns
  <2>1. UNCHANGED tasks
    BY <1>6 DEF LeaseExpires, PackChanges, PresenceChanges, Scripts, Flushes, FlushFails, Returns
  <2> QED
    BY <1>1, <2>1, Resting
<1> QED
  BY <1>2, <1>3, <1>4, <1>5, <1>6

\* Single statements of players, the sweep and the staff; and the crash.
LEMMA StatementBooks ==
    ASSUME Shape, Gates \/ Assign \/ Ends \/ ForceComplete \/ Reset \/ Crash
    PROVE  BookStep
<1>1. CASE Gates
  BY <1>1, Keeping, Starting DEF Gates, RowsKept, BookStep
<1>2. CASE Assign
  <2>1. /\ UNCHANGED <<scene, hist.completed, hist.paid, hist.withheld, hist.lost>>
        /\ row'.status = "active" /\ hist'.accepted = hist.accepted + 1
        /\ hist'.revived = hist.revived /\ row.status = "none"
    BY <1>2 DEF Assign, Shape, RowsOf, Histories
  <2>2. At("pay")' = At("pay")
    <3>1. CASE UNCHANGED tasks
      BY <3>1 DEF At
    <3>2. CASE Starts([pc |-> "lookup", held |-> pack])
      <4>1. Slot \in Tasks /\ Slot \notin At("pay") /\ Goes(Slot, [pc |-> "lookup", held |-> pack])
        BY <3>2 DEF Starts, Slot, At
      <4> QED
        BY <4>1, Moving
    <3> QED
      BY <1>2, <3>1, <3>2 DEF Assign, Rechecks
  <2>3. hist.revived + 0 = hist.revived
    BY DEF Shape, Histories
  <2> QED
    BY <2>1, <2>2, <2>3 DEF Takes, BookStep
<1>3. CASE Ends
  BY <1>3 DEF Ends, Drops, BookStep, Books, Shape, RowsOf, Histories, At
<1>4. CASE ForceComplete
  BY <1>4 DEF ForceComplete, Forces, BookStep, Shape, RowsOf, Histories, At
<1>5. CASE Reset
  BY <1>5 DEF Reset, Drops, BookStep, Books, Shape, RowsOf, Histories, At
<1>6. CASE Crash
  <2>1. /\ UNCHANGED <<scene, row.status, hist.accepted, hist.completed, hist.paid, hist.withheld,
                       hist.revived>>
        /\ hist'.lost = hist.lost + Cardinality(At("pay"))
    BY <1>6 DEF Crash, Shape, RowsOf, Histories, At
  <2>2. At("pay")' = {}
    BY <1>6 DEF Crash, Idle, At
  <2> QED
    BY <2>1, <2>2 DEF Dies, BookStep
<1> QED
  BY <1>1, <1>2, <1>3, <1>4, <1>5, <1>6

LEMMA EveryBookStep == ASSUME Shape, [Next]_vars PROVE BookStep
<1>1. CASE UNCHANGED vars
  BY <1>1, Keeping, Resting DEF vars, qvars, BookStep
<1>2. ASSUME NEW t \in Tasks, TaskStep(t) \/ StatementFails(t) PROVE BookStep
  BY <1>2, ObjectiveBooks, AcceptBooks, AdvanceBooks, PayBooks, FailureBooks, ClaimBooks
     DEF TaskStep, BookStep
<1>3. CASE \/ Drain \/ WatchTick \/ Bump \/ PlanClaim \/ LeaseExpires \/ PackChanges
          \/ PresenceChanges \/ Scripts \/ Flushes \/ FlushFails \/ Returns
  BY <1>3, WorldBooks DEF BookStep
<1>4. CASE Gates \/ Assign \/ Ends \/ ForceComplete \/ Reset \/ Crash
  BY <1>4, StatementBooks
<1> QED
  BY <1>1, <1>2, <1>3, <1>4 DEF Next

-----------------------------------------------------------------------------
(* The shape of the state.                                                 *)

LEMMA ScenePhases ==
    ASSUME scene \in Scenes
    PROVE  /\ Len(scene.phases) \in Nat \ {0} /\ Phases = 1..Len(scene.phases)
           /\ \A p \in Phases : scene.phases[p] \subseteq Objectives /\ scene.phases[p] # {}
           /\ scene.need \in Nat \ {0} /\ scene.collect \subseteq Objectives
           /\ scene.pack \in 0..MaxPack /\ scene.status \in {"none", "active", "completed"}
BY QuestsAssumption DEF Phases

LEMMA RowMoves ==
    ASSUME NEW n \in Nat, NEW r \in RowsOf(n), NEW s \in Statuses, NEW p \in 0..n
    PROVE  /\ [r EXCEPT !.status = s] \in RowsOf(n)
           /\ [r EXCEPT !.phase = p] \in RowsOf(n)
           /\ [r EXCEPT !.status = s, !.phase = p] \in RowsOf(n)
           /\ [r EXCEPT !.phase = p, !.status = s] \in RowsOf(n)
           /\ [id |-> r.id + 1, status |-> s, phase |-> p] \in RowsOf(n)
<1>1. [r EXCEPT !.status = s] \in RowsOf(n) /\ [r EXCEPT !.phase = p] \in RowsOf(n)
  BY DEF RowsOf
<1>2. [r EXCEPT !.status = s, !.phase = p] \in RowsOf(n)
  BY DEF RowsOf
<1>3. [r EXCEPT !.phase = p, !.status = s] \in RowsOf(n)
  BY DEF RowsOf
<1>4. [id |-> r.id + 1, status |-> s, phase |-> p] \in RowsOf(n)
  BY DEF RowsOf
<1> QED
  BY <1>1, <1>2, <1>3, <1>4

\* A task may become anything; the rest is as it was.
LEMMA GoesShape ==
    ASSUME Shape, NEW t \in Tasks, NEW task, Goes(t, task) PROVE tasks' = [u \in Tasks |-> tasks'[u]]
BY Moving

LEMMA StartsShape ==
    ASSUME Shape, NEW task, Starts(task) PROVE tasks' = [u \in Tasks |-> tasks'[u]]
<1>1. Slot \in Tasks /\ Goes(Slot, task)
  BY DEF Starts, Slot
<1> QED
  BY <1>1, Moving

LEMMA TasksShape == ASSUME Shape, [Next]_vars PROVE tasks' = [u \in Tasks |-> tasks'[u]]
<1>1. CASE UNCHANGED tasks
  BY <1>1 DEF Shape
<1>2. ASSUME NEW t \in Tasks, TaskStep(t) \/ StatementFails(t)
      PROVE  tasks' = [u \in Tasks |-> tasks'[u]]
  <2>1. CASE Increment(t) \/ Enter(t) \/ Pay(t) \/ Lookup(t) \/ SendTargets(t)
    BY <2>1, GoesShape DEF Increment, Enter, Pay, Lookup, SendTargets
  <2>2. CASE CheckRow(t) \/ TryAdvance(t)
    BY <2>2, GoesShape DEF CheckRow, TryAdvance
  <2>3. CASE SendClaimed(t) \/ Record(t) \/ Release(t) \/ Insert(t) \/ Notice(t)
             \/ Finish(t) \/ ClaimReward(t)
    BY <2>3, GoesShape DEF SendClaimed, Record, Release, Insert, Notice, Finish, ClaimReward
  <2>4. CASE StatementFails(t)
    BY <2>4, GoesShape DEF StatementFails
  <2> QED
    BY <1>2, <2>1, <2>2, <2>3, <2>4 DEF TaskStep
<1>3. CASE Drain \/ WatchTick \/ Bump \/ Gates \/ Assign \/ PlanClaim
  BY <1>1, <1>3, StartsShape DEF Drain, WatchTick, Bump, Gates, Assign, PlanClaim, Rechecks
<1>4. CASE Crash
  BY <1>4 DEF Crash
<1>5. CASE \/ LeaseExpires \/ PackChanges \/ PresenceChanges \/ Ends \/ ForceComplete \/ Reset
          \/ Scripts \/ Flushes \/ FlushFails \/ Returns \/ UNCHANGED vars
  BY <1>1, <1>5 DEF LeaseExpires, PackChanges, PresenceChanges, Ends, ForceComplete, Reset,
                    Scripts, Flushes, FlushFails, Returns, vars, qvars
<1> QED
  BY <1>2, <1>3, <1>4, <1>5 DEF Next

LEMMA RowShape == ASSUME Shape, [Next]_vars PROVE row' \in RowsOf(Len(scene'.phases)) /\ scene' = scene
<1> DEFINE n == Len(scene.phases)
<1>0. row \in RowsOf(n) /\ n \in Nat /\ Phases = 1..n /\ 0 \in 0..n /\ n \in 0..n
  BY ScenePhases DEF Shape
<1> SUFFICES row' \in RowsOf(n) /\ scene' = scene
  OBVIOUS
<1> HIDE DEF n
<1>1. Statuses = {"none", "active", "completed", "abandoned", "failed"}
  BY DEF Statuses
<1>2. ASSUME NEW t \in Tasks, TryAdvance(t) PROVE row' \in RowsOf(n) /\ scene' = scene
  <2>1. Phases \subseteq 0..n
    BY <1>0
  <2>2. ASSUME NEW next \in Phases, row' = [row EXCEPT !.phase = next]
        PROVE  row' \in RowsOf(n)
    BY <1>0, <1>1, <2>1, <2>2, RowMoves
  <2>3. ASSUME row' = [row EXCEPT !.phase = n, !.status = "completed"]
        PROVE  row' \in RowsOf(n)
    BY <1>0, <1>1, <2>3, RowMoves
  <2> QED
    BY <1>0, <1>2, <2>2, <2>3 DEF TryAdvance, n
<1>3. ASSUME NEW t \in Tasks, Insert(t) PROVE row' \in RowsOf(n) /\ scene' = scene
  BY <1>0, <1>1, <1>3, RowMoves DEF Insert
<1>4. CASE Assign \/ Ends \/ ForceComplete \/ Reset
  <2>1. ASSUME NEW st \in Statuses, row' = [row EXCEPT !.status = st]
        PROVE  row' \in RowsOf(n)
    BY <1>0, <2>1, RowMoves
  <2>2. ASSUME row' = [id |-> row.id + 1, status |-> "none", phase |-> 0]
        PROVE  row' \in RowsOf(n)
    BY <1>0, <1>1, <2>2, RowMoves
  <2>3. CASE Assign \/ Ends \/ ForceComplete
    BY <1>1, <2>1, <2>3 DEF Assign, Ends, ForceComplete
  <2>4. CASE Reset
    BY <2>2, <2>4 DEF Reset
  <2> QED
    BY <1>4, <2>3, <2>4
<1>5. ASSUME NEW t \in Tasks, TaskStep(t), ~TryAdvance(t), ~Insert(t) PROVE UNCHANGED <<scene, row>>
  BY <1>5 DEF TaskStep, Increment, Enter, Pay, Lookup, SendTargets, CheckRow, SendClaimed,
              Record, Release, Notice, Finish, ClaimReward, RowsKept
<1>6. ASSUME NEW t \in Tasks, StatementFails(t) PROVE UNCHANGED <<scene, row>>
  BY <1>6 DEF StatementFails, RowsKept
<1>7. CASE \/ Drain \/ WatchTick \/ Bump \/ Gates \/ PlanClaim \/ LeaseExpires \/ PackChanges
          \/ PresenceChanges \/ Scripts \/ Flushes \/ FlushFails \/ Crash \/ Returns \/ UNCHANGED vars
  BY <1>0, <1>7 DEF Drain, WatchTick, Bump, Gates, PlanClaim, LeaseExpires, PackChanges,
      PresenceChanges, Scripts, Flushes, FlushFails, Crash, Returns, vars, qvars, RowsKept
<1>8. row' \in RowsOf(n) /\ scene' = scene
  BY <1>0, <1>2, <1>3, <1>4, <1>5, <1>6, <1>7 DEF Next, Assign, Ends, ForceComplete, Reset
<1> QED
  BY <1>8 DEF n

\* The history is only counted in.
LEMMA Counting ==
    ASSUME NEW h \in Histories, NEW n \in Nat, NEW m \in Nat, NEW f \in BOOLEAN
    PROVE  /\ [h EXCEPT !.moves = n] \in Histories
           /\ [h EXCEPT !.faults = n, !.lost = m] \in Histories
           /\ [h EXCEPT !.paid = n] \in Histories
           /\ [h EXCEPT !.faults = n] \in Histories
           /\ [h EXCEPT !.accepted = n] \in Histories
           /\ [h EXCEPT !.accepted = n, !.revived = m] \in Histories
           /\ [h EXCEPT !.completed = n, !.forced = f] \in Histories
           /\ [h EXCEPT !.completed = n, !.forced = f, !.paid = m] \in Histories
           /\ [h EXCEPT !.completed = n, !.forced = f, !.withheld = m] \in Histories
           /\ \A r : [h EXCEPT !.granted[r] = @ + 1] \in Histories
<1>1. [h EXCEPT !.moves = n] \in Histories
  BY DEF Histories
<1>2. [h EXCEPT !.faults = n, !.lost = m] \in Histories
  BY DEF Histories
<1>3. [h EXCEPT !.paid = n] \in Histories
  BY DEF Histories
<1>4. [h EXCEPT !.accepted = n] \in Histories
  BY DEF Histories
<1>5. [h EXCEPT !.completed = n, !.forced = f] \in Histories
  BY DEF Histories
<1>6. [h EXCEPT !.completed = n, !.forced = f, !.paid = m] \in Histories
  BY DEF Histories
<1>7. [h EXCEPT !.completed = n, !.forced = f, !.withheld = m] \in Histories
  BY DEF Histories
<1>8. ASSUME NEW r PROVE [h EXCEPT !.granted[r] = @ + 1] \in Histories
  BY DEF Histories
<1>9. [h EXCEPT !.faults = n] \in Histories
  BY DEF Histories
<1>10. [h EXCEPT !.accepted = n, !.revived = m] \in Histories
  BY DEF Histories
<1> QED
  BY <1>1, <1>2, <1>3, <1>4, <1>5, <1>6, <1>7, <1>8, <1>9, <1>10

LEMMA HistShape == ASSUME Shape, [Next]_vars PROVE hist' \in Histories
<1>0. hist \in Histories
  BY DEF Shape
<1>c. /\ hist.moves + 1 \in Nat /\ hist.faults + 1 \in Nat /\ hist.paid + 1 \in Nat
      /\ hist.accepted + 1 \in Nat /\ hist.completed + 1 \in Nat
      /\ hist.withheld + 1 \in Nat /\ hist.revived + 0 \in Nat /\ hist.revived + 1 \in Nat
      /\ \A n \in Nat : hist.lost + n \in Nat
  BY <1>0 DEF Histories
<1>1. ASSUME NEW t \in Tasks, Pay(t) \/ TryAdvance(t) \/ Insert(t) \/ ClaimReward(t)
      PROVE  hist' \in Histories
  <2>1. CASE Pay(t)
    BY <1>0, <1>c, <2>1, Counting DEF Pay
  <2>2. CASE TryAdvance(t)
    <3>1. CASE hist' = [hist EXCEPT !.completed = hist.completed + 1, !.forced = FALSE]
      BY <1>0, <1>c, <3>1, Counting
    <3> QED
      BY <1>0, <2>2, <3>1 DEF TryAdvance
  <2>3. CASE Insert(t)
    <3>1. hist.revived + (IF row.status = "completed" THEN 1 ELSE 0) \in Nat
      BY <1>c
    <3> QED
      BY <1>0, <1>c, <2>3, <3>1, Counting DEF Insert
  <2>4. CASE ClaimReward(t)
    <3>1. ASSUME NEW r, hist' = [hist EXCEPT !.granted[r] = @ + 1] PROVE hist' \in Histories
      BY <1>0, <1>c, <3>1, Counting
    <3> QED
      BY <1>0, <2>4, <3>1 DEF ClaimReward
  <2> QED
    BY <1>1, <2>1, <2>2, <2>3, <2>4
<1>2. ASSUME NEW t \in Tasks, StatementFails(t) PROVE hist' \in Histories
  <2>1. (IF tasks[t].pc = "pay" THEN 1 ELSE 0) \in Nat
    OBVIOUS
  <2> QED
    BY <1>0, <1>c, <1>2, <2>1, Counting DEF StatementFails
<1>3. CASE PackChanges \/ PresenceChanges \/ Scripts \/ Assign \/ ForceComplete
  <2>1. CASE PackChanges \/ PresenceChanges \/ Scripts
    BY <1>0, <1>c, <2>1, Counting DEF PackChanges, PresenceChanges, Scripts, Moves
  <2>2. CASE Assign
    BY <1>0, <1>c, <2>2, Counting DEF Assign
  <2>3. CASE ForceComplete
    <3>1. PICK fate \in {"paid", "withheld"} :
              hist' = [hist EXCEPT !.completed = @ + 1, !.forced = TRUE, ![fate] = @ + 1]
      BY <2>3 DEF ForceComplete
    <3>2. CASE fate = "paid"
      <4>1. hist' = [hist EXCEPT !.completed = hist.completed + 1, !.forced = TRUE,
                                 !.paid = hist.paid + 1]
        BY <3>1, <3>2
      <4> QED
        BY <1>0, <1>c, <4>1, Counting
    <3>3. CASE fate = "withheld"
      <4>1. hist' = [hist EXCEPT !.completed = hist.completed + 1, !.forced = TRUE,
                                 !.withheld = hist.withheld + 1]
        BY <3>1, <3>3
      <4> QED
        BY <1>0, <1>c, <4>1, Counting
    <3> QED
      BY <3>2, <3>3
  <2> QED
    BY <1>3, <2>1, <2>2, <2>3
<1>4. CASE Crash \/ FlushFails
  <2>1. CASE Crash
    BY <1>0, <1>c, <2>1, Counting, PaysFinite DEF Crash, At
  <2>2. CASE FlushFails
    BY <1>0, <1>c, <2>2, Counting DEF FlushFails
  <2> QED
    BY <1>4, <2>1, <2>2
<1>5. ASSUME NEW t \in Tasks, TaskStep(t), ~(Pay(t) \/ TryAdvance(t) \/ Insert(t) \/ ClaimReward(t))
      PROVE  UNCHANGED hist
  BY <1>5 DEF TaskStep, Increment, Enter, Lookup, SendTargets, CheckRow, SendClaimed, Record,
              Release, Notice, Finish
<1>6. CASE \/ Drain \/ WatchTick \/ Bump \/ Gates \/ PlanClaim \/ LeaseExpires \/ Ends \/ Reset
          \/ Flushes \/ Returns \/ UNCHANGED vars
  BY <1>0, <1>6 DEF Drain, WatchTick, Bump, Gates, PlanClaim, LeaseExpires, Ends, Reset,
      Flushes, Returns, vars, qvars
<1> QED
  BY <1>0, <1>1, <1>2, <1>3, <1>4, <1>5, <1>6 DEF Next

LEMMA ShapeKept == ASSUME Shape, [Next]_vars PROVE Shape'
BY TasksShape, RowShape, HistShape DEF Shape

-----------------------------------------------------------------------------
(* Paid once.                                                              *)

LEMMA BooksBalance == ASSUME BookInv, BookStep, Shape' PROVE RewardOnce'
<1> USE DEF Held, Has
<1>0. /\ hist.completed + (IF Held THEN 1 ELSE 0) <= hist.accepted
      /\ hist.paid + hist.withheld + hist.lost + Cardinality(At("pay")) = hist.completed
      /\ scene.repeatable \/ Has("staff") \/ hist.completed <= 1 + hist.revived
      /\ hist.revived \in Nat
      /\ hist.accepted \in Nat /\ hist.completed \in Nat /\ hist.paid \in Nat
      /\ hist.withheld \in Nat /\ hist.lost \in Nat
  BY DEF BookInv, RewardOnce, Shape, Histories
<1>1. CASE Quiet
  BY <1>0, <1>1 DEF Quiet, Calm, Books, RewardOnce
<1>2. ASSUME NEW t \in Tasks, Completes(t) PROVE RewardOnce'
  <2>1. Cardinality(At("pay")') = Cardinality(At("pay")) + 1
    BY <1>2, PaysFinite, FS_AddElement DEF Completes
  <2>2. scene.repeatable \/ Has("staff") \/ hist.completed <= hist.revived
    BY <1>0, <1>2 DEF BookInv, Settled, Unrepeated, Completes
  <2>3. ~Held' /\ hist.completed + 1 <= hist.accepted
    BY <1>0, <1>2 DEF Completes
  <2>4. UNCHANGED <<scene.repeatable, scene.features, hist.accepted, hist.paid, hist.withheld,
                    hist.lost, hist.revived>> /\ hist'.completed = hist.completed + 1
    BY <1>2 DEF Completes
  <2> QED
    BY <1>0, <2>1, <2>2, <2>3, <2>4, PaysFinite DEF RewardOnce
<1>3. ASSUME NEW t \in Tasks, Settles(t) PROVE RewardOnce'
  <2>1. Cardinality(At("pay")') = Cardinality(At("pay")) - 1
    BY <1>3, PaysFinite, FS_RemoveElement DEF Settles
  <2> QED
    BY <1>0, <1>3, <2>1, PaysFinite DEF Settles, RewardOnce
<1>4. CASE Takes \/ Drops \/ Forces
  BY <1>0, <1>4, PaysFinite DEF Takes, Drops, Forces, Books, RewardOnce
<1>5. CASE Dies
  <2>1. Cardinality(At("pay")') = 0
    BY <1>5, FS_EmptySet DEF Dies
  <2> QED
    BY <1>0, <1>5, <2>1, PaysFinite DEF Dies, RewardOnce
<1> QED
  BY <1>1, <1>2, <1>3, <1>4, <1>5 DEF BookStep

LEMMA SettledKept == ASSUME BookInv, BookStep, Shape' PROVE Settled'
<1> USE DEF Held, Has, Unrepeated
<1>0. /\ Unrepeated => hist.completed <= hist.revived + (IF row.status = "completed" THEN 1 ELSE 0)
      /\ hist.completed \in Nat /\ hist.revived \in Nat
  BY DEF BookInv, Settled, Shape, Histories
<1>1. CASE Quiet \/ Dies
  BY <1>0, <1>1 DEF Quiet, Dies, Calm, Books, Settled
<1>2. ASSUME NEW t \in Tasks, Completes(t) \/ Settles(t) PROVE Settled'
  BY <1>0, <1>2 DEF Completes, Settles, Settled
<1>3. CASE Takes
  BY <1>0, <1>3 DEF Takes, Settled
<1>4. CASE Drops
  BY <1>0, <1>4 DEF Drops, Books, Settled
<1>5. CASE Forces
  BY <1>0, <1>5 DEF Forces, Settled
<1> QED
  BY <1>1, <1>2, <1>3, <1>4, <1>5 DEF BookStep

LEMMA BookInit == Init => BookInv
<1> SUFFICES ASSUME Init PROVE BookInv
  OBVIOUS
<1>1. Shape
  BY ScenePhases DEF Init, Shape, Histories, RowsOf, Statuses, Idle
<1>2. At("pay") = {}
  BY DEF Init, Idle, At
<1>3. RewardOnce
  <2>1. Cardinality(At("pay")) = 0
    BY <1>2, FS_EmptySet
  <2>2. /\ hist.accepted = IF scene.status = "none" THEN 0 ELSE 1
        /\ hist.completed = IF scene.status = "completed" THEN 1 ELSE 0
        /\ hist.paid = hist.completed /\ hist.withheld = 0 /\ hist.lost = 0
        /\ hist.revived = 0
        /\ row.status = scene.status
    BY DEF Init
  <2> QED
    BY <2>1, <2>2 DEF RewardOnce, Held
<1>4. Settled
  BY <1>2, ScenePhases DEF Init, Settled
<1> QED
  BY <1>1, <1>3, <1>4 DEF BookInv

LEMMA BookInvariant == Spec => []BookInv
<1>1. BookInv /\ [Next]_vars => BookInv'
  BY EveryBookStep, ShapeKept, BooksBalance, SettledKept DEF BookInv
<1> QED
  BY <1>1, BookInit, PTL DEF Spec

\* try_advance_phase completes a quest for one caller, each completion is paid,
\* withheld or lost once, and one that cannot be repeated has one (RewardOnce):
\* for any quest, any number of tasks, failures and crashes.
THEOREM RewardedOnce == Spec => []RewardOnce
BY BookInvariant, PTL DEF BookInv

-----------------------------------------------------------------------------
(* The data: what tasks and messages carry, counts, the pack, the bags.    *)

Leases == {"free", "held", "over"}
ObjectiveRows == [Objectives -> [count : 0..scene.need, done : BOOLEAN, lease : Leases]]

\* An objective that is counted, not collected, is complete when its count is.
ObjectivesOK ==
    /\ obj \in ObjectiveRows
    /\ \A o \in Objectives \ scene.collect : ~obj[o].done => obj[o].count < scene.need

\* Bumps are of counted objectives, all else is of collected ones.
Carries(task) ==
    /\ task.pc = "increment" => task.o \in Objectives \ scene.collect
    /\ task.pc \in {"lookup", "targets", "rows", "claimed"} => task.held \in Nat
    /\ task.pc \in {"targets", "rows", "claimed"} =>
         task.id \in Nat /\ \A r \in task.todo : r.o \in scene.collect
    /\ task.pc \in {"claimed", "record", "release"} => task.o \in scene.collect
    /\ task.pc = "grant" => task.reward \in Rewards

Messages ==
    [kind : {"entered", "accepted"}] \cup [kind : {"targets"}, targets : BOOLEAN]
        \cup [kind : {"claimed"}, id : Nat, o : scene.collect]

TasksOK == \A t \in Tasks : Carries(tasks[t])
QueueOK == queue \in Seq(Messages) /\ Len(queue) <= QueueMax
WorldOK ==
    /\ presence \in {"here", "linkdead", "away"} /\ pack \in 0..MaxPack
    /\ watch \in [known : BOOLEAN, targets : BOOLEAN, signature : 0..MaxPack]
    /\ blind \in BOOLEAN

DataOK == ObjectivesOK /\ TasksOK /\ QueueOK /\ WorldOK /\ VariablesTypeOK
PhaseShape == Shape /\ DataOK

\* Only objectives and what is carried depend on the quest, which stays.
LEMMA Carrying ==
    ASSUME Shape, TasksOK, UNCHANGED scene, NEW t \in Tasks, NEW task, Goes(t, task), Carries(task)
    PROVE  TasksOK'
<1>1. \A u \in Tasks : tasks'[u] = IF u = t THEN task ELSE tasks[u]
  BY DEF Shape, Goes
<1> QED
  BY <1>1 DEF TasksOK, Carries

LEMMA CarriesNothing ==
    /\ Carries(Idle)
    /\ \A id : Carries([pc |-> "advance", id |-> id])
    /\ Carries([pc |-> "enter"]) /\ Carries([pc |-> "pay"]) /\ Carries([pc |-> "finish"])
    /\ \A via : Carries([pc |-> "insert", via |-> via]) /\ Carries([pc |-> "notice", via |-> via])
    /\ \A id : \A r \in Rewards : Carries([pc |-> "grant", id |-> id, reward |-> r])
BY DEF Carries, Idle

LEMMA CarriesRows ==
    ASSUME NEW task, task.held \in Nat, task.id \in Nat,
           NEW todo, \A r \in todo : r.o \in scene.collect
    PROVE  Carries(NextRow(task, todo))
BY DEF Carries, NextRow, Idle

LEMMA OpenObjectives ==
    ASSUME Shape PROVE Open \subseteq Objectives
<1>1. Held => Current \in Phases
  BY ScenePhases DEF Shape, RowsOf, Current
<1> QED
  BY <1>1, ScenePhases DEF Open, Shape

LEMMA StartCarrying ==
    ASSUME Shape, TasksOK, UNCHANGED scene, NEW task, Starts(task), Carries(task)
    PROVE  TasksOK'
<1>1. Slot \in Tasks /\ Goes(Slot, task)
  BY DEF Starts, Slot
<1> QED
  BY <1>1, Carrying

LEMMA RecheckCarrying ==
    ASSUME Shape, TasksOK, UNCHANGED scene, NEW n \in Nat, Rechecks(n)
    PROVE  TasksOK'
<1>1. Carries([pc |-> "lookup", held |-> n])
  BY DEF Carries
<1> QED
  BY <1>1, StartCarrying DEF Rechecks, TasksOK, Carries

LEMMA CheckRowCarries ==
    ASSUME PhaseShape, UNCHANGED scene, NEW t \in Tasks, CheckRow(t)
    PROVE  TasksOK'
<1> DEFINE task == tasks[t]
<1>1. task.pc = "rows" /\ task.held \in Nat /\ task.id \in Nat /\ \A r \in task.todo : r.o \in scene.collect
  BY DEF CheckRow, PhaseShape, DataOK, TasksOK, Carries
<1>2. PICK r \in task.todo :
          \/ Goes(t, NextRow(task, task.todo \ {r}))
          \/ Goes(t, [pc |-> "claimed", id |-> task.id, o |-> r.o, held |-> task.held,
                      todo |-> task.todo \ {r}])
  BY DEF CheckRow
<1>3. Carries(NextRow(task, task.todo \ {r}))
  BY <1>1, CarriesRows
<1>4. Carries([pc |-> "claimed", id |-> task.id, o |-> r.o, held |-> task.held,
               todo |-> task.todo \ {r}])
  BY <1>1 DEF Carries
<1> QED
  BY <1>2, <1>3, <1>4, Carrying DEF PhaseShape, DataOK

LEMMA TaskCarries ==
    ASSUME PhaseShape, UNCHANGED scene, NEW t \in Tasks, TaskStep(t) \/ StatementFails(t)
    PROVE  TasksOK'
<1>0. Shape /\ TasksOK /\ Carries(tasks[t])
  BY DEF PhaseShape, DataOK, TasksOK
<1>1. CASE Increment(t) \/ Enter(t) \/ Pay(t) \/ Release(t) \/ Insert(t) \/ Notice(t) \/ ClaimReward(t)
  BY <1>0, <1>1, Carrying, CarriesNothing
     DEF Increment, Enter, Pay, Release, Insert, Notice, ClaimReward
<1>2. CASE TryAdvance(t)
  BY <1>0, <1>2, Carrying, CarriesNothing DEF TryAdvance
<1>3. CASE Lookup(t)
  <2> DEFINE next == [pc |-> "targets", id |-> row.id, held |-> tasks[t].held,
                      todo |-> {[o |-> o, count |-> obj[o].count] : o \in Open \cap scene.collect}]
  <2>1. next.held \in Nat /\ next.id \in Nat
    BY <1>0, <1>3 DEF Lookup, Carries, Shape, RowsOf
  <2>2. \A r \in next.todo : r.o \in scene.collect
    OBVIOUS
  <2>3. next.pc = "targets"
    OBVIOUS
  <2>4. Goes(t, next)
    BY <1>3 DEF Lookup
  <2> HIDE DEF next
  <2>5. Carries(next)
    BY <2>1, <2>2, <2>3 DEF Carries
  <2> QED
    BY <1>0, <2>4, <2>5, Carrying
<1>4. CASE SendTargets(t) \/ SendClaimed(t)
  <2>1. tasks[t].held \in Nat /\ tasks[t].id \in Nat /\ \A r \in tasks[t].todo : r.o \in scene.collect
    BY <1>0, <1>4 DEF SendTargets, SendClaimed, Carries
  <2> QED
    BY <1>0, <1>4, <2>1, Carrying, CarriesRows DEF SendTargets, SendClaimed
<1>5. CASE CheckRow(t)
  BY <1>5, CheckRowCarries
<1>6. CASE Record(t)
  BY <1>0, <1>6, Carrying, CarriesNothing DEF Record
<1>7. CASE Finish(t)
  <2>1. Carries([pc |-> "lookup", held |-> pack])
    BY DEF Carries, PhaseShape, DataOK, WorldOK
  <2> QED
    BY <1>0, <1>7, <2>1, Carrying, CarriesNothing DEF Finish
<1>8. CASE StatementFails(t)
  <2>1. CASE Goes(t, Idle)
    BY <1>0, <2>1, Carrying, CarriesNothing
  <2>2. ASSUME tasks[t].pc = "rows", NEW r \in tasks[t].todo,
               Goes(t, NextRow(tasks[t], tasks[t].todo \ {r}))
        PROVE  TasksOK'
    <3>1. tasks[t].held \in Nat /\ tasks[t].id \in Nat /\ \A s \in tasks[t].todo : s.o \in scene.collect
      BY <1>0, <2>2 DEF Carries
    <3> QED
      BY <1>0, <2>2, <3>1, Carrying, CarriesRows
  <2> QED
    BY <1>8, <2>1, <2>2 DEF StatementFails
<1> QED
  BY <1>1, <1>2, <1>3, <1>4, <1>5, <1>6, <1>7, <1>8 DEF TaskStep

LEMMA TasksKept == ASSUME PhaseShape, [Next]_vars, UNCHANGED scene PROVE TasksOK'
<1>0. Shape /\ TasksOK /\ pack \in Nat
  BY DEF PhaseShape, DataOK, WorldOK
<1>1. CASE UNCHANGED tasks
  BY <1>0, <1>1 DEF TasksOK, Carries
<1>2. CASE Drain
  <2>1. ASSUME Head(queue).kind = "claimed"
        PROVE  /\ Carries([pc |-> "record", id |-> Head(queue).id, o |-> Head(queue).o])
               /\ Carries([pc |-> "release", id |-> Head(queue).id, o |-> Head(queue).o])
    <3>1. Head(queue) \in Messages
      BY <1>2 DEF Drain, PhaseShape, DataOK, QueueOK
    <3>2. Head(queue).o \in scene.collect
      BY <2>1, <3>1 DEF Messages
    <3> QED
      BY <3>2 DEF Carries
  <2> QED
    BY <1>0, <1>1, <1>2, <2>1, StartCarrying, RecheckCarrying DEF Drain
<1>3. CASE WatchTick
  BY <1>0, <1>3, RecheckCarrying DEF WatchTick
<1>4. CASE Bump
  <2>1. PICK o \in Objectives \ scene.collect : Starts([pc |-> "increment", id |-> row.id, o |-> o])
    BY <1>0, <1>4, OpenObjectives DEF Bump
  <2>2. Carries([pc |-> "increment", id |-> row.id, o |-> o])
    BY DEF Carries
  <2> QED
    BY <1>0, <2>1, <2>2, StartCarrying
<1>5. CASE Gates \/ PlanClaim
  BY <1>0, <1>5, StartCarrying, CarriesNothing DEF Gates, PlanClaim
<1>6. CASE Assign
  BY <1>0, <1>6, RecheckCarrying DEF Assign
<1>7. CASE Crash
  BY <1>7, CarriesNothing DEF Crash, TasksOK, Carries, Idle
<1>8. CASE \/ LeaseExpires \/ PackChanges \/ PresenceChanges \/ Ends \/ ForceComplete \/ Reset
          \/ Scripts \/ Flushes \/ FlushFails \/ Returns \/ UNCHANGED vars
  BY <1>1, <1>8 DEF LeaseExpires, PackChanges, PresenceChanges, Ends, ForceComplete, Reset,
                    Scripts, Flushes, FlushFails, Returns, vars, qvars
<1> QED
  BY <1>2, <1>3, <1>4, <1>5, <1>6, <1>7, <1>8, TaskCarries DEF Next

\* Messages are sent while there is room, and taken from the front.
LEMMA Sending ==
    ASSUME QueueOK, UNCHANGED scene, NEW m \in Messages, Sends(m)
    PROVE  QueueOK'
<1>1. queue' \in Seq(Messages) /\ Len(queue') = Len(queue) + 1 /\ Len(queue) \in Nat
  BY DEF QueueOK, Sends
<1>2. Messages' = Messages
  BY DEF Messages
<1> QED
  BY <1>1, <1>2, QuestsAssumption DEF QueueOK, Sends

LEMMA QueueKept == ASSUME PhaseShape, [Next]_vars, UNCHANGED scene PROVE QueueOK'
<1>0. QueueOK /\ Messages' = Messages /\ \A u \in Tasks : Carries(tasks[u])
  BY DEF PhaseShape, DataOK, TasksOK, Messages
<1>1. CASE UNCHANGED queue
  BY <1>0, <1>1 DEF QueueOK
<1>2. CASE Drain
  <2>1. queue' = Tail(queue) /\ queue # <<>> /\ queue \in Seq(Messages) /\ Len(queue) <= QueueMax
    BY <1>0, <1>2 DEF Drain, QueueOK
  <2>2. Tail(queue) \in Seq(Messages) /\ Len(Tail(queue)) <= QueueMax
    BY <2>1, QuestsAssumption
  <2> QED
    BY <1>0, <2>1, <2>2 DEF QueueOK
<1>3. CASE Crash
  BY <1>0, <1>3, QuestsAssumption DEF Crash, QueueOK
<1>4. ASSUME NEW t \in Tasks, Enter(t) \/ Notice(t) \/ SendTargets(t) \/ SendClaimed(t)
      PROVE  QueueOK'
  <2>1. [kind |-> "entered"] \in Messages /\ [kind |-> "accepted"] \in Messages
    BY DEF Messages
  <2>2. \A b \in BOOLEAN : [kind |-> "targets", targets |-> b] \in Messages
    BY DEF Messages
  <2>3. ASSUME SendClaimed(t) PROVE [kind |-> "claimed", id |-> tasks[t].id, o |-> tasks[t].o] \in Messages
    BY <1>0, <2>3 DEF SendClaimed, Carries, Messages
  <2> QED
    BY <1>0, <1>4, <2>1, <2>2, <2>3, Sending DEF Enter, Notice, SendTargets, SendClaimed
<1>5. ASSUME NEW t \in Tasks, TaskStep(t) \/ StatementFails(t),
             ~(Enter(t) \/ Notice(t) \/ SendTargets(t) \/ SendClaimed(t))
      PROVE  UNCHANGED queue
  BY <1>5 DEF TaskStep, StatementFails, Increment, TryAdvance, Pay, Lookup, CheckRow, Record,
              Release, Insert, Finish, ClaimReward
<1>6. CASE \/ WatchTick \/ Bump \/ Gates \/ Assign \/ PlanClaim \/ LeaseExpires \/ PackChanges
          \/ PresenceChanges \/ Ends \/ ForceComplete \/ Reset \/ Scripts \/ Flushes \/ FlushFails
          \/ Returns \/ UNCHANGED vars
  BY <1>1, <1>6 DEF WatchTick, Bump, Gates, Assign, PlanClaim, LeaseExpires, PackChanges,
      PresenceChanges, Ends, ForceComplete, Reset, Scripts, Flushes, FlushFails, Returns, vars, qvars
<1> QED
  BY <1>1, <1>2, <1>3, <1>4, <1>5, <1>6 DEF Next

LEMMA WorldKeeps == ASSUME PhaseShape, [Next]_vars, UNCHANGED scene PROVE WorldOK'
<1>0. WorldOK /\ QueueOK /\ scene.need \in Nat \ {0}
  BY ScenePhases DEF PhaseShape, DataOK, Shape
<1>1. CASE WorldKept
  BY <1>0, <1>1 DEF WorldKept, WorldOK
<1>2. CASE Drain
  <2>1. Head(queue).kind = "targets" => Head(queue).targets \in BOOLEAN
    <3>1. Head(queue) \in Messages
      BY <1>0, <1>2 DEF Drain, QueueOK
    <3> QED
      BY <3>1 DEF Messages
  <2>2. presence' = presence
    BY <1>2 DEF Drain
  <2>3. pack' \in 0..MaxPack
    BY <1>0, <1>2, QuestsAssumption DEF Drain, WorldOK
  <2>4. watch' \in [known : BOOLEAN, targets : BOOLEAN, signature : 0..MaxPack]
    <3>1. CASE UNCHANGED watch
      BY <1>0, <3>1 DEF WorldOK
    <3>2. ASSUME NEW b \in BOOLEAN,
                 watch' = [known |-> TRUE, targets |-> b, signature |-> IF b THEN pack ELSE 0]
          PROVE  watch' \in [known : BOOLEAN, targets : BOOLEAN, signature : 0..MaxPack]
      BY <1>0, <3>2, QuestsAssumption DEF WorldOK
    <3> QED
      BY <1>2, <2>1, <3>1, <3>2 DEF Drain
  <2>5. blind' \in BOOLEAN
    BY <1>0, <1>2 DEF Drain, Rechecks, WorldOK
  <2> QED
    BY <1>0, <2>2, <2>3, <2>4, <2>5 DEF WorldOK
<1>3. CASE WatchTick
  <2>1. \/ watch' = [known |-> TRUE, targets |-> FALSE, signature |-> 0]
        \/ watch' = [watch EXCEPT !.signature = pack]
    BY <1>3 DEF WatchTick
  <2>2. [known |-> TRUE, targets |-> FALSE, signature |-> 0]
            \in [known : BOOLEAN, targets : BOOLEAN, signature : 0..MaxPack]
    BY QuestsAssumption
  <2>3. [watch EXCEPT !.signature = pack] \in [known : BOOLEAN, targets : BOOLEAN, signature : 0..MaxPack]
    BY <1>0 DEF WorldOK
  <2>4. blind' \in BOOLEAN
    BY <1>0, <1>3 DEF WatchTick, Rechecks, WorldOK
  <2> QED
    BY <1>0, <1>3, <2>1, <2>2, <2>3, <2>4 DEF WatchTick, WorldOK
<1>4. CASE PackChanges
  BY <1>0, <1>4 DEF PackChanges, WorldOK
<1>u. Unwatched \in [known : BOOLEAN, targets : BOOLEAN, signature : 0..MaxPack]
  BY QuestsAssumption DEF Unwatched
<1>5. CASE PresenceChanges
  BY <1>0, <1>u, <1>5 DEF PresenceChanges, WorldOK
<1>6. CASE Crash
  BY <1>0, <1>u, <1>6 DEF Crash, WorldOK
<1>7. CASE Returns
  BY <1>0, <1>7 DEF Returns, WorldOK
<1>8. ASSUME NEW t \in Tasks, TaskStep(t) PROVE WorldKept
  BY <1>8 DEF TaskStep, Increment, TryAdvance, Enter, Pay, Lookup, SendTargets,
      CheckRow, SendClaimed, Record, Release, Insert, Notice, Finish, ClaimReward
<1>10. ASSUME NEW t \in Tasks, StatementFails(t) PROVE WorldOK'
  BY <1>0, <1>10 DEF StatementFails, WorldOK
<1>11. CASE Assign
  BY <1>0, <1>11 DEF Assign, Rechecks, WorldOK
<1>9. CASE \/ Bump \/ Gates \/ PlanClaim \/ LeaseExpires \/ Ends \/ ForceComplete
          \/ Reset \/ Scripts \/ Flushes \/ FlushFails \/ UNCHANGED vars
  BY <1>1, <1>9 DEF Bump, Gates, PlanClaim, LeaseExpires, Ends, ForceComplete, Reset,
      Scripts, Flushes, FlushFails, WorldKept, vars, qvars
<1> QED
  BY <1>1, <1>2, <1>3, <1>4, <1>5, <1>6, <1>7, <1>8, <1>9, <1>10, <1>11 DEF Next

\* What is made of rows and bags is a row or a bag.
LEMMA Rows ==
    ASSUME NEW b, NEW d, IsRow(b), IsRow(d)
    PROVE  /\ IsRow(Over(b, d)) /\ IsBag(b)
           /\ \A S : IsRow(Restrict(b, DOMAIN b \ S)) /\ IsRow(Restrict(b, DOMAIN b \cap S))
<1>1. IsRow(Over(b, d))
  BY DEF IsRow, Over
<1>2. ASSUME NEW S PROVE IsRow(Restrict(b, DOMAIN b \ S)) /\ IsRow(Restrict(b, DOMAIN b \cap S))
  BY DEF IsRow, Restrict
<1>3. IsBag(b)
  BY DEF IsRow, IsBag
<1> QED
  BY <1>1, <1>2, <1>3

LEMMA Bags ==
    ASSUME NEW b, IsBag(b)
    PROVE  /\ \A v \in Values \cup {Tomb} : IsBag(Over(Single(Stage, v), b))
           /\ IsRow(Restrict(b, DOMAIN b \ {k \in DOMAIN b : b[k] = Tomb}))
           /\ IsRow(None) /\ IsBag(None)
<1>1. ASSUME NEW v \in Values \cup {Tomb} PROVE IsBag(Over(Single(Stage, v), b))
  BY DEF IsBag, Over, Single, ValuesOf, Stage, Claimed
<1>2. IsRow(Restrict(b, DOMAIN b \ {k \in DOMAIN b : b[k] = Tomb}))
  BY DEF IsBag, IsRow, Restrict
<1>3. IsRow(None) /\ IsBag(None)
  BY DEF IsBag, IsRow, None
<1> QED
  BY <1>1, <1>2, <1>3

LEMMA ClaimedRow ==
    ASSUME IsRow(variables), NEW r \in Rewards
    PROVE  IsRow(Over(Single(Claimed, ClaimedRewards \cup {r}), variables))
<1>1. ClaimedRewards \cup {r} \in ValuesOf(Claimed)
  BY DEF IsRow, ClaimedRewards, ValuesOf
<1>2. IsRow(Single(Claimed, ClaimedRewards \cup {r}))
  BY <1>1 DEF IsRow, Single
<1> QED
  BY <1>2, Rows

\* A flush task: the keys it sets, those it clears, whether it was overtaken.
IsFlush(task) ==
    /\ task = [sets |-> task.sets, clears |-> task.clears, old |-> task.old]
    /\ IsRow(task.sets) /\ task.clears \subseteq {Stage, Claimed} /\ task.old \in BOOLEAN
FlushesOK(fl) == fl = [f \in Flushers |-> fl[f]] /\ \A f \in Flushers : IsFlush(fl[f])

BagsOK ==
    /\ IsRow(variables) /\ IsBag(bag) /\ dirty \in BOOLEAN /\ FlushesOK(flush)
    /\ stale \subseteq {Stage, Claimed}

LEMMA BagsTyped == BagsOK <=> VariablesTypeOK
BY DEF BagsOK, FlushesOK, IsFlush, VariablesTypeOK

LEMMA NoFlushOK == IsFlush(NoFlush) /\ FlushesOK([f \in Flushers |-> NoFlush])
<1>1. IsFlush(NoFlush)
  BY DEF IsFlush, NoFlush, None, IsRow
<1> QED
  BY <1>1 DEF FlushesOK

LEMMA Aging ==
    ASSUME NEW task, IsFlush(task), NEW aged, aged = [task EXCEPT !.old = TRUE]
    PROVE  IsFlush(aged) /\ aged.sets = task.sets /\ aged.clears = task.clears
<1>1. task = [sets |-> task.sets, clears |-> task.clears, old |-> task.old]
  BY DEF IsFlush
<1>2. aged = [sets |-> task.sets, clears |-> task.clears, old |-> TRUE]
  BY <1>1
<1>3. aged.sets = task.sets /\ aged.clears = task.clears /\ aged.old = TRUE
  BY <1>2
<1> QED
  BY <1>2, <1>3 DEF IsFlush

LEMMA OvertakenOK ==
    ASSUME FlushesOK(flush)
    PROVE  /\ FlushesOK(Overtaken)
           /\ \A f \in Flushers : /\ Overtaken[f].sets = flush[f].sets
                                 /\ Overtaken[f].clears = flush[f].clears
<1>1. ASSUME NEW f \in Flushers
      PROVE  /\ IsFlush(Overtaken[f]) /\ Overtaken[f].sets = flush[f].sets
             /\ Overtaken[f].clears = flush[f].clears
  <2>1. Overtaken[f] = [flush[f] EXCEPT !.old = TRUE]
    BY DEF Overtaken
  <2> QED
    BY <2>1, Aging DEF FlushesOK
<1>2. Overtaken = [f \in Flushers |-> Overtaken[f]]
  BY DEF Overtaken
<1> QED
  BY <1>1, <1>2 DEF FlushesOK

LEMMA FlushPut ==
    ASSUME NEW fl, FlushesOK(fl), NEW f, NEW task, IsFlush(task)
    PROVE  FlushesOK([fl EXCEPT ![f] = task])
BY DEF FlushesOK

\* A flush writes rows, marks keys of bags.
LEMMA FlushWritesBags ==
    ASSUME BagsOK, NEW f \in Flushers, NEW e, NEW lost, FlushWrites(f, e, lost)
    PROVE  BagsOK'
<1>1. IsFlush(flush[f])
  BY DEF BagsOK, FlushesOK
<1>2. IsRow(variables')
  BY <1>1, Rows DEF BagsOK, IsFlush, FlushWrites
<1>3. FlushesOK(flush')
  BY NoFlushOK, FlushPut DEF BagsOK, FlushWrites
<1>4. stale' \subseteq {Stage, Claimed}
  BY <1>1 DEF BagsOK, IsFlush, IsRow, Keys, FlushWrites
<1> QED
  BY <1>2, <1>3, <1>4 DEF BagsOK, FlushWrites

LEMMA BagsKept == ASSUME PhaseShape, [Next]_vars PROVE VariablesTypeOK'
<1>0. BagsOK /\ IsRow(variables) /\ IsBag(bag) /\ FlushesOK(flush)
  BY BagsTyped DEF PhaseShape, DataOK, BagsOK
<1> SUFFICES BagsOK'
  BY BagsTyped DEF BagsOK, VariablesTypeOK, FlushesOK, IsFlush
<1>1. CASE UNCHANGED vvars
  BY <1>0, <1>1 DEF BagsOK, vvars
<1>2. CASE SetVar \/ ClearVar
  <2>1. IsBag(bag')
    BY <1>0, <1>2, Bags DEF SetVar, ClearVar
  <2> QED
    BY <1>0, <1>2, <2>1 DEF SetVar, ClearVar, BagsOK
<1>3. CASE FlushTick
  <2> DEFINE dead == {k \in DOMAIN bag : bag[k] = Tomb}
             task == [sets |-> bag', clears |-> dead, old |-> FALSE]
  <2>1. IsRow(bag') /\ IsBag(bag') /\ dead \subseteq {Stage, Claimed}
    BY <1>0, <1>3, Bags, Rows DEF FlushTick, IsBag
  <2>2. IsFlush(task)
    BY <2>1 DEF IsFlush
  <2>3. flush' = [Overtaken EXCEPT ![FreeFlusher] = task]
    BY <1>3 DEF FlushTick
  <2> HIDE DEF task
  <2>4. FlushesOK(flush')
    BY <1>0, <2>2, <2>3, OvertakenOK, FlushPut
  <2> QED
    BY <1>0, <1>3, <2>1, <2>4 DEF FlushTick, BagsOK
<1>4. CASE Flushes \/ FlushFails
  BY <1>0, <1>3, <1>4, FlushWritesBags DEF Flushes, FlushFails
<1>5. CASE Crash
  <2>1. IsBag(bag') /\ variables' = variables /\ dirty' = FALSE /\ stale' = {}
    BY <1>0, <1>5, Rows DEF Crash, Hydrate
  <2>2. FlushesOK(flush')
    BY <1>5, NoFlushOK DEF Crash, Hydrate
  <2> QED
    BY <1>0, <2>1, <2>2 DEF BagsOK
<1>6. ASSUME ResetQuest, variables' \in {variables, None} PROVE BagsOK'
  <2>1. IsRow(variables') /\ IsBag(bag') /\ FlushesOK(flush')
    BY <1>0, <1>6, Bags, OvertakenOK DEF ResetQuest
  <2> QED
    BY <1>6, <2>1 DEF ResetQuest, BagsOK, Unknown, IsRow
<1>7. ASSUME CacheKept, variables' = variables PROVE BagsOK'
  BY <1>0, <1>7 DEF CacheKept, BagsOK
<1>8. ASSUME NEW t \in Tasks, ClaimReward(t) PROVE BagsOK'
  <2>1. tasks[t].reward \in Rewards
    BY <1>8 DEF ClaimReward, PhaseShape, DataOK, TasksOK, Carries
  <2>2. IsRow(variables')
    BY <1>0, <1>8, <2>1, ClaimedRow DEF ClaimReward
  <2> QED
    BY <1>0, <1>8, <2>2 DEF ClaimReward, CacheKept, BagsOK
<1>9. ASSUME NEW t \in Tasks, Insert(t) PROVE BagsOK'
  <2>1. IsRow(variables') /\ stale' \subseteq DOMAIN bag /\ UNCHANGED <<bag, dirty, flush>>
    BY <1>0, <1>9, Bags DEF Insert, ClearRow
  <2> QED
    BY <1>0, <2>1 DEF BagsOK, IsBag
<1>10. ASSUME NEW t \in Tasks, TaskStep(t) \/ StatementFails(t), ~ClaimReward(t), ~Insert(t)
       PROVE  (ResetQuest \/ CacheKept) /\ variables' = variables
  BY <1>10 DEF TaskStep, StatementFails, Increment, TryAdvance, Enter, Pay, Lookup, SendTargets,
      CheckRow, SendClaimed, Record, Release, Notice, Finish, RowsKept
<1>11. CASE \/ Drain \/ WatchTick \/ Bump \/ Gates \/ Assign \/ PlanClaim \/ LeaseExpires
           \/ PackChanges \/ PresenceChanges \/ Ends \/ ForceComplete \/ Returns
  <2>1. (ResetQuest \/ CacheKept) /\ variables' = variables
    BY <1>11 DEF Drain, WatchTick, Bump, Gates, Assign, PlanClaim, LeaseExpires, PackChanges,
        PresenceChanges, Ends, ForceComplete, Returns, RowsKept
  <2> QED
    BY <1>6, <1>7, <2>1
<1>12. CASE Reset
  BY <1>6, <1>12 DEF Reset
<1>13. CASE Scripts
  BY <1>2, <1>13 DEF Scripts
<1>14. CASE UNCHANGED vars
  BY <1>1, <1>14 DEF vars
<1> QED
  BY <1>4, <1>5, <1>6, <1>7, <1>8, <1>9, <1>10, <1>11, <1>12, <1>13, <1>14 DEF Next

-----------------------------------------------------------------------------
(* What a step does to the objectives.                                     *)

\* The advance that a completed objective starts, about the row as it is.
Advancing == \E t \in Tasks : tasks[t].pc = "advance" /\ tasks[t].id = row.id

\* The quest as the statements see it.
SameRow == UNCHANGED <<scene, row, hist.forced>>

\* Work on the objectives: what is done stays done, whoever completes one
\* advances the quest, and an advance of a quest in progress is forgotten only by
\* a failure.
Works ==
    /\ SameRow
    /\ ObjectivesOK'
    /\ \A o \in Objectives :
         /\ obj[o].done => obj'[o].done
         /\ obj'[o].done /\ ~obj[o].done => Advancing' /\ row.status # "none"
    /\ \/ Has("crash") \/ "advance" \in scene.failing \/ ~Held
       \/ Advancing => Advancing'
\* The advance of the quest.
Advances(t) ==
    /\ TryAdvance(t) /\ Held /\ Exists(tasks[t].id)
\* A new run, or none: nothing is done yet.
Renews ==
    /\ UNCHANGED scene /\ obj' = Fresh
    /\ row'.phase = 0 /\ row'.status \in {"active", "none"}
\* Staff give the quest, players and the sweep end it, staff complete it.
Marks ==
    /\ UNCHANGED <<scene, obj, tasks>> /\ row'.phase = row.phase /\ Held
    /\ \/ row'.status \in {"abandoned", "failed"} /\ UNCHANGED hist.forced
       \/ row'.status = "completed" /\ hist'.forced = TRUE
Assigns ==
    /\ UNCHANGED <<scene, obj, hist.forced>> /\ row'.phase = row.phase
    /\ row.status = "none" /\ row'.status = "active"

PhaseStep == Works \/ Renews \/ Marks \/ Assigns \/ \E t \in Tasks : Advances(t)

LEMMA FreshOK == ASSUME Shape PROVE
    /\ Fresh \in ObjectiveRows
    /\ \A o \in Objectives : Fresh[o].count = 0 /\ ~Fresh[o].done
BY ScenePhases DEF Shape, Fresh, ObjectiveRows, Leases

LEMMA SameObjectives == ASSUME ObjectivesOK, UNCHANGED <<scene, obj>> PROVE ObjectivesOK'
BY DEF ObjectivesOK, ObjectiveRows

\* An objective of the rows is set.
LEMMA Setting ==
    ASSUME Shape, ObjectivesOK, UNCHANGED scene, NEW o \in Objectives, NEW c \in 0..scene.need,
           NEW d \in BOOLEAN, NEW l \in Leases,
           o \in scene.collect \/ d \/ c < scene.need,
           obj' = [obj EXCEPT ![o] = [count |-> c, done |-> d, lease |-> l]]
    PROVE  /\ ObjectivesOK'
           /\ obj'[o].done = d /\ \A q \in Objectives \ {o} : obj'[q] = obj[q]
<1>1. obj' \in ObjectiveRows
  BY DEF ObjectivesOK, ObjectiveRows
<1>2. /\ obj'[o] = [count |-> c, done |-> d, lease |-> l]
      /\ \A q \in Objectives \ {o} : obj'[q] = obj[q]
  BY DEF ObjectivesOK, ObjectiveRows
<1> QED
  BY <1>1, <1>2 DEF ObjectivesOK, ObjectiveRows

\* Whoever is not the advance leaves the advances be.
LEMMA AdvanceStays ==
    ASSUME Shape, NEW t \in Tasks, tasks[t].pc # "advance", NEW task, Goes(t, task), UNCHANGED row
    PROVE  /\ Advancing => Advancing'
           /\ task.pc = "advance" /\ task.id = row.id => Advancing'
<1>1. tasks'[t] = task /\ \A u \in Tasks \ {t} : tasks'[u] = tasks[u]
  BY DEF Shape, Goes
<1> QED
  BY <1>1 DEF Advancing

LEMMA StartStays ==
    ASSUME Shape, NEW task, Starts(task), UNCHANGED row PROVE Advancing => Advancing'
<1>1. Slot \in Tasks /\ tasks[Slot].pc = "idle" /\ Goes(Slot, task)
  BY DEF Starts, Slot
<1> QED
  BY <1>1, AdvanceStays

LEMMA SameWorks ==
    ASSUME PhaseShape, UNCHANGED obj, SameRow,
           Has("crash") \/ "advance" \in scene.failing \/ ~Held \/ (Advancing => Advancing')
    PROVE  Works
BY SameObjectives DEF Works, PhaseShape, DataOK, SameRow

LEMMA Working ==
    ASSUME SameRow, ObjectivesOK', Advancing => Advancing',
           \A q \in Objectives : obj[q].done => obj'[q].done,
           \A q \in Objectives : obj'[q].done /\ ~obj[q].done => Advancing' /\ row.status # "none"
    PROVE  Works
BY DEF Works

LEMMA IncrementWorks ==
    ASSUME PhaseShape, NEW t \in Tasks, Increment(t) PROVE Works
<1> DEFINE o == tasks[t].o
           count == obj[o].count + 1
           counts == Exists(tasks[t].id) /\ ~obj[o].done
<1>1. /\ tasks[t].pc = "increment" /\ Shape /\ ObjectivesOK /\ o \in Objectives \ scene.collect
      /\ SameRow
  BY DEF Increment, PhaseShape, DataOK, TasksOK, Carries, SameRow
<1>2. CASE ~counts
  <2>1. UNCHANGED obj /\ Goes(t, Idle)
    BY <1>2 DEF Increment
  <2>2. Advancing => Advancing'
    BY <1>1, <2>1, AdvanceStays DEF SameRow
  <2> QED
    BY <1>1, <2>1, <2>2, SameWorks
<1>3. CASE counts
  <2>1. obj' = [obj EXCEPT ![o] = [count |-> count, done |-> count >= scene.need, lease |-> "free"]]
    BY <1>3 DEF Increment
  <2>2. count \in 0..scene.need /\ (count >= scene.need) \in BOOLEAN /\ "free" \in Leases
    BY <1>1, <1>3, ScenePhases DEF ObjectivesOK, ObjectiveRows, Leases, Shape
  <2>3. count >= scene.need \/ count < scene.need
    BY <2>2, ScenePhases, <1>1 DEF Shape
  <2>4. /\ ObjectivesOK' /\ obj'[o].done = (count >= scene.need)
        /\ \A q \in Objectives \ {o} : obj'[q] = obj[q]
    BY <1>1, <2>1, <2>2, <2>3, Setting DEF SameRow
  <2>5. Goes(t, IF count >= scene.need THEN [pc |-> "advance", id |-> tasks[t].id] ELSE Idle)
    BY <1>3 DEF Increment
  <2>6. Advancing => Advancing'
    BY <1>1, <2>5, AdvanceStays DEF SameRow
  <2>7. count >= scene.need => Advancing'
    <3>1. tasks[t].id = row.id
      BY <1>3 DEF Exists
    <3> QED
      BY <1>1, <2>5, <3>1, AdvanceStays DEF SameRow
  <2>8. row.status # "none"
    BY <1>3 DEF Exists
  <2> HIDE DEF count
  <2>9. \A q \in Objectives : obj[q].done => obj'[q].done
    BY <1>1, <1>3, <2>4
  <2>10. \A q \in Objectives : obj'[q].done /\ ~obj[q].done => Advancing' /\ row.status # "none"
    BY <1>1, <2>4, <2>7, <2>8
  <2> QED
    BY <1>1, <2>4, <2>6, <2>9, <2>10, Working
<1> QED
  BY <1>2, <1>3

\* The check of the pack and the release leave completed objectives alone.
LEMMA CheckWorks ==
    ASSUME PhaseShape, NEW t \in Tasks, CheckRow(t) \/ Release(t) PROVE Works
<1>1. /\ Shape /\ ObjectivesOK /\ SameRow /\ tasks[t].pc # "advance"
      /\ scene.need \in Nat \ {0} /\ scene.collect \subseteq Objectives
  BY ScenePhases DEF CheckRow, Release, PhaseShape, DataOK, SameRow, Shape
<1>2. Advancing => Advancing'
  BY <1>1, AdvanceStays DEF CheckRow, Release, SameRow
<1>3. CASE UNCHANGED obj
  BY <1>1, <1>2, <1>3, SameWorks
<1>4. ASSUME NEW o \in scene.collect, NEW c \in 0..scene.need, NEW l \in Leases, ~obj[o].done,
             obj' = [obj EXCEPT ![o] = [count |-> c, done |-> FALSE, lease |-> l]]
      PROVE  Works
  <2>1. o \in Objectives
    BY <1>1
  <2>2. UNCHANGED scene
    BY <1>1 DEF SameRow
  <2>3. ObjectivesOK' /\ obj'[o].done = FALSE /\ \A q \in Objectives \ {o} : obj'[q] = obj[q]
    BY <1>1, <1>4, <2>1, <2>2, Setting
  <2> QED
    BY <1>1, <1>2, <1>4, <2>3 DEF Works
<1>5. CASE CheckRow(t)
  <2>1. \A r \in tasks[t].todo : r.o \in scene.collect
    BY <1>5 DEF CheckRow, PhaseShape, DataOK, TasksOK, Carries
  <2>2. tasks[t].held \in Nat
    BY <1>5 DEF CheckRow, PhaseShape, DataOK, TasksOK, Carries
  <2>3. PICK r \in tasks[t].todo : UNCHANGED obj \/ OpenProgress(tasks[t], r) \/ Claim(tasks[t], r)
    BY <1>5 DEF CheckRow
  <2>4. CASE OpenProgress(tasks[t], r)
    <3>1. CASE Exists(tasks[t].id) /\ ~obj[r.o].done
      <4>1. obj' = [obj EXCEPT ![r.o] = [count |-> tasks[t].held, done |-> FALSE, lease |-> "free"]]
        BY <2>4, <3>1 DEF OpenProgress
      <4>2. tasks[t].held \in 0..scene.need /\ "free" \in Leases /\ r.o \in scene.collect
        BY <1>1, <2>1, <2>2, <2>4 DEF OpenProgress, Leases
      <4> QED
        BY <1>4, <3>1, <4>1, <4>2
    <3> QED
      BY <1>3, <2>4, <3>1 DEF OpenProgress
  <2>5. CASE Claim(tasks[t], r)
    <3>1. CASE Claimable(tasks[t].id, r.o)
      <4>1. obj' = [obj EXCEPT ![r.o] = [count |-> scene.need, done |-> FALSE, lease |-> "held"]]
            /\ ~obj[r.o].done
        BY <2>5, <3>1 DEF Claim, Claimable
      <4>2. scene.need \in 0..scene.need /\ "held" \in Leases /\ r.o \in scene.collect
        BY <1>1, <2>1 DEF Leases
      <4> QED
        BY <1>4, <4>1, <4>2
    <3> QED
      BY <1>3, <2>5, <3>1 DEF Claim
  <2> QED
    BY <1>3, <2>3, <2>4, <2>5
<1>6. CASE Release(t)
  <2>1. tasks[t].o \in scene.collect
    BY <1>6 DEF Release, PhaseShape, DataOK, TasksOK, Carries
  <2> QED
    <3>1. CASE Exists(tasks[t].id) /\ ~obj[tasks[t].o].done
      <4>1. obj' = [obj EXCEPT ![tasks[t].o] = [count |-> 0, done |-> FALSE, lease |-> "free"]]
        BY <1>6, <3>1 DEF Release
      <4>2. 0 \in 0..scene.need /\ "free" \in Leases
        BY <1>1 DEF Leases
      <4> QED
        BY <1>4, <2>1, <3>1, <4>1, <4>2
    <3> QED
      BY <1>3, <1>6, <3>1 DEF Release
<1> QED
  BY <1>5, <1>6

LEMMA RecordWorks == ASSUME PhaseShape, NEW t \in Tasks, Record(t) PROVE Works
<1>1. /\ Shape /\ ObjectivesOK /\ SameRow /\ tasks[t].pc = "record" /\ tasks[t].o \in scene.collect
      /\ scene.need \in Nat \ {0} /\ tasks[t].o \in Objectives
  BY ScenePhases DEF Record, PhaseShape, DataOK, TasksOK, Carries, SameRow, Shape
<1>2. Advancing => Advancing'
  BY <1>1, AdvanceStays DEF Record, SameRow
<1>3. CASE ~Exists(tasks[t].id)
  BY <1>1, <1>2, <1>3, SameWorks DEF Record
<1>4. CASE Exists(tasks[t].id)
  <2>1. /\ obj' = [obj EXCEPT ![tasks[t].o] = [count |-> scene.need, done |-> TRUE, lease |-> "free"]]
        /\ Goes(t, [pc |-> "advance", id |-> tasks[t].id])
    BY <1>4 DEF Record
  <2>2. scene.need \in 0..scene.need /\ "free" \in Leases /\ UNCHANGED scene
    BY <1>1 DEF Leases, SameRow
  <2>3. /\ ObjectivesOK' /\ obj'[tasks[t].o].done
        /\ \A q \in Objectives \ {tasks[t].o} : obj'[q] = obj[q]
    BY <1>1, <2>1, <2>2, Setting
  <2>4. Advancing' /\ row.status # "none"
    BY <1>1, <1>4, <2>1, AdvanceStays DEF Exists, SameRow
  <2> QED
    BY <1>1, <1>2, <2>3, <2>4 DEF Works
<1> QED
  BY <1>3, <1>4

LEMMA LeaseWorks == ASSUME PhaseShape, LeaseExpires PROVE Works
<1>1. PICK o \in scene.collect : obj' = [obj EXCEPT ![o].lease = "over"]
  BY DEF LeaseExpires
<1>2. /\ Shape /\ ObjectivesOK /\ SameRow /\ o \in Objectives /\ UNCHANGED tasks
  BY ScenePhases DEF LeaseExpires, PhaseShape, DataOK, SameRow, Shape
<1>3. obj' \in ObjectiveRows /\ \A q \in Objectives : obj'[q].done = obj[q].done /\ obj'[q].count = obj[q].count
  BY <1>1, <1>2 DEF ObjectivesOK, ObjectiveRows, Leases
<1>4. ObjectivesOK'
  BY <1>2, <1>3 DEF ObjectivesOK, ObjectiveRows, SameRow
<1>5. Advancing' = Advancing
  BY <1>2 DEF Advancing, SameRow
<1> QED
  BY <1>2, <1>3, <1>4, <1>5 DEF Works

\* Statements and messages that leave row and objectives alone.
LEMMA ForcedStays ==
    ASSUME Shape
    PROVE  /\ Moves => UNCHANGED hist.forced
           /\ \A t \in Tasks : Pay(t) \/ ClaimReward(t) \/ StatementFails(t) => UNCHANGED hist.forced
           /\ Crash \/ FlushFails => UNCHANGED hist.forced
BY DEF Shape, Histories, Moves, Pay, ClaimReward, StatementFails, Crash, FlushFails

LEMMA QuietTaskWorks ==
    ASSUME PhaseShape, NEW t \in Tasks,
           \/ Enter(t) \/ Pay(t) \/ Lookup(t) \/ SendTargets(t) \/ SendClaimed(t) \/ Notice(t)
           \/ Finish(t) \/ ClaimReward(t)
    PROVE  Works
<1>1. Shape
  BY DEF PhaseShape
<1>2. SameRow /\ UNCHANGED obj
  BY <1>1, ForcedStays DEF Enter, Pay, Lookup, SendTargets, SendClaimed, Notice, Finish,
     ClaimReward, SameRow, RowsKept
<1>3. Advancing => Advancing'
  BY <1>1, <1>2, AdvanceStays DEF Enter, Pay, Lookup, SendTargets, SendClaimed, Notice, Finish,
     ClaimReward, SameRow
<1> QED
  BY <1>2, <1>3, SameWorks

LEMMA FailureWorks == ASSUME PhaseShape, NEW t \in Tasks, StatementFails(t) PROVE Works
<1>1. Shape
  BY DEF PhaseShape
<1>2. SameRow /\ UNCHANGED obj
  BY <1>1, ForcedStays DEF StatementFails, SameRow, RowsKept
<1>3. CASE tasks[t].pc = "advance"
  BY <1>2, <1>3, SameWorks DEF StatementFails
<1>4. CASE tasks[t].pc # "advance"
  BY <1>1, <1>2, <1>4, AdvanceStays, SameWorks DEF StatementFails, SameRow
<1> QED
  BY <1>3, <1>4

LEMMA StaleAdvanceWorks ==
    ASSUME PhaseShape, NEW t \in Tasks, TryAdvance(t), ~(Held /\ Exists(tasks[t].id))
    PROVE  Works
<1>1. SameRow /\ UNCHANGED obj /\ Goes(t, Idle) /\ Shape
  BY DEF TryAdvance, SameRow, PhaseShape
<1>2. ~Held \/ tasks[t].id # row.id
  BY DEF Exists, Held
<1>3. \A u \in Tasks \ {t} : tasks'[u] = tasks[u]
  BY <1>1 DEF Shape, Goes
<1>4. ~Held \/ (Advancing => Advancing')
  BY <1>1, <1>2, <1>3 DEF Advancing, SameRow
<1> QED
  BY <1>1, <1>4, SameWorks

LEMMA WorldWorks ==
    ASSUME PhaseShape,
           \/ Drain \/ WatchTick \/ Bump \/ Gates \/ PlanClaim \/ PackChanges \/ PresenceChanges
           \/ Scripts \/ Flushes \/ FlushFails \/ Crash \/ Returns \/ UNCHANGED vars
    PROVE  Works
<1>1. Shape
  BY DEF PhaseShape
<1>2. SameRow /\ UNCHANGED obj
  BY <1>1, ForcedStays DEF Drain, WatchTick, Bump, Gates, PlanClaim, PackChanges, PresenceChanges,
     Scripts, Flushes, FlushFails, Crash, Returns, vars, qvars, SameRow, RowsKept
<1>3. CASE UNCHANGED tasks
  BY <1>2, <1>3, SameWorks DEF Advancing, SameRow
<1>4. CASE Crash
  BY <1>2, <1>4, SameWorks DEF Crash
<1>5. CASE \E task : Starts(task)
  BY <1>1, <1>2, <1>5, StartStays, SameWorks DEF SameRow
<1>6. CASE Drain \/ WatchTick
  BY <1>3, <1>5, <1>6 DEF Drain, WatchTick, Rechecks
<1>7. CASE Bump \/ Gates \/ PlanClaim
  BY <1>5, <1>7 DEF Bump, Gates, PlanClaim
<1>8. CASE \/ PackChanges \/ PresenceChanges \/ Scripts \/ Flushes \/ FlushFails \/ Returns
          \/ UNCHANGED vars
  BY <1>3, <1>8 DEF PackChanges, PresenceChanges, Scripts, Flushes, FlushFails, Returns, vars, qvars
<1> QED
  BY <1>4, <1>6, <1>7, <1>8

LEMMA MarkSteps ==
    ASSUME PhaseShape, Ends \/ ForceComplete \/ Reset \/ Assign PROVE PhaseStep
<1>1. Shape
  BY DEF PhaseShape
<1>2. CASE Ends
  BY <1>1, <1>2 DEF Ends, Marks, PhaseStep, Shape, RowsOf
<1>3. CASE ForceComplete
  <2>1. hist'.forced = TRUE
    <3>1. PICK fate \in {"paid", "withheld"} :
              hist' = [hist EXCEPT !.completed = @ + 1, !.forced = TRUE, ![fate] = @ + 1]
      BY <1>3 DEF ForceComplete
    <3> QED
      BY <1>1, <3>1 DEF Shape, Histories
  <2> QED
    BY <1>1, <1>3, <2>1 DEF ForceComplete, Marks, PhaseStep, Shape, RowsOf
<1>4. CASE Reset
  BY <1>4 DEF Reset, Renews, PhaseStep
<1>5. CASE Assign
  BY <1>1, <1>5 DEF Assign, Assigns, PhaseStep, Shape, RowsOf, Histories
<1> QED
  BY <1>2, <1>3, <1>4, <1>5

LEMMA EveryPhaseStep == ASSUME PhaseShape, [Next]_vars PROVE PhaseStep
<1>1. ASSUME NEW t \in Tasks, TaskStep(t) \/ StatementFails(t) PROVE PhaseStep
  <2>1. CASE Increment(t) \/ CheckRow(t) \/ Release(t) \/ Record(t)
    BY <2>1, IncrementWorks, CheckWorks, RecordWorks DEF PhaseStep
  <2>2. CASE TryAdvance(t)
    BY <2>2, StaleAdvanceWorks DEF PhaseStep, Advances
  <2>3. CASE Insert(t)
    <3>1. row' = [row EXCEPT !.status = "active", !.phase = 0] /\ obj' = Fresh /\ UNCHANGED scene
      BY <2>3 DEF Insert
    <3>2. row'.phase = 0 /\ row'.status = "active"
      BY <3>1 DEF PhaseShape, Shape, RowsOf
    <3> QED
      BY <3>1, <3>2 DEF Renews, PhaseStep
  <2>4. CASE StatementFails(t)
    BY <2>4, FailureWorks DEF PhaseStep
  <2> QED
    BY <1>1, <2>1, <2>2, <2>3, <2>4, QuietTaskWorks DEF TaskStep, PhaseStep
<1> QED
  BY <1>1, LeaseWorks, WorldWorks, MarkSteps DEF Next, PhaseStep

-----------------------------------------------------------------------------
(* Phases are earned, and no quest is stranded.                            *)

LEMMA ObjectivesKept == ASSUME PhaseShape, PhaseStep PROVE ObjectivesOK'
<1>0. Shape /\ ObjectivesOK
  BY DEF PhaseShape, DataOK
<1>1. CASE Works
  BY <1>1 DEF Works
<1>2. CASE Renews
  <2>1. ObjectiveRows' = ObjectiveRows /\ UNCHANGED scene
    BY <1>2 DEF Renews, ObjectiveRows
  <2>2. scene.need > 0
    BY <1>0, ScenePhases DEF Shape
  <2> QED
    BY <1>0, <1>2, <2>1, <2>2, FreshOK DEF Renews, ObjectivesOK
<1>3. CASE Marks \/ Assigns \/ \E t \in Tasks : Advances(t)
  BY <1>0, <1>3, SameObjectives DEF Marks, Assigns, Advances, TryAdvance
<1> QED
  BY <1>1, <1>2, <1>3 DEF PhaseStep

LEMMA PhaseShapeKept == ASSUME PhaseShape, [Next]_vars PROVE PhaseShape'
<1>1. Shape /\ Shape' /\ UNCHANGED scene
  BY ShapeKept, RowShape DEF PhaseShape
<1> QED
  BY <1>1, EveryPhaseStep, ObjectivesKept, TasksKept, QueueKept, WorldKeeps, BagsKept
     DEF PhaseShape, DataOK

\* An unaccepted quest has nothing done.
Untouched == row.status = "none" => row.phase = 0 /\ \A o \in Objectives : ~obj[o].done
Earned ==
    \A p \in Phases :
        \/ p < row.phase
        \/ row.status = "completed" /\ ~hist.forced
        => PhaseDone(p)
Watched ==
    (Held /\ PhaseDone(Current) /\ ~Has("crash") /\ "advance" \notin scene.failing) => Advancing

PhaseInv == PhaseShape /\ Untouched /\ Earned /\ Watched

LEMMA WorksKeeps == ASSUME PhaseInv, Works, Shape' PROVE (Untouched /\ Earned /\ Watched)'
<1>0. /\ Shape /\ UNCHANGED <<scene, row, hist.forced>> /\ Phases' = Phases /\ Current' = Current
      /\ \A p \in Phases : scene.phases[p] \subseteq Objectives
      /\ Held => Current \in Phases
  BY ScenePhases DEF PhaseInv, PhaseShape, Works, SameRow, Phases, Current, Shape, RowsOf
<1>1. \A p \in Phases : PhaseDone(p) => PhaseDone(p)'
  BY <1>0 DEF Works, PhaseDone
<1>2. Untouched'
  BY <1>0 DEF Works, PhaseInv, Untouched
<1>3. Earned'
  BY <1>0, <1>1 DEF PhaseInv, Earned
<1>4. ASSUME Held', PhaseDone(Current)', ~Has("crash")', "advance" \notin scene'.failing
      PROVE  Advancing'
  <2>1. Held /\ ~Has("crash") /\ "advance" \notin scene.failing
    BY <1>0, <1>4 DEF Held, Has
  <2>2. CASE PhaseDone(Current)
    BY <2>1, <2>2 DEF PhaseInv, Watched, Works
  <2>3. CASE ~PhaseDone(Current)
    <3>1. PICK o \in scene.phases[Current] : ~obj[o].done
      BY <2>3 DEF PhaseDone
    <3>2. obj'[o].done /\ o \in Objectives
      BY <1>0, <1>4, <2>1, <3>1 DEF PhaseDone
    <3> QED
      BY <3>1, <3>2 DEF Works
  <2> QED
    BY <2>2, <2>3
<1> QED
  BY <1>2, <1>3, <1>4 DEF Watched

LEMMA AdvanceKeeps ==
    ASSUME PhaseInv, NEW t \in Tasks, Advances(t), Shape' PROVE (Untouched /\ Earned /\ Watched)'
<1> DEFINE ahead == {p \in Phases : p >= Current /\ ~PhaseDone(p)}
<1>0. /\ Shape /\ Held /\ UNCHANGED <<scene, obj>> /\ Phases' = Phases
      /\ Len(scene.phases) \in Nat \ {0} /\ Phases = 1..Len(scene.phases)
      /\ row.phase \in 0..Len(scene.phases) /\ row.status = "active"
  BY ScenePhases DEF PhaseInv, PhaseShape, Advances, TryAdvance, Phases, Shape, RowsOf, Held
<1>1. \A p \in Phases : PhaseDone(p)' = PhaseDone(p)
  BY <1>0 DEF PhaseDone
<1>2. \A p \in Phases : p < Current => PhaseDone(p)
  BY <1>0 DEF PhaseInv, Earned, Current
<1>3. ASSUME NEW next \in ahead, \A p \in ahead : next <= p, UNCHANGED hist,
             row' = [row EXCEPT !.phase = next]
      PROVE  (Untouched /\ Earned /\ Watched)'
  <2>1. row'.phase = next /\ row'.status = "active" /\ next \in Phases /\ ~PhaseDone(next)
    BY <1>0, <1>3 DEF Shape, RowsOf
  <2>2. \A p \in Phases : p < next => PhaseDone(p)
    BY <1>0, <1>2, <1>3 DEF Current
  <2>3. Current' = next
    BY <1>0, <2>1 DEF Current
  <2>4. Earned'
    BY <1>0, <1>1, <2>1, <2>2 DEF Earned
  <2> QED
    BY <1>1, <2>1, <2>3, <2>4 DEF Untouched, Watched
<1>4. ASSUME ahead = {}, hist' = [hist EXCEPT !.completed = @ + 1, !.forced = FALSE],
             row' = [row EXCEPT !.phase = Len(scene.phases), !.status = "completed"]
      PROVE  (Untouched /\ Earned /\ Watched)'
  <2>1. row'.status = "completed"
    BY <1>0, <1>4 DEF Shape, RowsOf
  <2>2. \A p \in Phases : PhaseDone(p)
    BY <1>0, <1>2, <1>4 DEF Current
  <2>3. Earned'
    BY <1>0, <1>1, <2>2 DEF Earned
  <2> QED
    BY <2>1, <2>3 DEF Untouched, Watched, Held
<1> QED
  BY <1>3, <1>4 DEF Advances, TryAdvance

LEMMA MarksKeep ==
    ASSUME PhaseInv, Renews \/ Marks \/ Assigns, Shape' PROVE (Untouched /\ Earned /\ Watched)'
<1>0. /\ Shape /\ UNCHANGED scene /\ Phases' = Phases /\ Phases = 1..Len(scene.phases)
      /\ Len(scene.phases) \in Nat \ {0}
      /\ \A p \in Phases : scene.phases[p] \subseteq Objectives /\ scene.phases[p] # {}
  BY ScenePhases DEF PhaseInv, PhaseShape, Renews, Marks, Assigns, Phases, Shape
<1>1. CASE Renews
  <2>1. \A o \in Objectives : ~obj'[o].done
    BY <1>0, <1>1, FreshOK DEF Renews
  <2>2. Current' = 1 /\ 1 \in Phases
    BY <1>0, <1>1 DEF Renews, Current
  <2>3. ~PhaseDone(Current)'
    BY <1>0, <2>1, <2>2 DEF PhaseDone
  <2>4. Earned'
    BY <1>0, <1>1 DEF Renews, Earned
  <2> QED
    BY <1>1, <2>1, <2>3, <2>4 DEF Renews, Untouched, Watched
<1>2. CASE Marks
  <2>1. \A p \in Phases : PhaseDone(p)' = PhaseDone(p)
    BY <1>0, <1>2 DEF Marks, PhaseDone
  <2>2. Earned'
    BY <1>0, <1>2, <2>1 DEF Marks, PhaseInv, Earned, Held
  <2> QED
    BY <1>2, <2>2 DEF Marks, Untouched, Watched, Held
<1>3. CASE Assigns
  <2>1. row.phase = 0 /\ row'.phase = 0 /\ \A o \in Objectives : ~obj'[o].done
    BY <1>3 DEF Assigns, PhaseInv, Untouched
  <2>2. Current' = 1 /\ 1 \in Phases
    BY <1>0, <2>1 DEF Current
  <2>3. ~PhaseDone(Current)'
    BY <1>0, <2>1, <2>2 DEF PhaseDone
  <2>4. Earned'
    BY <1>0, <1>3, <2>1 DEF Assigns, Earned
  <2> QED
    BY <1>3, <2>1, <2>3, <2>4 DEF Assigns, Untouched, Watched
<1> QED
  BY <1>1, <1>2, <1>3

LEMMA PhaseInit == Init => PhaseInv
<1> SUFFICES ASSUME Init PROVE PhaseInv
  OBVIOUS
<1>0. /\ Shape /\ Phases = 1..Len(scene.phases) /\ Len(scene.phases) \in Nat \ {0}
      /\ scene.need \in Nat \ {0} /\ scene.pack \in 0..MaxPack
      /\ \A p \in Phases : scene.phases[p] \subseteq Objectives /\ scene.phases[p] # {}
      /\ scene.status \in {"none", "active", "completed"}
  BY BookInit, ScenePhases DEF BookInv, Init
<1>1. ObjectivesOK
  BY <1>0 DEF Init, ObjectivesOK, ObjectiveRows, Leases, Fresh, AllDone
<1>2. TasksOK
  BY CarriesNothing DEF Init, TasksOK
<1>3. QueueOK
  BY QuestsAssumption DEF Init, QueueOK
<1>4. WorldOK
  <2>1. Unwatched \in [known : BOOLEAN, targets : BOOLEAN, signature : 0..MaxPack]
    BY QuestsAssumption DEF Unwatched
  <2> QED
    BY <1>0, <2>1 DEF Init, WorldOK
<1>5. VariablesTypeOK
  <2>1. IsRow(None) /\ IsBag(None)
    BY DEF None, IsRow, IsBag
  <2>2. /\ variables = None /\ bag = None /\ dirty = FALSE /\ stale = {}
        /\ flush = [f \in Flushers |-> NoFlush]
    BY DEF Init
  <2> QED
    BY <2>1, <2>2, NoFlushOK, BagsTyped DEF BagsOK
<1>6. row.phase = 0 /\ row.status = scene.status /\ hist.forced = FALSE
  BY DEF Init
<1>7. CASE scene.status = "completed"
  <2>1. \A o \in Objectives : obj[o].done
    BY <1>7 DEF Init, AllDone
  <2>2. Earned
    BY <1>0, <2>1 DEF Earned, PhaseDone
  <2> QED
    BY <1>0, <1>1, <1>2, <1>3, <1>4, <1>5, <1>6, <1>7, <2>2
       DEF PhaseInv, PhaseShape, DataOK, Untouched, Watched, Held
<1>8. CASE scene.status # "completed"
  <2>1. \A o \in Objectives : ~obj[o].done
    BY <1>8 DEF Init, Fresh
  <2>2. ~PhaseDone(Current)
    BY <1>0, <1>6, <2>1 DEF PhaseDone, Current
  <2>3. Earned
    BY <1>0, <1>6, <1>8 DEF Earned
  <2> QED
    BY <1>0, <1>1, <1>2, <1>3, <1>4, <1>5, <1>6, <2>1, <2>2, <2>3
       DEF PhaseInv, PhaseShape, DataOK, Untouched, Watched
<1> QED
  BY <1>7, <1>8

LEMMA PhaseInvariant == Spec => []PhaseInv
<1>1. ASSUME PhaseInv, [Next]_vars PROVE PhaseInv'
  <2>1. PhaseShape' /\ Shape' /\ PhaseStep
    BY <1>1, PhaseShapeKept, EveryPhaseStep DEF PhaseInv, PhaseShape
  <2>2. (Untouched /\ Earned /\ Watched)'
    BY <1>1, <2>1, WorksKeeps, AdvanceKeeps, MarksKeep DEF PhaseStep
  <2> QED
    BY <2>1, <2>2 DEF PhaseInv
<1> QED
  BY <1>1, PhaseInit, PTL DEF Spec

\* A phase is behind the quest, or the quest complete without staff, only with every
\* objective of it done, whatever stale checks, bumps and releases are under way
\* (PhasesEarned, with the types of the state): for any quest and any interleaving.
THEOREM PhasesAreEarned == Spec => []PhasesEarned
<1>1. PhaseInv => PhasesEarned
  <2> SUFFICES ASSUME PhaseInv PROVE PhasesEarned
    OBVIOUS
  <2>1. TypeOK
    BY DEF PhaseInv, PhaseShape, Shape, DataOK, ObjectivesOK, ObjectiveRows, Leases, QueueOK,
           WorldOK, RowsOf, Statuses, TypeOK
  <2> QED
    BY <2>1 DEF PhaseInv, Earned, PhasesEarned
<1> QED
  BY <1>1, PhaseInvariant, PTL

\* Whoever completes the last objective of a phase, by whatever path, is on the way to
\* advance_quest, as nobody else will be (NoneStranded).
THEOREM NobodyStranded == Spec => []NoneStranded
<1>1. PhaseInv => NoneStranded
  BY DEF PhaseInv, Watched, Advancing, NoneStranded, At
<1> QED
  BY <1>1, PhaseInvariant, PTL
-----------------------------------------------------------------------------
(* qreward.                                                                *)

\* No claim waits for its quest row while a new run has begun on that row: a
\* repeatable quest accepted again, or a row that staff have completed while an
\* accept was under way, between plan_claim and claim_reward.
Timely == \A t \in At("grant") : Exists(tasks[t].id) => row.status = "completed"

\* A completion whose reward r has not been claimed yet.
Owed(r) == IF row.status = "completed" /\ r \notin ClaimedRewards THEN 1 ELSE 0

\* The claim list is in no bag, so that no flush writes an older one back or
\* deletes it; and a reward not in the list has a completion it was not granted for.
ListInRowAlone ==
    /\ Claimed \notin DOMAIN bag
    /\ \A f \in Flushers : Claimed \notin DOMAIN flush[f].sets /\ Claimed \notin flush[f].clears
ClaimInv ==
    /\ ListInRowAlone
    /\ \A r \in Rewards : hist.granted[r] + Owed(r) <= hist.completed

\* Nothing is granted, and no completion is reopened for a claim.
NoClaim ==
    /\ UNCHANGED <<hist.granted, hist.completed>>
    /\ row'.status = "completed" =>
         row.status = "completed" /\ ClaimedRewards' = ClaimedRewards
\* The quest is completed.
Completion ==
    /\ UNCHANGED hist.granted /\ hist'.completed = hist.completed + 1
    /\ row.status = "active"
\* A reward is granted and listed.
Grants(r) ==
    /\ UNCHANGED <<row, hist.completed>> /\ r \in Rewards \ ClaimedRewards
    /\ ClaimedRewards' = ClaimedRewards \cup {r}
    /\ row.status = "completed"
    /\ hist'.granted = [hist.granted EXCEPT ![r] = @ + 1]

GrantStep == NoClaim \/ Completion \/ \E r \in Rewards : Grants(r)

LEMMA ClaimListed ==
    ASSUME NEW r
    PROVE  LET b == Over(Single(Claimed, ClaimedRewards \cup {r}), variables)
           IN  Claimed \in DOMAIN b /\ b[Claimed] = ClaimedRewards \cup {r}
BY DEF Over, Single

LEMMA ClaimGrants ==
    ASSUME PhaseShape, Timely, NEW t \in Tasks, ClaimReward(t)
    PROVE  GrantStep
<1> DEFINE r == tasks[t].reward
<1>1. r \in Rewards /\ UNCHANGED row
  BY DEF ClaimReward, PhaseShape, DataOK, TasksOK, Carries
<1>2. CASE Exists(tasks[t].id) /\ r \notin ClaimedRewards
  <2>1. row.status = "completed"
    BY <1>2 DEF Timely, At, ClaimReward
  <2>2. variables' = Over(Single(Claimed, ClaimedRewards \cup {r}), variables)
    BY <1>2 DEF ClaimReward
  <2>3. ClaimedRewards' = ClaimedRewards \cup {r}
    BY <2>2, ClaimListed DEF ClaimedRewards
  <2>4. /\ hist'.granted = [hist.granted EXCEPT ![r] = @ + 1]
        /\ hist'.completed = hist.completed
    BY <1>2 DEF ClaimReward, PhaseShape, Shape, Histories
  <2> QED
    BY <1>1, <1>2, <2>1, <2>3, <2>4 DEF Grants, GrantStep
<1>3. CASE ~(Exists(tasks[t].id) /\ r \notin ClaimedRewards)
  BY <1>1, <1>3 DEF ClaimReward, NoClaim, GrantStep, ClaimedRewards
<1> QED
  BY <1>2, <1>3

\* What the flush writes leaves the list alone.
LEMMA FlushSparesList ==
    ASSUME ListInRowAlone, NEW f \in Flushers, NEW e, NEW lost, FlushWrites(f, e, lost)
    PROVE  UNCHANGED ClaimedRewards
<1>1. ASSUME NEW sets, NEW S, Claimed \notin DOMAIN sets, Claimed \notin S,
             variables' = Over(sets, Restrict(variables, DOMAIN variables \ S))
      PROVE  /\ Claimed \in DOMAIN variables' <=> Claimed \in DOMAIN variables
             /\ Claimed \in DOMAIN variables' => variables'[Claimed] = variables[Claimed]
  BY <1>1 DEF Over, Restrict
<1>2. \A S : Claimed \notin DOMAIN Restrict(flush[f].sets, DOMAIN flush[f].sets \cap S)
  BY DEF ListInRowAlone, Restrict
<1>3. \A S : Claimed \notin flush[f].clears \cap S
  BY DEF ListInRowAlone
<1>4. /\ Claimed \in DOMAIN variables' <=> Claimed \in DOMAIN variables
      /\ Claimed \in DOMAIN variables' => variables'[Claimed] = variables[Claimed]
  BY <1>1, <1>2, <1>3 DEF FlushWrites
<1> QED
  BY <1>4 DEF ClaimedRewards

LEMMA TasksGrant ==
    ASSUME PhaseShape, Timely, NEW t \in Tasks, TaskStep(t) \/ StatementFails(t)
    PROVE  GrantStep
<1>0. Shape
  BY DEF PhaseShape
<1>1. CASE ClaimReward(t)
  BY <1>1, ClaimGrants
<1>2. CASE Increment(t) \/ Enter(t) \/ Lookup(t) \/ SendTargets(t) \/ CheckRow(t)
           \/ SendClaimed(t) \/ Record(t) \/ Release(t) \/ Notice(t) \/ Finish(t)
  <2>1. UNCHANGED <<row, variables, hist>>
    BY <1>2 DEF Increment, Enter, Lookup, SendTargets, CheckRow, SendClaimed, Record, Release,
        Notice, Finish, RowsKept
  <2> QED
    BY <2>1 DEF NoClaim, GrantStep, ClaimedRewards
<1>3. CASE Pay(t) \/ StatementFails(t)
  <2>1. UNCHANGED <<row, variables, hist.granted, hist.completed>>
    BY <1>0, <1>3 DEF Pay, StatementFails, RowsKept, Shape, Histories
  <2> QED
    BY <2>1 DEF NoClaim, GrantStep, ClaimedRewards
<1>4. CASE Insert(t)
  <2>1. row'.status = "active" /\ UNCHANGED <<hist.granted, hist.completed>>
    BY <1>0, <1>4 DEF Insert, Shape, RowsOf, Histories
  <2> QED
    BY <2>1 DEF NoClaim, GrantStep
<1>5. CASE TryAdvance(t)
  <2>1. \/ UNCHANGED <<row.status, variables, hist>>
        \/ Held /\ hist' = [hist EXCEPT !.completed = @ + 1, !.forced = FALSE]
    BY <1>0, <1>5 DEF TryAdvance, Shape, RowsOf
  <2>2. CASE Held /\ hist' = [hist EXCEPT !.completed = @ + 1, !.forced = FALSE]
    BY <1>0, <2>2 DEF Completion, GrantStep, Held, Shape, Histories
  <2>3. CASE UNCHANGED <<row.status, variables, hist>>
    BY <2>3 DEF NoClaim, GrantStep, ClaimedRewards
  <2> QED
    BY <2>1, <2>2, <2>3
<1> QED
  BY <1>1, <1>2, <1>3, <1>4, <1>5 DEF TaskStep

LEMMA EveryGrantStep ==
    ASSUME PhaseShape, ListInRowAlone, Timely, [Next]_vars
    PROVE  GrantStep
<1>0. Shape
  BY DEF PhaseShape
<1>1. ASSUME NEW t \in Tasks, TaskStep(t) \/ StatementFails(t) PROVE GrantStep
  BY <1>1, TasksGrant
<1>2. CASE \/ Drain \/ WatchTick \/ Bump \/ Gates \/ PlanClaim \/ LeaseExpires
          \/ PackChanges \/ PresenceChanges \/ Crash \/ Returns \/ UNCHANGED vars
  <2>1. UNCHANGED <<row, variables>>
    BY <1>2 DEF Drain, WatchTick, Bump, Gates, PlanClaim, LeaseExpires, PackChanges,
        PresenceChanges, Crash, Returns, RowsKept, Hydrate, vars, qvars, vvars
  <2>2. UNCHANGED <<hist.granted, hist.completed>>
    BY <1>0, <1>2 DEF Drain, WatchTick, Bump, Gates, PlanClaim, LeaseExpires, PackChanges,
        PresenceChanges, Crash, Returns, Moves, Shape, Histories, vars, qvars
  <2> QED
    BY <2>1, <2>2 DEF NoClaim, GrantStep, ClaimedRewards
<1>3. CASE Ends \/ Reset \/ Assign
  <2>1. row'.status # "completed" /\ UNCHANGED <<hist.granted, hist.completed>>
    BY <1>0, <1>3 DEF Ends, Reset, Assign, Shape, RowsOf, Histories
  <2> QED
    BY <2>1 DEF NoClaim, GrantStep
<1>4. CASE ForceComplete
  BY <1>0, <1>4 DEF ForceComplete, Completion, GrantStep, Held, Shape, Histories
<1>5. CASE Scripts
  <2>1. UNCHANGED <<row, variables, hist.granted, hist.completed>>
    BY <1>0, <1>5 DEF Scripts, SetVar, ClearVar, Moves, Shape, Histories
  <2> QED
    BY <2>1 DEF NoClaim, GrantStep, ClaimedRewards
<1>6. CASE Flushes \/ FlushFails
  <2>1. UNCHANGED ClaimedRewards
    BY <1>6, FlushSparesList DEF Flushes, FlushFails, FlushTick, ClaimedRewards
  <2>2. UNCHANGED <<row, hist.granted, hist.completed>>
    BY <1>0, <1>6 DEF Flushes, FlushFails, Shape, Histories
  <2> QED
    BY <2>1, <2>2 DEF NoClaim, GrantStep
<1> QED
  BY <1>1, <1>2, <1>3, <1>4, <1>5, <1>6 DEF Next

\* Scripts have a key of their own, the boot leaves the list out (hydrate_bag).
LEMMA ListStaysInRow == ASSUME PhaseShape, ListInRowAlone, [Next]_vars PROVE ListInRowAlone'
<1>0. FlushesOK(flush)
  BY BagsTyped DEF PhaseShape, DataOK, BagsOK
<1>1. ASSUME UNCHANGED <<bag, flush>> PROVE ListInRowAlone'
  BY <1>1 DEF ListInRowAlone
<1>2. CASE ResetQuest
  BY <1>0, <1>2, OvertakenOK DEF ResetQuest, ListInRowAlone, None
<1>3. CASE SetVar \/ ClearVar
  BY <1>3 DEF SetVar, ClearVar, ListInRowAlone, Over, Single, Stage, Claimed
<1>4. CASE FlushTick
  <2> DEFINE dead == {k \in DOMAIN bag : bag[k] = Tomb}
             task == [sets |-> bag', clears |-> dead, old |-> FALSE]
  <2>1. Claimed \notin DOMAIN bag' /\ Claimed \notin dead
    BY <1>4 DEF FlushTick, ListInRowAlone, Restrict
  <2>2. flush' = [Overtaken EXCEPT ![FreeFlusher] = task]
    BY <1>4 DEF FlushTick
  <2>3. task.sets = bag' /\ task.clears = dead
    OBVIOUS
  <2> HIDE DEF task
  <2>4. \A f \in Flushers : flush'[f] = task \/ flush'[f] = Overtaken[f]
    BY <2>2 DEF Overtaken
  <2> QED
    BY <1>0, <2>1, <2>3, <2>4, OvertakenOK DEF ListInRowAlone
<1>5. ASSUME NEW f \in Flushers, NEW e, NEW lost, FlushWrites(f, e, lost) PROVE ListInRowAlone'
  <2>1. \A g \in Flushers : flush'[g] = NoFlush \/ flush'[g] = flush[g]
    BY <1>0, <1>5 DEF FlushWrites, FlushesOK
  <2> QED
    BY <1>5, <2>1 DEF FlushWrites, ListInRowAlone, NoFlush, None
<1>6. CASE Crash
  BY <1>6 DEF Crash, Hydrate, ListInRowAlone, NoFlush, None, Restrict
<1>7. CASE UNCHANGED vars
  BY <1>1, <1>7 DEF vars, vvars
<1>8. ASSUME NEW t \in Tasks, TaskStep(t) \/ StatementFails(t)
      PROVE  ResetQuest \/ UNCHANGED <<bag, flush>>
  BY <1>8 DEF TaskStep, StatementFails, Increment, TryAdvance, Enter, Pay, Lookup, SendTargets,
      CheckRow, SendClaimed, Record, Release, Insert, Notice, Finish, ClaimReward, CacheKept
<1>9. CASE \/ Drain \/ WatchTick \/ Bump \/ Gates \/ Assign \/ PlanClaim \/ LeaseExpires
          \/ PackChanges \/ PresenceChanges \/ Ends \/ ForceComplete \/ Reset \/ Returns
  <2>1. ResetQuest \/ UNCHANGED <<bag, flush>>
    BY <1>9 DEF Drain, WatchTick, Bump, Gates, Assign, PlanClaim, LeaseExpires, PackChanges,
        PresenceChanges, Ends, ForceComplete, Reset, Returns, CacheKept
  <2> QED
    BY <1>1, <1>2, <2>1
<1> QED
  BY <1>1, <1>2, <1>3, <1>4, <1>5, <1>6, <1>7, <1>8, <1>9 DEF Next, Scripts, Flushes, FlushFails

LEMMA GrantsKeep ==
    ASSUME Shape, Shape', ClaimInv, GrantStep, ListInRowAlone'
    PROVE  ClaimInv'
<1>0. hist.completed \in Nat /\ hist'.completed \in Nat
      /\ hist.granted \in [Rewards -> Nat] /\ hist'.granted \in [Rewards -> Nat]
  BY DEF Shape, Histories
<1> SUFFICES ASSUME NEW q \in Rewards
             PROVE  hist'.granted[q] + Owed(q)' <= hist'.completed
  BY DEF ClaimInv
<1>1. hist.granted[q] + Owed(q) <= hist.completed
      /\ Owed(q) \in 0..1 /\ Owed(q)' \in 0..1
  BY DEF ClaimInv, Owed
<1>2. CASE NoClaim
  <2>1. Owed(q)' <= Owed(q)
    BY <1>2 DEF NoClaim, Owed
  <2> QED
    BY <1>0, <1>1, <1>2, <2>1 DEF NoClaim
<1>3. CASE Completion
  BY <1>0, <1>1, <1>3 DEF Completion
<1>4. ASSUME NEW r \in Rewards, Grants(r) PROVE hist'.granted[q] + Owed(q)' <= hist'.completed
  <2>1. CASE q = r
    <3>1. Owed(q) = 1 /\ Owed(q)' = 0
      BY <1>4, <2>1 DEF Grants, Owed
    <3> QED
      BY <1>0, <1>1, <1>4, <2>1, <3>1 DEF Grants
  <2>2. CASE q # r
    <3>1. Owed(q)' = Owed(q)
      BY <1>4, <2>2 DEF Grants, Owed
    <3> QED
      BY <1>0, <1>1, <1>4, <2>2, <3>1 DEF Grants
  <2> QED
    BY <2>1, <2>2
<1> QED
  BY <1>2, <1>3, <1>4 DEF GrantStep

LEMMA ClaimInit == Init => ClaimInv
<1> SUFFICES ASSUME Init PROVE ClaimInv
  OBVIOUS
<1>1. ListInRowAlone
  BY DEF Init, ListInRowAlone, None, NoFlush
<1>2. ASSUME NEW r \in Rewards PROVE hist.granted[r] + Owed(r) <= hist.completed
  BY DEF Init, Owed
<1> QED
  BY <1>1, <1>2 DEF ClaimInv

\* A reward of qreward is granted once for each completion (GrantedOnce), if every
\* claim that finds its row finds it completed: for any rewards, tasks, scripts, flushes
\* and crashes between the plan of a claim and its transaction.
THEOREM ClaimsGrantedOnce == Spec /\ []Timely => []GrantedOnce
<1>1. PhaseInv /\ PhaseInv' /\ ClaimInv /\ Timely /\ [Next]_vars => ClaimInv'
  <2>1. PhaseInv => PhaseShape /\ Shape
    BY DEF PhaseInv, PhaseShape
  <2>2. PhaseInv' => Shape'
    BY DEF PhaseInv, PhaseShape
  <2> QED
    BY <2>1, <2>2, EveryGrantStep, ListStaysInRow, GrantsKeep DEF ClaimInv
<1>2. PhaseInv /\ ClaimInv => GrantedOnce
  <2> SUFFICES ASSUME PhaseInv, ClaimInv, NEW r \in Rewards
               PROVE  hist.granted[r] <= hist.completed
    BY DEF GrantedOnce
  <2>1. hist.completed \in Nat /\ hist.granted \in [Rewards -> Nat]
    BY DEF PhaseInv, PhaseShape, Shape, Histories
  <2>2. hist.granted[r] + Owed(r) <= hist.completed /\ Owed(r) \in 0..1
    BY DEF ClaimInv, Owed
  <2> QED
    BY <2>1, <2>2
<1> QED
  BY <1>1, <1>2, ClaimInit, PhaseInvariant, PTL DEF Spec

\* A quest that is taken once, and has no staff about it, has its claims in time.
ClaimedInTime(sc) ==
    "claim" \in sc.features => ~sc.repeatable /\ "staff" \notin sc.features

\* A claim under way has its quest complete.
Awaited == At("grant") # {} => Has("claim") /\ row.status = "completed"

LEMMA GrantMoving ==
    ASSUME Shape, NEW t \in Tasks, NEW task, Goes(t, task), task.pc # "grant"
    PROVE  At("grant")' \subseteq At("grant")
BY DEF Shape, Goes, At

LEMMA GrantStarting ==
    ASSUME Shape, NEW task, Starts(task), task.pc # "grant"
    PROVE  At("grant")' \subseteq At("grant")
<1>1. Slot \in Tasks /\ Goes(Slot, task)
  BY DEF Starts, Slot
<1> QED
  BY <1>1, GrantMoving

LEMMA GrantRechecking ==
    ASSUME Shape, NEW n, Rechecks(n)
    PROVE  At("grant")' \subseteq At("grant")
BY GrantStarting DEF Rechecks, At

\* Only plan_claim begins a claim.
LEMMA ClaimsPlanned ==
    ASSUME Shape, [Next]_vars
    PROVE  PlanClaim \/ At("grant")' \subseteq At("grant")
<1>0. /\ Idle.pc = "idle"
      /\ \A task, todo : NextRow(task, todo).pc \in {"idle", "rows"}
  BY DEF Idle, NextRow
<1>1. ASSUME NEW t \in Tasks, TaskStep(t) \/ StatementFails(t)
      PROVE  \E task : Goes(t, task) /\ task.pc # "grant"
  <2>1. CASE Increment(t) \/ Enter(t) \/ Pay(t) \/ Lookup(t) \/ SendTargets(t)
    BY <1>0, <2>1 DEF Increment, Enter, Pay, Lookup, SendTargets
  <2>2. CASE TryAdvance(t)
    <3>1. \A next : (IF next > Current THEN [pc |-> "enter"] ELSE Idle).pc # "grant"
      BY <1>0
    <3> QED
      BY <1>0, <2>2, <3>1 DEF TryAdvance
  <2>3. CASE CheckRow(t)
    <3>1. PICK task : Goes(t, task) /\ task.pc \in {"idle", "rows", "claimed"}
      BY <1>0, <2>3 DEF CheckRow
    <3> QED
      BY <3>1
  <2>4. CASE SendClaimed(t) \/ Record(t) \/ Release(t)
    BY <1>0, <2>4 DEF SendClaimed, Record, Release
  <2>5. CASE Insert(t) \/ Notice(t) \/ Finish(t) \/ ClaimReward(t)
    BY <1>0, <2>5 DEF Insert, Notice, Finish, ClaimReward
  <2>6. CASE StatementFails(t)
    BY <1>0, <2>6 DEF StatementFails
  <2> QED
    BY <1>1, <2>1, <2>2, <2>3, <2>4, <2>5, <2>6 DEF TaskStep
<1>2. CASE \E t \in Tasks : TaskStep(t) \/ StatementFails(t)
  BY <1>1, <1>2, GrantMoving
<1>3. CASE Drain
  BY <1>3, GrantRechecking, GrantStarting DEF Drain, At
<1>4. CASE WatchTick \/ Assign
  BY <1>4, GrantRechecking DEF WatchTick, Assign
<1>5. CASE Bump \/ Gates
  BY <1>5, GrantStarting DEF Bump, Gates
<1>6. CASE Crash
  BY <1>6 DEF Crash, Idle, At
<1>7. CASE \/ LeaseExpires \/ PackChanges \/ PresenceChanges \/ Ends \/ ForceComplete
          \/ Reset \/ Scripts \/ Flushes \/ FlushFails \/ Returns \/ UNCHANGED vars
  <2>1. UNCHANGED tasks
    BY <1>7 DEF LeaseExpires, PackChanges, PresenceChanges, Ends, ForceComplete, Reset, Scripts,
        Flushes, FlushFails, Returns, vars, qvars
  <2> QED
    BY <2>1 DEF At
<1> QED
  BY <1>2, <1>3, <1>4, <1>5, <1>6, <1>7 DEF Next

\* No accept that had passed the gates revives a completed row: no two of them are under
\* way together, or the one that takes the row is not behind the completion of its run.
NoneRevived == hist.revived = 0

\* A quest that was completed stays so, where nobody takes it again.
LEMMA StaysCompleted ==
    ASSUME BookInv, BookStep, Unrepeated, NoneRevived, NoneRevived', row.status = "completed"
    PROVE  row'.status = "completed"
<1>1. ~Has("staff") /\ ~Held
  BY DEF Unrepeated, Held
<1>2. CASE Quiet \/ Dies
  BY <1>2 DEF Quiet, Calm, Dies
<1>3. CASE Takes \/ Drops \/ Forces
  BY <1>1, <1>3 DEF Takes, Drops, Forces, NoneRevived
<1>4. CASE \E t \in Tasks : Completes(t) \/ Settles(t)
  BY <1>4 DEF Completes, Settles
<1> QED
  BY <1>2, <1>3, <1>4 DEF BookStep

LEMMA AwaitedKept ==
    ASSUME BookInv, Awaited, ClaimedInTime(scene), NoneRevived, NoneRevived', [Next]_vars
    PROVE  Awaited'
<1>0. Shape /\ BookStep /\ UNCHANGED scene
  BY EveryBookStep, RowShape DEF BookInv
<1>1. CASE PlanClaim
  BY <1>0, <1>1 DEF PlanClaim, RowsKept, Awaited, Has
<1>2. CASE At("grant")' \subseteq At("grant")
  <2> SUFFICES ASSUME At("grant")' # {}
               PROVE  (Has("claim") /\ row.status = "completed")'
    BY DEF Awaited
  <2>1. Has("claim") /\ row.status = "completed"
    BY <1>2 DEF Awaited
  <2>2. Unrepeated
    BY <2>1 DEF ClaimedInTime, Unrepeated, Has
  <2>3. row'.status = "completed"
    BY <1>0, <2>1, <2>2, StaysCompleted
  <2> QED
    BY <1>0, <2>1, <2>3 DEF Has
<1> QED
  BY <1>0, <1>1, <1>2, ClaimsPlanned

\* Claims are in time, and so granted once, where a quest with rewards to claim is not
\* repeatable, staff leave it alone (qreset deletes the row) and no accept that passed the
\* gates before the quest was completed revives it (NoneRevived): accept_for_player
\* writes the row without a second look.
THEOREM ClaimsInTime ==
    (\A sc \in Scenes : ClaimedInTime(sc))
        => (Spec /\ []NoneRevived => [](Timely /\ GrantedOnce))
<1> DEFINE Fit == \A sc \in Scenes : ClaimedInTime(sc)
<1>1. BookInv /\ Fit => ClaimedInTime(scene)
  BY DEF BookInv, Shape
<1>2. Init => Awaited
  BY DEF Init, Awaited, At, Idle
<1>3. BookInv /\ Fit /\ Awaited /\ NoneRevived /\ NoneRevived' /\ [Next]_vars => Awaited'
  BY <1>1, AwaitedKept
<1>4. Awaited => Timely
  BY DEF Awaited, Timely
<1>5. Fit /\ Spec /\ []NoneRevived => []Timely
  <2>1. CASE Fit
    BY <2>1, <1>2, <1>3, <1>4, BookInvariant, PTL DEF Spec
  <2>2. CASE ~Fit
    BY <2>2
  <2> QED
    BY <2>1, <2>2
<1> HIDE DEF Fit
<1>6. Fit => (Spec /\ []NoneRevived => [](Timely /\ GrantedOnce))
  BY <1>5, ClaimsGrantedOnce, PTL
<1> QED
  BY <1>6 DEF Fit
=============================================================================
