------------------------------ MODULE Commands ------------------------------
(***************************************************************************)
(* One player's command lines.  A line typed while a spell winds up, a wait *)
(* state runs or a command's database work is out may have to wait in the   *)
(* player's queue; the tick lets one waiting line out at a time.  A cast    *)
(* holds a spell slot back from its start to its landing.  A mail draft     *)
(* takes the lines typed while it is open.                                  *)
(*                                                                         *)
(* The world thread dispatches one message or one part of a tick at a time; *)
(* only the database work of a job runs beside it.  A tick goes through the *)
(* finished jobs, the clock and the wind-up, what befalls the player, and   *)
(* the queue, in that order.                                                *)
(***************************************************************************)
EXTENDS Naturals, Sequences, FiniteSets, SequencesExt

CONSTANTS
    Scenarios,    \* what one player types: kinds of lines, or aliases of several
    QueueCap,     \* MAX_QUEUED_LINES
    WindUp,       \* ticks of a wind-up
    CastLag,      \* CAST_LAG_TICKS
    PostCastLag,  \* POST_CAST_LAG_TICKS
    MaxSlots,     \* slots of the spell's circle
    Mishaps,      \* what can befall the player: "hurt", "falter", "die", "drop"
    MaxTyped,     \* bound: lines typed
    MaxMishaps,   \* bound: mishaps
    MaxReturns    \* bound: connections after the first

\* Blocked: refused or held during a wind-up.  Flush: throws the queue away.
Blocked == {"move", "cast", "read", "quest", "mail", "quit"}
Flush == {"abort"}
Stages == [read |-> 1, quest |-> 2, mail |-> 1, send |-> 1]
\* Allowed mid-cast: an information command, and the composer's verbs, which are
\* unknown commands outside a draft.
Allowed == {"look", "send", "discard"}
Kinds == Blocked \cup Flush \cup Allowed

ASSUME CommandsAssumption ==
    /\ \A inputs \in Scenarios : inputs \subseteq Seq(Kinds) \ {<<>>}
    /\ Mishaps \subseteq {"hurt", "falter", "die", "drop"}
    /\ {QueueCap, WindUp, MaxSlots} \subseteq Nat \ {0}
    /\ {CastLag, PostCastLag, MaxTyped, MaxMishaps, MaxReturns} \subseteq Nat

VARIABLES
    phase,    \* where the world thread is: "open" between ticks, or a tick's part
    run,      \* the typed line being dispatched: AliasRun and its lines
    queue,    \* InputQueue.lines
    wait,     \* WaitState, in ticks left
    lag,      \* casting::CastLag, in ticks left
    casting,  \* Casting: ticks left, and the reservation it owns
    hold,     \* SlotHold
    slots,    \* SpellSlots: reservations, slots recovering, next id
    busy,     \* AsyncBusy
    jobs,     \* database work spawned by commands
    draft,    \* MailDraft or BoardDraft
    ghost,    \* the player is dead
    linked,   \* a connection plays the body
    body,     \* number of the entity
    inputs,   \* what this player types
    typed,    \* lines typed so far
    life,     \* history: deaths and lost connections so far
    ran,      \* history: the last line that was let through
    ledger,   \* history: slots charged by landed casts, slots recovered
    spent     \* bounds used up: mishaps, returns

playVars == <<wait, lag, casting, hold, slots>>
bodyVars == <<draft, ghost, linked, body>>
histVars == <<life, ledger, spent, inputs>>
vars == <<phase, run, queue, playVars, busy, jobs, bodyVars, typed, ran, histVars>>

-----------------------------------------------------------------------------
NoCast == [left |-> 0, slot |-> 0]
NoRun == [lines |-> <<>>, alias |-> FALSE, deferred |-> FALSE]
NoLine == [n |-> 0, kind |-> "look", life |-> 0, how |-> "command"]

Casting == casting # NoCast
Larger(a, b) == IF a > b THEN a ELSE b
Less1(n) == IF n = 0 THEN 0 ELSE n - 1
Open == phase = "open" /\ run = NoRun

\* must_wait: the cast lock would refuse the line, or the wait state holds it.
MustWait(l) ==
    \/ wait > 0
    \/ Casting /\ l.kind \in Blocked
    \/ lag > 0 /\ l.kind = "cast"

\* Mutant: a job does not hold the lines behind it.
Defers_NoBusy(l, waiting) ==
    \/ wait > 0
    \/ /\ run.alias \/ waiting
       /\ \/ run.deferred
          \/ MustWait(l)
          \/ waiting /\ ~Casting

\* defer_if_needed, past the flush: an expansion that has begun to wait goes on
\* waiting, and behind waiting lines only those allowed mid-cast run.
Defers(l, waiting) ==
    \/ wait > 0
    \/ busy
    \/ /\ run.alias \/ waiting
       /\ \/ run.deferred
          \/ MustWait(l)
          \/ waiting /\ ~Casting

Init ==
    /\ phase = "open" /\ run = NoRun /\ queue = <<>>
    /\ wait = 0 /\ lag = 0 /\ casting = NoCast /\ hold = 0
    /\ slots = [reserved |-> {}, cooling |-> 0, next |-> 1]
    /\ busy = FALSE /\ jobs = {}
    /\ draft = FALSE /\ ghost = FALSE /\ linked = TRUE /\ body = 1
    /\ inputs \in Scenarios /\ typed = 0 /\ ran = NoLine
    /\ life = 0 /\ ledger = [charged |-> 0, recovered |-> 0]
    /\ spent = [mishaps |-> 0, returns |-> 0]

-----------------------------------------------------------------------------
(* Slots.                                                                  *)

\* settle_slot: a charge turns exactly this reservation into a cooldown, else
\* it is given back; a reservation already settled is left alone.
Settled(id, charge) ==
    [slots EXCEPT !.reserved = @ \ {id},
                  !.cooling = IF charge /\ id \in slots.reserved THEN @ + 1 ELSE @]

\* Mutant: a wind-up cut short keeps its slot reserved.
CastEnds_KeepsSlot(lagging) ==
    /\ casting' = NoCast
    /\ UNCHANGED slots
    /\ lag' = IF Casting /\ lagging THEN CastLag ELSE lag

\* end_cast, then the lag an abort or an interruption leaves.
CastEnds(lagging) ==
    /\ casting' = NoCast
    /\ slots' = Settled(casting.slot, FALSE)
    /\ lag' = IF Casting /\ lagging THEN CastLag ELSE lag

\* pick_spell_slot: what recovers and what is reserved is not free.
SlotFree == slots.cooling + Cardinality(slots.reserved) < MaxSlots

-----------------------------------------------------------------------------
(* What a command does once it is let through.                             *)

\* off_tick::spawn: the player is busy until the work's finish step has run.
SpawnJob(kind, stage) ==
    /\ busy' = TRUE
    /\ jobs' = jobs \cup {[n |-> ran'.n, body |-> body, kind |-> kind, stage |-> stage,
                           at |-> "working"]}

\* Nothing but a message: the cast lock, the ghost gate, the lag, or one of the
\* many refusals of a command.
Refused(l) ==
    /\ l.kind \in Flush => ghost
    /\ UNCHANGED <<playVars, busy, jobs, linked, life>>

\* A cast that winds up: it takes a slot, or is outside the slot model.
StartCast(l) ==
    /\ l.kind = "cast" /\ ~Casting /\ lag = 0 /\ ~ghost
    /\ \/ /\ SlotFree
          /\ slots' = [slots EXCEPT !.reserved = @ \cup {slots.next}, !.next = @ + 1]
          /\ casting' = [left |-> WindUp, slot |-> slots.next]
       \/ casting' = [left |-> WindUp, slot |-> 0] /\ UNCHANGED slots
    /\ UNCHANGED <<wait, lag, hold, busy, jobs, linked, life>>

\* cmd_abort.
Abort(l) ==
    /\ l.kind \in Flush
    /\ CastEnds(TRUE)
    /\ UNCHANGED <<wait, hold, busy, jobs, linked, life>>

\* A command whose database work runs off the tick.
StartJob(l) ==
    /\ l.kind \in {"read", "quest", "mail"} /\ ~Casting /\ ~ghost
    /\ SpawnJob(l.kind, 1)
    /\ UNCHANGED <<playVars, linked, life>>

\* begin_quit, then on_disconnect of the connection.
Quit(l) ==
    /\ l.kind = "quit" /\ ~Casting
    /\ linked' = FALSE /\ life' = life + 1
    /\ UNCHANGED <<playVars, busy, jobs>>

\* The line is dispatched with waiting lines behind it, which a quit drops.
Does(l, waiting) ==
    /\ Refused(l) \/ StartCast(l) \/ Abort(l) \/ StartJob(l) \/ Quit(l)
    /\ queue' = IF linked' THEN waiting ELSE <<>>

\* The line is let through to the dispatcher.
LetThrough(l, how) ==
    ran' = [n |-> l.n, kind |-> l.kind, life |-> l.life, how |-> how]

-----------------------------------------------------------------------------
(* Typing.                                                                 *)

\* on_line of a playing connection.  An alias stands for several lines; while a
\* draft is open nothing is expanded.
Type(input) ==
    /\ Open /\ linked /\ typed + Len(input) <= MaxTyped
    /\ draft => Len(input) = 1
    /\ typed' = typed + Len(input)
    /\ run' = [lines |-> [i \in DOMAIN input |->
                            [n |-> typed + i, kind |-> input[i], life |-> life]],
               alias |-> Len(input) > 1, deferred |-> FALSE]
    /\ UNCHANGED <<phase, queue, playVars, busy, jobs, bodyVars, ran, histVars>>

\* The next line of the run; a quit ends the run.
NextLine(deferred) ==
    run' = IF Len(run.lines) = 1 \/ linked' = FALSE THEN NoRun
           ELSE [run EXCEPT !.lines = Tail(@), !.deferred = @ \/ deferred]

\* push: a full queue drops the line.
Pushed(q, l) == IF Len(q) >= QueueCap THEN q ELSE Append(q, l)

\* A line that has to wait joins the queue, which a flush verb empties first.
Defer ==
    LET l == Head(run.lines)
        flushes == l.kind \in Flush /\ queue # <<>>
    IN  /\ run # NoRun /\ ~draft
        /\ IF flushes THEN wait > 0 ELSE Defers(l, queue # <<>>)
        /\ queue' = Pushed(IF flushes THEN <<>> ELSE queue, l)
        /\ UNCHANGED linked /\ NextLine(TRUE)
        /\ UNCHANGED <<phase, playVars, busy, jobs, draft, ghost, body, typed, ran,
                       histVars>>

\* A line that need not wait is dispatched.  A flush verb throws the waiting
\* lines away and does not wait for a job.
Dispatch ==
    LET l == Head(run.lines)
        flushes == l.kind \in Flush /\ queue # <<>>
    IN  /\ run # NoRun /\ ~draft
        /\ IF flushes THEN wait = 0 ELSE ~Defers(l, queue # <<>>)
        /\ LetThrough(l, "command") /\ Does(l, IF flushes THEN <<>> ELSE queue)
        /\ NextLine(FALSE)
        /\ UNCHANGED <<phase, draft, ghost, body, inputs, typed, ledger, spent>>

\* compose_mail_step, compose_board_step: with a draft open every line is the
\* composer's, which neither queues it nor looks at the queue.  A send without a
\* subject or a body is refused; else the draft leaves the player with it.
Compose ==
    LET l == Head(run.lines)
    IN  /\ run # NoRun /\ draft
        /\ LetThrough(l, "draft")
        /\ \/ l.kind = "send" /\ draft' = FALSE /\ SpawnJob("send", 1)
           \/ l.kind = "discard" /\ draft' = FALSE /\ UNCHANGED <<busy, jobs>>
           \/ l.kind # "discard" /\ UNCHANGED <<draft, busy, jobs>>
        /\ UNCHANGED linked /\ NextLine(FALSE)
        /\ UNCHANGED <<phase, queue, playVars, ghost, body, typed, histVars>>

-----------------------------------------------------------------------------
(* Database work.                                                          *)

\* The work ends, fails, panics, or is given up on after JOB_TIMEOUT.
WorkEnds(j) ==
    /\ j.at = "working"
    /\ \E outcome \in {"ok", "error", "abandoned"} :
         jobs' = (jobs \ {j}) \cup {[j EXCEPT !.at = outcome]}
    /\ UNCHANGED <<phase, run, queue, playVars, busy, bodyVars, typed, ran,
                   histVars>>

-----------------------------------------------------------------------------
(* The tick.                                                               *)

BeginTick ==
    /\ Open
    /\ phase' = "jobs"
    /\ UNCHANGED <<run, queue, playVars, busy, jobs, bodyVars, typed, ran,
                   histVars>>

Mine(j) == j.body = body
Answered == {j \in jobs : j.at # "working"}

\* Mutant: work given up on leaves its player busy.
FinishJob_Strands(j) ==
    /\ phase = "jobs" /\ j \in Answered /\ Mine(j)
    /\ IF j.at = "ok" /\ j.stage < Stages[j.kind]
       THEN /\ busy' = TRUE
            /\ jobs' = (jobs \ {j}) \cup {[j EXCEPT !.stage = @ + 1, !.at = "working"]}
       ELSE busy' = (j.at = "abandoned") /\ jobs' = jobs \ {j}
    /\ draft' = (draft \/ (j.kind = "mail" /\ j.at = "ok")
                       \/ (j.kind = "send" /\ j.at = "error"))
    /\ UNCHANGED <<phase, run, queue, playVars, ghost, linked, body, typed, ran, histVars>>

\* drain_command_jobs: the player is released first, then the finish step runs.
\* It may start the command's next stage, open the draft a lookup was for, or
\* give back the draft of a failed send.
FinishJob(j) ==
    /\ phase = "jobs" /\ j \in Answered /\ Mine(j)
    /\ IF j.at = "ok" /\ j.stage < Stages[j.kind]
       THEN /\ busy' = TRUE
            /\ jobs' = (jobs \ {j}) \cup {[j EXCEPT !.stage = @ + 1, !.at = "working"]}
       ELSE busy' = FALSE /\ jobs' = jobs \ {j}
    /\ draft' = (draft \/ (j.kind = "mail" /\ j.at = "ok")
                       \/ (j.kind = "send" /\ j.at = "error"))
    /\ UNCHANGED <<phase, run, queue, playVars, ghost, linked, body, typed, ran,
                   histVars>>

\* Results for a body that has left are dropped.
JobsDone ==
    /\ phase = "jobs" /\ ~ \E j \in Answered : Mine(j)
    /\ jobs' = jobs \ Answered
    /\ phase' = "clock"
    /\ UNCHANGED <<run, queue, playVars, busy, bodyVars, typed, ran, histVars>>

\* advance_tick.
Clock ==
    /\ phase = "clock"
    /\ wait' = Less1(wait) /\ lag' = Less1(lag)
    /\ phase' = "cast"
    /\ UNCHANGED <<run, queue, casting, hold, slots, busy, jobs, bodyVars, typed,
                   ran,
                   histVars>>

NoWindUp ==
    /\ phase = "cast" /\ ~Casting
    /\ phase' = "mishap"
    /\ UNCHANGED <<run, queue, playVars, busy, jobs, bodyVars, typed, ran,
                   histVars>>

\* casting_tick: a dead caster just loses the wind-up; one that sleeps, is
\* suppressed or has lost the target is interrupted.
WindUpBreaks ==
    /\ phase = "cast" /\ Casting
    /\ \/ ghost /\ CastEnds(FALSE)
       \/ ~ghost /\ "hurt" \in Mishaps /\ CastEnds(TRUE)
    /\ phase' = "mishap"
    /\ UNCHANGED <<run, queue, wait, hold, busy, jobs, bodyVars, typed, ran,
                   histVars>>

\* casting_tick: one tick less; at the end the reservation is parked as a
\* SlotHold and the spell resolves.
WindUpTick ==
    /\ phase = "cast" /\ Casting /\ ~ghost
    /\ IF casting.left > 1
       THEN /\ casting' = [casting EXCEPT !.left = @ - 1]
            /\ phase' = "mishap" /\ UNCHANGED hold
       ELSE casting' = NoCast /\ hold' = casting.slot /\ phase' = "resolve"
    /\ UNCHANGED <<run, queue, wait, lag, slots, busy, jobs, bodyVars, typed, ran,
                   histVars>>

\* resolve_queued_cast: the hold is settled, by a charge if the spell goes off;
\* a resolution refused before it takes the hold leaves that to the tick.
Resolve ==
    /\ phase = "resolve"
    /\ \E landed \in BOOLEAN :
         /\ slots' = Settled(hold, landed)
         /\ ledger' = IF landed /\ hold # 0 THEN [ledger EXCEPT !.charged = @ + 1]
                      ELSE ledger
         /\ wait' = IF landed THEN Larger(wait, PostCastLag) ELSE wait
    /\ hold' = 0
    /\ phase' = "mishap"
    /\ UNCHANGED <<run, queue, lag, casting, busy, jobs, bodyVars, inputs, typed,
                   ran, life, spent>>

\* The combat, effect and fear systems: a blow breaks the chant, fear breaks it
\* and leaves a wait, death strips the queue.
Mishap ==
    /\ phase = "mishap" /\ spent.mishaps < MaxMishaps
    /\ \/ "hurt" \in Mishaps /\ Casting /\ CastEnds(TRUE)
          /\ UNCHANGED <<queue, wait, ghost, life>>
       \/ "falter" \in Mishaps /\ ~ghost /\ CastEnds(TRUE)
          /\ wait' = Larger(wait, CastLag) /\ UNCHANGED <<queue, ghost, life>>
       \/ "die" \in Mishaps /\ ~ghost /\ ghost' = TRUE
          /\ queue' = <<>> /\ life' = life + 1
          /\ UNCHANGED <<wait, lag, casting, slots>>
    /\ spent' = [spent EXCEPT !.mishaps = @ + 1]
    /\ phase' = "queue"
    /\ UNCHANGED <<run, hold, busy, jobs, draft, linked, body, inputs, typed,
                   ran, ledger>>

\* The spirit returns to its body.
Revived ==
    /\ phase = "mishap" /\ ghost
    /\ ghost' = FALSE
    /\ phase' = "queue"
    /\ UNCHANGED <<run, queue, playVars, busy, jobs, draft, linked, body, typed,
                   ran,
                   histVars>>

NoMishap ==
    /\ phase = "mishap"
    /\ phase' = "queue"
    /\ UNCHANGED <<run, queue, playVars, busy, jobs, bodyVars, typed, ran,
                   histVars>>

\* regen_tick: the slot at the head of the recovery queue is back.
SlotRecovers ==
    /\ phase = "mishap" /\ slots.cooling > 0
    /\ slots' = [slots EXCEPT !.cooling = @ - 1]
    /\ ledger' = [ledger EXCEPT !.recovered = @ + 1]
    /\ phase' = "queue"
    /\ UNCHANGED <<run, queue, wait, lag, casting, hold, busy, jobs, bodyVars,
                   inputs, typed, ran, life, spent>>

\* take_ready: the front line, unless it is still held.
Ready ==
    /\ linked /\ queue # <<>> /\ ~draft /\ ~busy
    /\ ~MustWait(Head(queue))

\* drain_input_queues, run_queued_input: at most one line, as it was expanded.
Replay ==
    /\ phase = "queue" /\ Ready
    /\ LetThrough(Head(queue), "command") /\ Does(Head(queue), Tail(queue))
    /\ phase' = "open"
    /\ UNCHANGED <<run, draft, ghost, body, inputs, typed, ledger, spent>>

NothingReady ==
    /\ phase = "queue" /\ ~Ready
    /\ phase' = "open"
    /\ UNCHANGED <<run, queue, playVars, busy, jobs, bodyVars, typed, ran,
                   histVars>>

-----------------------------------------------------------------------------
(* Connections.                                                            *)

\* on_disconnect: in a fight the body goes linkdead and its queue is cleared,
\* else it retires, at once or when its write turn is free.
LinkDrops ==
    /\ Open /\ linked
    /\ "drop" \in Mishaps /\ spent.mishaps < MaxMishaps
    /\ linked' = FALSE /\ life' = life + 1
    /\ queue' \in {<<>>, queue}
    /\ spent' = [spent EXCEPT !.mishaps = @ + 1]
    /\ UNCHANGED <<phase, run, playVars, busy, jobs, draft, ghost, body, inputs,
                   typed, ran, ledger>>

\* try_takeover of a body still in the world: what it was doing goes on, the
\* lines queued by the previous connection do not.
TakesBack ==
    /\ Open /\ ~linked /\ spent.returns < MaxReturns
    /\ linked' = TRUE /\ queue' = <<>>
    /\ spent' = [spent EXCEPT !.returns = @ + 1]
    /\ UNCHANGED <<phase, run, playVars, busy, jobs, draft, ghost, body, inputs,
                   typed, ran, life, ledger>>

\* The body was saved and despawned, and a login spawns a new one: recovering
\* slots are stored with the character, nothing else here is.
LogsInAgain ==
    /\ Open /\ ~linked /\ spent.returns < MaxReturns
    /\ linked' = TRUE /\ body' = body + 1 /\ queue' = <<>>
    /\ wait' = 0 /\ lag' = 0 /\ casting' = NoCast /\ hold' = 0
    /\ slots' = [slots EXCEPT !.reserved = {}, !.next = 1]
    /\ busy' = FALSE /\ draft' = FALSE
    /\ spent' = [spent EXCEPT !.returns = @ + 1]
    /\ UNCHANGED <<phase, run, jobs, ghost, inputs, typed, ran, life, ledger>>

-----------------------------------------------------------------------------
Tick == \/ JobsDone \/ Clock \/ NoWindUp \/ WindUpBreaks \/ WindUpTick
        \/ Resolve \/ Mishap \/ NoMishap \/ SlotRecovers
        \/ Revived \/ Replay \/ NothingReady
        \/ \E j \in jobs : FinishJob(j)
Dispatching == Defer \/ Dispatch \/ Compose
Works == \E j \in jobs : WorkEnds(j)

Next ==
    \/ Dispatching \/ BeginTick \/ Tick \/ Works
    \/ \E input \in inputs : Type(input)
    \/ LinkDrops \/ TakesBack \/ LogsInAgain

Spec == Init /\ [][Next]_vars

\* The main loop takes its turns and ticks, and work ends, at the latest by its
\* timeout.  What players and the game do to them is left open.
Fairness == WF_vars(Dispatching) /\ WF_vars(BeginTick) /\ WF_vars(Tick) /\ WF_vars(Works)

FairSpec == Spec /\ Fairness

-----------------------------------------------------------------------------
(* Properties.                                                             *)

\* Lines reach the dispatcher in the order they were typed, none before the
\* previous command's database work has been finished in the world, and none
\* after its typist died or lost the connection.  What is allowed mid-cast may
\* overtake during a wind-up, and an abort overtakes what it throws away.
LinesInOrder ==
    [][ran' # ran /\ ran'.how = "command" =>
          /\ ran'.life = life
          /\ \/ ran'.kind \in Flush
             \/ /\ ~ \E j \in jobs : Mine(j)
                /\ \/ Casting /\ ran'.kind \in Allowed
                   \/ \A l \in ToSet(queue') : l.n > ran'.n]_vars

\* Every reservation belongs to the wind-up under way or to the cast that is
\* landing, and a slot is charged for each landed cast that had one, once.
SlotsOwned ==
    /\ slots.reserved = {casting.slot, hold} \ {0}
    /\ slots.cooling + ledger.recovered = ledger.charged

\* A line that waits runs or is thrown away, unless its player leaves or keeps a
\* draft open.
Waits(n) == \E l \in ToSet(queue) : l.n = n
LinesRun ==
    \A n \in 1..MaxTyped : Waits(n) ~> (~Waits(n) \/ draft \/ ~linked)
=============================================================================
