--------------------------- MODULE CommandsProofs ---------------------------
(***************************************************************************)
(* The books of the spell slots balance, and a player's lines run in order, *)
(* whatever is typed, however casts end, and for any lengths of queue,     *)
(* delays and numbers of slots.                                            *)
(***************************************************************************)
EXTENDS Commands, TLAPS

-----------------------------------------------------------------------------
(* The slots.                                                              *)

CastType ==
    /\ casting \in [left : Nat, slot : Nat]
    /\ hold \in Nat
    /\ slots \in [reserved : SUBSET Nat, cooling : Nat, next : Nat \ {0}]
    /\ ledger \in [charged : Nat, recovered : Nat]

\* The world thread is in one place: a typed line is dispatched between ticks,
\* and a hold exists from the end of a wind-up to its resolution.
Places ==
    /\ run # NoRun => phase = "open"
    /\ hold # 0 => phase = "resolve" /\ casting = NoCast

\* SlotsOwned alone would not survive the end of a wind-up that finds another
\* hold, nor a cast that starts while one is open.
CastInv == CastType /\ Places /\ SlotsOwned

-----------------------------------------------------------------------------
(* What a step does to the slots.                                          *)

Same == UNCHANGED <<casting, hold, slots, ledger>>
Held == UNCHANGED <<hold, ledger>> /\ hold = 0

\* A wind-up starts, goes on, and ends in a resolution.
Starts ==
    /\ Held /\ ~Casting
    /\ \/ /\ slots' = [slots EXCEPT !.reserved = @ \cup {slots.next}, !.next = @ + 1]
          /\ casting' = [left |-> WindUp, slot |-> slots.next]
       \/ casting' = [left |-> WindUp, slot |-> 0] /\ UNCHANGED slots
GoesOn ==
    /\ Held /\ UNCHANGED slots /\ casting.left > 1
    /\ casting' = [casting EXCEPT !.left = @ - 1]
Parks ==
    /\ hold = 0 /\ UNCHANGED <<slots, ledger>> /\ phase' = "resolve"
    /\ casting' = NoCast /\ hold' = casting.slot

\* A wind-up ends early.
GivesBack == Held /\ casting' = NoCast /\ slots' = Settled(casting.slot, FALSE)

\* A spell lands or not.
Resolves ==
    /\ phase = "resolve" /\ UNCHANGED casting /\ hold' = 0
    /\ \E landed \in BOOLEAN :
         /\ slots' = Settled(hold, landed)
         /\ ledger' = IF landed /\ hold # 0 THEN [ledger EXCEPT !.charged = @ + 1]
                      ELSE ledger

\* A slot comes back; a new body has none reserved.
Recovers ==
    /\ hold = 0 /\ UNCHANGED <<casting, hold>> /\ slots.cooling > 0
    /\ slots' = [slots EXCEPT !.cooling = @ - 1]
    /\ ledger' = [ledger EXCEPT !.recovered = @ + 1]
StartsOver ==
    /\ casting' = NoCast /\ hold' = 0 /\ UNCHANGED ledger
    /\ slots' = [slots EXCEPT !.reserved = {}, !.next = 1]

SlotStep == Same \/ Starts \/ GoesOn \/ Parks \/ GivesBack \/ Resolves \/ Recovers \/ StartsOver

-----------------------------------------------------------------------------
(* Each of them keeps the books.                                           *)

\* Settling an id takes it out of the reservations, and charges it if it was in.
LEMMA SettledFields ==
    ASSUME CastType, NEW id, NEW charge \in BOOLEAN
    PROVE  /\ Settled(id, charge) \in [reserved : SUBSET Nat, cooling : Nat, next : Nat \ {0}]
           /\ Settled(id, charge).reserved = slots.reserved \ {id}
           /\ Settled(id, charge).cooling =
                IF charge /\ id \in slots.reserved THEN slots.cooling + 1 ELSE slots.cooling
<1> DEFINE after == IF charge /\ id \in slots.reserved THEN slots.cooling + 1
                    ELSE slots.cooling
<1>1. Settled(id, charge) = [slots EXCEPT !.reserved = slots.reserved \ {id}, !.cooling = after]
  BY DEF Settled
<1>2. after \in Nat
  BY DEF CastType
<1> HIDE DEF after
<1>3. Settled(id, charge) =
        [reserved |-> slots.reserved \ {id}, cooling |-> after, next |-> slots.next]
  BY <1>1 DEF CastType
<1>4. Settled(id, charge) \in [reserved : SUBSET Nat, cooling : Nat, next : Nat \ {0}]
  BY <1>2, <1>3 DEF CastType
<1> QED
  BY <1>3, <1>4 DEF after

\* A spell that resolves settles the only reservation there is.
LEMMA ResolveKeeps ==
    ASSUME CastInv, Resolves
    PROVE  CastType' /\ SlotsOwned'
<1> USE DEF CastInv
<1>1. PICK landed \in BOOLEAN :
          /\ slots' = Settled(hold, landed)
          /\ ledger' = IF landed /\ hold # 0 THEN [ledger EXCEPT !.charged = @ + 1]
                       ELSE ledger
  BY DEF Resolves
<1>2. slots' \in [reserved : SUBSET Nat, cooling : Nat, next : Nat \ {0}]
  BY <1>1, SettledFields
<1>3. ledger' \in [charged : Nat, recovered : Nat]
  BY <1>1 DEF CastType
<1>4. CastType'
  BY <1>2, <1>3 DEF CastType, Resolves
<1>5. /\ slots'.reserved = slots.reserved \ {hold}
      /\ slots'.cooling = IF landed /\ hold \in slots.reserved THEN slots.cooling + 1
                          ELSE slots.cooling
  BY <1>1, SettledFields
<1>6. hold = 0 \/ casting.slot = 0
  BY DEF Places, NoCast
<1>7. slots'.reserved = {casting'.slot, hold'} \ {0}
  BY <1>5, <1>6 DEF SlotsOwned, Resolves
<1>8. hold \in slots.reserved <=> hold # 0
  BY DEF SlotsOwned
<1>9. slots'.cooling + ledger'.recovered = ledger'.charged
  BY <1>1, <1>5, <1>8 DEF SlotsOwned, CastType
<1> QED
  BY <1>4, <1>7, <1>9 DEF SlotsOwned

\* A wind-up cut short gives back the only reservation there is.
LEMMA GiveBackKeeps ==
    ASSUME CastInv, GivesBack
    PROVE  CastType' /\ SlotsOwned'
<1> USE DEF CastInv
<1>1. /\ slots' \in [reserved : SUBSET Nat, cooling : Nat, next : Nat \ {0}]
      /\ slots'.reserved = slots.reserved \ {casting.slot}
      /\ slots'.cooling = slots.cooling
  BY SettledFields DEF GivesBack
<1>2. CastType'
  BY <1>1 DEF CastType, GivesBack, Held, NoCast
<1>3. slots'.reserved = {casting'.slot, hold'} \ {0}
  BY <1>1 DEF SlotsOwned, GivesBack, Held, NoCast
<1> QED
  BY <1>1, <1>2, <1>3 DEF SlotsOwned, GivesBack, Held

\* The remaining steps.
LEMMA OthersKeep ==
    ASSUME CastInv, Same \/ Starts \/ GoesOn \/ Parks \/ Recovers \/ StartsOver
    PROVE  CastType' /\ SlotsOwned'
<1> USE DEF CastInv, CastType, SlotsOwned
<1>1. CASE Same
  BY <1>1 DEF Same
<1>2. CASE Starts
  <2>1. casting.slot = 0
    BY <1>2 DEF Starts, Casting, NoCast
  <2>2. WindUp \in Nat
    BY CommandsAssumption
  <2>3. CASE casting' = [left |-> WindUp, slot |-> 0] /\ UNCHANGED slots
    BY <1>2, <2>1, <2>2, <2>3 DEF Starts, Held
  <2>4. CASE /\ slots' = [slots EXCEPT !.reserved = @ \cup {slots.next}, !.next = @ + 1]
             /\ casting' = [left |-> WindUp, slot |-> slots.next]
    <3>1. /\ slots' = [reserved |-> slots.reserved \cup {slots.next},
                       cooling |-> slots.cooling, next |-> slots.next + 1]
          /\ slots.next \in Nat \ {0}
      BY <2>4
    <3>2. CastType'
      BY <1>2, <2>2, <2>4, <3>1 DEF Starts, Held
    <3>3. SlotsOwned'
      BY <1>2, <2>1, <2>4, <3>1 DEF Starts, Held
    <3> QED
      BY <3>2, <3>3
  <2> QED
    BY <1>2, <2>3, <2>4 DEF Starts
<1>3. CASE GoesOn
  BY <1>3 DEF GoesOn, Held
<1>4. CASE Parks
  BY <1>4 DEF Parks, NoCast
<1>5. CASE Recovers
  BY <1>5 DEF Recovers
<1>6. CASE StartsOver
  <2>1. slots' = [reserved |-> {}, cooling |-> slots.cooling, next |-> 1]
    BY <1>6 DEF StartsOver
  <2> QED
    BY <1>6, <2>1 DEF StartsOver, NoCast
<1> QED
  BY <1>1, <1>2, <1>3, <1>4, <1>5, <1>6

-----------------------------------------------------------------------------
(* Each action does one of them.                                           *)

\* A command reserves a slot, gives one back, or leaves them alone.
LEMMA DoesSteps ==
    ASSUME NEW l, NEW waiting, Does(l, waiting), hold = 0, UNCHANGED ledger
    PROVE  (Same \/ Starts \/ GivesBack) /\ UNCHANGED hold
<1>1. CASE Refused(l) \/ StartJob(l) \/ Quit(l)
  BY <1>1 DEF Refused, StartJob, Quit, Same, playVars
<1>2. CASE StartCast(l)
  BY <1>2 DEF StartCast, Starts, Held
<1>3. CASE Abort(l)
  BY <1>3 DEF Abort, CastEnds, GivesBack, Held
<1> QED
  BY <1>1, <1>2, <1>3 DEF Does

\* The parts of a tick.
LEMMA TickSteps ==
    ASSUME CastInv, Tick
    PROVE  SlotStep /\ Places'
<1> USE DEF CastInv, Places, SlotStep
<1>1. CASE JobsDone \/ Clock \/ NoWindUp \/ NoMishap \/ Revived \/ NothingReady
           \/ \E j \in jobs : FinishJob(j)
  BY <1>1 DEF JobsDone, Clock, NoWindUp, NoMishap, Revived, NothingReady, FinishJob, Same,
              playVars, histVars
<1>2. CASE WindUpBreaks
  BY <1>2 DEF WindUpBreaks, CastEnds, GivesBack, Held, histVars
<1>3. CASE WindUpTick
  BY <1>3 DEF WindUpTick, GoesOn, Parks, Held, histVars
<1>4. CASE Resolve
  BY <1>4 DEF Resolve, Resolves
<1>5. CASE Mishap
  BY <1>5 DEF Mishap, CastEnds, GivesBack, Held, Same
<1>6. CASE SlotRecovers
  BY <1>6 DEF SlotRecovers, Recovers
<1>7. CASE Replay
  BY <1>7, DoesSteps DEF Replay
<1> QED
  BY <1>1, <1>2, <1>3, <1>4, <1>5, <1>6, <1>7 DEF Tick

\* Between ticks: typing and dispatching, database work, connections.
LEMMA OpenSteps ==
    ASSUME CastInv, [Next]_vars, ~Tick
    PROVE  SlotStep /\ Places'
<1> USE DEF CastInv, Places, SlotStep
<1>1. CASE Defer \/ Compose
  BY <1>1 DEF Defer, Compose, Same, playVars, histVars
<1>2. CASE Dispatch
  <2>1. hold = 0 /\ phase = "open"
    BY <1>2 DEF Dispatch
  <2> QED
    BY <1>2, <2>1, DoesSteps DEF Dispatch
<1>3. CASE BeginTick \/ Works \/ \E input \in inputs : Type(input)
  BY <1>3 DEF BeginTick, Works, WorkEnds, Type, Open, Same, playVars, histVars
<1>4. CASE LinkDrops \/ TakesBack
  BY <1>4 DEF LinkDrops, TakesBack, Open, Same, playVars
<1>5. CASE LogsInAgain
  BY <1>5 DEF LogsInAgain, Open, StartsOver
<1>6. CASE UNCHANGED vars
  BY <1>6 DEF vars, Same, playVars, histVars
<1> QED
  BY <1>1, <1>2, <1>3, <1>4, <1>5, <1>6 DEF Next, Dispatching

LEMMA CastInit == Init => CastInv
BY DEF Init, CastInv, CastType, Places, SlotsOwned, NoCast

LEMMA CastNext == CastInv /\ [Next]_vars => CastInv'
<1> SUFFICES ASSUME CastInv, [Next]_vars PROVE CastInv'
  OBVIOUS
<1>1. SlotStep /\ Places'
  BY TickSteps, OpenSteps
<1>2. CastType' /\ SlotsOwned'
  BY <1>1, ResolveKeeps, GiveBackKeeps, OthersKeep DEF SlotStep
<1> QED
  BY <1>1, <1>2 DEF CastInv

\* settle_slot, end_cast, resolve_queued_cast and the regeneration never leak a
\* spell slot nor charge one twice, however wind-ups end.
THEOREM SlotsAccounted == Spec => []SlotsOwned
<1>1. CastInv => SlotsOwned
  BY DEF CastInv
<1> QED
  BY <1>1, CastInit, CastNext, PTL DEF Spec

-----------------------------------------------------------------------------
(* The order of the lines.                                                 *)

Line == [n : Nat, kind : Kinds, life : Nat]

Ascending(s) == \A i, j \in DOMAIN s : i < j => s[i].n < s[j].n

LineType ==
    /\ queue \in Seq(Line)
    /\ run \in [lines : Seq(Line), alias : BOOLEAN, deferred : BOOLEAN]
    /\ typed \in Nat /\ life \in Nat /\ inputs \in Scenarios

\* Whoever waits was typed before whoever is being dispatched.
QueueOrder ==
    /\ Ascending(queue) /\ Ascending(run.lines)
    /\ \A a \in ToSet(queue), b \in ToSet(run.lines) : a.n < b.n
    /\ \A a \in ToSet(queue) \cup ToSet(run.lines) : a.n <= typed

\* A dispatched line was typed in this life; so was each that waits, but for
\* those of a connection that is gone.
SameLife ==
    /\ run # NoRun => run.lines # <<>> /\ phase = "open" /\ linked
    /\ \A a \in ToSet(run.lines) : a.life = life
    /\ linked => \A a \in ToSet(queue) : a.life = life

JobRecord == [n : Nat, body : Nat, kind : DOMAIN Stages, stage : Nat,
              at : {"working", "ok", "error", "abandoned"}]

\* The player is busy while a job of the body is out, of which there is one; a
\* draft is never open meanwhile.
OneJob ==
    /\ body \in Nat /\ jobs \subseteq JobRecord
    /\ \A j \in jobs : j.body <= body /\ j.stage \in 1 .. Stages[j.kind]
    /\ \A j, k \in jobs : Mine(j) /\ Mine(k) => j = k
    /\ (\E j \in jobs : Mine(j)) => busy
    /\ busy => ~draft

LinesInv == LineType /\ QueueOrder /\ SameLife

-----------------------------------------------------------------------------
(* Sequences of lines, through the sets of their elements.                 *)

LEMMA EmptyLines == <<>> \in Seq(Line) /\ Ascending(<<>>) /\ ToSet(<<>>) = {}
BY DEF Ascending, ToSet

LEMMA LinesOf ==
    ASSUME NEW s \in Seq(Line)
    PROVE  ToSet(s) \subseteq Line
BY DEF ToSet

\* A later line at the end.
LEMMA AppendLine ==
    ASSUME NEW s \in Seq(Line), NEW l \in Line, Ascending(s),
           \A a \in ToSet(s) : a.n < l.n
    PROVE  /\ Append(s, l) \in Seq(Line)
           /\ Ascending(Append(s, l))
           /\ ToSet(Append(s, l)) = ToSet(s) \cup {l}
<1>1. /\ Append(s, l) \in Seq(Line)
      /\ Len(s) \in Nat /\ DOMAIN s = 1 .. Len(s)
      /\ DOMAIN Append(s, l) = 1 .. Len(s) + 1
      /\ \A i \in 1 .. Len(s) : Append(s, l)[i] = s[i]
      /\ Append(s, l)[Len(s) + 1] = l
  OBVIOUS
<1>2. \A i \in 1 .. Len(s) : s[i].n < l.n
  BY <1>1 DEF ToSet
<1>3. Ascending(Append(s, l))
  <2> SUFFICES ASSUME NEW i \in 1 .. Len(s) + 1, NEW j \in 1 .. Len(s) + 1, i < j
               PROVE  Append(s, l)[i].n < Append(s, l)[j].n
    BY <1>1 DEF Ascending
  <2>1. i \in 1 .. Len(s)
    BY <1>1
  <2>2. CASE j = Len(s) + 1
    BY <1>1, <1>2, <2>1, <2>2
  <2>3. CASE j \in 1 .. Len(s)
    BY <1>1, <2>1, <2>3 DEF Ascending
  <2> QED
    BY <1>1, <2>2, <2>3
<1>4. ToSet(Append(s, l)) = ToSet(s) \cup {l}
  <2>1. ASSUME NEW x \in ToSet(Append(s, l)) PROVE x \in ToSet(s) \cup {l}
    <3>1. PICK i \in 1 .. Len(s) + 1 : x = Append(s, l)[i]
      BY <1>1, <2>1 DEF ToSet
    <3> QED
      BY <1>1, <3>1 DEF ToSet
  <2>2. ASSUME NEW x \in ToSet(s) PROVE x \in ToSet(Append(s, l))
    <3>1. PICK i \in 1 .. Len(s) : x = s[i]
      BY <1>1, <2>2 DEF ToSet
    <3>2. i \in DOMAIN Append(s, l) /\ Append(s, l)[i] = x
      BY <1>1, <3>1
    <3> QED
      BY <3>2 DEF ToSet
  <2>3. l \in ToSet(Append(s, l))
    <3>1. Len(s) + 1 \in DOMAIN Append(s, l)
      BY <1>1
    <3> QED
      BY <1>1, <3>1 DEF ToSet
  <2> QED
    BY <2>1, <2>2, <2>3
<1> QED
  BY <1>1, <1>3, <1>4

\* The first line and those after it.
LEMMA FirstLine ==
    ASSUME NEW s \in Seq(Line), s # <<>>, Ascending(s)
    PROVE  /\ Head(s) \in ToSet(s) /\ Head(s) \in Line
           /\ Tail(s) \in Seq(Line) /\ Ascending(Tail(s))
           /\ ToSet(Tail(s)) \subseteq ToSet(s)
           /\ \A a \in ToSet(Tail(s)) : Head(s).n < a.n
           /\ Len(s) # 1 => Tail(s) # <<>>
<1>1. /\ Len(s) \in Nat \ {0} /\ DOMAIN s = 1 .. Len(s)
      /\ Head(s) = s[1] /\ Tail(s) \in Seq(Line)
      /\ Len(Tail(s)) = Len(s) - 1 /\ DOMAIN Tail(s) = 1 .. Len(s) - 1
      /\ \A i \in 1 .. Len(s) - 1 : Tail(s)[i] = s[i + 1]
  OBVIOUS
<1>2. Head(s) \in ToSet(s) /\ Head(s) \in Line
  BY <1>1 DEF ToSet
<1>3. ASSUME NEW a \in ToSet(Tail(s)) PROVE a \in ToSet(s) /\ Head(s).n < a.n
  <2>1. PICK i \in 1 .. Len(s) - 1 : a = Tail(s)[i]
    BY <1>1 DEF ToSet
  <2>2. i + 1 \in 1 .. Len(s) /\ 1 \in 1 .. Len(s) /\ 1 < i + 1 /\ a = s[i + 1]
    BY <1>1, <2>1
  <2> QED
    BY <1>1, <2>2 DEF ToSet, Ascending
<1>4. Ascending(Tail(s))
  <2> SUFFICES ASSUME NEW i \in 1 .. Len(s) - 1, NEW j \in 1 .. Len(s) - 1, i < j
               PROVE  Tail(s)[i].n < Tail(s)[j].n
    BY <1>1 DEF Ascending
  <2>1. i + 1 \in 1 .. Len(s) /\ j + 1 \in 1 .. Len(s) /\ i + 1 < j + 1
    BY <1>1
  <2> QED
    BY <1>1, <2>1 DEF Ascending
<1>5. Len(s) # 1 => Tail(s) # <<>>
  <2>1. Len(<<>>) = 0
    OBVIOUS
  <2>2. Len(s) # 1 => Len(Tail(s)) # 0
    BY <1>1
  <2> QED
    BY <2>1, <2>2
<1> QED
  BY <1>1, <1>2, <1>3, <1>4, <1>5

-----------------------------------------------------------------------------
(* What a step does to the lines.                                          *)

\* Nothing; and no line is between typing and dispatch when the tick moves on.
Rests ==
    /\ UNCHANGED <<queue, run, typed, life, linked, inputs>>
    /\ run = NoRun \/ UNCHANGED phase

\* A death, a lost link, a takeover, a new body.
Clears ==
    /\ run = NoRun /\ UNCHANGED <<run, typed, inputs>> /\ life' \in Nat
    /\ queue' = <<>> \/ (UNCHANGED queue /\ ~linked')

\* A line of the run is dispatched, taken by a draft, or waits.
Takes ==
    /\ run # NoRun /\ UNCHANGED <<phase, typed, inputs>>
    /\ \E deferred \in BOOLEAN : NextLine(deferred)
    /\ \E q \in {<<>>, queue} : queue' \in {q, Append(q, Head(run.lines))}
    /\ \/ UNCHANGED <<life, linked>>
       \/ linked' = FALSE /\ queue' = <<>> /\ life' \in Nat

\* A waiting line is let out.
Replays ==
    /\ run = NoRun /\ queue # <<>> /\ UNCHANGED <<run, typed, inputs>>
    /\ \/ queue' = Tail(queue) /\ UNCHANGED <<life, linked>>
       \/ queue' = <<>> /\ life' \in Nat

Types == \E input \in inputs : Type(input)

LineStep == Rests \/ Clears \/ Takes \/ Replays \/ Types

-----------------------------------------------------------------------------
(* Each of them keeps the order.                                           *)

LEMMA RestsKeeps == ASSUME LinesInv, Rests PROVE LinesInv'
BY DEF LinesInv, LineType, QueueOrder, SameLife, Rests, Ascending

LEMMA ClearsKeeps == ASSUME LinesInv, Clears PROVE LinesInv'
<1> USE DEF LinesInv
<1>1. run.lines = <<>> /\ ToSet(run.lines) = {}
  BY EmptyLines DEF Clears, NoRun
<1>2. queue' = <<>> => ToSet(queue') = {} /\ queue' \in Seq(Line) /\ Ascending(queue')
  BY EmptyLines
<1>3. queue' = queue => ToSet(queue') = ToSet(queue) /\ queue' \in Seq(Line) /\ Ascending(queue')
  BY DEF LineType, QueueOrder
<1>4. run' = run /\ ToSet(run'.lines) = {}
  BY <1>1 DEF Clears
<1>5. LineType'
  BY <1>2, <1>3 DEF LineType, Clears
<1>6. QueueOrder'
  BY <1>2, <1>3, <1>4 DEF QueueOrder, Clears, Ascending
<1>7. SameLife'
  BY <1>2, <1>3, <1>4 DEF SameLife, Clears
<1> QED
  BY <1>5, <1>6, <1>7

LEMMA ReplaysKeeps == ASSUME LinesInv, Replays PROVE LinesInv'
<1> USE DEF LinesInv
<1>1. CASE queue' = Tail(queue) /\ UNCHANGED <<life, linked>>
  <2>1. /\ queue' \in Seq(Line) /\ Ascending(queue')
        /\ ToSet(queue') \subseteq ToSet(queue)
    BY <1>1, FirstLine DEF LineType, QueueOrder, Replays
  <2>2. LineType'
    BY <1>1, <2>1 DEF LineType, Replays
  <2>3. QueueOrder'
    BY <2>1 DEF QueueOrder, Replays, Ascending
  <2>4. SameLife'
    BY <1>1, <2>1 DEF SameLife, Replays
  <2> QED
    BY <2>2, <2>3, <2>4
<1>2. CASE queue' = <<>> /\ life' \in Nat
  BY <1>2, ClearsKeeps DEF Replays, Clears
<1> QED
  BY <1>1, <1>2 DEF Replays

\* What is left of a run was typed after the line that was taken from it.
LEMMA TakesKeeps == ASSUME LinesInv, Takes PROVE LinesInv'
<1> USE DEF LinesInv
<1> DEFINE l == Head(run.lines)
<1>1. /\ run.lines \in Seq(Line) /\ run.lines # <<>> /\ Ascending(run.lines)
      /\ phase = "open" /\ linked
  BY DEF LineType, QueueOrder, SameLife, Takes
<1>2. /\ l \in ToSet(run.lines) /\ l \in Line
      /\ Tail(run.lines) \in Seq(Line) /\ Ascending(Tail(run.lines))
      /\ ToSet(Tail(run.lines)) \subseteq ToSet(run.lines)
      /\ \A a \in ToSet(Tail(run.lines)) : l.n < a.n
      /\ Len(run.lines) # 1 => Tail(run.lines) # <<>>
  BY <1>1, FirstLine
<1> HIDE DEF l
<1>3. /\ run' \in [lines : Seq(Line), alias : BOOLEAN, deferred : BOOLEAN]
      /\ Ascending(run'.lines) /\ ToSet(run'.lines) \subseteq ToSet(run.lines)
      /\ \A a \in ToSet(run'.lines) : l.n < a.n
      /\ run' # NoRun => run'.lines # <<>> /\ linked'
  <2>1. CASE run' = NoRun
    BY <2>1, EmptyLines DEF NoRun
  <2>2. CASE run' # NoRun
    <3>1. PICK deferred \in BOOLEAN : NextLine(deferred)
      BY DEF Takes
    <3>2. /\ Len(run.lines) # 1 /\ linked' # FALSE
          /\ run' = [run EXCEPT !.lines = Tail(@), !.deferred = @ \/ deferred]
      BY <2>2, <3>1 DEF NextLine
    <3>3. /\ run'.lines = Tail(run.lines)
          /\ run' \in [lines : Seq(Line), alias : BOOLEAN, deferred : BOOLEAN]
      BY <1>2, <3>2 DEF LineType
    <3>4. linked'
      BY <1>1, <3>2 DEF Takes
    <3> QED
      BY <1>2, <3>2, <3>3, <3>4
  <2> QED
    BY <2>1, <2>2
<1>4. /\ queue' \in Seq(Line) /\ Ascending(queue')
      /\ ToSet(queue') \subseteq ToSet(queue) \cup {l}
  <2>1. PICK q \in {<<>>, queue} : queue' \in {q, Append(q, l)}
    BY DEF Takes, l
  <2>2. q \in Seq(Line) /\ Ascending(q) /\ ToSet(q) \subseteq ToSet(queue)
    BY EmptyLines DEF LineType, QueueOrder
  <2>3. \A a \in ToSet(q) : a.n < l.n
    BY <1>2, <2>2 DEF QueueOrder
  <2> QED
    BY <1>2, <2>1, <2>2, <2>3, AppendLine
<1>5. LineType'
  BY <1>3, <1>4 DEF LineType, Takes
<1>6. QueueOrder'
  BY <1>2, <1>3, <1>4 DEF QueueOrder, Takes
<1>7. SameLife'
  <2>1. phase' = "open"
    BY <1>1 DEF Takes
  <2>2. CASE UNCHANGED <<life, linked>>
    BY <1>1, <1>2, <1>3, <1>4, <2>1, <2>2 DEF SameLife
  <2>3. CASE linked' = FALSE /\ queue' = <<>> /\ life' \in Nat
    BY <1>3, <2>3, EmptyLines DEF SameLife, NoRun
  <2> QED
    BY <2>2, <2>3 DEF Takes
<1> QED
  BY <1>5, <1>6, <1>7

\* Typed lines come after all that wait, in their order.
LEMMA TypesKeeps == ASSUME LinesInv, Types PROVE LinesInv'
<1> USE DEF LinesInv
<1>1. PICK input \in inputs : Type(input)
  BY DEF Types
<1>2. input \in Seq(Kinds) /\ input # <<>>
  BY CommandsAssumption DEF LineType
<1> DEFINE new == [i \in DOMAIN input |-> [n |-> typed + i, kind |-> input[i], life |-> life]]
<1>3. /\ DOMAIN input = 1 .. Len(input) /\ Len(input) \in Nat \ {0}
      /\ \A i \in 1 .. Len(input) : input[i] \in Kinds
  BY <1>2
<1>4. /\ new \in Seq(Line) /\ DOMAIN new = 1 .. Len(input) /\ new # <<>>
      /\ \A i \in 1 .. Len(input) : new[i] \in Line /\ new[i].n = typed + i /\ new[i].life = life
  BY <1>3 DEF LineType, Line
<1>5. run' = [lines |-> new, alias |-> Len(input) > 1, deferred |-> FALSE]
  BY <1>1 DEF Type
<1>6. typed' = typed + Len(input) /\ UNCHANGED <<queue, life, linked, phase, inputs>>
      /\ phase = "open" /\ linked
  BY <1>1 DEF Type, Open, bodyVars, histVars
<1> HIDE DEF new
<1>7. LineType'
  BY <1>3, <1>4, <1>5, <1>6 DEF LineType
<1>8. \A a \in ToSet(new) : a.n > typed /\ a.n <= typed' /\ a.life = life
  BY <1>3, <1>4, <1>6 DEF ToSet, LineType
<1>9. Ascending(new)
  BY <1>3, <1>4 DEF Ascending, LineType
<1>10. \A a \in ToSet(queue) : a.n \in Nat /\ a.n <= typed /\ a.n <= typed'
  <2>1. ToSet(queue) \subseteq Line
    BY LinesOf DEF LineType
  <2>2. \A a \in ToSet(queue) : a.n \in Nat /\ a.n <= typed
    BY <2>1 DEF QueueOrder, Line
  <2> QED
    BY <1>3, <1>6, <2>2 DEF LineType
<1>11. ToSet(new) \subseteq Line
  BY <1>4, LinesOf
<1>12. QueueOrder'
  BY <1>5, <1>6, <1>8, <1>9, <1>10, <1>11 DEF QueueOrder, LineType, Line
<1>13. SameLife'
  BY <1>4, <1>5, <1>6, <1>8 DEF SameLife
<1> QED
  BY <1>7, <1>12, <1>13

-----------------------------------------------------------------------------
(* Each action does one of them.                                           *)

\* A command leaves the waiting lines or drops them with the connection.
LEMMA DoesLines ==
    ASSUME NEW l, NEW waiting, Does(l, waiting), life \in Nat, linked
    PROVE  \/ queue' = waiting /\ UNCHANGED <<life, linked>>
           \/ linked' = FALSE /\ queue' = <<>> /\ life' \in Nat
<1>1. CASE Quit(l)
  <2>1. linked' = FALSE /\ life' \in Nat
    BY <1>1 DEF Quit
  <2>2. queue' = <<>>
    BY <2>1 DEF Does
  <2> QED
    BY <2>1, <2>2
<1>2. CASE Refused(l) \/ StartCast(l) \/ Abort(l) \/ StartJob(l)
  BY <1>2 DEF Does, Refused, StartCast, Abort, StartJob
<1> QED
  BY <1>1, <1>2 DEF Does

LEMMA TickLines ==
    ASSUME LinesInv, Tick
    PROVE  LineStep
<1> USE DEF LinesInv, LineStep
<1>1. phase # "open" /\ run = NoRun
  BY DEF Tick, JobsDone, Clock, NoWindUp, WindUpBreaks, WindUpTick, Resolve, Mishap, NoMishap,
         SlotRecovers, Revived, Replay, NothingReady, FinishJob, SameLife
<1>2. CASE JobsDone \/ Clock \/ NoWindUp \/ WindUpBreaks \/ WindUpTick \/ Resolve
  BY <1>1, <1>2 DEF JobsDone, Clock, NoWindUp, WindUpBreaks, WindUpTick, Resolve, Rests,
                    bodyVars, histVars
<1>3. CASE NoMishap \/ SlotRecovers \/ Revived \/ NothingReady \/ \E j \in jobs : FinishJob(j)
  BY <1>1, <1>3 DEF NoMishap, SlotRecovers, Revived, NothingReady, FinishJob, Rests,
                    bodyVars, histVars
<1>4. CASE Mishap
  <2>1. UNCHANGED <<run, linked, inputs, typed>>
    BY <1>4 DEF Mishap
  <2>2. \/ UNCHANGED <<queue, life>>
        \/ queue' = <<>> /\ life' = life + 1
    BY <1>4 DEF Mishap
  <2>3. life \in Nat
    BY DEF LineType
  <2> QED
    BY <1>1, <2>1, <2>2, <2>3 DEF Rests, Clears
<1>5. CASE Replay
  <2>1. queue # <<>> /\ linked /\ life \in Nat /\ Does(Head(queue), Tail(queue))
    BY <1>5 DEF Replay, Ready, LineType
  <2>2. \/ queue' = Tail(queue) /\ UNCHANGED <<life, linked>>
        \/ queue' = <<>> /\ life' \in Nat
    BY <2>1, DoesLines
  <2> QED
    BY <1>1, <1>5, <2>1, <2>2 DEF Replay, Replays
<1> QED
  BY <1>2, <1>3, <1>4, <1>5 DEF Tick

LEMMA DispatchLines ==
    ASSUME LinesInv, Dispatching
    PROVE  Takes
<1> USE DEF LinesInv
<1>1. run # NoRun /\ linked /\ life \in Nat
  BY DEF Dispatching, Defer, Dispatch, Compose, SameLife, LineType
<1>2. CASE Defer
  <2>1. \E q \in {<<>>, queue} : queue' = Pushed(q, Head(run.lines))
    BY <1>2 DEF Defer
  <2> QED
    BY <1>1, <1>2, <2>1 DEF Defer, Pushed, Takes, histVars
<1>3. CASE Dispatch
  <2>1. PICK q \in {<<>>, queue} : Does(Head(run.lines), q)
    BY <1>3 DEF Dispatch
  <2>2. \/ queue' = q /\ UNCHANGED <<life, linked>>
        \/ linked' = FALSE /\ queue' = <<>> /\ life' \in Nat
    BY <1>1, <2>1, DoesLines
  <2> QED
    BY <1>1, <1>3, <2>2 DEF Dispatch, Takes
<1>4. CASE Compose
  BY <1>1, <1>4 DEF Compose, Takes, histVars
<1> QED
  BY <1>2, <1>3, <1>4 DEF Dispatching

LEMMA NextLines == LinesInv /\ [Next]_vars => LinesInv'
<1> SUFFICES ASSUME LinesInv, [Next]_vars PROVE LineStep
  BY RestsKeeps, ClearsKeeps, TakesKeeps, ReplaysKeeps, TypesKeeps DEF LineStep
<1> USE DEF LineStep
<1>1. CASE Tick
  BY <1>1, TickLines
<1>2. CASE Dispatching
  BY <1>2, DispatchLines
<1>3. CASE \E input \in inputs : Type(input)
  BY <1>3 DEF Types
<1>4. CASE BeginTick \/ Works
  BY <1>4 DEF BeginTick, Works, WorkEnds, Open, Rests, bodyVars, histVars
<1>5. CASE LinkDrops \/ TakesBack \/ LogsInAgain
  BY <1>5 DEF LinkDrops, TakesBack, LogsInAgain, Open, Clears, LinesInv, LineType
<1>6. CASE UNCHANGED vars
  BY <1>6 DEF vars, Rests, bodyVars, histVars
<1> QED
  BY <1>1, <1>2, <1>3, <1>4, <1>5, <1>6 DEF Next

-----------------------------------------------------------------------------
(* One job at a time.                                                      *)

\* A new job is the only one, and the player had no draft open or has none now.
LEMMA SpawnKeeps ==
    ASSUME OneJob, ~busy, NEW kind \in DOMAIN Stages, SpawnJob(kind, 1), body' = body, ~draft',
           ran'.n \in Nat
    PROVE  OneJob'
<1>1. \A j \in jobs : ~Mine(j)
  BY DEF OneJob
<1> DEFINE new == [n |-> ran'.n, body |-> body, kind |-> kind, stage |-> 1, at |-> "working"]
<1>2. jobs' = jobs \cup {new} /\ busy'
  BY DEF SpawnJob
<1>3. new \in JobRecord /\ new.body = body /\ new.kind = kind /\ new.stage = 1
  BY DEF JobRecord, OneJob
<1>4. 1 \in 1 .. Stages[kind]
  BY DEF Stages
<1> HIDE DEF new
<1> QED
  BY <1>1, <1>2, <1>3, <1>4 DEF OneJob, Mine

\* A command that is let through while the player is not busy.
LEMMA DoesOneJob ==
    ASSUME OneJob, NEW l, NEW waiting, Does(l, waiting), ~busy \/ l.kind \in Flush,
           UNCHANGED <<body, draft>>, ~draft, ran'.n \in Nat
    PROVE  OneJob'
<1>1. CASE StartJob(l)
  <2>1. l.kind \in DOMAIN Stages /\ ~busy
    BY <1>1 DEF StartJob, Stages, Flush
  <2> QED
    BY <1>1, <2>1, SpawnKeeps DEF StartJob
<1>2. CASE Refused(l) \/ StartCast(l) \/ Abort(l) \/ Quit(l)
  BY <1>2 DEF Refused, StartCast, Abort, Quit, OneJob, Mine
<1> QED
  BY <1>1, <1>2 DEF Does

\* The player is released before the finish step runs.
LEMMA FinishKeeps ==
    ASSUME OneJob, NEW j \in jobs, FinishJob(j)
    PROVE  OneJob'
<1>1. /\ Mine(j) /\ busy /\ ~draft /\ body' = body
      /\ j \in JobRecord /\ j.stage \in 1 .. Stages[j.kind]
      /\ \A k \in jobs : Mine(k) => k = j
  BY DEF OneJob, FinishJob, bodyVars
<1>2. CASE j.at = "ok" /\ j.stage < Stages[j.kind]
  <2>1. j.kind # "mail"
    BY <1>1, <1>2 DEF Stages, JobRecord
  <2>2. ~draft'
    BY <1>1, <1>2, <2>1 DEF FinishJob
  <2> DEFINE next == j.stage + 1
             new == [j EXCEPT !.stage = next, !.at = "working"]
  <2>3. jobs' = (jobs \ {j}) \cup {new} /\ busy'
    BY <1>2 DEF FinishJob
  <2>4. new \in JobRecord /\ new.body = j.body /\ new.kind = j.kind /\ new.stage = j.stage + 1
    <3>1. next \in Nat /\ next = j.stage + 1
      BY <1>1 DEF JobRecord
    <3>2. j \in JobRecord
      BY <1>1
    <3> HIDE DEF next
    <3> QED
      BY <3>1, <3>2 DEF JobRecord
  <2>5. Stages[j.kind] \in Nat
    BY <1>1 DEF Stages, JobRecord
  <2>6. j.stage + 1 \in 1 .. Stages[j.kind]
    BY <1>1, <1>2, <2>5
  <2> HIDE DEF new
  <2> QED
    BY <1>1, <2>2, <2>3, <2>4, <2>6 DEF OneJob, Mine
<1>3. CASE ~(j.at = "ok" /\ j.stage < Stages[j.kind])
  <2>1. ~busy' /\ jobs' = jobs \ {j}
    BY <1>3 DEF FinishJob
  <2> QED
    BY <1>1, <2>1 DEF OneJob, Mine
<1> QED
  BY <1>2, <1>3

LEMMA NextOneJob == LinesInv /\ OneJob /\ [Next]_vars => OneJob'
<1> SUFFICES ASSUME LinesInv, OneJob, [Next]_vars PROVE OneJob'
  OBVIOUS
<1>1. CASE UNCHANGED <<body, jobs, busy, draft>>
  BY <1>1 DEF OneJob, Mine
<1>2. CASE Dispatch
  <2>1. run.lines \in Seq(Line) /\ run.lines # <<>> /\ Ascending(run.lines)
    BY <1>2 DEF Dispatch, LinesInv, LineType, SameLife, QueueOrder
  <2>2. Head(run.lines).n \in Nat
    BY <2>1, FirstLine DEF Line
  <2>3. ran'.n \in Nat
    BY <1>2, <2>2 DEF Dispatch, LetThrough
  <2>4. \E q : Does(Head(run.lines), q) /\ (~busy \/ Head(run.lines).kind \in Flush)
    BY <1>2 DEF Dispatch, Defers
  <2> QED
    BY <1>2, <2>3, <2>4, DoesOneJob DEF Dispatch
<1>3. CASE Replay
  <2>1. queue \in Seq(Line) /\ queue # <<>> /\ Ascending(queue) /\ ~busy /\ ~draft
    BY <1>3 DEF Replay, Ready, LinesInv, LineType, QueueOrder
  <2>2. Head(queue).n \in Nat
    BY <2>1, FirstLine DEF Line
  <2>3. ran'.n \in Nat
    BY <1>3, <2>2 DEF Replay, LetThrough
  <2> QED
    BY <1>3, <2>1, <2>3, DoesOneJob DEF Replay
<1>4. CASE Compose
  <2>1. run.lines \in Seq(Line) /\ run.lines # <<>> /\ Ascending(run.lines)
    BY <1>4 DEF Compose, LinesInv, LineType, SameLife, QueueOrder
  <2>2. ran'.n \in Nat
    BY <1>4, <2>1, FirstLine DEF Line, Compose, LetThrough
  <2>3. body' = body /\ ~busy
    BY <1>4 DEF Compose, OneJob
  <2>4. CASE draft' = FALSE /\ SpawnJob("send", 1)
    BY <2>2, <2>3, <2>4, SpawnKeeps DEF Stages
  <2>5. CASE draft' = FALSE /\ UNCHANGED <<busy, jobs>>
    BY <2>3, <2>5 DEF OneJob, Mine
  <2> QED
    BY <1>1, <1>4, <2>3, <2>4, <2>5 DEF Compose
<1>5. CASE Works
  <2>1. PICK j \in jobs : WorkEnds(j)
    BY <1>5 DEF Works
  <2>2. PICK outcome \in {"ok", "error", "abandoned"} :
          jobs' = (jobs \ {j}) \cup {[j EXCEPT !.at = outcome]}
    BY <2>1 DEF WorkEnds
  <2> DEFINE done == [j EXCEPT !.at = outcome]
  <2>3. done \in JobRecord /\ done.body = j.body /\ done.kind = j.kind /\ done.stage = j.stage
    BY DEF OneJob, JobRecord
  <2>4. UNCHANGED <<body, busy, draft>>
    BY <2>1 DEF WorkEnds, bodyVars
  <2>5. jobs' = (jobs \ {j}) \cup {done}
    BY <2>2
  <2> HIDE DEF done
  <2> QED
    BY <2>3, <2>4, <2>5 DEF OneJob, Mine
<1>6. CASE JobsDone
  <2>1. jobs' \subseteq jobs /\ UNCHANGED <<body, busy, draft>>
    BY <1>6 DEF JobsDone, Answered, bodyVars
  <2> QED
    BY <2>1 DEF OneJob, Mine
<1>7. CASE LogsInAgain
  <2>1. jobs' = jobs /\ body' = body + 1 /\ busy' = FALSE
    BY <1>7 DEF LogsInAgain
  <2>2. \A j \in jobs : j.body \in Nat /\ j.body < body' /\ j.body # body'
    BY <2>1 DEF OneJob, JobRecord
  <2> QED
    BY <2>1, <2>2 DEF OneJob, Mine
<1>8. CASE \E j \in jobs : FinishJob(j)
  BY <1>8, FinishKeeps
<1>9. CASE Clock \/ NoWindUp \/ WindUpBreaks \/ WindUpTick \/ Resolve \/ Mishap \/ NoMishap
  BY <1>1, <1>9 DEF Clock, NoWindUp, WindUpBreaks, WindUpTick, Resolve, Mishap, NoMishap,
                    bodyVars
<1>10. CASE SlotRecovers \/ Revived \/ NothingReady \/ Defer \/ BeginTick
  BY <1>1, <1>10 DEF SlotRecovers, Revived, NothingReady, Defer, BeginTick, bodyVars
<1>11. CASE LinkDrops \/ TakesBack \/ \E input \in inputs : Type(input)
  BY <1>1, <1>11 DEF LinkDrops, TakesBack, Type, bodyVars
<1>12. CASE UNCHANGED vars
  BY <1>1, <1>12 DEF vars, bodyVars
<1> QED
  BY <1>2, <1>3, <1>4, <1>5, <1>6, <1>7, <1>8, <1>9, <1>10, <1>11, <1>12
     DEF Next, Tick, Dispatching

-----------------------------------------------------------------------------
(* The order in which lines reach the dispatcher.                          *)

\* The step LinesInOrder speaks of.
InOrder ==
    ran' # ran /\ ran'.how = "command" =>
        /\ ran'.life = life
        /\ \/ ran'.kind \in Flush
           \/ /\ ~ \E j \in jobs : Mine(j)
              /\ \/ Casting /\ ran'.kind \in Allowed
                 \/ \A l \in ToSet(queue') : l.n > ran'.n

\* Only two actions let a command through.
LEMMA LetThroughBy ==
    ASSUME [Next]_vars, ran' # ran, ran'.how = "command"
    PROVE  Dispatch \/ Replay
<1>1. CASE Compose
  BY <1>1 DEF Compose, LetThrough
<1>2. CASE JobsDone \/ Clock \/ NoWindUp \/ WindUpBreaks \/ WindUpTick \/ Resolve \/ Mishap
  BY <1>2 DEF JobsDone, Clock, NoWindUp, WindUpBreaks, WindUpTick, Resolve, Mishap
<1>3. CASE NoMishap \/ SlotRecovers \/ Revived \/ NothingReady \/ \E j \in jobs : FinishJob(j)
  BY <1>3 DEF NoMishap, SlotRecovers, Revived, NothingReady, FinishJob
<1>4. CASE Defer \/ BeginTick \/ Works \/ \E input \in inputs : Type(input)
  BY <1>4 DEF Defer, BeginTick, Works, WorkEnds, Type
<1>5. CASE LinkDrops \/ TakesBack \/ LogsInAgain \/ UNCHANGED vars
  BY <1>5 DEF LinkDrops, TakesBack, LogsInAgain, vars
<1> QED
  BY <1>1, <1>2, <1>3, <1>4, <1>5 DEF Next, Tick, Dispatching

\* A typed line that does not wait: nobody waits, or a wind-up lets it by.
LEMMA DispatchInOrder ==
    ASSUME LinesInv, OneJob, Dispatch
    PROVE  InOrder
<1> DEFINE l == Head(run.lines)
<1>1. l \in ToSet(run.lines) /\ l \in Line
  <2>1. run.lines \in Seq(Line) /\ run.lines # <<>> /\ Ascending(run.lines)
    BY DEF Dispatch, LinesInv, LineType, SameLife, QueueOrder
  <2> QED
    BY <2>1, FirstLine
<1>2. ran' = [n |-> l.n, kind |-> l.kind, life |-> l.life, how |-> "command"]
  BY DEF Dispatch, LetThrough
<1>3. l.life = life
  BY <1>1 DEF LinesInv, SameLife
<1>4. ASSUME l.kind \notin Flush
      PROVE  ~busy /\ (\/ Casting /\ l.kind \in Allowed
                       \/ queue' = <<>>)
  <2>1. ~Defers(l, queue # <<>>) /\ Does(l, queue)
    BY <1>4 DEF Dispatch
  <2>2. CASE queue = <<>>
    BY <2>1, <2>2 DEF Defers, Does
  <2>3. CASE queue # <<>>
    BY <1>1, <1>4, <2>1, <2>3 DEF Defers, MustWait, Line, Kinds
  <2> QED
    BY <2>2, <2>3
<1> HIDE DEF l
<1> QED
  BY <1>2, <1>3, <1>4, EmptyLines DEF InOrder, OneJob

\* The first waiting line is the oldest.
LEMMA ReplayInOrder ==
    ASSUME LinesInv, OneJob, Replay
    PROVE  InOrder
<1> DEFINE l == Head(queue)
<1>1. queue \in Seq(Line) /\ queue # <<>> /\ Ascending(queue) /\ ~busy /\ linked
  BY DEF Replay, Ready, LinesInv, LineType, QueueOrder
<1>2. l \in ToSet(queue) /\ l \in Line /\ \A a \in ToSet(Tail(queue)) : l.n < a.n
  BY <1>1, FirstLine
<1>3. ran' = [n |-> l.n, kind |-> l.kind, life |-> l.life, how |-> "command"]
  BY DEF Replay, LetThrough
<1>4. l.life = life
  BY <1>1, <1>2 DEF LinesInv, SameLife
<1>5. queue' = Tail(queue) \/ queue' = <<>>
  BY DEF Replay, Does
<1>6. ToSet(Tail(queue)) \subseteq Line
  BY <1>1, FirstLine, LinesOf
<1>7. \A a \in ToSet(queue') : a.n > l.n
  BY <1>2, <1>5, <1>6, EmptyLines DEF Line
<1> HIDE DEF l
<1> QED
  BY <1>1, <1>3, <1>4, <1>7 DEF InOrder, OneJob

LEMMA LinesInit == Init => LinesInv /\ OneJob
<1> SUFFICES ASSUME Init PROVE LinesInv /\ OneJob
  OBVIOUS
<1>1. LineType
  BY EmptyLines DEF Init, LineType, NoRun
<1>2. QueueOrder /\ SameLife
  BY EmptyLines DEF Init, QueueOrder, SameLife, NoRun
<1>3. OneJob
  BY DEF Init, OneJob
<1> QED
  BY <1>1, <1>2, <1>3 DEF LinesInv

\* defer_if_needed, take_ready and the drain of jobs let a player's lines reach
\* the dispatcher in the order they were typed, none before the last command's
\* database work is finished, none in a later life.
THEOREM LinesRunInOrder == Spec => LinesInOrder
<1>1. LinesInv /\ OneJob /\ [Next]_vars =>
        [ran' # ran /\ ran'.how = "command" =>
            /\ ran'.life = life
            /\ \/ ran'.kind \in Flush
               \/ /\ ~ \E j \in jobs : Mine(j)
                  /\ \/ Casting /\ ran'.kind \in Allowed
                     \/ \A l \in ToSet(queue') : l.n > ran'.n]_vars
  BY LetThroughBy, DispatchInOrder, ReplayInOrder DEF InOrder
<1>2. LinesInv /\ OneJob /\ [Next]_vars => (LinesInv /\ OneJob)'
  BY NextLines, NextOneJob
<1> QED
  BY <1>1, <1>2, LinesInit, PTL DEF Spec, LinesInOrder
=============================================================================
