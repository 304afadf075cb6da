-------------------------- MODULE ConnectionsProofs --------------------------
(***************************************************************************)
(* The connections use the gate only through its operations: their         *)
(* specification implements GateSpec, so what is proved of the gate holds  *)
(* of the whole system.  A connection ends with its queue written, and     *)
(* what the game hears of it is a session: that one needs induction over   *)
(* the chunk the reader takes and over the channel, which is had from the  *)
(* smallest position at which a claim fails (GateProofs, Smallest).        *)
(***************************************************************************)
EXTENDS Connections, GateProofs

\* The scenario narrows who takes part, never to strangers.
InScope == scenario \in Scenarios

\* A step of a connection's own task leaves the gate alone or drops its guard.
LEMMA ReaderUsesGate ==
    ASSUME NEW c \in Conns, Reader(c)
    PROVE  GateNext \/ UNCHANGED gateVars
<1>1. CASE HandshakeFails(c) \/ Settle(c) \/ Finish(c)
  BY <1>1 DEF HandshakeFails, Settle, Finish, TaskEnds, GateNext
<1>2. CASE HandshakeDone(c) \/ Read(c) \/ Greet(c) \/ FlushNaws(c)
  BY <1>2 DEF HandshakeDone, Read, Greet, FlushNaws
<1>3. CASE ReadEnds(c) \/ Deliver(c) \/ Announce(c)
  BY <1>3 DEF ReadEnds, Deliver, Announce
<1> QED
  BY <1>1, <1>2, <1>3 DEF Reader

\* A turn of the game leaves the gate alone, reports a login or asks for a close.
LEMMA GameUsesGate ==
    ASSUME NEW c \in Conns, Game(c)
    PROVE  GateNext \/ UNCHANGED gateVars
<1>1. CASE OnConnect(c) \/ OnControl(c) \/ OnDisconnected(c)
  BY <1>1 DEF OnConnect, OnControl, OnDisconnected
<1>2. CASE LoginLine(c) \/ PlayLine(c)
  BY <1>2 DEF LoginLine, PlayLine, GateNext
<1>3. CASE Kick(c) \/ SyncAuthenticated(c)
  BY <1>3 DEF Kick, SyncAuthenticated, GateNext
<1> QED
  BY <1>1, <1>2, <1>3 DEF Game, GameTurn

\* The writer and the client never touch the gate.
LEMMA OthersLeaveGate ==
    ASSUME NEW c \in Conns, Writer(c) \/ Client(c)
    PROVE  UNCHANGED gateVars
BY DEF Writer, Client, WriteFrame, WriterEnds, Type, HangUp, StopReading

\* Every step of the connections is a step of the gate or leaves it alone.
LEMMA StepUsesGate == InScope /\ [Next]_vars => [GateNext]_gateVars
<1> SUFFICES ASSUME InScope, [Next]_vars PROVE GateNext \/ UNCHANGED gateVars
  OBVIOUS
<1>1. scenario.conns \subseteq Conns /\ scenario.ips \subseteq IPs
  BY ScenariosInScope DEF InScope
<1>2. CASE Listener
  BY <1>1, <1>2 DEF Listener, TurnAway, Accept, GateNext
<1>3. CASE \E c \in scenario.conns : Reader(c) \/ Writer(c) \/ Client(c) \/ Game(c)
  BY <1>1, <1>3, ReaderUsesGate, GameUsesGate, OthersLeaveGate
<1>4. CASE scenario.clock /\ Tick /\ UNCHANGED taskVars
  BY <1>4 DEF GateNext
<1>5. CASE UNCHANGED vars
  BY <1>5 DEF vars
<1> QED
  BY <1>2, <1>3, <1>4, <1>5 DEF Next

\* The scenario is chosen once.
LEMMA ScopeInvariant == Spec => []InScope
<1>1. Init => InScope
  BY DEF Init, InScope
<1>2. InScope /\ [Next]_vars => InScope'
  BY DEF InScope, Next, vars
<1> QED
  BY <1>1, <1>2, PTL DEF Spec

\* The connections implement the gate's specification.
THEOREM ConnectionsImplementGate == Spec => GateSpec
<1>1. Init => GateInit
  BY DEF Init
<1>2. InScope /\ [Next]_vars => [GateNext]_gateVars
  BY StepUsesGate
<1> QED
  BY <1>1, <1>2, ScopeInvariant, PTL DEF Spec, GateSpec

\* No order of logins, closes, hang-ups and timeouts leaks a slot or frees one
\* twice: the gate's counters are exact in every state of the system.
THEOREM ConnectionSlotsExact == Spec => []SlotsExact
BY ConnectionsImplementGate, GateSlotsExact, PTL

\* Nor does any of them get an address past the throttle.
THEOREM ConnectionThrottleHolds == Spec => ThrottleHolds
BY ConnectionsImplementGate, GateThrottleHolds, PTL

-----------------------------------------------------------------------------
(* What the game sends is written before the connection is over.           *)

Stages == {"none", "handshake", "read", "leave", "wait"}
\* The queue is empty without its writer, which runs only after the handshake.
OutboundInv ==
    /\ reader \in [Conns -> Stages]
    /\ writer \in [Conns -> BOOLEAN] /\ outq \in [Conns -> Nat]
    /\ \A c \in Conns : ~writer[c] => outq[c] = 0
    /\ \A c \in Conns : reader[c] \in {"none", "handshake"} => ~writer[c]

\* The task that ends takes its writer and the queue with it.
LEMMA TaskEndsOutbound ==
    ASSUME OutboundInv, NEW c \in Conns, TaskEnds(c) PROVE OutboundInv'
BY DEF OutboundInv, TaskEnds, Stages

\* A task that goes on leaves its writer and its queue alone.
LEMMA ReaderOutbound ==
    ASSUME OutboundInv, NEW c \in Conns, Reader(c) PROVE OutboundInv'
<1>1. CASE TaskEnds(c) BY <1>1, TaskEndsOutbound
<1>2. CASE HandshakeDone(c)
  BY <1>2 DEF HandshakeDone, OutboundInv, Stages
<1>3. CASE ~TaskEnds(c) /\ ~HandshakeDone(c)
  <2>1. UNCHANGED <<writer, outq>>
        /\ \/ reader' = reader
           \/ reader[c] \notin {"none", "handshake"}
              /\ \E stage \in {"leave", "wait"} : reader' = [reader EXCEPT ![c] = stage]
    BY <1>3 DEF Reader, HandshakeFails, Read, Greet, FlushNaws, ReadEnds, Deliver, Announce, Settle,
       Finish, writerVars
  <2> QED BY <2>1 DEF OutboundInv, Stages
<1> QED BY <1>1, <1>2, <1>3

\* Nothing is queued for a writer that is not there.
LEMMA ReplyOutbound ==
    ASSUME OutboundInv, NEW c \in Conns, Reply(c), reader' = reader PROVE OutboundInv'
BY DEF OutboundInv, Reply

\* Every step of the connections keeps the queue with its writer.
LEMMA NextOutbound ==
    ASSUME InScope, OutboundInv, [Next]_vars PROVE OutboundInv'
<1>0. scenario.conns \subseteq Conns BY ScenariosInScope DEF InScope
<1>1. ASSUME NEW c \in Conns, NEW ip, NEW tls, Accept(c, ip, tls) PROVE OutboundInv'
  BY <1>1 DEF Accept, Idle, OutboundInv, Stages
<1>2. ASSUME UNCHANGED <<reader, writer, outq>> PROVE OutboundInv'
  BY <1>2 DEF OutboundInv
<1>3. ASSUME NEW c \in Conns, Writer(c) PROVE OutboundInv'
  <2>1. reader' = reader BY <1>3 DEF Writer, WriteFrame, WriterEnds, readerVars
  <2>2. ASSUME WriteFrame(c) PROVE OutboundInv'
    <3>1. writer[c] /\ outq[c] \in Nat \ {0} BY <2>2 DEF WriteFrame, OutboundInv
    <3>2. CASE writer' = [writer EXCEPT ![c] = FALSE] /\ outq' = [outq EXCEPT ![c] = 0]
      BY <2>1, <3>2 DEF OutboundInv
    <3>3. CASE outq' = [outq EXCEPT ![c] = @ - 1] /\ UNCHANGED writer
      <4>1. outq[c] - 1 \in Nat BY <3>1
      <4> QED BY <2>1, <3>1, <3>3, <4>1 DEF OutboundInv
    <3> QED BY <2>2, <3>2, <3>3 DEF WriteFrame
  <2>3. CASE WriterEnds(c) BY <2>1, <2>3 DEF WriterEnds, OutboundInv
  <2> QED BY <1>3, <2>2, <2>3 DEF Writer
<1>4. ASSUME NEW c \in Conns, Client(c) PROVE OutboundInv'
  BY <1>2, <1>4 DEF Client, Type, HangUp, StopReading, readerVars, writerVars
<1>5. ASSUME NEW c \in Conns, Game(c) PROVE OutboundInv'
  <2>1. reader' = reader /\ (Reply(c) \/ UNCHANGED <<writer, outq>>)
    BY <1>5 DEF Game, GameTurn, OnConnect, LoginLine, PlayLine, OnControl, OnDisconnected, Kick,
       SyncAuthenticated, readerVars, writerVars, taskVars
  <2> QED BY <1>2, <2>1, ReplyOutbound
<1>6. UNCHANGED taskVars \/ UNCHANGED vars => UNCHANGED <<reader, writer, outq>>
  BY DEF vars, taskVars, readerVars, writerVars
<1> QED BY <1>0, <1>1, <1>2, <1>3, <1>4, <1>5, <1>6, ReaderOutbound DEF Next, Listener, TurnAway

\* A connection is over only with its queue written, unless its client has gone, has
\* stopped reading, or was dropped: finish_connection waits for the writer.
THEOREM NothingUnwritten == Spec => FlushedBeforeEnd
<1>1. Init => OutboundInv BY DEF Init, OutboundInv, Stages
<1>2. InScope /\ OutboundInv /\ [Next]_vars => OutboundInv' BY NextOutbound
<1>3. InScope /\ OutboundInv /\ [Next]_vars =>
        [\A c \in Conns :
            ~Idle(c) /\ reader'[c] = "none" /\ ~stalled[c] /\ client[c] # "gone"
              /\ (c \in closing \/ why[c] = "eof")
            => outq[c] = 0]_vars
  <2> SUFFICES ASSUME InScope, OutboundInv, Next, NEW c \in Conns,
                      ~Idle(c), reader'[c] = "none", ~stalled[c], client[c] # "gone",
                      c \in closing \/ why[c] = "eof"
               PROVE outq[c] = 0
    OBVIOUS
  <2>0. scenario.conns \subseteq Conns BY ScenariosInScope DEF InScope
  <2>1. reader \in [Conns -> Stages] /\ reader[c] # "none" BY DEF OutboundInv, Idle
  <2>2. ASSUME NEW d \in Conns, Reader(d) PROVE outq[c] = 0
    <3>1. d = c
      BY <2>1, <2>2 DEF Reader, HandshakeDone, HandshakeFails, Read, Greet, FlushNaws, ReadEnds,
         Deliver, Announce, Settle, Finish, TaskEnds
    <3>2. HandshakeFails(c) \/ Settle(c) \/ Finish(c)
      BY <2>1, <2>2, <3>1 DEF Reader, HandshakeDone, Read, Greet, FlushNaws, ReadEnds,
         Deliver, Announce
    <3>3. CASE HandshakeFails(c) BY <3>3 DEF HandshakeFails, OutboundInv
    <3>4. CASE Settle(c) BY <2>1, <3>4 DEF Settle, Draining
    <3>5. CASE Finish(c) BY <3>5 DEF Finish, WriterStuck, OutboundInv
    <3> QED BY <3>2, <3>3, <3>4, <3>5
  <2>3. ASSUME NEW d \in Conns, Writer(d) \/ Client(d) \/ Game(d) PROVE reader' = reader
    BY <2>3 DEF Writer, Client, Game, GameTurn, WriteFrame, WriterEnds, Type, HangUp, StopReading,
       OnConnect, LoginLine, PlayLine, OnControl, OnDisconnected, Kick, SyncAuthenticated,
       readerVars, taskVars
  <2>4. ASSUME NEW d, NEW ip, NEW tls, Accept(d, ip, tls) PROVE FALSE
    BY <2>1, <2>4 DEF Accept, Idle, Stages
  <2>5. UNCHANGED taskVars => reader' = reader BY DEF taskVars, readerVars
  <2> QED BY <2>0, <2>1, <2>2, <2>3, <2>4, <2>5 DEF Next, Listener, TurnAway
<1> QED BY <1>1, <1>2, <1>3, ScopeInvariant, PTL DEF Spec, FlushedBeforeEnd
-----------------------------------------------------------------------------
(* What the game hears of a connection is a session.                       *)

Events == [kind : Inputs \cup {"connected", "disconnected"}, n : Nat]
Typed == [kind : Inputs, n : Nat \ {0}]
Sinks == [hello : BOOLEAN, pending : Seq(Events), todo : Seq(Events)]
Readers == [sink : Sinks, held : Nat, flush : BOOLEAN]

\* Lines come in the order they were typed, and so do sizes.
Increasing(q) ==
    \A i, j \in DOMAIN q :
        i < j /\ q[i].kind = q[j].kind /\ q[i].kind \in {"line", "size"} => q[i].n < q[j].n

\* A session that goes on, and one that is over.
Opened(q) ==
    q # <<>> /\ \A i \in DOMAIN q : (q[i].kind = "connected" <=> i = 1) /\ q[i].kind # "disconnected"
Closed(q) ==
    /\ Len(q) > 1
    /\ \A i \in DOMAIN q :
          (q[i].kind = "connected" <=> i = 1) /\ (q[i].kind = "disconnected" <=> i = Len(q))

Items(q) == {q[i] : i \in DOMAIN q}

\* What a sink behind `base` has let through, in order, and what was typed of it.
Flow(base, s) == IF s.hello THEN s.pending ELSE base \o s.todo
Passed(base, s) == {e \in Items(Flow(base, s)) : e.kind \in Inputs}

\* Nothing is ahead of the greeting, and no line waits for it.
SinkOK(base, s) ==
    /\ Increasing(Flow(base, s))
    /\ s.hello => base = <<>> /\ s.todo = <<>>
                  /\ \A i \in DOMAIN s.pending : s.pending[i].kind \in {"size", "ctl"}
    /\ ~s.hello => s.pending = <<>> /\ Opened(base \o s.todo)

\* The last size read, `top`, is held back, to be flushed, or was let through last.
Latest(r, base, top) ==
    /\ \A e \in Passed(base, r.sink) : e.kind = "size" => e.n <= top
    /\ r.held # 0 =>
          r.held = top /\ r.flush /\ \A e \in Passed(base, r.sink) : e.kind = "size" => e.n < top
    /\ r.held = 0 /\ top # 0 => Event("size", top) \in Passed(base, r.sink)

Base(c) == seen[c] \o EventsOf(c, inbound)
ReaderOf(c) == [sink |-> SinkOf(c), held |-> held[c], flush |-> flush[c]]

SessionTypes ==
    /\ reader \in [Conns -> Stages] /\ why \in [Conns -> {"none", "eof", "close", "drop"}]
    /\ hello \in [Conns -> BOOLEAN] /\ flush \in [Conns -> BOOLEAN]
    /\ pending \in [Conns -> Seq(Events)] /\ todo \in [Conns -> Seq(Events)]
    /\ held \in [Conns -> Nat] /\ lastSize \in [Conns -> Nat] /\ typed \in [Conns -> Nat]
    /\ inbound \in Seq([conn : Conns, kind : Inputs \cup {"connected", "disconnected"}, n : Nat])
    /\ stream \in [Conns -> Seq(Typed)] /\ seen \in [Conns -> Seq(Events)]
    /\ world \in [Conns -> {"none", "login", "playing"}] /\ caps \in [Conns -> BOOLEAN]

\* What is still to be read comes in order, after all that was.
Newer(chunk, last) ==
    /\ \A i, j \in DOMAIN chunk : i < j => chunk[i].n < chunk[j].n
    /\ \A i \in DOMAIN chunk : last < chunk[i].n
Fresh(rest, last, most, passed) ==
    /\ Newer(rest, last) /\ last <= most /\ \A i \in DOMAIN rest : rest[i].n <= most
    /\ \A e \in passed : e.kind \in {"line", "size"} =>
          e.n <= most /\ \A i \in DOMAIN rest : e.n < rest[i].n
Unread(c) == Fresh(stream[c], lastSize[c], typed[c], Passed(Base(c), SinkOf(c)))

\* A session whose end is announced, or over and heard.
Ended(c) == Increasing(Heard(c)) /\ (Heard(c) = <<>> \/ Closed(Heard(c)))

StageOK(c) ==
    /\ reader[c] \in {"none", "handshake"} =>
          /\ why[c] = "none" /\ pending[c] = <<>> /\ todo[c] = <<>> /\ stream[c] = <<>>
          /\ typed[c] = 0 /\ lastSize[c] = 0 /\ held[c] = 0 /\ ~flush[c]
    /\ reader[c] = "none" => ~hello[c] /\ Ended(c)
    /\ reader[c] = "handshake" => hello[c] /\ Heard(c) = <<>>
    /\ reader[c] = "read" => SinkOK(Base(c), SinkOf(c)) /\ Unread(c)
    /\ reader[c] = "read" /\ why[c] = "none" => Latest(ReaderOf(c), Base(c), lastSize[c])
    /\ reader[c] \in {"leave", "wait"} =>
          /\ why[c] # "none"
          /\ IF hello[c] THEN Heard(c) = <<>> ELSE pending[c] = <<>> /\ Ended(c)
    /\ reader[c] = "wait" => todo[c] = <<>>

\* The router knows of a connection only while its session is heard.
RouterOK(c) ==
    /\ seen[c] = <<>> => ~caps[c] /\ world[c] = "none"
    /\ \A i \in DOMAIN seen[c] : seen[c][i].kind # "disconnected"

SessionInv == SessionTypes /\ \A c \in Conns : StageOK(c) /\ RouterOK(c)
\* Recursion over positions: from a value, by a step for each position.
Iterates(f, N, b, F) == f[0] = b /\ \A i \in 1..N : f[i] = F[i][f[i - 1]]

LEMMA Recursion ==
    ASSUME NEW N \in Nat, NEW V, NEW b \in V, NEW F \in [1..N -> [V -> V]]
    PROVE  \E f \in [0..N -> V] : Iterates(f, N, b, F)
<1> DEFINE Good(k) == \E f \in [0..k -> V] : f[0] = b /\ \A i \in 1..k : f[i] = F[i][f[i - 1]]
           bad == {k \in 0..N : ~Good(k)}
<1>1. Good(0)
  <2> DEFINE f == [i \in 0..0 |-> b]
  <2>1. f \in [0..0 -> V] /\ f[0] = b /\ \A i \in 1..0 : f[i] = F[i][f[i - 1]]
    OBVIOUS
  <2> QED BY <2>1
<1>2. ASSUME NEW k \in 0..N, k + 1 \in 0..N, Good(k) PROVE Good(k + 1)
  <2>1. PICK f \in [0..k -> V] : f[0] = b /\ \A i \in 1..k : f[i] = F[i][f[i - 1]]
    BY <1>2
  <2> DEFINE g == [i \in 0..(k + 1) |-> IF i = k + 1 THEN F[k + 1][f[k]] ELSE f[i]]
  <2>2. k + 1 \in 1..N /\ F[k + 1][f[k]] \in V
    BY <1>2, <2>1
  <2>3. g \in [0..(k + 1) -> V]
    <3>1. ASSUME NEW i \in 0..(k + 1), i # k + 1 PROVE i \in 0..k
      BY <3>1
    <3> QED BY <2>1, <2>2, <3>1
  <2>4. g[0] = b
    BY <2>1
  <2>5. ASSUME NEW i \in 1..(k + 1) PROVE g[i] = F[i][g[i - 1]]
    <3>1. i - 1 \in 0..k /\ i - 1 # k + 1 /\ i - 1 \in 0..(k + 1)
      OBVIOUS
    <3>2. g[i - 1] = f[i - 1]
      BY <3>1
    <3>3. CASE i = k + 1
      <4>1. g[i] = F[k + 1][f[k]] /\ i - 1 = k
        BY <3>3
      <4> QED BY <3>2, <3>3, <4>1
    <3>4. CASE i # k + 1
      <4>1. i \in 1..k /\ g[i] = f[i]
        BY <3>4
      <4> QED BY <2>1, <3>2, <4>1
    <3> QED BY <3>3, <3>4
  <2> HIDE DEF g
  <2> QED BY <2>3, <2>4, <2>5
<1>3. bad = {}
  <2> SUFFICES ASSUME bad # {} PROVE FALSE
    OBVIOUS
  <2>1. bad \in SUBSET Nat
    OBVIOUS
  <2> HIDE DEF Good
  <2>2. PICK k \in bad : \A i \in bad : k <= i
    BY <2>1, Smallest
  <2>3. k \in 0..N /\ ~Good(k) /\ k # 0
    BY <1>1, <2>2
  <2>4. k - 1 \in 0..N /\ k - 1 \notin bad /\ (k - 1) + 1 = k
    BY <2>2, <2>3
  <2>5. Good(k - 1)
    BY <2>4
  <2> QED BY <1>2, <2>3, <2>4, <2>5
<1> HIDE DEF Good
<1>4. N \in 0..N /\ Good(N)
  BY <1>3
<1> QED BY <1>4 DEF Good, Iterates

\* Induction over positions.
LEMMA Induction ==
    ASSUME NEW N \in Nat, NEW S, 0 \in S, \A i \in 1..N : i - 1 \in S => i \in S
    PROVE  0..N \subseteq S
<1> DEFINE bad == (0..N) \ S
<1> SUFFICES ASSUME bad # {} PROVE FALSE
  OBVIOUS
<1>1. bad \in SUBSET Nat
  OBVIOUS
<1>2. PICK k \in bad : \A i \in bad : k <= i
  BY <1>1, Smallest
<1>3. k \in 1..N /\ k - 1 \in 0..N /\ k - 1 \notin bad
  BY <1>2
<1> QED BY <1>2, <1>3

\* The events in the channel, seen from one connection.
Sent == [conn : Conns, kind : Inputs \cup {"connected", "disconnected"}, n : Nat]
Channel == Seq(Sent)

\* f collects the events of c as the channel is gone through.
Collects(f, c, q) ==
    /\ f[0] = <<>> /\ EventsOf(c, q) = f[Len(q)]
    /\ \A i \in 1..Len(q) :
          f[i] = IF q[i].conn = c THEN Append(f[i - 1], Event(q[i].kind, q[i].n)) ELSE f[i - 1]

LEMMA EventsOfSteps ==
    ASSUME NEW c, NEW q \in Channel
    PROVE  \E f \in [0..Len(q) -> Seq(Events)] : Collects(f, c, q)
<1> DEFINE n == Len(q)
           step(s, i) == IF q[i].conn = c THEN Append(s, Event(q[i].kind, q[i].n)) ELSE s
           F == [i \in 1..n |-> [s \in Seq(Events) |-> step(s, i)]]
<1>1. n \in Nat /\ <<>> \in Seq(Events)
  BY DEF Channel
<1>2. ASSUME NEW i \in 1..n PROVE Event(q[i].kind, q[i].n) \in Events
  <2>1. q[i] \in Sent
    BY <1>2, ElementOfSeq DEF Channel
  <2> QED BY <2>1 DEF Event, Events, Sent
<1>3. F \in [1..n -> [Seq(Events) -> Seq(Events)]]
  <2>1. ASSUME NEW i \in 1..n, NEW s \in Seq(Events) PROVE step(s, i) \in Seq(Events)
    BY <1>2
  <2> HIDE DEF step, n
  <2> QED BY <2>1
<1> DEFINE V == Seq(Events)
           none == <<>>
<1> HIDE DEF F, n, V, none
<1>4. PICK f \in [0..n -> V] : Iterates(f, n, none, F)
  <2>1. n \in Nat /\ none \in V /\ F \in [1..n -> [V -> V]]
    BY <1>1, <1>3 DEF V, none
  <2> QED BY <2>1, Recursion
<1>5. ASSUME NEW i \in 1..n PROVE f[i] = step(f[i - 1], i)
  <2>1. i - 1 \in 0..n /\ f[i - 1] \in V /\ f[i] = F[i][f[i - 1]]
    BY <1>1, <1>4 DEF Iterates
  <2>2. F[i][f[i - 1]] = step(f[i - 1], i)
    <3> HIDE DEF step
    <3> QED BY <2>1 DEF F, V
  <2> QED BY <2>1, <2>2
<1> USE DEF n, none
<1>6. f = [i \in 0..Len(q) |->
              IF i = 0 THEN <<>>
              ELSE IF q[i].conn = c THEN Append(f[i - 1], Event(q[i].kind, q[i].n))
              ELSE f[i - 1]]
  <2> DEFINE h == [i \in 0..Len(q) |->
              IF i = 0 THEN <<>>
              ELSE IF q[i].conn = c THEN Append(f[i - 1], Event(q[i].kind, q[i].n))
              ELSE f[i - 1]]
  <2>1. ASSUME NEW i \in 0..n PROVE f[i] = h[i]
    <3>1. CASE i = 0
      BY <1>4, <3>1 DEF Iterates
    <3>2. CASE i # 0
      <4>1. i \in 1..n
        BY <1>1, <3>2
      <4> QED BY <1>5, <3>2, <4>1
    <3> QED BY <3>1, <3>2
  <2>2. DOMAIN f = 0..n /\ DOMAIN h = 0..n /\ f = [i \in 0..n |-> f[i]] /\ h = [i \in 0..n |-> h[i]]
    BY <1>4
  <2> HIDE DEF h
  <2>3. f = h
    BY <2>1, <2>2
  <2> QED BY <2>3 DEF h
<1>7. PICK g : g = [i \in 0..Len(q) |->
                     IF i = 0 THEN <<>>
                     ELSE IF q[i].conn = c THEN Append(g[i - 1], Event(q[i].kind, q[i].n))
                     ELSE g[i - 1]]
               /\ EventsOf(c, q) = g[Len(q)]
  BY <1>6 DEF EventsOf
<1>8. g[0] = <<>>
  BY <1>1, <1>7
<1>9. ASSUME NEW i \in 1..n
      PROVE g[i] = IF q[i].conn = c THEN Append(g[i - 1], Event(q[i].kind, q[i].n)) ELSE g[i - 1]
  <2>1. i \in 0..n /\ i # 0
    BY <1>1
  <2> QED BY <1>7, <2>1
<1>10. f[0] = none
  BY <1>4 DEF Iterates
<1>11. 0..n \subseteq {i \in 0..n : g[i] = f[i]}
  <2> DEFINE S == {i \in 0..n : g[i] = f[i]}
  <2>1. 0 \in S
    BY <1>1, <1>8, <1>10
  <2>2. ASSUME NEW i \in 1..n, i - 1 \in S PROVE i \in S
    BY <1>5, <1>9, <2>2
  <2> HIDE DEF S
  <2>3. 0..n \subseteq S
    BY <1>1, <2>1, <2>2, Induction
  <2> QED BY <2>3 DEF S
<1>12. EventsOf(c, q) = f[n]
  BY <1>1, <1>7, <1>11
<1> QED BY <1>4, <1>5, <1>10, <1>12 DEF V, Collects

LEMMA EventsOfType == ASSUME NEW c, NEW q \in Channel PROVE EventsOf(c, q) \in Seq(Events)
<1>1. Len(q) \in Nat
  BY DEF Channel
<1>2. PICK f \in [0..Len(q) -> Seq(Events)] : Collects(f, c, q)
  BY EventsOfSteps
<1> QED BY <1>1, <1>2 DEF Collects

\* An event sent is the last one on its way.
LEMMA EventsOfAppend ==
    ASSUME NEW c, NEW q \in Channel, NEW conn \in Conns, NEW e \in Events
    PROVE  LET sent == Append(q, [conn |-> conn, kind |-> e.kind, n |-> e.n])
           IN  /\ sent \in Channel
               /\ EventsOf(c, sent) = IF conn = c THEN Append(EventsOf(c, q), e)
                                      ELSE EventsOf(c, q)
<1> DEFINE x == [conn |-> conn, kind |-> e.kind, n |-> e.n]
           sent == Append(q, x)
           k == Len(q)
<1>1. e = Event(e.kind, e.n) /\ e.kind \in Inputs \cup {"connected", "disconnected"} /\ e.n \in Nat
  BY DEF Events, Event
<1>2. k \in Nat /\ x \in Sent
  BY <1>1 DEF Channel, Sent
<1>3. /\ sent \in Channel /\ Len(sent) = k + 1 /\ sent[k + 1] = x
      /\ \A i \in 1..k : sent[i] = q[i]
  BY <1>2, AppendProperties DEF Channel
<1> HIDE DEF x, sent
<1>4. x.conn = conn /\ Event(x.kind, x.n) = e
  BY <1>1 DEF x
<1>5. PICK f \in [0..k -> Seq(Events)] : Collects(f, c, q)
  BY EventsOfSteps
<1>6. PICK g \in [0..Len(sent) -> Seq(Events)] : Collects(g, c, sent)
  BY <1>3, EventsOfSteps
<1> USE DEF Collects
<1>7. 0..k \subseteq {i \in 0..k : g[i] = f[i]}
  <2> DEFINE S == {i \in 0..k : g[i] = f[i]}
  <2>1. 0 \in S
    BY <1>2, <1>5, <1>6
  <2>2. ASSUME NEW i \in 1..k, i - 1 \in S PROVE i \in S
    <3>1. i \in 1..Len(sent) /\ sent[i] = q[i] /\ i \in 0..k
      BY <1>2, <1>3
    <3>2. g[i] = IF q[i].conn = c THEN Append(g[i - 1], Event(q[i].kind, q[i].n)) ELSE g[i - 1]
      BY <1>6, <3>1
    <3> QED BY <1>5, <2>2, <3>1, <3>2
  <2> HIDE DEF S
  <2>3. 0..k \subseteq S
    BY <1>2, <2>1, <2>2, Induction
  <2> QED BY <2>3 DEF S
<1>8. g[k] = f[k] /\ k + 1 \in 1..Len(sent) /\ (k + 1) - 1 = k
  BY <1>2, <1>3, <1>7
<1>9. g[k + 1] = IF conn = c THEN Append(f[k], e) ELSE f[k]
  BY <1>3, <1>4, <1>6, <1>8
<1> QED BY <1>3, <1>5, <1>6, <1>9 DEF sent, x

\* The event at the head of the channel is the first one on its way.
LEMMA EventsOfTail ==
    ASSUME NEW c, NEW q \in Channel, q # <<>>
    PROVE  /\ Tail(q) \in Channel
           /\ Event(Head(q).kind, Head(q).n) \in Events
           /\ EventsOf(c, q) = IF Head(q).conn = c
                               THEN <<Event(Head(q).kind, Head(q).n)>> \o EventsOf(c, Tail(q))
                               ELSE EventsOf(c, Tail(q))
<1> DEFINE t == Tail(q)
           k == Len(t)
           e == Event(Head(q).kind, Head(q).n)
           pre == IF Head(q).conn = c THEN <<e>> ELSE <<>>
<1>1. /\ t \in Channel /\ Len(q) = k + 1 /\ k \in Nat
      /\ q[1] = Head(q) /\ \A i \in 1..k : t[i] = q[i + 1]
      /\ Head(q) \in Sent
  BY HeadTailProperties DEF Channel
<1>2. e \in Events
  BY <1>1 DEF Event, Events, Sent
<1>20. pre \in Seq(Events)
  <2> HIDE DEF e
  <2> QED BY <1>2
<1> HIDE DEF t, pre
<1>3. PICK f \in [0..Len(q) -> Seq(Events)] : Collects(f, c, q)
  BY EventsOfSteps
<1>4. PICK g \in [0..k -> Seq(Events)] : Collects(g, c, t)
  BY <1>1, EventsOfSteps
<1> USE DEF Collects
<1>5. 0..k \subseteq {i \in 0..k : f[i + 1] = pre \o g[i]}
  <2> DEFINE S == {i \in 0..k : f[i + 1] = pre \o g[i]}
  <2>1. 0 \in S
    <3>1. 1 \in 1..Len(q) /\ f[1] = IF q[1].conn = c THEN Append(f[0], Event(q[1].kind, q[1].n))
                                    ELSE f[0]
      <4>1. 1 \in 1..Len(q) /\ 1 - 1 = 0
        BY <1>1
      <4> QED BY <1>3, <4>1
    <3>2. f[1] = pre \o <<>>
      BY <1>2, <1>20, <1>3, <3>1 DEF pre
    <3> QED BY <1>1, <1>4, <3>2
  <2>2. ASSUME NEW i \in 1..k, i - 1 \in S PROVE i \in S
    <3>1. i + 1 \in 1..Len(q) /\ (i + 1) - 1 = i /\ t[i] = q[i + 1] /\ i \in 0..k /\ i - 1 \in 0..k
      BY <1>1
    <3>2. f[i] = pre \o g[i - 1]
      <4>1. f[(i - 1) + 1] = pre \o g[i - 1] /\ (i - 1) + 1 = i
        BY <2>2
      <4> QED BY <4>1
    <3>3. f[i + 1] = IF t[i].conn = c THEN Append(f[i], Event(t[i].kind, t[i].n)) ELSE f[i]
      BY <1>3, <3>1
    <3>4. g[i] = IF t[i].conn = c THEN Append(g[i - 1], Event(t[i].kind, t[i].n)) ELSE g[i - 1]
      BY <1>4
    <3>5. Event(t[i].kind, t[i].n) \in Events
      <4>1. t[i] \in Sent
        BY <1>1, ElementOfSeq DEF Channel
      <4> QED BY <4>1 DEF Event, Events, Sent
    <3>6. g[i - 1] \in Seq(Events)
      BY <3>1
    <3>7. Append(pre \o g[i - 1], Event(t[i].kind, t[i].n)) =
             pre \o Append(g[i - 1], Event(t[i].kind, t[i].n))
      <4> DEFINE ev == Event(t[i].kind, t[i].n)
                 h == g[i - 1]
      <4>1. ev \in Events /\ h \in Seq(Events)
        BY <3>5, <3>6
      <4> HIDE DEF ev, h
      <4>2. Append(h, ev) = h \o <<ev>> /\ Append(pre \o h, ev) = (pre \o h) \o <<ev>>
            /\ <<ev>> \in Seq(Events) /\ pre \o h \in Seq(Events)
        BY <1>20, <4>1, AppendIsConcat, ConcatProperties
      <4>3. (pre \o h) \o <<ev>> = pre \o (h \o <<ev>>)
        BY <1>20, <4>1, <4>2, ConcatAssociative
      <4> QED BY <4>2, <4>3 DEF ev, h
    <3> QED BY <3>1, <3>2, <3>3, <3>4, <3>7
  <2> HIDE DEF S
  <2>3. 0..k \subseteq S
    BY <1>1, <2>1, <2>2, Induction
  <2> QED BY <2>3 DEF S
<1>6. EventsOf(c, q) = pre \o EventsOf(c, t)
  <2>1. k \in 0..k
    BY <1>1
  <2>2. f[k + 1] = pre \o g[k]
    <3> HIDE DEF k
    <3> QED BY <1>5, <2>1
  <2> QED BY <1>1, <1>3, <1>4, <2>2
<1>7. EventsOf(c, t) \in Seq(Events)
  BY <1>1, EventsOfType
<1>8. <<>> \o EventsOf(c, t) = EventsOf(c, t)
  BY <1>7, ConcatEmptySeq
<1> QED BY <1>1, <1>2, <1>6, <1>8 DEF t, pre

\* Nothing is on its way exactly if the channel does not mention the connection.
LEMMA EventsOfEmpty ==
    ASSUME NEW c, NEW q \in Channel
    PROVE  EventsOf(c, q) = <<>> <=> \A i \in DOMAIN q : q[i].conn # c
<1> DEFINE k == Len(q)
<1>1. k \in Nat /\ DOMAIN q = 1..k
  BY DEF Channel
<1>2. PICK f \in [0..k -> Seq(Events)] : Collects(f, c, q)
  BY EventsOfSteps
<1> USE DEF Collects
<1>3. 0..k \subseteq {i \in 0..k : f[i] = <<>> <=> \A j \in 1..i : q[j].conn # c}
  <2> DEFINE S == {i \in 0..k : f[i] = <<>> <=> \A j \in 1..i : q[j].conn # c}
  <2>1. 0 \in S
    BY <1>1, <1>2
  <2>2. ASSUME NEW i \in 1..k, i - 1 \in S PROVE i \in S
    <3>1. i \in 0..k /\ i - 1 \in 0..k
      BY <1>1
    <3>0. f[i - 1] \in Seq(Events)
      BY <1>2, <3>1
    <3>2. f[i] = IF q[i].conn = c THEN Append(f[i - 1], Event(q[i].kind, q[i].n)) ELSE f[i - 1]
      BY <1>2
    <3>3. CASE q[i].conn = c
      <4>1. Event(q[i].kind, q[i].n) \in Events
        <5>1. q[i] \in Sent
          BY <1>1, ElementOfSeq DEF Channel
        <5> QED BY <5>1 DEF Event, Events, Sent
      <4>2. f[i] # <<>>
        BY <3>0, <3>2, <3>3, <4>1, AppendProperties
      <4>3. i \in 1..i
        BY <1>1
      <4> QED BY <3>1, <3>3, <4>2, <4>3
    <3>4. CASE q[i].conn # c
      <4>1. \A j \in 1..i : j \in 1..(i - 1) \/ j = i
        BY <1>1
      <4>2. 1..(i - 1) \subseteq 1..i
        BY <1>1
      <4> QED BY <2>2, <3>1, <3>2, <3>4, <4>1, <4>2
    <3> QED BY <3>3, <3>4
  <2> HIDE DEF S
  <2>3. 0..k \subseteq S
    BY <1>1, <2>1, <2>2, Induction
  <2> QED BY <2>3 DEF S
<1> QED BY <1>1, <1>2, <1>3

-----------------------------------------------------------------------------
(* The sink.                                                               *)

\* An event at the end keeps the order if it is newer than those of its kind.
LEMMA AppendKeeps ==
    ASSUME NEW q \in Seq(Events), NEW e \in Events, Increasing(q),
           \A d \in Items(q) : d.kind = e.kind /\ e.kind \in {"line", "size"} => d.n < e.n
    PROVE  /\ Append(q, e) \in Seq(Events) /\ Increasing(Append(q, e))
           /\ Items(Append(q, e)) = Items(q) \cup {e}
           /\ Opened(q) /\ e.kind \in Inputs => Opened(Append(q, e))
<1> DEFINE a == Append(q, e)
           k == Len(q)
<1>1. /\ k \in Nat /\ a \in Seq(Events) /\ a # <<>> /\ Len(a) = k + 1 /\ a[k + 1] = e
      /\ \A i \in 1..k : a[i] = q[i]
  BY AppendProperties
<1>2. DOMAIN q = 1..k /\ DOMAIN a = 1..(k + 1)
  BY <1>1
<1> HIDE DEF a, k
<1>3. \A i \in 1..(k + 1) : i \in 1..k \/ i = k + 1
  BY <1>1
<1>4. Increasing(a)
  <2> SUFFICES ASSUME NEW i \in 1..(k + 1), NEW j \in 1..(k + 1), i < j,
                      a[i].kind = a[j].kind, a[i].kind \in {"line", "size"}
               PROVE  a[i].n < a[j].n
    BY <1>2 DEF Increasing
  <2>1. i \in 1..k /\ a[i] = q[i] /\ q[i] \in Items(q)
    BY <1>1, <1>2 DEF Items
  <2>2. CASE j \in 1..k
    BY <1>1, <1>2, <2>1, <2>2 DEF Increasing
  <2>3. CASE j = k + 1
    BY <1>1, <2>1, <2>3
  <2> QED BY <1>3, <2>2, <2>3
<1>5. Items(a) = Items(q) \cup {e}
  <2>1. ASSUME NEW i \in 1..(k + 1) PROVE a[i] \in Items(q) \cup {e}
    BY <1>1, <1>2, <1>3 DEF Items
  <2>2. ASSUME NEW i \in 1..k PROVE q[i] \in Items(a)
    <3>1. i \in 1..(k + 1) /\ a[i] = q[i]
      BY <1>1
    <3> QED BY <1>2, <3>1 DEF Items
  <2>3. e \in Items(a)
    <3>1. k + 1 \in 1..(k + 1) /\ a[k + 1] = e
      BY <1>1
    <3> QED BY <1>2, <3>1 DEF Items
  <2> QED BY <1>2, <2>1, <2>2, <2>3 DEF Items
<1>6. ASSUME Opened(q), e.kind \in Inputs PROVE Opened(a)
  <2>1. q # <<>> /\ k >= 1
    BY <1>1, <1>2, <1>6 DEF Opened, k
  <2>2. e.kind \notin {"connected", "disconnected"}
    BY <1>6 DEF Inputs
  <2> QED BY <1>1, <1>2, <1>3, <1>6, <2>1, <2>2 DEF Opened
<1> QED BY <1>1, <1>4, <1>5, <1>6 DEF a

\* The greeting goes ahead of everything.
LEMMA GreetingAhead ==
    ASSUME NEW q \in Seq(Events), Increasing(q), \A e \in Items(q) : e.kind \in Inputs
    PROVE  LET g == <<Event("connected", 0)>> \o q
           IN  /\ g \in Seq(Events) /\ Increasing(g) /\ Opened(g)
               /\ Items(g) = Items(q) \cup {Event("connected", 0)}
<1> DEFINE h == <<Event("connected", 0)>>
           g == h \o q
           k == Len(q)
<1>1. k \in Nat /\ h \in Seq(Events) /\ Len(h) = 1 /\ h[1] = Event("connected", 0)
  BY DEF Events, Event
<1>2. /\ g \in Seq(Events) /\ Len(g) = k + 1
      /\ \A i \in 1..(k + 1) : g[i] = IF i <= 1 THEN h[i] ELSE q[i - 1]
  <2> HIDE DEF h
  <2>1. Len(h) + Len(q) = k + 1
    BY <1>1
  <2>2. /\ h \o q \in Seq(Events) /\ Len(h \o q) = Len(h) + Len(q)
        /\ \A i \in 1..(Len(h) + Len(q)) : (h \o q)[i] = IF i <= Len(h) THEN h[i] ELSE q[i - Len(h)]
    BY <1>1, ConcatProperties
  <2> QED BY <1>1, <2>1, <2>2
<1>3. DOMAIN q = 1..k /\ DOMAIN g = 1..(k + 1) /\ g # <<>>
  <2> HIDE DEF g
  <2> QED BY <1>1, <1>2
<1> HIDE DEF g, h, k
<1>4. g[1] = Event("connected", 0) /\ g[1].kind = "connected"
  BY <1>1, <1>2 DEF Event
<1>5. ASSUME NEW i \in 1..(k + 1), i # 1
      PROVE i - 1 \in 1..k /\ g[i] = q[i - 1] /\ g[i] \in Items(q)
  <2>1. i - 1 \in 1..k /\ g[i] = q[i - 1]
    BY <1>1, <1>2, <1>5
  <2> QED BY <1>3, <2>1 DEF Items
<1>6. Opened(g)
  BY <1>1, <1>3, <1>4, <1>5 DEF Opened, Inputs
<1>7. Increasing(g)
  <2> SUFFICES ASSUME NEW i \in 1..(k + 1), NEW j \in 1..(k + 1), i < j,
                      g[i].kind = g[j].kind, g[i].kind \in {"line", "size"}
               PROVE  g[i].n < g[j].n
    BY <1>3 DEF Increasing
  <2>1. i # 1 /\ j # 1
    BY <1>1, <1>4
  <2>2. i - 1 \in 1..k /\ j - 1 \in 1..k /\ i - 1 < j - 1 /\ g[i] = q[i - 1] /\ g[j] = q[j - 1]
    BY <1>1, <1>5, <2>1
  <2> QED BY <1>3, <2>2 DEF Increasing
<1>8. Items(g) = Items(q) \cup {Event("connected", 0)}
  <2>1. ASSUME NEW i \in 1..(k + 1) PROVE g[i] \in Items(q) \cup {Event("connected", 0)}
    BY <1>4, <1>5
  <2>2. ASSUME NEW i \in 1..k PROVE q[i] \in Items(g)
    <3>1. i + 1 \in 1..(k + 1) /\ i + 1 # 1 /\ (i + 1) - 1 = i
      BY <1>1
    <3>2. g[i + 1] = q[i]
      BY <1>5, <3>1
    <3> QED BY <1>3, <3>1, <3>2 DEF Items
  <2>3. Event("connected", 0) \in Items(g)
    <3>1. 1 \in 1..(k + 1)
      BY <1>1
    <3> QED BY <1>3, <1>4, <3>1 DEF Items
  <2> QED BY <1>3, <2>1, <2>2, <2>3 DEF Items
<1> QED BY <1>2, <1>6, <1>7, <1>8 DEF g, h

\* Sink::connect changes what was announced, not what was passed on.
LEMMA ConnectKeeps ==
    ASSUME NEW base \in Seq(Events), NEW s \in Sinks, SinkOK(base, s)
    PROVE  /\ Connect(s) \in Sinks /\ SinkOK(base, Connect(s)) /\ ~Connect(s).hello
           /\ Passed(base, Connect(s)) = Passed(base, s)
<1>1. CASE ~s.hello
  BY <1>1 DEF Connect
<1>2. CASE s.hello
  <2> DEFINE q == s.pending
             g == <<Event("connected", 0)>> \o q
  <2>1. base = <<>> /\ s.todo = <<>> /\ q \in Seq(Events) /\ Increasing(q)
        /\ \A e \in Items(q) : e.kind \in Inputs
    BY <1>2 DEF SinkOK, Flow, Sinks, Items, Inputs
  <2>2. g \in Seq(Events) /\ Increasing(g) /\ Opened(g)
        /\ Items(g) = Items(q) \cup {Event("connected", 0)}
    BY <2>1, GreetingAhead
  <2>3. <<Event("connected", 0)>> \in Seq(Events)
    BY DEF Event, Events
  <2>4. s.todo \o <<Event("connected", 0)>> = <<Event("connected", 0)>>
    BY <2>1, <2>3, ConcatEmptySeq
  <2>5. s.todo \o <<Event("connected", 0)>> \o s.pending = g
    BY <2>4
  <2>6. base \o g = g
    BY <2>1, <2>2, ConcatEmptySeq
  <2> HIDE DEF g
  <2>7. Connect(s) = [hello |-> FALSE, pending |-> <<>>, todo |-> g]
    BY <1>2, <2>5 DEF Connect
  <2>8. Flow(base, Connect(s)) = g /\ Flow(base, s) = q
    BY <1>2, <2>6, <2>7 DEF Flow
  <2>9. Passed(base, Connect(s)) = Passed(base, s)
    <3>1. Event("connected", 0).kind \notin Inputs
      BY DEF Event, Inputs
    <3> QED BY <2>2, <2>8, <3>1 DEF Passed
  <2> DEFINE t == Connect(s)
  <2> HIDE DEF t
  <2>10. t \in Sinks /\ ~t.hello /\ t.pending = <<>> /\ base \o t.todo = g
    BY <2>2, <2>6, <2>7 DEF t, Sinks
  <2>11. SinkOK(base, t)
    BY <2>2, <2>8, <2>10 DEF SinkOK, t
  <2> QED BY <2>9, <2>10, <2>11 DEF t
<1> QED BY <1>1, <1>2

\* Sink::send passes one more event on, behind all others.
LEMMA SendKeeps ==
    ASSUME NEW base \in Seq(Events), NEW s \in Sinks, SinkOK(base, s), NEW e \in Typed,
           s.hello => e.kind # "line",
           \A d \in Passed(base, s) : d.kind = e.kind /\ e.kind \in {"line", "size"} => d.n < e.n
    PROVE  /\ Send(s, e) \in Sinks /\ SinkOK(base, Send(s, e)) /\ (~s.hello => ~Send(s, e).hello)
           /\ Passed(base, Send(s, e)) = Passed(base, s) \cup {e}
<1>1. e \in Events /\ e.kind \in Inputs
  BY DEF Typed, Events
<1> DEFINE q == Flow(base, s)
           a == Append(q, e)
<1>2. q \in Seq(Events) /\ Increasing(q)
      /\ \A d \in Items(q) : d.kind = e.kind /\ e.kind \in {"line", "size"} => d.n < e.n
  <2>1. q \in Seq(Events)
    BY ConcatProperties DEF Flow, Sinks
  <2>2. \A d \in Items(q) : d.kind \in {"line", "size"} => d \in Passed(base, s)
    BY DEF Passed, Inputs
  <2> QED BY <2>1, <2>2 DEF SinkOK
<1>3. a \in Seq(Events) /\ Increasing(a) /\ Items(a) = Items(q) \cup {e}
      /\ (Opened(q) => Opened(a))
  BY <1>1, <1>2, AppendKeeps
<1>4. \A t : Flow(base, t) = a => Passed(base, t) = Passed(base, s) \cup {e}
  BY <1>1, <1>3 DEF Passed
<1>5. CASE ~s.hello
  <2>1. Send(s, e) = [hello |-> FALSE, pending |-> s.pending, todo |-> Append(s.todo, e)]
    BY <1>5 DEF Send, Sinks
  <2> DEFINE old == s.todo
             one == <<e>>
             t == Send(s, e)
  <2>2. old \in Seq(Events) /\ one \in Seq(Events) /\ Append(old, e) = old \o one
        /\ Append(old, e) \in Seq(Events)
    BY <1>1, AppendIsConcat DEF Sinks
  <2>3. q = base \o old /\ a = q \o one
    BY <1>1, <1>2, <1>5, AppendIsConcat DEF Flow
  <2>4. Opened(q) /\ s.pending = <<>>
    BY <1>5 DEF SinkOK, Flow
  <2>5. t \in Sinks /\ ~t.hello /\ t.pending = <<>> /\ base \o t.todo = a
    <3>1. t = [hello |-> FALSE, pending |-> <<>>, todo |-> Append(old, e)]
      BY <2>1, <2>4
    <3> HIDE DEF q, a, t, old, one
    <3>2. base \o (old \o one) = (base \o old) \o one
      BY <2>2, ConcatAssociative
    <3>3. base \o Append(old, e) = a
      BY <2>2, <2>3, <3>2
    <3> QED BY <2>2, <3>1, <3>3 DEF Sinks
  <2> HIDE DEF a, t
  <2>6. Flow(base, t) = a
    BY <2>5 DEF Flow
  <2>7. SinkOK(base, t)
    BY <1>3, <2>4, <2>5, <2>6 DEF SinkOK
  <2> QED BY <1>4, <1>5, <2>5, <2>6, <2>7 DEF t
<1>6. CASE s.hello
  <2> DEFINE kept == [s EXCEPT !.pending = Append(@, e)]
  <2>1. q = s.pending /\ base = <<>> /\ s.todo = <<>> /\ e.kind \in {"size", "ctl"}
    BY <1>1, <1>6 DEF Flow, SinkOK, Inputs
  <2>2. kept = [hello |-> TRUE, pending |-> a, todo |-> <<>>]
    <3>1. s = [hello |-> s.hello, pending |-> s.pending, todo |-> s.todo]
      BY DEF Sinks
    <3>2. s = [hello |-> TRUE, pending |-> q, todo |-> <<>>]
      BY <1>6, <2>1, <3>1
    <3>3. s.pending = q
      BY <2>1
    <3> HIDE DEF q
    <3>4. kept = [s EXCEPT !.pending = a]
      BY <3>3
    <3> HIDE DEF kept, a
    <3> QED BY <3>2, <3>4
  <2> HIDE DEF kept
  <2>3. kept \in Sinks /\ Flow(base, kept) = a
    BY <1>3, <2>2 DEF Sinks, Flow
  <2>4. \A i \in DOMAIN a : a[i].kind \in {"size", "ctl"}
    <3>1. \A i \in DOMAIN a : a[i] \in Items(q) \cup {e}
      BY <1>3 DEF Items
    <3>2. \A d \in Items(q) : d.kind \in {"size", "ctl"}
      BY <1>6, <2>1 DEF SinkOK, Items
    <3> QED BY <2>1, <3>1, <3>2
  <2>5. SinkOK(base, kept)
    BY <1>3, <2>1, <2>2, <2>3, <2>4 DEF SinkOK
  <2>6. Send(s, e) \in {kept, Connect(kept)}
    BY <1>6 DEF Send, kept
  <2>7. /\ Connect(kept) \in Sinks /\ SinkOK(base, Connect(kept))
        /\ Passed(base, Connect(kept)) = Passed(base, kept)
    BY <2>3, <2>5, ConnectKeeps
  <2> QED BY <1>4, <1>6, <2>3, <2>5, <2>6, <2>7
<1> QED BY <1>5, <1>6

LEMMA SinkTypes ==
    ASSUME NEW s \in Sinks, NEW e \in Events
    PROVE  Connect(s) \in Sinks /\ Send(s, e) \in Sinks
<1> DEFINE hail == <<Event("connected", 0)>>
<1>1. hail \in Seq(Events)
  BY DEF Event, Events
<1>2. ASSUME NEW t \in Sinks PROVE Connect(t) \in Sinks
  <2> HIDE DEF hail
  <2> DEFINE out == t.todo \o hail \o t.pending
  <2>1. out \in Seq(Events)
    <3>1. t.todo \in Seq(Events) /\ t.pending \in Seq(Events)
      BY DEF Sinks
    <3>2. t.todo \o hail \in Seq(Events)
      BY <1>1, <3>1, ConcatProperties
    <3> QED BY <3>1, <3>2, ConcatProperties
  <2>2. Connect(t) = IF t.hello THEN [hello |-> FALSE, pending |-> <<>>, todo |-> out] ELSE t
    BY DEF Connect, hail
  <2> HIDE DEF out
  <2> QED BY <2>1, <2>2 DEF Sinks
<1>3. Send(s, e) \in Sinks
  <2>1. Append(s.pending, e) \in Seq(Events) /\ Append(s.todo, e) \in Seq(Events)
    BY DEF Sinks
  <2>2. [s EXCEPT !.todo = Append(@, e)] \in Sinks /\ [s EXCEPT !.pending = Append(@, e)] \in Sinks
    BY <2>1 DEF Sinks
  <2> QED BY <1>2, <2>2 DEF Send
<1> QED BY <1>2, <1>3

LEMMA PassedTypes ==
    ASSUME NEW base \in Seq(Events), NEW s \in Sinks
    PROVE  \A d \in Passed(base, s) : d \in Events /\ d.n \in Nat
<1>1. Flow(base, s) \in Seq(Events)
  <2>1. s.todo \in Seq(Events) /\ s.pending \in Seq(Events)
    BY DEF Sinks
  <2>2. base \o s.todo \in Seq(Events)
    BY <2>1, ConcatProperties
  <2> QED BY <2>1, <2>2 DEF Flow
<1>2. ASSUME NEW i \in DOMAIN Flow(base, s) PROVE Flow(base, s)[i] \in Events
  BY <1>1, <1>2, ElementOfSeq
<1>3. \A d \in Events : d.n \in Nat
  BY DEF Events
<1> QED BY <1>2, <1>3 DEF Passed, Items

\* flush_pending_naws: what was held back is let through.
LEMMA FlushHeldKeeps ==
    ASSUME NEW base \in Seq(Events), NEW r \in Readers, SinkOK(base, r.sink),
           NEW top \in Nat, Latest(r, base, top)
    PROVE  LET f == FlushHeld(r)
           IN  /\ f \in Readers /\ SinkOK(base, f.sink) /\ Latest(f, base, top) /\ f.held = 0
               /\ \A d \in Passed(base, f.sink) : d \in Passed(base, r.sink) \/ d = Event("size", top)
               /\ r.held = 0 => f.sink = r.sink
<1> DEFINE f == FlushHeld(r)
           e == Event("size", r.held)
<1>1. r.sink \in Sinks /\ r.held \in Nat
  BY DEF Readers
<1>2. CASE r.held = 0
  <2>1. f = [sink |-> r.sink, held |-> 0, flush |-> FALSE]
    BY <1>2 DEF FlushHeld
  <2> HIDE DEF f
  <2>2. f \in Readers /\ f.sink = r.sink /\ f.held = 0
    BY <1>1, <2>1 DEF Readers
  <2>3. Latest(f, base, top)
    BY <1>2, <2>2 DEF Latest
  <2> QED BY <2>2, <2>3 DEF f
<1>3. CASE r.held # 0
  <2>1. f = [sink |-> Send(r.sink, e), held |-> 0, flush |-> FALSE]
    BY <1>3 DEF FlushHeld
  <2>2. e \in Typed /\ e.kind = "size" /\ e.n = top /\ r.held = top
    BY <1>1, <1>3 DEF Typed, Event, Inputs, Latest
  <2>3. \A d \in Passed(base, r.sink) : d.kind = "size" => d.n < top
    BY <1>3 DEF Latest
  <2> DEFINE s == Send(r.sink, e)
  <2> HIDE DEF e
  <2>4. s \in Sinks /\ SinkOK(base, s) /\ Passed(base, s) = Passed(base, r.sink) \cup {e}
    BY <1>1, <2>2, <2>3, SendKeeps
  <2> HIDE DEF s, f
  <2>5. f.sink = s /\ f.held = 0 /\ f \in Readers
    BY <2>1, <2>4 DEF s, Readers
  <2>6. Event("size", top) = e
    BY <2>2 DEF e
  <2>7. Latest(f, base, top)
    <3>1. \A d \in Passed(base, r.sink) : d.kind = "size" => d.n <= top
      BY DEF Latest
    <3>2. top <= top
      OBVIOUS
    <3> QED BY <2>2, <2>4, <2>5, <2>6, <3>1, <3>2 DEF Latest
  <2> QED BY <1>3, <2>4, <2>5, <2>6, <2>7 DEF f
<1> QED BY <1>2, <1>3

\* One control frame: the last size read stays the last one heard, or held back.
LEMMA ControlKeeps ==
    ASSUME NEW base \in Seq(Events), NEW r \in Readers, SinkOK(base, r.sink),
           NEW top \in Nat, Latest(r, base, top),
           NEW e \in Typed, e.kind # "line", top < e.n, NEW shed \in BOOLEAN
    PROVE  LET f == Control(r, e, shed)
           IN  /\ f \in Readers /\ SinkOK(base, f.sink)
               /\ Latest(f, base, IF e.kind = "size" THEN e.n ELSE top)
               /\ \A d \in Passed(base, f.sink) : d.kind = "line" => d \in Passed(base, r.sink)
<1> DEFINE f == Control(r, e, shed)
<1>1. r.sink \in Sinks /\ r.held \in Nat /\ e.n \in Nat \ {0} /\ e.kind \in {"size", "ctl"}
  BY DEF Readers, Typed, Inputs
<1>2. CASE shed
  <2>1. CASE e.kind = "size"
    <3>1. f = [r EXCEPT !.held = e.n, !.flush = TRUE]
      BY <1>2, <2>1 DEF Control
    <3> HIDE DEF f
    <3>2. f \in Readers /\ f.sink = r.sink /\ f.held = e.n /\ f.flush
      BY <1>1, <3>1 DEF Readers
    <3>3. \A d \in Passed(base, r.sink) : d.kind = "size" => d.n <= e.n /\ d.n < e.n
      <4>1. \A d \in Passed(base, r.sink) : d.kind = "size" => d.n <= top
        BY DEF Latest
      <4>2. \A d \in Passed(base, r.sink) : d.n \in Nat
        BY <1>1, PassedTypes
      <4> QED BY <1>1, <4>1, <4>2
    <3>4. Latest(f, base, e.n)
      BY <1>1, <3>2, <3>3 DEF Latest
    <3> QED BY <2>1, <3>2, <3>4 DEF f
  <2>2. CASE e.kind # "size"
    BY <1>2, <2>2 DEF Control
  <2> QED BY <2>1, <2>2
<1>3. CASE ~shed
  <2> DEFINE first == IF e.kind = "size" THEN [r EXCEPT !.held = 0] ELSE FlushHeld(r)
             s == Send(first.sink, e)
  <2>1. f = [first EXCEPT !.sink = s]
    BY <1>3 DEF Control
  <2>2. /\ first \in Readers /\ SinkOK(base, first.sink) /\ first.held = 0
        /\ \A d \in Passed(base, first.sink) : d.kind = "size" => d.n <= top
        /\ \A d \in Passed(base, first.sink) : d.kind = "line" => d \in Passed(base, r.sink)
        /\ e.kind # "size" => Latest(first, base, top)
    <3>1. CASE e.kind = "size"
      <4>1. first \in Readers /\ first.sink = r.sink /\ first.held = 0
        BY <3>1 DEF Readers
      <4> HIDE DEF first
      <4> QED BY <3>1, <4>1 DEF Latest
    <3>2. CASE e.kind # "size"
      <4>1. first = FlushHeld(r)
        BY <3>2
      <4>2. Event("size", top).kind # "line"
        BY DEF Event
      <4> HIDE DEF first
      <4> QED BY <3>2, <4>1, <4>2, FlushHeldKeeps DEF Latest
    <3> QED BY <3>1, <3>2
  <2> HIDE DEF first
  <2>3. first.sink \in Sinks
    BY <2>2 DEF Readers
  <2>4. \A d \in Passed(base, first.sink) : d.n \in Nat
    BY <2>3, PassedTypes
  <2>5. \A d \in Passed(base, first.sink) : d.kind = "size" => d.n < e.n
    BY <1>1, <2>2, <2>4
  <2>6. s \in Sinks /\ SinkOK(base, s) /\ Passed(base, s) = Passed(base, first.sink) \cup {e}
    BY <1>1, <2>2, <2>3, <2>5, SendKeeps
  <2> HIDE DEF f, s
  <2>7. f \in Readers /\ f.sink = s /\ f.held = 0
    BY <2>1, <2>2, <2>6 DEF Readers
  <2>8. \A d \in Passed(base, s) : d.kind = "line" => d \in Passed(base, r.sink)
    BY <1>1, <2>2, <2>6
  <2>9. CASE e.kind = "size"
    <3>1. e = Event("size", e.n)
      BY <2>9 DEF Typed, Event
    <3>2. \A d \in Passed(base, s) : d.kind = "size" => d.n <= e.n
      BY <1>1, <2>4, <2>5, <2>6
    <3>3. e \in Passed(base, s)
      BY <2>6
    <3>4. Latest(f, base, e.n)
      BY <2>7, <3>1, <3>2, <3>3 DEF Latest
    <3> QED BY <2>6, <2>7, <2>8, <2>9, <3>4 DEF f
  <2>10. CASE e.kind # "size"
    <3>1. Latest(f, base, top)
      BY <2>2, <2>6, <2>7, <2>10 DEF Latest
    <3> QED BY <2>6, <2>7, <2>8, <2>10, <3>1 DEF f
  <2> QED BY <2>9, <2>10
<1> QED BY <1>2, <1>3

-----------------------------------------------------------------------------
(* One turn of the read loop.                                              *)

LEMMA ControlType ==
    ASSUME NEW r \in Readers, NEW e \in Typed, NEW shed \in BOOLEAN
    PROVE  Control(r, e, shed) \in Readers
<1> DEFINE first == IF e.kind = "size" THEN [r EXCEPT !.held = 0] ELSE FlushHeld(r)
           s == Send(first.sink, e)
<1>1. r.sink \in Sinks /\ r.held \in Nat /\ e.n \in Nat /\ e \in Events
  BY DEF Readers, Typed, Events
<1>2. [r EXCEPT !.held = e.n, !.flush = TRUE] \in Readers
  BY <1>1 DEF Readers
<1>3. first \in Readers
  <2>1. [r EXCEPT !.held = 0] \in Readers
    BY DEF Readers
  <2> DEFINE t == IF r.held = 0 THEN r.sink ELSE Send(r.sink, Event("size", r.held))
  <2>2. t \in Sinks
    <3>1. Event("size", r.held) \in Events
      BY <1>1 DEF Event, Events, Inputs
    <3> QED BY <1>1, <3>1, SinkTypes
  <2>3. FlushHeld(r) = [sink |-> t, held |-> 0, flush |-> FALSE]
    BY DEF FlushHeld
  <2> HIDE DEF t
  <2>4. FlushHeld(r) \in Readers
    BY <2>2, <2>3 DEF Readers
  <2> QED BY <2>1, <2>4
<1> HIDE DEF first
<1>4. s \in Sinks
  <2>1. first.sink \in Sinks
    BY <1>3 DEF Readers
  <2> QED BY <1>1, <2>1, SinkTypes
<1>5. Control(r, e, shed) \in {r, [r EXCEPT !.held = e.n, !.flush = TRUE], [first EXCEPT !.sink = s]}
  BY DEF Control, first
<1> HIDE DEF s
<1>6. [first EXCEPT !.sink = s] \in Readers
  BY <1>3, <1>4 DEF Readers
<1> QED BY <1>2, <1>5, <1>6

\* f is the reader after each position of the chunk's control frames.
Reads(f, start, chunk, shed) ==
    /\ f[0] = start /\ Controls(start, chunk, shed) = f[Len(chunk)]
    /\ \A i \in 1..Len(chunk) :
          f[i] = IF chunk[i].kind = "line" THEN f[i - 1]
                 ELSE Control(f[i - 1], chunk[i], i \in shed)

LEMMA ControlsSteps ==
    ASSUME NEW start \in Readers, NEW chunk \in Seq(Typed), NEW shed
    PROVE  \E f : Reads(f, start, chunk, shed) /\ \A i \in 0..Len(chunk) : f[i] \in Readers
<1> DEFINE n == Len(chunk)
           step(r, i) == IF chunk[i].kind = "line" THEN r ELSE Control(r, chunk[i], i \in shed)
           F == [i \in 1..n |-> [r \in Readers |-> step(r, i)]]
<1>1. n \in Nat
  OBVIOUS
<1>2. ASSUME NEW i \in 1..n, NEW r \in Readers PROVE step(r, i) \in Readers
  <2>1. chunk[i] \in Typed /\ (i \in shed) \in BOOLEAN
    BY ElementOfSeq
  <2> QED BY <2>1, ControlType
<1>3. F \in [1..n -> [Readers -> Readers]]
  <2> HIDE DEF step, n
  <2> QED BY <1>2
<1> HIDE DEF F, n
<1>4. PICK f \in [0..n -> Readers] : Iterates(f, n, start, F)
  BY <1>1, <1>3, Recursion
<1>5. ASSUME NEW i \in 1..n PROVE f[i] = step(f[i - 1], i)
  <2>1. i - 1 \in 0..n /\ f[i - 1] \in Readers /\ f[i] = F[i][f[i - 1]]
    BY <1>1, <1>4 DEF Iterates
  <2>2. F[i][f[i - 1]] = step(f[i - 1], i)
    <3> HIDE DEF step
    <3> QED BY <2>1 DEF F
  <2> QED BY <2>1, <2>2
<1> USE DEF n
<1>6. f = [i \in 0..Len(chunk) |->
              IF i = 0 THEN start
              ELSE IF chunk[i].kind = "line" THEN f[i - 1]
              ELSE Control(f[i - 1], chunk[i], i \in shed)]
  <2> DEFINE h == [i \in 0..Len(chunk) |->
              IF i = 0 THEN start
              ELSE IF chunk[i].kind = "line" THEN f[i - 1]
              ELSE Control(f[i - 1], chunk[i], i \in shed)]
  <2>1. ASSUME NEW i \in 0..n PROVE f[i] = h[i]
    <3>1. CASE i = 0
      BY <1>4, <3>1 DEF Iterates
    <3>2. CASE i # 0
      <4>1. i \in 1..n
        BY <1>1, <3>2
      <4> QED BY <1>5, <3>2, <4>1
    <3> QED BY <3>1, <3>2
  <2>2. DOMAIN f = 0..n /\ DOMAIN h = 0..n /\ f = [i \in 0..n |-> f[i]] /\ h = [i \in 0..n |-> h[i]]
    BY <1>4
  <2> HIDE DEF h
  <2>3. f = h
    BY <2>1, <2>2
  <2> QED BY <2>3 DEF h
<1>7. PICK g : g = [i \in 0..Len(chunk) |->
                     IF i = 0 THEN start
                     ELSE IF chunk[i].kind = "line" THEN g[i - 1]
                     ELSE Control(g[i - 1], chunk[i], i \in shed)]
               /\ Controls(start, chunk, shed) = g[Len(chunk)]
  BY <1>6 DEF Controls
<1>8. g[0] = start
  BY <1>1, <1>7
<1>9. ASSUME NEW i \in 1..n PROVE g[i] = step(g[i - 1], i)
  <2>1. i \in 0..n /\ i # 0
    BY <1>1
  <2> QED BY <1>7, <2>1
<1>10. 0..n \subseteq {i \in 0..n : g[i] \in Readers}
  <2> DEFINE S == {i \in 0..n : g[i] \in Readers}
  <2>1. 0 \in S
    BY <1>1, <1>8
  <2>2. ASSUME NEW i \in 1..n, i - 1 \in S PROVE i \in S
    BY <1>2, <1>9, <2>2
  <2> HIDE DEF S
  <2>3. 0..n \subseteq S
    BY <1>1, <2>1, <2>2, Induction
  <2> QED BY <2>3 DEF S
<1> QED BY <1>7, <1>8, <1>9, <1>10 DEF Reads

\* The last size among the first positions of a chunk, or the one before it.
LastOf(chunk, last, i, m) ==
    /\ m = last \/ \E j \in 1..i : chunk[j].kind = "size" /\ chunk[j].n = m
    /\ \A j \in 1..i : chunk[j].kind = "size" => chunk[j].n <= m

\* The last size read once the chunk is.
LastSize(chunk, last) == IF Sizes(chunk) = {} THEN last ELSE Max(Sizes(chunk))

LEMMA LastOfAll ==
    ASSUME NEW chunk \in Seq(Typed), NEW last \in Nat, Newer(chunk, last),
           NEW m \in Nat, LastOf(chunk, last, Len(chunk), m)
    PROVE  m = LastSize(chunk, last)
<1> DEFINE S == Sizes(chunk)
<1>1. DOMAIN chunk = 1..Len(chunk)
  OBVIOUS
<1>2. ASSUME NEW x \in S PROVE x \in Nat /\ x <= m /\ last < x
  <2>1. PICK j \in DOMAIN chunk : chunk[j].kind = "size" /\ x = chunk[j].n
    BY <1>2 DEF Sizes
  <2>2. chunk[j] \in Typed
    BY <1>1, ElementOfSeq
  <2> QED BY <1>1, <2>1, <2>2 DEF LastOf, Newer, Typed
<1>3. m = last \/ m \in S
  BY <1>1 DEF LastOf, Sizes
<1> HIDE DEF S
<1>4. CASE S = {}
  BY <1>3, <1>4 DEF LastSize, S
<1>5. CASE S # {}
  <2>1. m \in S
    BY <1>2, <1>3, <1>5
  <2>2. \A x \in S : (\A y \in S : x >= y) => x = m
    BY <1>2, <2>1
  <2>3. \A y \in S : m >= y
    BY <1>2
  <2>4. Max(S) \in S /\ \A y \in S : Max(S) >= y
    BY <2>1, <2>3 DEF Max
  <2> QED BY <1>5, <2>2, <2>4 DEF LastSize, S
<1> QED BY <1>4, <1>5

LEMMA ControlsKeep ==
    ASSUME NEW base \in Seq(Events), NEW start \in Readers, SinkOK(base, start.sink),
           NEW last \in Nat, Latest(start, base, last),
           NEW chunk \in Seq(Typed), Newer(chunk, last), NEW shed
    PROVE  LET f == Controls(start, chunk, shed)
           IN  /\ f \in Readers /\ SinkOK(base, f.sink)
               /\ LastSize(chunk, last) \in Nat /\ Latest(f, base, LastSize(chunk, last))
               /\ LastOf(chunk, last, Len(chunk), LastSize(chunk, last))
               /\ \A d \in Passed(base, f.sink) : d.kind = "line" => d \in Passed(base, start.sink)
<1> DEFINE n == Len(chunk)
<1>1. n \in Nat /\ DOMAIN chunk = 1..n
  OBVIOUS
<1>2. PICK f : Reads(f, start, chunk, shed) /\ \A i \in 0..n : f[i] \in Readers
  BY ControlsSteps
<1> HIDE DEF n
<1> DEFINE Good(i, m) ==
       /\ SinkOK(base, f[i].sink) /\ Latest(f[i], base, m) /\ LastOf(chunk, last, i, m)
       /\ \A d \in Passed(base, f[i].sink) : d.kind = "line" => d \in Passed(base, start.sink)
<1>3. 0..n \subseteq {i \in 0..n : \E m \in Nat : Good(i, m)}
  <2> DEFINE S == {i \in 0..n : \E m \in Nat : Good(i, m)}
  <2>1. 0 \in S
    <3>1. f[0] = start
      BY <1>2 DEF Reads
    <3>2. LastOf(chunk, last, 0, last)
      BY DEF LastOf
    <3>3. Good(0, last)
      BY <3>1, <3>2
    <3> HIDE DEF Good
    <3> QED BY <1>1, <3>3
  <2>2. ASSUME NEW i \in 1..n, i - 1 \in S PROVE i \in S
    <3>1. PICK m \in Nat : Good(i - 1, m)
      <4> HIDE DEF Good
      <4> QED BY <2>2
    <3> DEFINE e == chunk[i]
               r == f[i - 1]
    <3>2. e \in Typed /\ e.n \in Nat \ {0}
      <4>1. chunk[i] \in Typed
        BY ElementOfSeq DEF n
      <4> QED BY <4>1 DEF Typed
    <3>3. r \in Readers /\ f[i] = IF e.kind = "line" THEN r ELSE Control(r, e, i \in shed)
      <4>1. i - 1 \in 0..n
        BY <1>1
      <4> QED BY <1>2, <4>1 DEF Reads, n
    <3>4. m < e.n
      <4>1. CASE m = last
        BY <1>1, <4>1 DEF Newer
      <4>2. CASE \E j \in 1..(i - 1) : chunk[j].kind = "size" /\ chunk[j].n = m
        <5>1. PICK j \in 1..(i - 1) : chunk[j].n = m
          BY <4>2
        <5>2. j \in 1..n /\ j < i
          BY <1>1
        <5> QED BY <1>1, <5>1, <5>2 DEF Newer
      <4> QED BY <3>1, <4>1, <4>2 DEF LastOf
    <3> DEFINE k == IF e.kind = "size" THEN e.n ELSE m
    <3>5. k \in Nat /\ LastOf(chunk, last, i, k)
      <4>1. \A j \in 1..i : j \in 1..(i - 1) \/ j = i
        BY <1>1
      <4>2. 1..(i - 1) \subseteq 1..i /\ i \in 1..i
        BY <1>1
      <4>3. \A j \in 1..(i - 1) : chunk[j].kind = "size" => chunk[j].n <= m
        BY <3>1 DEF LastOf
      <4>4. \A j \in 1..(i - 1) : chunk[j].n \in Nat
        <5>1. ASSUME NEW j \in 1..(i - 1) PROVE chunk[j].n \in Nat
          <6>1. j \in 1..n
            BY <1>1
          <6>2. chunk[j] \in Typed
            BY <6>1, ElementOfSeq DEF n
          <6> QED BY <6>2 DEF Typed
        <5> QED BY <5>1
      <4>5. CASE e.kind = "size"
        <5>1. \A j \in 1..(i - 1) : chunk[j].kind = "size" => chunk[j].n <= e.n
          <6> SUFFICES ASSUME NEW j \in 1..(i - 1), chunk[j].kind = "size" PROVE chunk[j].n <= e.n
            OBVIOUS
          <6>1. chunk[j].n <= m /\ chunk[j].n \in Nat
            BY <4>3, <4>4
          <6> HIDE DEF e
          <6> QED BY <3>2, <3>4, <6>1
        <5>2. e.n <= e.n /\ k = e.n
          BY <3>2, <4>5
        <5> QED BY <3>2, <4>1, <4>2, <4>5, <5>1, <5>2 DEF LastOf
      <4>6. CASE e.kind # "size"
        BY <3>1, <4>1, <4>2, <4>6 DEF LastOf
      <4> QED BY <3>2, <4>5, <4>6
    <3>6. Good(i, k)
      <4>1. CASE e.kind = "line"
        BY <3>1, <3>3, <3>5, <4>1
      <4>2. CASE e.kind # "line"
        <5> DEFINE g == Control(r, e, i \in shed)
        <5> HIDE DEF e, r
        <5>1. f[i] = g /\ SinkOK(base, r.sink) /\ Latest(r, base, m)
          BY <3>1, <3>3, <4>2 DEF r
        <5>2. /\ SinkOK(base, g.sink) /\ Latest(g, base, k)
              /\ \A d \in Passed(base, g.sink) : d.kind = "line" => d \in Passed(base, r.sink)
          <6>1. (i \in shed) \in BOOLEAN
            OBVIOUS
          <6> QED BY <3>2, <3>3, <3>4, <4>2, <5>1, <6>1, ControlKeeps
        <5> HIDE DEF g, k
        <5> QED BY <3>1, <3>5, <5>1, <5>2 DEF r
      <4> QED BY <4>1, <4>2
    <3> HIDE DEF Good, k
    <3> QED BY <3>5, <3>6
  <2> HIDE DEF S, Good
  <2>3. 0..n \subseteq S
    BY <1>1, <2>1, <2>2, Induction
  <2> QED BY <2>3 DEF S
<1>4. n \in 0..n
  BY <1>1
<1>5. PICK m \in Nat : Good(n, m)
  <2> HIDE DEF Good
  <2> QED BY <1>3, <1>4
<1>6. m = LastSize(chunk, last)
  BY <1>5, LastOfAll DEF n
<1>7. Controls(start, chunk, shed) = f[n]
  BY <1>2 DEF Reads, n
<1> QED BY <1>2, <1>4, <1>5, <1>6, <1>7 DEF n

\* g is the sink after each position of the chunk's lines.
Buffers(g, sink, chunk, shed) ==
    /\ g[0] = sink /\ Lines(sink, chunk, shed) = g[Len(chunk)]
    /\ \A i \in 1..Len(chunk) :
          g[i] = IF chunk[i].kind = "line" /\ i \notin shed THEN Send(g[i - 1], chunk[i])
                 ELSE g[i - 1]

LEMMA LinesSteps ==
    ASSUME NEW sink \in Sinks, NEW chunk \in Seq(Typed), NEW shed
    PROVE  \E g : Buffers(g, sink, chunk, shed) /\ \A i \in 0..Len(chunk) : g[i] \in Sinks
<1> DEFINE n == Len(chunk)
           step(s, i) == IF chunk[i].kind = "line" /\ i \notin shed THEN Send(s, chunk[i]) ELSE s
           F == [i \in 1..n |-> [s \in Sinks |-> step(s, i)]]
<1>1. n \in Nat
  OBVIOUS
<1>2. ASSUME NEW i \in 1..n, NEW s \in Sinks PROVE step(s, i) \in Sinks
  <2>1. chunk[i] \in Typed
    BY ElementOfSeq
  <2>2. chunk[i] \in Events
    BY <2>1 DEF Typed, Events
  <2> QED BY <2>2, SinkTypes
<1>3. F \in [1..n -> [Sinks -> Sinks]]
  <2> HIDE DEF step, n
  <2> QED BY <1>2
<1> HIDE DEF F, n
<1>4. PICK f \in [0..n -> Sinks] : Iterates(f, n, sink, F)
  BY <1>1, <1>3, Recursion
<1>5. ASSUME NEW i \in 1..n PROVE f[i] = step(f[i - 1], i)
  <2>1. i - 1 \in 0..n /\ f[i - 1] \in Sinks /\ f[i] = F[i][f[i - 1]]
    BY <1>1, <1>4 DEF Iterates
  <2>2. F[i][f[i - 1]] = step(f[i - 1], i)
    <3> HIDE DEF step
    <3> QED BY <2>1 DEF F
  <2> QED BY <2>1, <2>2
<1> USE DEF n
<1>6. f = [i \in 0..Len(chunk) |->
              IF i = 0 THEN sink
              ELSE IF chunk[i].kind = "line" /\ i \notin shed THEN Send(f[i - 1], chunk[i])
              ELSE f[i - 1]]
  <2> DEFINE h == [i \in 0..Len(chunk) |->
              IF i = 0 THEN sink
              ELSE IF chunk[i].kind = "line" /\ i \notin shed THEN Send(f[i - 1], chunk[i])
              ELSE f[i - 1]]
  <2>1. ASSUME NEW i \in 0..n PROVE f[i] = h[i]
    <3>1. CASE i = 0
      BY <1>4, <3>1 DEF Iterates
    <3>2. CASE i # 0
      <4>1. i \in 1..n
        BY <1>1, <3>2
      <4> QED BY <1>5, <3>2, <4>1
    <3> QED BY <3>1, <3>2
  <2>2. DOMAIN f = 0..n /\ DOMAIN h = 0..n /\ f = [i \in 0..n |-> f[i]] /\ h = [i \in 0..n |-> h[i]]
    BY <1>4
  <2> HIDE DEF h
  <2>3. f = h
    BY <2>1, <2>2
  <2> QED BY <2>3 DEF h
<1>7. PICK g : g = [i \in 0..Len(chunk) |->
                     IF i = 0 THEN sink
                     ELSE IF chunk[i].kind = "line" /\ i \notin shed THEN Send(g[i - 1], chunk[i])
                     ELSE g[i - 1]]
               /\ Lines(sink, chunk, shed) = g[Len(chunk)]
  BY <1>6 DEF Lines
<1>8. g[0] = sink
  BY <1>1, <1>7
<1>9. ASSUME NEW i \in 1..n PROVE g[i] = step(g[i - 1], i)
  <2>1. i \in 0..n /\ i # 0
    BY <1>1
  <2> QED BY <1>7, <2>1
<1>10. 0..n \subseteq {i \in 0..n : g[i] \in Sinks}
  <2> DEFINE S == {i \in 0..n : g[i] \in Sinks}
  <2>1. 0 \in S
    BY <1>1, <1>8
  <2>2. ASSUME NEW i \in 1..n, i - 1 \in S PROVE i \in S
    BY <1>2, <1>9, <2>2
  <2> HIDE DEF S
  <2>3. 0..n \subseteq S
    BY <1>1, <2>1, <2>2, Induction
  <2> QED BY <2>3 DEF S
<1> QED BY <1>7, <1>8, <1>9, <1>10 DEF Buffers

LEMMA LinesKeep ==
    ASSUME NEW base \in Seq(Events), NEW sink \in Sinks, SinkOK(base, sink),
           NEW chunk \in Seq(Typed), NEW last, Newer(chunk, last), NEW shed,
           (\E i \in DOMAIN chunk : chunk[i].kind = "line") => ~sink.hello,
           \A d \in Passed(base, sink) : d.kind = "line" => \A i \in DOMAIN chunk : d.n < chunk[i].n
    PROVE  LET g == Lines(sink, chunk, shed)
           IN  /\ g \in Sinks /\ SinkOK(base, g) /\ Passed(base, sink) \subseteq Passed(base, g)
               /\ \A d \in Passed(base, g) \ Passed(base, sink) :
                     d.kind = "line" /\ \E i \in DOMAIN chunk : d = chunk[i]
<1> DEFINE n == Len(chunk)
<1>1. n \in Nat /\ DOMAIN chunk = 1..n
  OBVIOUS
<1>2. PICK g : Buffers(g, sink, chunk, shed) /\ \A i \in 0..n : g[i] \in Sinks
  BY LinesSteps
<1> HIDE DEF n
<1> DEFINE Good(i) ==
       /\ SinkOK(base, g[i]) /\ (sink.hello \/ ~g[i].hello)
       /\ Passed(base, sink) \subseteq Passed(base, g[i])
       /\ \A d \in Passed(base, g[i]) \ Passed(base, sink) :
             d.kind = "line" /\ \E j \in 1..i : d = chunk[j]
<1>3. 0..n \subseteq {i \in 0..n : Good(i)}
  <2> DEFINE S == {i \in 0..n : Good(i)}
  <2>1. 0 \in S
    <3>1. g[0] = sink /\ 0 \in 0..n
      BY <1>1, <1>2 DEF Buffers
    <3> QED BY <3>1
  <2>2. ASSUME NEW i \in 1..n, i - 1 \in S PROVE i \in S
    <3>1. Good(i - 1) /\ i - 1 \in 0..n /\ i \in 0..n
      BY <1>1, <2>2
    <3> DEFINE e == chunk[i]
               s == g[i - 1]
    <3>2. e \in Typed
      BY ElementOfSeq DEF n
    <3>3. s \in Sinks /\ g[i] = IF e.kind = "line" /\ i \notin shed THEN Send(s, e) ELSE s
      BY <1>2, <3>1 DEF Buffers, n
    <3>4. 1..(i - 1) \subseteq 1..i /\ i \in 1..i
      BY <1>1
    <3>5. CASE e.kind = "line" /\ i \notin shed
      <4>1. ~sink.hello
        BY <1>1, <3>5
      <4>2. SinkOK(base, s) /\ ~s.hello
        BY <3>1, <4>1
      <4>3. ASSUME NEW d \in Passed(base, s), d.kind = e.kind PROVE d.n < e.n
        <5>1. CASE d \in Passed(base, sink)
          BY <1>1, <3>5, <4>3, <5>1
        <5>2. CASE \E j \in 1..(i - 1) : d = chunk[j]
          <6>1. PICK j \in 1..(i - 1) : d = chunk[j]
            BY <5>2
          <6>2. j \in 1..n /\ j < i
            BY <1>1
          <6> QED BY <1>1, <6>1, <6>2 DEF Newer
        <5> QED BY <3>1, <5>1, <5>2
      <4> DEFINE t == Send(s, e)
      <4> HIDE DEF e, s
      <4>4. SinkOK(base, t) /\ ~t.hello /\ Passed(base, t) = Passed(base, s) \cup {e}
        BY <3>2, <3>3, <4>2, <4>3, SendKeeps
      <4>5. g[i] = t
        BY <3>3, <3>5
      <4> HIDE DEF t
      <4>6. ASSUME NEW d \in Passed(base, g[i]) \ Passed(base, sink)
            PROVE d.kind = "line" /\ \E j \in 1..i : d = chunk[j]
        <5>1. CASE d = e
          BY <3>4, <3>5, <5>1 DEF e
        <5>2. CASE d \in Passed(base, s)
          BY <3>1, <3>4, <4>6, <5>2 DEF s
        <5> QED BY <4>4, <4>5, <4>6, <5>1, <5>2
      <4>7. Good(i)
        BY <3>1, <4>4, <4>5, <4>6 DEF s
      <4> QED BY <3>1, <4>7
    <3>6. CASE ~(e.kind = "line" /\ i \notin shed)
      <4>1. g[i] = s
        BY <3>3, <3>6
      <4>2. Good(i)
        BY <3>1, <3>4, <4>1
      <4> QED BY <3>1, <4>2
    <3> QED BY <3>5, <3>6
  <2> HIDE DEF S
  <2>3. 0..n \subseteq S
    BY <1>1, <2>1, <2>2, Induction
  <2> QED BY <2>3 DEF S
<1>4. n \in 0..n
  BY <1>1
<1>5. Lines(sink, chunk, shed) = g[n]
  BY <1>2 DEF Buffers, n
<1> QED BY <1>1, <1>2, <1>3, <1>4, <1>5

\* The whole turn: what was read is passed on in order, a line behind the greeting.
LEMMA ChunkKeeps ==
    ASSUME NEW c, NEW base \in Seq(Events), ReaderOf(c) \in Readers, SinkOK(base, SinkOf(c)),
           NEW last \in Nat, Latest(ReaderOf(c), base, last),
           NEW chunk \in Seq(Typed), Newer(chunk, last), NEW shed,
           \A d \in Passed(base, SinkOf(c)) :
              d.kind = "line" => \A i \in DOMAIN chunk : d.n < chunk[i].n
    PROVE  LET r == Chunk(c, chunk, shed)
           IN  /\ r \in Readers /\ SinkOK(base, r.sink)
               /\ LastSize(chunk, last) \in Nat /\ Latest(r, base, LastSize(chunk, last))
               /\ LastOf(chunk, last, Len(chunk), LastSize(chunk, last))
               /\ \A d \in Passed(base, r.sink) :
                     d.kind = "line" =>
                        d \in Passed(base, SinkOf(c)) \/ \E i \in DOMAIN chunk : d = chunk[i]
<1> DEFINE start == ReaderOf(c)
           top == LastSize(chunk, last)
           read == Controls(start, chunk, shed)
           greeted == IF \E i \in DOMAIN chunk : chunk[i].kind = "line" THEN Connect(read.sink)
                      ELSE read.sink
           sink == Lines(greeted, chunk, shed)
           r == Chunk(c, chunk, shed)
<1>1. r = [read EXCEPT !.sink = sink] /\ start.sink = SinkOf(c)
  BY DEF Chunk, ReaderOf
<1> HIDE DEF start, r
<1>2. /\ read \in Readers /\ SinkOK(base, read.sink) /\ top \in Nat /\ Latest(read, base, top)
      /\ LastOf(chunk, last, Len(chunk), top)
      /\ \A d \in Passed(base, read.sink) : d.kind = "line" => d \in Passed(base, SinkOf(c))
  <2>1. start \in Readers /\ SinkOK(base, start.sink) /\ Latest(start, base, last)
    BY <1>1 DEF start
  <2> QED BY <1>1, <2>1, ControlsKeep
<1> HIDE DEF read, top
<1>3. /\ greeted \in Sinks /\ SinkOK(base, greeted) /\ Passed(base, greeted) = Passed(base, read.sink)
      /\ (\E i \in DOMAIN chunk : chunk[i].kind = "line") => ~greeted.hello
  <2>1. read.sink \in Sinks
    BY <1>2 DEF Readers
  <2> QED BY <1>2, <2>1, ConnectKeeps
<1> HIDE DEF greeted
<1>4. \A d \in Passed(base, greeted) : d.kind = "line" => \A i \in DOMAIN chunk : d.n < chunk[i].n
  BY <1>2, <1>3
<1>5. /\ sink \in Sinks /\ SinkOK(base, sink) /\ Passed(base, greeted) \subseteq Passed(base, sink)
      /\ \A d \in Passed(base, sink) \ Passed(base, greeted) :
            d.kind = "line" /\ \E i \in DOMAIN chunk : d = chunk[i]
  BY <1>3, <1>4, LinesKeep
<1> HIDE DEF sink
<1>6. r \in Readers /\ r.sink = sink /\ r.held = read.held /\ r.flush = read.flush
  BY <1>1, <1>2, <1>5 DEF Readers
<1>7. \A d \in Passed(base, sink) : d.kind = "size" => d \in Passed(base, read.sink)
  BY <1>3, <1>5
<1>8. Latest(r, base, top)
  BY <1>2, <1>3, <1>5, <1>6, <1>7 DEF Latest
<1>9. \A d \in Passed(base, sink) :
         d.kind = "line" => d \in Passed(base, SinkOf(c)) \/ \E i \in DOMAIN chunk : d = chunk[i]
  BY <1>2, <1>3, <1>5
<1> QED BY <1>2, <1>5, <1>6, <1>8, <1>9 DEF r, top

-----------------------------------------------------------------------------
(* The steps.                                                              *)

\* What the session of d is told from.
View(d) ==
    <<reader[d], why[d], SinkOf(d), held[d], flush[d], Base(d), stream[d], typed[d], lastSize[d],
      seen[d], world[d], caps[d]>>

LEMMA Untouched ==
    ASSUME NEW d, StageOK(d), RouterOK(d), UNCHANGED View(d)
    PROVE  StageOK(d)' /\ RouterOK(d)'
<1>1. /\ reader'[d] = reader[d] /\ why'[d] = why[d] /\ SinkOf(d)' = SinkOf(d)
      /\ held'[d] = held[d] /\ flush'[d] = flush[d] /\ Base(d)' = Base(d) /\ stream'[d] = stream[d]
      /\ typed'[d] = typed[d] /\ lastSize'[d] = lastSize[d] /\ seen'[d] = seen[d]
      /\ world'[d] = world[d] /\ caps'[d] = caps[d]
  BY DEF View
<1>2. /\ hello'[d] = hello[d] /\ pending'[d] = pending[d] /\ todo'[d] = todo[d]
      /\ ReaderOf(d)' = ReaderOf(d)
  BY <1>1 DEF SinkOf, ReaderOf
<1>3. Heard(d)' = Heard(d)
  BY <1>1, <1>2 DEF Heard, Base
<1>4. Ended(d)' = Ended(d)
  BY <1>3 DEF Ended
<1>5. Unread(d)' = Unread(d)
  BY <1>1 DEF Unread
<1>6. StageOK(d)'
  BY <1>1, <1>2, <1>3, <1>4, <1>5 DEF StageOK
<1> QED BY <1>1, <1>6 DEF RouterOK

\* A step of one connection's own tasks keeps the other sessions as they were.
LEMMA OneSession ==
    ASSUME SessionInv, SessionTypes', NEW c, StageOK(c)', RouterOK(c)',
           \A d \in Conns \ {c} : UNCHANGED View(d)
    PROVE  SessionInv'
<1>1. ASSUME NEW d \in Conns PROVE StageOK(d)' /\ RouterOK(d)'
  <2>1. CASE d = c
    BY <2>1
  <2>2. CASE d # c
    BY <2>2, Untouched DEF SessionInv
  <2> QED BY <2>1, <2>2
<1> QED BY <1>1 DEF SessionInv

\* What a sequence of functions keeps away from the point that changes.
LEMMA BaseType ==
    ASSUME SessionTypes, NEW d \in Conns
    PROVE  Base(d) \in Seq(Events) /\ SinkOf(d) \in Sinks /\ ReaderOf(d) \in Readers
<1>1. inbound \in Channel
  BY DEF SessionTypes, Channel, Sent
<1>2. SinkOf(d) \in Sinks
  BY DEF SessionTypes, SinkOf, Sinks
<1>3. ReaderOf(d) \in Readers
  BY <1>2 DEF SessionTypes, ReaderOf, Readers
<1>4. EventsOf(d, inbound) \in Seq(Events) /\ seen[d] \in Seq(Events)
  BY <1>1, EventsOfType DEF SessionTypes
<1> QED BY <1>2, <1>3, <1>4, ConcatProperties DEF Base

\* The reader goes on with another sink: Read, Greet and FlushNaws.
LEMMA SinkMoves ==
    ASSUME SessionInv, NEW c \in Conns, reader[c] = "read", why[c] = "none",
           NEW r \in Readers, SetSink(c, r.sink),
           held' = [held EXCEPT ![c] = r.held], flush' = [flush EXCEPT ![c] = r.flush],
           NEW w \in {"none", "drop"}, why' = [why EXCEPT ![c] = w],
           NEW top \in Nat, lastSize' = [lastSize EXCEPT ![c] = top],
           NEW rest \in Seq(Typed), stream' = [stream EXCEPT ![c] = rest],
           UNCHANGED <<reader, inbound, seen, world, caps, typed>>,
           SinkOK(Base(c), r.sink), Latest(r, Base(c), top),
           Fresh(rest, top, typed[c], Passed(Base(c), r.sink))
    PROVE  SessionInv'
<1>1. r.sink \in Sinks /\ r.held \in Nat /\ r.flush \in BOOLEAN
      /\ r.sink.hello \in BOOLEAN /\ r.sink.pending \in Seq(Events) /\ r.sink.todo \in Seq(Events)
  BY DEF Readers, Sinks
<1>2. SessionTypes
  BY DEF SessionInv
<1>3. SessionTypes'
  BY <1>1, <1>2 DEF SessionTypes, SetSink
<1>4. ASSUME NEW d \in Conns \ {c} PROVE UNCHANGED View(d)
  <2>1. SinkOf(d)' = SinkOf(d)
    BY <1>2 DEF SinkOf, SetSink, SessionTypes
  <2>2. Base(d)' = Base(d)
    BY DEF Base
  <2>3. /\ held'[d] = held[d] /\ flush'[d] = flush[d] /\ why'[d] = why[d]
        /\ lastSize'[d] = lastSize[d] /\ stream'[d] = stream[d]
    BY <1>2 DEF SessionTypes
  <2> QED BY <2>1, <2>2, <2>3 DEF View
<1>5. /\ held'[c] = r.held /\ flush'[c] = r.flush /\ why'[c] = w /\ lastSize'[c] = top
      /\ stream'[c] = rest /\ reader'[c] = "read" /\ typed'[c] = typed[c]
  BY <1>2 DEF SessionTypes
<1>6. SinkOf(c)' = r.sink /\ Base(c)' = Base(c)
  <2>1. hello'[c] = r.sink.hello /\ pending'[c] = r.sink.pending /\ todo'[c] = r.sink.todo
    BY <1>2 DEF SetSink, SessionTypes
  <2>2. r.sink = [hello |-> r.sink.hello, pending |-> r.sink.pending, todo |-> r.sink.todo]
    BY <1>1 DEF Sinks
  <2> QED BY <2>1, <2>2 DEF SinkOf, Base
<1>7. ReaderOf(c)' = r
  <2>1. r = [sink |-> r.sink, held |-> r.held, flush |-> r.flush]
    BY DEF Readers
  <2> QED BY <1>5, <1>6, <2>1 DEF ReaderOf
<1>8. StageOK(c)'
  <2>1. Unread(c)'
    BY <1>5, <1>6 DEF Unread
  <2>2. SinkOK(Base(c), SinkOf(c))' /\ Latest(ReaderOf(c), Base(c), lastSize[c])'
    BY <1>5, <1>6, <1>7
  <2> QED BY <1>5, <2>1, <2>2 DEF StageOK
<1>9. RouterOK(c)'
  BY DEF SessionInv, RouterOK
<1> QED BY <1>3, <1>4, <1>8, <1>9, OneSession

LEMMA GreetKeeps ==
    ASSUME SessionInv, NEW c \in Conns, Greet(c) PROVE SessionInv'
<1> DEFINE s == Connect(SinkOf(c))
           r == [sink |-> s, held |-> held[c], flush |-> flush[c]]
<1>1. SessionTypes /\ reader[c] = "read" /\ why[c] = "none"
  BY DEF SessionInv, Greet, Selecting
<1>2. Base(c) \in Seq(Events) /\ SinkOf(c) \in Sinks
  BY <1>1, BaseType
<1>3. SinkOK(Base(c), SinkOf(c)) /\ Unread(c) /\ Latest(ReaderOf(c), Base(c), lastSize[c])
  BY <1>1 DEF SessionInv, StageOK
<1>4. s \in Sinks /\ SinkOK(Base(c), s) /\ Passed(Base(c), s) = Passed(Base(c), SinkOf(c))
  BY <1>2, <1>3, ConnectKeeps
<1>5. SetSink(c, s) /\ UNCHANGED <<reader, why, held, flush, lastSize, inbound, typed, stream, world,
                                   caps, seen>>
  BY DEF Greet, clientVars, worldVars
<1> HIDE DEF s
<1>6. /\ why' = [why EXCEPT ![c] = "none"] /\ held' = [held EXCEPT ![c] = r.held]
      /\ flush' = [flush EXCEPT ![c] = r.flush] /\ lastSize' = [lastSize EXCEPT ![c] = lastSize[c]]
      /\ stream' = [stream EXCEPT ![c] = stream[c]]
      /\ lastSize[c] \in Nat /\ stream[c] \in Seq(Typed)
  BY <1>1, <1>5 DEF SessionTypes
<1>7. r \in Readers /\ r.sink = s
  BY <1>1, <1>4 DEF Readers, SessionTypes
<1>8. Latest(r, Base(c), lastSize[c])
  BY <1>3, <1>4 DEF Latest, ReaderOf
<1>9. Fresh(stream[c], lastSize[c], typed[c], Passed(Base(c), r.sink))
  BY <1>3, <1>4, <1>7 DEF Unread
<1> HIDE DEF r
<1>10. SinkOK(Base(c), r.sink) /\ SetSink(c, r.sink)
  BY <1>4, <1>5, <1>7
<1> QED BY <1>1, <1>5, <1>6, <1>7, <1>8, <1>9, <1>10, SinkMoves

LEMMA FlushNawsKeeps ==
    ASSUME SessionInv, NEW c \in Conns, FlushNaws(c) PROVE SessionInv'
<1> DEFINE start == ReaderOf(c)
           r == FlushHeld(start)
           base == Base(c)
           top == lastSize[c]
<1>1. SessionTypes /\ reader[c] = "read" /\ why[c] = "none" /\ flush[c] = TRUE
  BY DEF SessionInv, FlushNaws, Selecting, SessionTypes
<1>2. base \in Seq(Events) /\ start \in Readers /\ start.sink = SinkOf(c) /\ top \in Nat
      /\ SinkOf(c) \in Sinks
  BY <1>1, BaseType DEF ReaderOf, SessionTypes
<1>3. SinkOK(base, SinkOf(c)) /\ Unread(c) /\ Latest(start, base, top)
  BY <1>1 DEF SessionInv, StageOK
<1>4. /\ SetSink(c, r.sink) /\ held' = [held EXCEPT ![c] = r.held]
      /\ flush' = [flush EXCEPT ![c] = r.flush]
      /\ UNCHANGED <<reader, why, lastSize, inbound, typed, stream, world, caps, seen>>
  BY <1>1 DEF FlushNaws, ReaderOf, clientVars, worldVars
<1> HIDE DEF start, base, r
<1>5. /\ r \in Readers /\ SinkOK(base, r.sink) /\ Latest(r, base, top)
      /\ \A d \in Passed(base, r.sink) : d \in Passed(base, start.sink) \/ d = Event("size", top)
  BY <1>2, <1>3, FlushHeldKeeps DEF r
<1>6. Fresh(stream[c], top, typed[c], Passed(base, r.sink))
  <2>1. Fresh(stream[c], top, typed[c], Passed(base, start.sink))
    BY <1>2, <1>3 DEF Unread, base
  <2>2. Event("size", top).n = top
    BY DEF Event
  <2>3. ASSUME NEW e \in Passed(base, r.sink), e.kind \in {"line", "size"}
        PROVE  e.n <= typed[c] /\ \A i \in DOMAIN stream[c] : e.n < stream[c][i].n
    BY <1>5, <2>1, <2>2, <2>3 DEF Fresh, Newer
  <2> QED BY <2>1, <2>3 DEF Fresh
<1>7. /\ why' = [why EXCEPT ![c] = "none"] /\ lastSize' = [lastSize EXCEPT ![c] = top]
      /\ stream' = [stream EXCEPT ![c] = stream[c]] /\ stream[c] \in Seq(Typed)
  BY <1>1, <1>4 DEF SessionTypes
<1> HIDE DEF top
<1> QED BY <1>1, <1>2, <1>4, <1>5, <1>6, <1>7, SinkMoves DEF base

LEMMA ReadKeeps ==
    ASSUME SessionInv, NEW c \in Conns, Read(c) PROVE SessionInv'
<1> DEFINE base == Base(c)
           last == lastSize[c]
           q == stream[c]
           k == Len(q)
<1>1. SessionTypes /\ reader[c] = "read" /\ why[c] = "none"
  BY DEF SessionInv, Read, Listening, Selecting
<1>2. base \in Seq(Events) /\ ReaderOf(c) \in Readers /\ last \in Nat /\ q \in Seq(Typed)
      /\ k \in Nat /\ DOMAIN q = 1..k /\ typed[c] \in Nat
  <2>1. q \in Seq(Typed) /\ last \in Nat /\ typed[c] \in Nat
    BY <1>1 DEF SessionTypes
  <2> QED BY <1>1, <2>1, BaseType
<1>3. SinkOK(base, SinkOf(c)) /\ Fresh(q, last, typed[c], Passed(base, SinkOf(c)))
      /\ Latest(ReaderOf(c), base, last)
  BY <1>1 DEF SessionInv, StageOK, Unread
<1>4. PICK n \in 1..k, fatal \in BOOLEAN : \E shed \in SUBSET (1..n) :
          LET chunk == SubSeq(q, 1, n)
              r == Chunk(c, chunk, shed)
          IN  /\ SetSink(c, r.sink)
              /\ held' = [held EXCEPT ![c] = r.held]
              /\ flush' = [flush EXCEPT ![c] = r.flush]
              /\ why' = [why EXCEPT ![c] = IF fatal THEN "drop" ELSE "none"]
              /\ lastSize' = [lastSize EXCEPT ![c] = LastSize(chunk, last)]
              /\ stream' = [stream EXCEPT ![c] = SubSeq(q, n + 1, k)]
  BY <1>1 DEF Read, LastSize, SessionTypes
<1> DEFINE chunk == SubSeq(q, 1, n)
           rest == SubSeq(q, n + 1, k)
<1>5. PICK shed \in SUBSET (1..n) :
        LET r == Chunk(c, chunk, shed)
        IN  /\ SetSink(c, r.sink)
            /\ held' = [held EXCEPT ![c] = r.held]
            /\ flush' = [flush EXCEPT ![c] = r.flush]
            /\ why' = [why EXCEPT ![c] = IF fatal THEN "drop" ELSE "none"]
            /\ lastSize' = [lastSize EXCEPT ![c] = LastSize(chunk, last)]
            /\ stream' = [stream EXCEPT ![c] = rest]
  BY <1>4
<1>6. /\ chunk \in Seq(Typed) /\ Len(chunk) = n /\ DOMAIN chunk = 1..n
      /\ \A i \in 1..n : chunk[i] = q[i]
  <2> HIDE DEF q, k
  <2>1. 1..n \subseteq DOMAIN q
    BY <1>2
  <2> QED BY <1>2, <2>1, SubSeqProperties
<1>7. /\ rest \in Seq(Typed) /\ DOMAIN rest = 1..(k - n)
      /\ \A i \in 1..(k - n) : rest[i] = q[n + i] /\ n + i \in 1..k
  <2> HIDE DEF q
  <2>1. \A i \in (n + 1)..k : i \in 1..k /\ q[i] \in Typed
    BY <1>2, ElementOfSeq
  <2>2. /\ rest \in Seq(Typed) /\ Len(rest) = IF n + 1 <= k THEN k - (n + 1) + 1 ELSE 0
        /\ \A i \in 1..(k - (n + 1) + 1) : rest[i] = q[(n + 1) + i - 1]
    BY <1>2, <2>1, SubSeqProperties
  <2> HIDE DEF rest, k
  <2>3. Len(rest) = k - n /\ (k - (n + 1)) + 1 = k - n
    BY <1>2, <2>2
  <2>4. ASSUME NEW i \in 1..(k - n) PROVE rest[i] = q[n + i] /\ n + i \in 1..k
    <3>1. (n + 1) + i - 1 = n + i /\ n + i \in 1..k
      BY <1>2
    <3> QED BY <2>2, <2>3, <3>1
  <2> QED BY <2>2, <2>3, <2>4
<1> DEFINE r == Chunk(c, chunk, shed)
           top == LastSize(chunk, last)
<1> HIDE DEF base, last, q, k, chunk, rest
<1>8. Newer(chunk, last)
  <2>1. 1..n \subseteq DOMAIN q
    BY <1>2
  <2> QED BY <1>3, <1>6, <2>1 DEF Fresh, Newer
<1>9. ASSUME NEW i \in 1..n, NEW j \in 1..(k - n) PROVE chunk[i].n < rest[j].n
  <2>1. i \in 1..k /\ n + j \in 1..k /\ i < n + j
    BY <1>2
  <2> QED BY <1>2, <1>3, <1>6, <1>7, <2>1 DEF Fresh, Newer
<1>10. ASSUME NEW i \in 1..n PROVE chunk[i].n <= typed[c] /\ last < chunk[i].n
  <2>1. i \in DOMAIN q
    BY <1>2
  <2> QED BY <1>3, <1>6, <2>1 DEF Fresh, Newer
<1>11. ASSUME NEW j \in 1..(k - n)
       PROVE rest[j].n <= typed[c] /\ last < rest[j].n
             /\ \A e \in Passed(base, SinkOf(c)) : e.kind \in {"line", "size"} => e.n < rest[j].n
  <2>1. n + j \in DOMAIN q
    BY <1>2, <1>7
  <2> QED BY <1>3, <1>7, <2>1 DEF Fresh, Newer
<1>12. \A d \in Passed(base, SinkOf(c)) :
          d.kind = "line" => \A i \in DOMAIN chunk : d.n < chunk[i].n
  BY <1>2, <1>3, <1>6 DEF Fresh
<1>13. /\ r \in Readers /\ SinkOK(base, r.sink) /\ top \in Nat /\ Latest(r, base, top)
       /\ LastOf(chunk, last, n, top)
       /\ \A d \in Passed(base, r.sink) :
             d.kind = "line" => d \in Passed(base, SinkOf(c)) \/ \E i \in 1..n : d = chunk[i]
  <2>1. /\ r \in Readers /\ SinkOK(base, r.sink) /\ top \in Nat /\ Latest(r, base, top)
        /\ LastOf(chunk, last, Len(chunk), top)
        /\ \A d \in Passed(base, r.sink) :
              d.kind = "line" =>
                 d \in Passed(base, SinkOf(c)) \/ \E i \in DOMAIN chunk : d = chunk[i]
    <3>1. base \in Seq(Events) /\ ReaderOf(c) \in Readers /\ last \in Nat
      BY <1>2
    <3>2. SinkOK(base, SinkOf(c)) /\ Latest(ReaderOf(c), base, last)
      BY <1>3
    <3>3. chunk \in Seq(Typed)
      BY <1>6
    <3> QED BY ONLY <1>8, <1>12, <3>1, <3>2, <3>3, ChunkKeeps DEF r, top
  <2> HIDE DEF r, top
  <2> QED BY <1>6, <2>1
<1> HIDE DEF r, top
<1>14. top <= typed[c] /\ \A j \in 1..(k - n) : top < rest[j].n
  <2>1. CASE top = last
    BY <1>3, <1>11, <2>1 DEF Fresh
  <2>2. CASE \E i \in 1..n : chunk[i].n = top
    BY <1>9, <1>10, <2>2
  <2> QED BY <1>13, <2>1, <2>2 DEF LastOf
<1>15. ASSUME NEW d \in Passed(base, r.sink), d.kind \in {"line", "size"}
       PROVE  d.n <= typed[c] /\ \A j \in 1..(k - n) : d.n < rest[j].n
  <2>1. CASE d.kind = "size"
    <3>1. d.n <= top
      BY <1>13, <2>1 DEF Latest
    <3>2. d.n \in Nat
      <4>1. r.sink \in Sinks
        BY <1>13 DEF Readers
      <4> QED BY <1>2, <4>1, PassedTypes
    <3>3. \A j \in 1..(k - n) : rest[j].n \in Nat
      <4>1. \A j \in 1..(k - n) : rest[j] \in Typed
        <5>1. Len(rest) = k - n
          BY <1>2, <1>7
        <5> QED BY <1>7, <5>1, ElementOfSeq
      <4> QED BY <4>1 DEF Typed
    <3> QED BY <1>2, <1>13, <1>14, <3>1, <3>2, <3>3
  <2>2. CASE d.kind = "line" /\ d \in Passed(base, SinkOf(c))
    BY <1>3, <1>11, <2>2 DEF Fresh
  <2>3. CASE \E i \in 1..n : d = chunk[i]
    BY <1>9, <1>10, <2>3
  <2> QED BY <1>13, <1>15, <2>1, <2>2, <2>3
<1>16. Fresh(rest, top, typed[c], Passed(base, r.sink))
  <2>1. \A i, j \in DOMAIN rest : i < j => rest[i].n < rest[j].n
    <3> SUFFICES ASSUME NEW i \in 1..(k - n), NEW j \in 1..(k - n), i < j
                 PROVE  rest[i].n < rest[j].n
      BY <1>7
    <3>1. n + i \in 1..k /\ n + j \in 1..k /\ n + i < n + j
      BY <1>7
    <3> QED BY <1>2, <1>3, <1>7, <3>1 DEF Fresh, Newer
  <2> QED BY <1>7, <1>11, <1>14, <1>15, <2>1 DEF Fresh, Newer
<1>17. /\ SetSink(c, r.sink) /\ held' = [held EXCEPT ![c] = r.held]
       /\ flush' = [flush EXCEPT ![c] = r.flush]
       /\ lastSize' = [lastSize EXCEPT ![c] = top] /\ stream' = [stream EXCEPT ![c] = rest]
       /\ UNCHANGED <<reader, inbound, seen, world, caps, typed>>
  BY <1>5 DEF Read, worldVars, r, top
<1>18. PICK w \in {"none", "drop"} : why' = [why EXCEPT ![c] = w]
  BY <1>5
<1> QED BY <1>1, <1>7, <1>13, <1>16, <1>17, <1>18, SinkMoves DEF base

LEMMA HeardType ==
    ASSUME SessionTypes, NEW c \in Conns
    PROVE  /\ Heard(c) = Base(c) \o todo[c] /\ Heard(c) \in Seq(Events)
           /\ todo[c] = <<>> => Heard(c) = Base(c)
           /\ Heard(c) = <<>> => Base(c) = <<>> /\ todo[c] = <<>>
           /\ Base(c) = <<>> => seen[c] = <<>>
<1>1. Base(c) \in Seq(Events) /\ todo[c] \in Seq(Events) /\ seen[c] \in Seq(Events)
  BY BaseType DEF SessionTypes
<1>2. Heard(c) = Base(c) \o todo[c]
  BY DEF Heard, Base
<1>3. todo[c] = <<>> => Base(c) \o todo[c] = Base(c)
  BY <1>1, ConcatEmptySeq
<1>4. Heard(c) \in Seq(Events) /\ Len(Heard(c)) = Len(Base(c)) + Len(todo[c])
  BY <1>1, <1>2, ConcatProperties
<1>5. Heard(c) = <<>> => Base(c) = <<>> /\ todo[c] = <<>>
  <2> SUFFICES ASSUME Heard(c) = <<>> PROVE Len(Base(c)) = 0 /\ Len(todo[c]) = 0
    BY <1>1, EmptySeq
  <2>1. Len(Base(c)) \in Nat /\ Len(todo[c]) \in Nat /\ Len(Heard(c)) = 0
    BY <1>1
  <2> QED BY <1>4, <2>1
<1>6. Base(c) = <<>> => seen[c] = <<>>
  <2> DEFINE q == EventsOf(c, inbound)
  <2>1. q \in Seq(Events)
    BY EventsOfType DEF SessionTypes, Channel, Sent
  <2>2. Base(c) = seen[c] \o q
    BY DEF Base
  <2> HIDE DEF q
  <2>3. Len(Base(c)) = Len(seen[c]) + Len(q) /\ Len(seen[c]) \in Nat /\ Len(q) \in Nat
    BY <1>1, <2>1, <2>2, ConcatProperties
  <2> SUFFICES ASSUME Base(c) = <<>> PROVE Len(seen[c]) = 0
    BY <1>1, EmptySeq
  <2> QED BY <2>3
<1> QED BY <1>2, <1>3, <1>4, <1>5, <1>6

\* Nothing is on its way from a connection that is over and not mentioned.
LEMMA Quiet ==
    ASSUME SessionInv, NEW c \in Conns, Idle(c), ~Mentioned(c)
    PROVE  seen[c] = <<>> /\ Heard(c) = <<>> /\ Base(c) = <<>>
<1>1. SessionTypes /\ StageOK(c) /\ RouterOK(c) /\ reader[c] = "none"
  BY DEF SessionInv, Idle
<1>2. todo[c] = <<>> /\ (Heard(c) = <<>> \/ Closed(Heard(c)))
  BY <1>1 DEF StageOK, Ended
<1>3. EventsOf(c, inbound) = <<>>
  <2>1. inbound \in Channel
    BY <1>1 DEF SessionTypes, Channel, Sent
  <2> QED BY <2>1, EventsOfEmpty DEF Mentioned
<1>4. seen[c] \in Seq(Events) /\ Base(c) = seen[c]
  <2>1. seen[c] \in Seq(Events)
    BY <1>1 DEF SessionTypes
  <2> QED BY <1>3, <2>1, ConcatEmptySeq DEF Base
<1>5. Heard(c) = seen[c]
  BY <1>1, <1>2, <1>4, HeardType
<1>6. ~Closed(seen[c])
  <2> SUFFICES ASSUME Closed(seen[c]) PROVE FALSE
    OBVIOUS
  <2>1. Len(seen[c]) \in DOMAIN seen[c]
    BY <1>4 DEF Closed
  <2> QED BY <1>1, <2>1 DEF Closed, RouterOK
<1> QED BY <1>2, <1>4, <1>5, <1>6

\* A reader that starts has nothing behind it.
LEMMA ReaderStarts ==
    ASSUME NEW s \in Sinks, s.hello, s.pending = <<>>, s.todo = <<>>
    PROVE  /\ SinkOK(<<>>, s) /\ Passed(<<>>, s) = {}
           /\ \A flushing : Latest([sink |-> s, held |-> 0, flush |-> flushing], <<>>, 0)
           /\ Fresh(<<>>, 0, 0, Passed(<<>>, s))
<1>1. Flow(<<>>, s) = <<>>
  BY DEF Flow
<1>2. Passed(<<>>, s) = {}
  BY <1>1 DEF Passed, Items
<1>3. SinkOK(<<>>, s)
  BY <1>1 DEF SinkOK, Increasing
<1>4. Fresh(<<>>, 0, 0, {})
  BY DEF Fresh, Newer
<1>5. \A flushing : Latest([sink |-> s, held |-> 0, flush |-> flushing], <<>>, 0)
  BY <1>2 DEF Latest
<1> QED BY <1>2, <1>3, <1>4, <1>5

\* Another connection's session does not see a step that leaves the channel alone.
LEMMA Elsewhere ==
    ASSUME SessionTypes, NEW c \in Conns, NEW d \in Conns \ {c},
           UNCHANGED <<inbound, seen, world, caps>>,
           \A e \in Conns \ {c} :
              UNCHANGED <<reader[e], why[e], hello[e], pending[e], todo[e], held[e], flush[e],
                          stream[e], typed[e], lastSize[e]>>
    PROVE  UNCHANGED View(d)
<1>1. Base(d)' = Base(d)
  BY DEF Base
<1>2. SinkOf(d)' = SinkOf(d)
  BY DEF SinkOf
<1> QED BY <1>1, <1>2 DEF View

LEMMA AcceptKeeps ==
    ASSUME SessionInv, NEW c \in Conns, NEW ip, NEW tls, Accept(c, ip, tls) PROVE SessionInv'
<1>1. SessionTypes /\ StageOK(c) /\ RouterOK(c) /\ reader[c] = "none" /\ Idle(c) /\ ~Mentioned(c)
  BY DEF SessionInv, Accept, Idle
<1>2. /\ reader' = [reader EXCEPT ![c] = IF tls THEN "handshake" ELSE "read"]
      /\ hello' = [hello EXCEPT ![c] = TRUE]
      /\ UNCHANGED <<why, pending, todo, held, flush, lastSize, inbound, stream, typed, world, caps,
                     seen>>
  BY DEF Accept, worldVars
<1>3. SessionTypes'
  BY <1>1, <1>2 DEF SessionTypes, Stages
<1>4. \A d \in Conns \ {c} : UNCHANGED View(d)
  <2>1. \A d \in Conns \ {c} : reader'[d] = reader[d] /\ hello'[d] = hello[d]
    BY <1>1, <1>2 DEF SessionTypes
  <2> QED BY <1>1, <1>2, <2>1, Elsewhere
<1>5. /\ why'[c] = "none" /\ pending'[c] = <<>> /\ todo'[c] = <<>> /\ stream'[c] = <<>>
      /\ typed'[c] = 0 /\ lastSize'[c] = 0 /\ held'[c] = 0 /\ flush'[c] = FALSE
      /\ hello'[c] = TRUE /\ reader'[c] \in {"handshake", "read"}
  BY <1>1, <1>2 DEF StageOK, SessionTypes
<1>6. Base(c)' = <<>> /\ Heard(c)' = <<>>
  <2>1. Base(c) = <<>> /\ Heard(c) = <<>>
    BY <1>1, Quiet
  <2> QED BY <1>2, <2>1 DEF Base, Heard
<1>7. SinkOf(c)' \in Sinks
  BY <1>3, BaseType DEF SessionTypes, SinkOf, Sinks
<1>8. SinkOf(c)'.hello /\ SinkOf(c)'.pending = <<>> /\ SinkOf(c)'.todo = <<>>
  BY <1>5 DEF SinkOf
<1>9. ReaderOf(c)' = [sink |-> SinkOf(c)', held |-> 0, flush |-> FALSE]
  BY <1>5 DEF ReaderOf
<1>10. SinkOK(Base(c), SinkOf(c))' /\ Unread(c)' /\ Latest(ReaderOf(c), Base(c), lastSize[c])'
  <2> DEFINE s == SinkOf(c)'
  <2> HIDE DEF s
  <2>1. /\ SinkOK(<<>>, s) /\ Latest([sink |-> s, held |-> 0, flush |-> FALSE], <<>>, 0)
        /\ Fresh(<<>>, 0, 0, Passed(<<>>, s))
    BY <1>7, <1>8, ReaderStarts DEF s
  <2> QED BY <1>5, <1>6, <1>9, <2>1 DEF Unread, s
<1>11. StageOK(c)'
  BY <1>5, <1>6, <1>10 DEF StageOK
<1>12. RouterOK(c)'
  BY <1>1, <1>2 DEF RouterOK
<1> QED BY <1>3, <1>4, <1>11, <1>12, OneSession

LEMMA HandshakeDoneKeeps ==
    ASSUME SessionInv, NEW c \in Conns, HandshakeDone(c) PROVE SessionInv'
<1>1. SessionTypes /\ StageOK(c) /\ RouterOK(c) /\ reader[c] = "handshake"
  BY DEF SessionInv, HandshakeDone
<1>2. /\ reader' = [reader EXCEPT ![c] = "read"]
      /\ UNCHANGED <<hello, why, pending, todo, held, flush, lastSize, inbound, stream, typed, world,
                     caps, seen>>
  BY DEF HandshakeDone, worldVars, clientVars, sinkVars
<1>3. SessionTypes'
  BY <1>1, <1>2 DEF SessionTypes, Stages
<1>4. \A d \in Conns \ {c} : UNCHANGED View(d)
  <2>1. \A d \in Conns \ {c} : reader'[d] = reader[d]
    BY <1>1, <1>2 DEF SessionTypes
  <2> QED BY <1>1, <1>2, <2>1, Elsewhere
<1>5. /\ why'[c] = "none" /\ pending'[c] = <<>> /\ todo'[c] = <<>> /\ stream'[c] = <<>>
      /\ typed'[c] = 0 /\ lastSize'[c] = 0 /\ held'[c] = 0 /\ flush'[c] = FALSE
      /\ hello'[c] = TRUE /\ reader'[c] = "read"
  BY <1>1, <1>2 DEF StageOK, SessionTypes
<1>6. Base(c)' = <<>>
  <2>1. Base(c) = <<>>
    BY <1>1, HeardType DEF StageOK
  <2> QED BY <1>2, <2>1 DEF Base
<1>7. SinkOf(c)' \in Sinks
  BY <1>3 DEF SessionTypes, SinkOf, Sinks
<1>8. SinkOf(c)'.hello /\ SinkOf(c)'.pending = <<>> /\ SinkOf(c)'.todo = <<>>
  BY <1>5 DEF SinkOf
<1>9. ReaderOf(c)' = [sink |-> SinkOf(c)', held |-> 0, flush |-> FALSE]
  BY <1>5 DEF ReaderOf
<1>10. SinkOK(Base(c), SinkOf(c))' /\ Unread(c)' /\ Latest(ReaderOf(c), Base(c), lastSize[c])'
  <2> DEFINE s == SinkOf(c)'
  <2> HIDE DEF s
  <2>1. /\ SinkOK(<<>>, s) /\ Latest([sink |-> s, held |-> 0, flush |-> FALSE], <<>>, 0)
        /\ Fresh(<<>>, 0, 0, Passed(<<>>, s))
    BY <1>7, <1>8, ReaderStarts DEF s
  <2> QED BY <1>5, <1>6, <1>9, <2>1 DEF Unread, s
<1>11. StageOK(c)'
  BY <1>5, <1>10 DEF StageOK
<1>12. RouterOK(c)'
  BY <1>1, <1>2 DEF RouterOK
<1> QED BY <1>3, <1>4, <1>11, <1>12, OneSession

\* A task that ends leaves the session it announced, if any.
LEMMA TaskEndsKeeps ==
    ASSUME SessionInv, NEW c \in Conns, TaskEnds(c), UNCHANGED <<inbound, world, caps, seen>>,
           todo[c] = <<>>, Ended(c)
    PROVE  SessionInv'
<1>1. SessionTypes /\ RouterOK(c)
  BY DEF SessionInv
<1>2. /\ hello' = [hello EXCEPT ![c] = FALSE] /\ pending' = [pending EXCEPT ![c] = <<>>]
      /\ todo' = [todo EXCEPT ![c] = <<>>]
  BY DEF TaskEnds, SetSink
<1>3. SessionTypes'
  BY <1>1, <1>2 DEF SessionTypes, TaskEnds, Stages
<1>4. \A d \in Conns \ {c} : UNCHANGED View(d)
  <2>1. \A e \in Conns \ {c} :
           UNCHANGED <<reader[e], why[e], hello[e], pending[e], todo[e], held[e], flush[e],
                       stream[e], typed[e], lastSize[e]>>
    BY <1>1, <1>2 DEF SessionTypes, TaskEnds
  <2> QED BY <1>1, <2>1, Elsewhere
<1>5. /\ reader'[c] = "none" /\ why'[c] = "none" /\ pending'[c] = <<>> /\ todo'[c] = <<>>
      /\ stream'[c] = <<>> /\ typed'[c] = 0 /\ lastSize'[c] = 0 /\ held'[c] = 0 /\ flush'[c] = FALSE
      /\ hello'[c] = FALSE
  BY <1>1, <1>2 DEF SessionTypes, TaskEnds
<1>6. Heard(c)' = Heard(c)
  <2>1. todo'[c] = todo[c]
    BY <1>5
  <2> QED BY <2>1 DEF Heard
<1>7. Ended(c)'
  BY <1>6 DEF Ended
<1>8. StageOK(c)'
  BY <1>5, <1>7 DEF StageOK
<1>9. RouterOK(c)'
  BY <1>1 DEF RouterOK
<1> QED BY <1>3, <1>4, <1>8, <1>9, OneSession

\* Nothing heard is a session that has ended, too.
LEMMA Silence == ASSUME NEW c, Heard(c) = <<>> PROVE Ended(c)
BY DEF Ended, Increasing

LEMMA EndingKeeps ==
    ASSUME SessionInv, NEW c \in Conns, HandshakeFails(c) \/ Settle(c) \/ Finish(c)
    PROVE  SessionInv'
<1>1. SessionTypes /\ StageOK(c) /\ RouterOK(c) /\ UNCHANGED <<inbound, world, caps, seen>>
  BY DEF SessionInv, HandshakeFails, Settle, Finish, worldVars
<1>2. CASE HandshakeFails(c)
  <2>1. reader[c] = "handshake" /\ TaskEnds(c)
    BY <1>2 DEF HandshakeFails
  <2>2. todo[c] = <<>> /\ Ended(c)
    BY <1>1, <2>1, Silence DEF StageOK
  <2> QED BY <1>1, <2>1, <2>2, TaskEndsKeeps
<1>3. CASE TaskEnds(c) /\ (Settle(c) \/ Finish(c))
  <2>1. reader[c] \in {"leave", "wait"} /\ todo[c] = <<>>
    BY <1>1, <1>3 DEF Settle, Finish, StageOK
  <2>2. Ended(c)
    BY <1>1, <2>1, Silence DEF StageOK
  <2> QED BY <1>1, <1>3, <2>1, <2>2, TaskEndsKeeps
<1>4. CASE reader[c] = "leave" /\ todo[c] = <<>> /\ reader' = [reader EXCEPT ![c] = "wait"]
           /\ UNCHANGED <<why, sinkVars, lastSize, clientVars>>
  <2>1. SessionTypes'
    BY <1>1, <1>4 DEF SessionTypes, Stages, sinkVars, clientVars
  <2>2. \A d \in Conns \ {c} : UNCHANGED View(d)
    <3>1. \A d \in Conns \ {c} : reader'[d] = reader[d]
      BY <1>1, <1>4 DEF SessionTypes
    <3> QED BY <1>1, <1>4, <3>1, Elsewhere DEF sinkVars, clientVars
  <2>3. reader'[c] = "wait"
    BY <1>1, <1>4 DEF SessionTypes
  <2>4. Heard(c)' = Heard(c) /\ UNCHANGED <<why, hello, pending, todo>>
    BY <1>1, <1>4 DEF Heard, sinkVars
  <2>5. StageOK(c)'
    BY <1>1, <1>4, <2>3, <2>4 DEF StageOK, Ended
  <2>6. RouterOK(c)'
    BY <1>1 DEF RouterOK
  <2> QED BY <2>1, <2>2, <2>5, <2>6, OneSession
<1> QED BY <1>2, <1>3, <1>4 DEF Settle, Finish

LEMMA ReadEndsKeeps ==
    ASSUME SessionInv, NEW c \in Conns, ReadEnds(c) PROVE SessionInv'
<1>1. SessionTypes /\ StageOK(c) /\ RouterOK(c) /\ reader[c] = "read"
  BY DEF SessionInv, ReadEnds, Listening, Selecting
<1>2. PICK w \in {"eof", "close", "drop"} : why' = [why EXCEPT ![c] = w]
  BY DEF ReadEnds
<1>3. UNCHANGED <<reader, hello, pending, todo, held, flush, lastSize, inbound, stream, typed, world,
                  caps, seen>>
  BY DEF ReadEnds, sinkVars, worldVars, clientVars
<1>4. SessionTypes'
  BY <1>1, <1>2, <1>3 DEF SessionTypes
<1>5. why'[c] = w /\ \A d \in Conns \ {c} : why'[d] = why[d]
  BY <1>1, <1>2 DEF SessionTypes
<1>6. \A d \in Conns \ {c} : UNCHANGED View(d)
  BY <1>1, <1>3, <1>5, Elsewhere
<1>7. Base(c)' = Base(c) /\ SinkOf(c)' = SinkOf(c)
  BY <1>3 DEF Base, SinkOf
<1>8. SinkOK(Base(c), SinkOf(c))' /\ Unread(c)'
  BY <1>1, <1>3, <1>7 DEF StageOK, Unread
<1>9. StageOK(c)'
  BY <1>1, <1>3, <1>5, <1>8 DEF StageOK
<1>10. RouterOK(c)'
  BY <1>1, <1>3 DEF RouterOK
<1> QED BY <1>4, <1>6, <1>9, <1>10, OneSession

\* The announced end closes a session that was open.
LEMMA EndCloses ==
    ASSUME NEW q \in Seq(Events), Increasing(q), Opened(q)
    PROVE  LET a == q \o <<Event("disconnected", 0)>> IN Increasing(a) /\ Closed(a)
<1> DEFINE e == Event("disconnected", 0)
           a == Append(q, e)
           k == Len(q)
<1>1. e \in Events /\ e.kind = "disconnected"
  BY DEF Event, Events
<1> HIDE DEF e
<1>2. /\ k \in Nat /\ a \in Seq(Events) /\ Len(a) = k + 1 /\ a[k + 1] = e
      /\ \A i \in 1..k : a[i] = q[i]
  BY <1>1, AppendProperties
<1>3. Increasing(a)
  BY <1>1, AppendKeeps
<1>4. a = q \o <<e>>
  BY <1>1, AppendIsConcat
<1>5. k >= 1 /\ DOMAIN q = 1..k
  BY <1>2, EmptySeq DEF Opened
<1> HIDE DEF a, k
<1>6. DOMAIN a = 1..(k + 1) /\ \A i \in 1..(k + 1) : i \in 1..k \/ i = k + 1
  BY <1>2
<1>7. ASSUME NEW i \in 1..(k + 1)
      PROVE (a[i].kind = "connected" <=> i = 1) /\ (a[i].kind = "disconnected" <=> i = k + 1)
  <2>1. CASE i \in 1..k
    <3>1. a[i] = q[i] /\ i # k + 1
      BY <1>2, <2>1
    <3> QED BY <1>5, <2>1, <3>1 DEF Opened
  <2>2. CASE i = k + 1
    BY <1>1, <1>2, <1>5, <2>2
  <2> QED BY <1>6, <2>1, <2>2
<1>8. Len(a) > 1
  BY <1>2, <1>5
<1>9. Closed(a)
  BY <1>2, <1>6, <1>7, <1>8 DEF Closed
<1> QED BY <1>3, <1>4, <1>9 DEF e

LEMMA AnnounceKeeps ==
    ASSUME SessionInv, NEW c \in Conns, Announce(c) PROVE SessionInv'
<1> DEFINE rest == IF hello[c] THEN <<>> ELSE <<Event("disconnected", 0)>>
<1>1. SessionTypes /\ StageOK(c) /\ RouterOK(c) /\ reader[c] = "read" /\ why[c] # "none"
      /\ todo[c] = <<>>
  BY DEF SessionInv, Announce
<1>2. /\ reader' = [reader EXCEPT ![c] = "leave"] /\ todo' = [todo EXCEPT ![c] = rest]
      /\ UNCHANGED <<hello, pending, why, held, flush, lastSize, inbound, stream, typed, world, caps,
                     seen>>
  BY DEF Announce, worldVars, clientVars
<1>3. rest \in Seq(Events)
  <2>1. Event("disconnected", 0) \in Events
    BY DEF Event, Events
  <2> QED BY <2>1
<1>4. SinkOK(Base(c), SinkOf(c)) /\ Base(c) \in Seq(Events)
  BY <1>1, BaseType DEF StageOK
<1>5. Base(c)' = Base(c)
  BY <1>2 DEF Base
<1> HIDE DEF rest
<1>6. SessionTypes'
  BY <1>1, <1>2, <1>3 DEF SessionTypes, Stages
<1>7. reader'[c] = "leave" /\ todo'[c] = rest /\ why'[c] # "none"
      /\ \A d \in Conns \ {c} : reader'[d] = reader[d] /\ todo'[d] = todo[d]
  BY <1>1, <1>2 DEF SessionTypes
<1>8. \A d \in Conns \ {c} : UNCHANGED View(d)
  BY <1>1, <1>2, <1>7, Elsewhere
<1>9. Heard(c)' = Base(c) \o rest
  BY <1>6, <1>5, <1>7, HeardType DEF Heard, Base
<1>10. IF hello'[c] THEN Heard(c)' = <<>> ELSE pending'[c] = <<>> /\ Ended(c)'
  <2>1. CASE hello[c]
    <3>1. Base(c) = <<>> /\ rest = <<>>
      BY <1>4, <2>1 DEF SinkOK, SinkOf, rest
    <3> QED BY <1>2, <1>4, <1>9, <2>1, <3>1, ConcatEmptySeq
  <2>2. CASE ~hello[c]
    <3>1. Base(c) \o todo[c] = Base(c)
      BY <1>1, <1>4, ConcatEmptySeq
    <3>2. Increasing(Base(c)) /\ Opened(Base(c)) /\ pending[c] = <<>>
      BY <1>4, <2>2, <3>1 DEF SinkOK, SinkOf, Flow
    <3>3. Increasing(Base(c) \o rest) /\ Closed(Base(c) \o rest)
      BY <1>4, <2>2, <3>2, EndCloses DEF rest
    <3>4. Ended(c)'
      BY <1>9, <3>3 DEF Ended
    <3> QED BY <1>2, <2>2, <3>2, <3>4
  <2> QED BY <2>1, <2>2
<1>11. StageOK(c)'
  BY <1>7, <1>10 DEF StageOK
<1>12. RouterOK(c)'
  BY <1>1, <1>2 DEF RouterOK
<1> QED BY <1>6, <1>8, <1>11, <1>12, OneSession

LEMMA DeliverKeeps ==
    ASSUME SessionInv, NEW c \in Conns, Deliver(c) PROVE SessionInv'
<1> DEFINE q == todo[c]
           e == Head(q)
           t == Tail(q)
           x == [conn |-> c, kind |-> e.kind, n |-> e.n]
<1>1. SessionTypes /\ StageOK(c) /\ RouterOK(c) /\ inbound \in Channel
  BY DEF SessionInv, SessionTypes, Channel, Sent
<1>2. /\ q # <<>> /\ inbound' = Append(inbound, x) /\ todo' = [todo EXCEPT ![c] = t]
      /\ UNCHANGED <<reader, hello, pending, why, held, flush, lastSize, stream, typed, world, caps,
                     seen>>
  BY DEF Deliver, worldVars, clientVars
<1>3. q \in Seq(Events) /\ e \in Events /\ t \in Seq(Events) /\ q = <<e>> \o t
  <2>1. q \in Seq(Events)
    BY <1>1 DEF SessionTypes
  <2> HIDE DEF q
  <2> QED BY <1>2, <2>1, HeadTailProperties
<1> HIDE DEF q, e, t
<1>4. inbound' \in Channel
  BY <1>1, <1>2, <1>3, EventsOfAppend
<1>5. EventsOf(c, inbound)' = Append(EventsOf(c, inbound), e)
      /\ \A d \in Conns \ {c} : EventsOf(d, inbound)' = EventsOf(d, inbound)
  BY <1>1, <1>2, <1>3, EventsOfAppend
<1>6. SessionTypes'
  BY <1>1, <1>2, <1>3, <1>4 DEF SessionTypes, Channel, Sent
<1>7. todo'[c] = t /\ \A d \in Conns \ {c} : todo'[d] = todo[d]
  BY <1>1, <1>2 DEF SessionTypes
<1>8. \A d \in Conns \ {c} : UNCHANGED View(d)
  BY <1>2, <1>5, <1>7 DEF View, SinkOf, Base
<1>9. Base(c) \in Seq(Events) /\ Base(c)' = Base(c) \o <<e>>
  <2> DEFINE old == EventsOf(c, inbound)
             one == <<e>>
             before == seen[c]
  <2>1. old \in Seq(Events) /\ before \in Seq(Events) /\ Base(c) \in Seq(Events)
    BY <1>1, EventsOfType, BaseType DEF SessionTypes
  <2>2. one \in Seq(Events) /\ Append(old, e) = old \o one
    BY <1>3, <2>1, AppendIsConcat
  <2>3. Base(c) = before \o old /\ Base(c)' = before \o Append(old, e)
    BY <1>2, <1>5 DEF Base
  <2> HIDE DEF old, one, before
  <2>4. before \in Seq(Events) /\ old \in Seq(Events) /\ one \in Seq(Events)
    BY <2>1, <2>2
  <2>5. before \o (old \o one) = (before \o old) \o one
    BY ONLY <2>4, ConcatAssociative
  <2> QED BY <2>1, <2>2, <2>3, <2>5 DEF one
<1>10. Base(c)' \o t = Base(c) \o q
  <2> DEFINE one == <<e>>
  <2>1. one \in Seq(Events)
    BY <1>3
  <2>2. q = one \o t /\ Base(c)' = Base(c) \o one
    BY <1>3, <1>9
  <2> HIDE DEF one
  <2>3. Base(c) \in Seq(Events) /\ one \in Seq(Events) /\ t \in Seq(Events)
    BY <1>3, <1>9, <2>1
  <2>4. (Base(c) \o one) \o t = Base(c) \o (one \o t)
    BY ONLY <2>3, ConcatAssociative
  <2> QED BY <2>2, <2>4
<1>11. Heard(c)' = Heard(c)
  <2>1. Heard(c) = Base(c) \o q /\ Heard(c)' = Base(c)' \o t
    BY <1>7 DEF Heard, Base, q
  <2> QED BY <1>10, <2>1
<1>12. reader[c] \in {"read", "leave"} /\ ~hello[c]
  <2>1. todo[c] # <<>>
    BY <1>2 DEF q
  <2>2. reader[c] = "read" /\ hello[c] => todo[c] = <<>>
    BY <1>1 DEF StageOK, SinkOK, SinkOf
  <2>3. reader[c] = "leave" /\ hello[c] => todo[c] = <<>>
    BY <1>1, HeardType DEF StageOK
  <2> QED BY <1>1, <2>1, <2>2, <2>3 DEF StageOK, SessionTypes, Stages
<1>13. CASE reader[c] = "read"
  <2>1. Flow(Base(c), SinkOf(c))' = Flow(Base(c), SinkOf(c))
    BY <1>2, <1>7, <1>10, <1>12 DEF Flow, SinkOf, q
  <2>2. Passed(Base(c), SinkOf(c))' = Passed(Base(c), SinkOf(c))
    BY <2>1 DEF Passed
  <2>3. SinkOK(Base(c), SinkOf(c))'
    <3>1. SinkOK(Base(c), SinkOf(c))
      BY <1>1, <1>13 DEF StageOK
    <3>2. ~SinkOf(c).hello /\ ~SinkOf(c)'.hello /\ SinkOf(c)'.pending = SinkOf(c).pending
      BY <1>2, <1>12 DEF SinkOf
    <3>3. (Base(c) \o SinkOf(c).todo)' = Base(c) \o SinkOf(c).todo
      BY <1>7, <1>10 DEF SinkOf, q
    <3> QED BY <2>1, <3>1, <3>2, <3>3 DEF SinkOK
  <2>4. Unread(c)'
    BY <1>1, <1>2, <1>13, <2>2 DEF StageOK, Unread
  <2>5. why[c] = "none" => Latest(ReaderOf(c), Base(c), lastSize[c])'
    BY <1>1, <1>2, <1>13, <2>2 DEF StageOK, Latest, ReaderOf
  <2>6. StageOK(c)'
    BY <1>2, <1>13, <2>3, <2>4, <2>5 DEF StageOK
  <2>7. RouterOK(c)'
    BY <1>1, <1>2 DEF RouterOK
  <2> QED BY <1>6, <1>8, <2>6, <2>7, OneSession
<1>14. CASE reader[c] = "leave"
  <2>1. StageOK(c)'
    BY <1>1, <1>2, <1>11, <1>12, <1>14 DEF StageOK, Ended
  <2>2. RouterOK(c)'
    BY <1>1, <1>2 DEF RouterOK
  <2> QED BY <1>6, <1>8, <2>1, <2>2, OneSession
<1> QED BY <1>12, <1>13, <1>14

LEMMA TypeKeeps ==
    ASSUME SessionInv, NEW c \in Conns, NEW kind \in Inputs, Type(c, kind) PROVE SessionInv'
<1> DEFINE q == stream[c]
           n == typed[c] + 1
           e == Event(kind, n)
           k == Len(q)
           rest == Append(q, e)
           passed == Passed(Base(c), SinkOf(c))
<1>1. SessionTypes /\ StageOK(c) /\ RouterOK(c) /\ reader[c] = "read" /\ typed[c] \in Nat
      /\ q \in Seq(Typed) /\ lastSize[c] \in Nat
  BY DEF SessionInv, Type, SessionTypes
<1>2. /\ typed' = [typed EXCEPT ![c] = n] /\ stream' = [stream EXCEPT ![c] = rest]
      /\ UNCHANGED <<reader, hello, pending, todo, why, held, flush, lastSize, inbound, world, caps,
                     seen>>
  BY DEF Type, readerVars, sinkVars, worldVars
<1>3. e \in Typed /\ e.n = n /\ n \in Nat \ {0}
  BY <1>1 DEF Typed, Event
<1>4. /\ k \in Nat /\ rest \in Seq(Typed) /\ Len(rest) = k + 1 /\ rest[k + 1] = e
      /\ \A i \in 1..k : rest[i] = q[i]
  <2> HIDE DEF e, q
  <2> QED BY <1>1, <1>3, AppendProperties
<1>5. SessionTypes'
  <2> HIDE DEF rest, n
  <2> QED BY <1>1, <1>2, <1>3, <1>4 DEF SessionTypes
<1>6. typed'[c] = n /\ stream'[c] = rest
      /\ \A d \in Conns \ {c} : typed'[d] = typed[d] /\ stream'[d] = stream[d]
  <2> HIDE DEF rest, n
  <2> QED BY <1>1, <1>2 DEF SessionTypes
<1>7. \A d \in Conns \ {c} : UNCHANGED View(d)
  BY <1>1, <1>2, <1>6, Elsewhere
<1>8. Fresh(q, lastSize[c], typed[c], passed)
  BY <1>1 DEF StageOK, Unread
<1>9. DOMAIN q = 1..k /\ DOMAIN rest = 1..(k + 1) /\ \A i \in 1..(k + 1) : i \in 1..k \/ i = k + 1
  <2> HIDE DEF rest
  <2> QED BY <1>1, <1>4
<1>10. \A m \in Nat : m <= typed[c] => m < n /\ m <= n
  BY <1>1
<1>11. \A i \in 1..k : rest[i].n \in Nat /\ rest[i].n <= typed[c] /\ lastSize[c] < rest[i].n
  <2>1. ASSUME NEW i \in 1..k PROVE q[i] \in Typed
    BY <1>1, ElementOfSeq
  <2> QED BY <1>4, <1>8, <1>9, <2>1 DEF Fresh, Newer, Typed
<1>12. \A d \in passed : d.n \in Nat
  BY <1>1, BaseType, PassedTypes
<1> HIDE DEF rest, n, k, q, e, passed
<1>13. Fresh(rest, lastSize[c], n, passed)
  <2>1. lastSize[c] < n /\ lastSize[c] <= n /\ n <= n
    BY <1>1, <1>3, <1>8, <1>10 DEF Fresh
  <2>2. ASSUME NEW i \in 1..(k + 1) PROVE lastSize[c] < rest[i].n /\ rest[i].n <= n
    BY <1>3, <1>4, <1>9, <1>10, <1>11, <2>1
  <2>3. ASSUME NEW i \in 1..(k + 1), NEW j \in 1..(k + 1), i < j PROVE rest[i].n < rest[j].n
    <3>1. i \in 1..k
      BY <1>4, <1>9, <2>3
    <3>2. CASE j = k + 1
      BY <1>3, <1>4, <1>10, <1>11, <3>1, <3>2
    <3>3. CASE j \in 1..k
      BY <1>4, <1>8, <1>9, <2>3, <3>1, <3>3 DEF Fresh, Newer
    <3> QED BY <1>9, <3>2, <3>3
  <2>4. ASSUME NEW d \in passed, d.kind \in {"line", "size"}
        PROVE  d.n <= n /\ \A i \in 1..(k + 1) : d.n < rest[i].n
    <3>1. d.n \in Nat /\ d.n <= typed[c] /\ \A i \in 1..k : d.n < q[i].n
      BY <1>8, <1>9, <1>12, <2>4 DEF Fresh
    <3> QED BY <1>3, <1>4, <1>9, <1>10, <3>1
  <2> QED BY <1>9, <2>1, <2>2, <2>3, <2>4 DEF Fresh, Newer
<1>14. Base(c)' = Base(c) /\ SinkOf(c)' = SinkOf(c) /\ ReaderOf(c)' = ReaderOf(c)
  BY <1>2 DEF Base, SinkOf, ReaderOf
<1>15. Unread(c)'
  BY <1>2, <1>6, <1>13, <1>14 DEF Unread, passed
<1>16. StageOK(c)'
  BY <1>1, <1>2, <1>14, <1>15 DEF StageOK
<1>17. RouterOK(c)'
  BY <1>1, <1>2 DEF RouterOK
<1> QED BY <1>5, <1>7, <1>16, <1>17, OneSession

\* The end of a session is the last that is heard of it.
LEMMA LastHeard ==
    ASSUME SessionInv, NEW c \in Conns, inbound # <<>>, Head(inbound).conn = c,
           Head(inbound).kind = "disconnected"
    PROVE  /\ seen[c] # <<>> /\ EventsOf(c, Tail(inbound)) = <<>> /\ todo[c] = <<>>
           /\ reader[c] \in {"none", "leave", "wait"} /\ ~hello[c]
<1> DEFINE e == Event(Head(inbound).kind, Head(inbound).n)
           more == EventsOf(c, Tail(inbound))
           one == <<e>>
           before == seen[c]
           q == todo[c]
           h == Heard(c)
           i == Len(before) + 1
<1>1. SessionTypes /\ StageOK(c) /\ inbound \in Channel /\ before \in Seq(Events) /\ q \in Seq(Events)
  BY DEF SessionInv, SessionTypes, Channel, Sent
<1>2. e \in Events /\ e.kind = "disconnected" /\ more \in Seq(Events)
      /\ EventsOf(c, inbound) = one \o more
  BY <1>1, EventsOfTail, EventsOfType DEF Event
<1>3. one \in Seq(Events) /\ one[1] = e /\ Len(one) = 1
  <2> HIDE DEF e
  <2> QED BY <1>2
<1>4. h = (before \o (one \o more)) \o q
  BY <1>2 DEF Heard
<1> HIDE DEF e, more, one, before, q, h
<1>5. /\ one \o more \in Seq(Events) /\ Len(one \o more) = 1 + Len(more) /\ (one \o more)[1] = e
  <2>1. more \in Seq(Events)
    BY <1>2
  <2>2. /\ one \o more \in Seq(Events) /\ Len(one \o more) = Len(one) + Len(more)
        /\ \A j \in 1..(Len(one) + Len(more)) :
              (one \o more)[j] = IF j <= Len(one) THEN one[j] ELSE more[j - Len(one)]
    BY ONLY <1>3, <2>1, ConcatProperties
  <2>3. 1 \in 1..(Len(one) + Len(more)) /\ 1 <= Len(one)
    BY <1>3, <2>1
  <2> QED BY <1>3, <2>2, <2>3
<1> DEFINE mid == one \o more
           front == before \o mid
<1> HIDE DEF mid, front
<1>6. mid \in Seq(Events) /\ Len(mid) = 1 + Len(more) /\ mid[1] = e /\ h = front \o q
      /\ Len(more) \in Nat /\ Len(before) \in Nat /\ Len(q) \in Nat
  BY <1>1, <1>2, <1>4, <1>5 DEF mid, front
<1>7. front \in Seq(Events) /\ Len(front) = Len(before) + Len(mid) /\ front[i] = e
  <2>1. /\ front \in Seq(Events) /\ Len(front) = Len(before) + Len(mid)
        /\ \A j \in 1..(Len(before) + Len(mid)) :
              front[j] = IF j <= Len(before) THEN before[j] ELSE mid[j - Len(before)]
    <3>1. before \in Seq(Events) /\ mid \in Seq(Events)
      BY <1>1, <1>6
    <3> QED BY ONLY <3>1, ConcatProperties DEF front
  <2>2. i \in 1..(Len(before) + Len(mid)) /\ ~(i <= Len(before)) /\ i - Len(before) = 1
    BY <1>6
  <2> QED BY <1>6, <2>1, <2>2
<1>8. h \in Seq(Events) /\ Len(h) = Len(front) + Len(q) /\ h[i] = e /\ i \in 1..Len(h)
  <2>1. /\ h \in Seq(Events) /\ Len(h) = Len(front) + Len(q)
        /\ \A j \in 1..(Len(front) + Len(q)) :
              h[j] = IF j <= Len(front) THEN front[j] ELSE q[j - Len(front)]
    <3>1. front \in Seq(Events) /\ q \in Seq(Events)
      BY <1>1, <1>7
    <3>2. /\ front \o q \in Seq(Events) /\ Len(front \o q) = Len(front) + Len(q)
          /\ \A j \in 1..(Len(front) + Len(q)) :
                (front \o q)[j] = IF j <= Len(front) THEN front[j] ELSE q[j - Len(front)]
      BY ONLY <3>1, ConcatProperties
    <3> QED BY <1>6, <3>2
  <2>2. i \in 1..(Len(front) + Len(q)) /\ i <= Len(front)
    BY <1>6, <1>7
  <2> QED BY <1>7, <2>1, <2>2
<1>9. h # <<>> /\ ~Opened(h)
  BY <1>2, <1>8 DEF Opened
<1>10. reader[c] # "read" /\ reader[c] # "handshake"
  <2>1. CASE reader[c] = "read" /\ hello[c]
    <3>1. SinkOK(Base(c), SinkOf(c))
      BY <1>1, <2>1 DEF StageOK
    <3>2. Base(c) = <<>> /\ todo[c] = <<>>
      BY <2>1, <3>1 DEF SinkOK, SinkOf
    <3>3. h = <<>>
      BY <1>1, <3>2, HeardType DEF h
    <3> QED BY <1>9, <3>3
  <2>2. CASE reader[c] = "read" /\ ~hello[c]
    <3>1. Opened(Base(c) \o todo[c])
      BY <1>1, <2>2 DEF StageOK, SinkOK, SinkOf
    <3> QED BY <1>1, <1>9, <3>1, HeardType DEF h
  <2>3. CASE reader[c] = "handshake"
    BY <1>1, <1>9, <2>3 DEF StageOK, h
  <2> QED BY <2>1, <2>2, <2>3
<1>11. reader[c] \in {"none", "leave", "wait"} /\ ~hello[c] /\ Closed(h)
  BY <1>1, <1>9, <1>10 DEF StageOK, Ended, SessionTypes, Stages, h
<1>12. i = Len(h) /\ Len(h) > 1
  <2>1. DOMAIN h = 1..Len(h)
    BY <1>8
  <2> QED BY <1>2, <1>8, <1>11, <2>1 DEF Closed
<1>13. Len(before) # 0 /\ Len(more) = 0 /\ Len(q) = 0
  BY <1>6, <1>7, <1>8, <1>12
<1>14. before # <<>> /\ more = <<>> /\ q = <<>>
  BY <1>1, <1>2, <1>13, EmptySeq
<1> QED BY <1>11, <1>14 DEF before, more, q

\* The game takes the oldest event: what it hears is what was on its way.
LEMMA TurnKeeps ==
    ASSUME SessionInv, NEW c \in Conns, NEW kinds, Turn(c, kinds),
           UNCHANGED <<readerVars, clientVars>>,
           world' \in [Conns -> {"none", "login", "playing"}], caps' \in [Conns -> BOOLEAN],
           \A d \in Conns \ {c} : world'[d] = world[d] /\ caps'[d] = caps[d],
           Head(inbound).kind = "disconnected" => world'[c] = "none" /\ ~caps'[c]
    PROVE  SessionInv'
<1> DEFINE e == Event(Head(inbound).kind, Head(inbound).n)
           more == EventsOf(c, Tail(inbound))
           one == <<e>>
           before == seen[c]
<1>1. SessionTypes /\ StageOK(c) /\ RouterOK(c) /\ inbound \in Channel /\ before \in Seq(Events)
  BY DEF SessionInv, SessionTypes, Channel, Sent
<1>2. /\ inbound # <<>> /\ inbound' = Tail(inbound) /\ Head(inbound).conn = c
      /\ seen' = [seen EXCEPT ![c] =
                     IF Head(inbound).kind = "disconnected" /\ before # <<>> THEN <<>>
                     ELSE Append(before, e)]
  BY <1>1 DEF Turn, SessionTypes
<1>3. /\ inbound' \in Channel /\ e \in Events /\ more \in Seq(Events)
      /\ EventsOf(c, inbound) = one \o more
      /\ \A d \in Conns \ {c} : EventsOf(d, inbound) = EventsOf(d, Tail(inbound))
  <2>1. inbound' \in Channel /\ e \in Events
        /\ \A d \in Conns \ {c} : EventsOf(d, inbound) = EventsOf(d, Tail(inbound))
    BY <1>1, <1>2, EventsOfTail
  <2>2. EventsOf(c, inbound) = one \o more
    BY <1>1, <1>2, EventsOfTail
  <2>3. more \in Seq(Events)
    BY <1>2, <2>1, EventsOfType
  <2> QED BY <2>1, <2>2, <2>3
<1>4. UNCHANGED <<reader, why, hello, pending, todo, held, flush, lastSize, stream, typed>>
  BY DEF readerVars, sinkVars, clientVars
<1>5. EventsOf(c, inbound)' = more /\ \A d \in Conns : EventsOf(d, inbound)' = EventsOf(d, Tail(inbound))
  BY <1>2
<1>6. e.kind = Head(inbound).kind
  BY DEF Event
<1> HIDE DEF e, more, one, before
<1>7. Append(before, e) \in Seq(Events)
  BY <1>1, <1>3
<1>8. seen' \in [Conns -> Seq(Events)] /\ \A d \in Conns \ {c} : seen'[d] = seen[d]
  BY <1>1, <1>2, <1>7 DEF SessionTypes
<1>9. SessionTypes'
  BY <1>1, <1>3, <1>4, <1>8 DEF SessionTypes, Channel, Sent
<1>10. \A d \in Conns \ {c} : UNCHANGED View(d)
  BY <1>3, <1>4, <1>5, <1>8 DEF View, SinkOf, Base
<1>11. CASE Head(inbound).kind = "disconnected"
  <2>1. before # <<>> /\ more = <<>> /\ todo[c] = <<>> /\ ~hello[c]
        /\ reader[c] \in {"none", "leave", "wait"}
    BY <1>2, <1>11, LastHeard DEF before, more
  <2>2. seen'[c] = <<>>
    BY <1>1, <1>2, <1>11, <2>1 DEF SessionTypes
  <2>3. Heard(c)' = <<>>
    <3>1. Heard(c)' = (<<>> \o <<>>) \o <<>>
      BY <1>4, <1>5, <2>1, <2>2 DEF Heard
    <3> QED BY <3>1
  <2>4. StageOK(c)'
    BY <1>1, <1>4, <2>1, <2>3 DEF StageOK, Ended, Increasing
  <2>5. RouterOK(c)'
    BY <1>11, <2>2 DEF RouterOK
  <2> QED BY <1>9, <1>10, <2>4, <2>5, OneSession
<1>12. CASE Head(inbound).kind # "disconnected"
  <2>1. seen'[c] = Append(before, e)
    BY <1>1, <1>2, <1>12 DEF SessionTypes
  <2>2. Base(c)' = Base(c)
    <3>1. Base(c) = before \o (one \o more) /\ Base(c)' = Append(before, e) \o more
      BY <1>3, <1>5, <2>1 DEF Base, before
    <3>2. one \in Seq(Events) /\ Append(before, e) = before \o one
      BY <1>1, <1>3, AppendIsConcat DEF one
    <3>3. before \in Seq(Events) /\ one \in Seq(Events) /\ more \in Seq(Events)
      BY <1>1, <1>3, <3>2
    <3>4. (before \o one) \o more = before \o (one \o more)
      BY ONLY <3>3, ConcatAssociative
    <3> QED BY <3>1, <3>2, <3>4
  <2>3. View(c)' = <<reader[c], why[c], SinkOf(c), held[c], flush[c], Base(c), stream[c], typed[c],
                     lastSize[c], seen'[c], world'[c], caps'[c]>>
    BY <1>4, <2>2 DEF View, SinkOf
  <2>4. SinkOf(c)' = SinkOf(c) /\ ReaderOf(c)' = ReaderOf(c) /\ Heard(c)' = Heard(c)
    <3>1. Heard(c) = Base(c) \o todo[c] /\ Heard(c)' = (Base(c) \o todo[c])'
      BY DEF Heard, Base
    <3> QED BY <1>4, <2>2, <3>1 DEF SinkOf, ReaderOf
  <2>5. StageOK(c)'
    BY <1>1, <1>4, <2>2, <2>4 DEF StageOK, Ended, Unread
  <2>6. RouterOK(c)'
    <3>1. /\ Append(before, e) # <<>> /\ DOMAIN Append(before, e) = 1..(Len(before) + 1)
          /\ Append(before, e)[Len(before) + 1] = e
          /\ \A i \in 1..Len(before) : Append(before, e)[i] = before[i]
      BY <1>1, <1>3, <1>7, AppendProperties
    <3>2. \A i \in 1..(Len(before) + 1) : i \in 1..Len(before) \/ i = Len(before) + 1
      BY <1>1
    <3>3. DOMAIN before = 1..Len(before)
      BY <1>1
    <3> DEFINE a == Append(before, e)
    <3> HIDE DEF a
    <3>4. a # <<>> /\ \A i \in DOMAIN a : a[i].kind # "disconnected"
      BY <1>1, <1>6, <1>12, <3>1, <3>2, <3>3 DEF RouterOK, before, a
    <3> QED BY <2>1, <3>4 DEF RouterOK, a
  <2> QED BY <1>9, <1>10, <2>5, <2>6, OneSession
<1> QED BY <1>11, <1>12

LEMMA GameKeeps ==
    ASSUME SessionInv, NEW c \in Conns, Game(c) PROVE SessionInv'
<1>1. SessionTypes /\ StageOK(c) /\ RouterOK(c)
      /\ world \in [Conns -> {"none", "login", "playing"}] /\ caps \in [Conns -> BOOLEAN]
  BY DEF SessionInv, SessionTypes
<1>2. ASSUME OnDisconnected(c) PROVE SessionInv'
  <2>1. /\ Turn(c, {"disconnected"}) /\ UNCHANGED <<readerVars, clientVars>>
        /\ world' = [world EXCEPT ![c] = "none"] /\ caps' = [caps EXCEPT ![c] = FALSE]
    BY <1>2 DEF OnDisconnected, Detach
  <2>2. /\ world' \in [Conns -> {"none", "login", "playing"}] /\ caps' \in [Conns -> BOOLEAN]
        /\ \A d \in Conns \ {c} : world'[d] = world[d] /\ caps'[d] = caps[d]
        /\ world'[c] = "none" /\ ~caps'[c]
    BY <1>1, <2>1
  <2> QED BY <2>1, <2>2, TurnKeeps
<1>3. ASSUME NEW kinds, Turn(c, kinds), "disconnected" \notin kinds,
             UNCHANGED <<readerVars, clientVars>>,
             world' \in {world, [world EXCEPT ![c] = "login"], [world EXCEPT ![c] = "playing"],
                         [world EXCEPT ![c] = "none"]},
             caps' \in {caps, [caps EXCEPT ![c] = TRUE], [caps EXCEPT ![c] = FALSE]}
      PROVE  SessionInv'
  <2>1. /\ world' \in [Conns -> {"none", "login", "playing"}] /\ caps' \in [Conns -> BOOLEAN]
        /\ \A d \in Conns \ {c} : world'[d] = world[d] /\ caps'[d] = caps[d]
    BY <1>1, <1>3
  <2>2. Head(inbound).kind # "disconnected"
    BY <1>3 DEF Turn
  <2> QED BY <1>3, <2>1, <2>2, TurnKeeps
<1>4. CASE OnConnect(c) \/ LoginLine(c) \/ PlayLine(c) \/ OnControl(c)
  <2>1. \E kinds \in {{"connected"}, {"line"}, {"size", "ctl"}} : Turn(c, kinds)
    BY <1>4 DEF OnConnect, LoginLine, PlayLine, OnControl
  <2>2. UNCHANGED <<readerVars, clientVars>>
    BY <1>4 DEF OnConnect, LoginLine, PlayLine, OnControl
  <2>3. world' \in {world, [world EXCEPT ![c] = "login"], [world EXCEPT ![c] = "playing"],
                    [world EXCEPT ![c] = "none"]}
    BY <1>4 DEF OnConnect, LoginLine, PlayLine, OnControl, Detach
  <2>4. caps' \in {caps, [caps EXCEPT ![c] = TRUE], [caps EXCEPT ![c] = FALSE]}
    BY <1>4 DEF OnConnect, LoginLine, PlayLine, OnControl, Detach
  <2> QED BY <1>3, <2>1, <2>2, <2>3, <2>4
<1>5. CASE Kick(c)
  <2>1. /\ UNCHANGED <<readerVars, clientVars, inbound, seen>> /\ world[c] = "playing"
        /\ world' = [world EXCEPT ![c] = "none"] /\ caps' = [caps EXCEPT ![c] = FALSE]
    BY <1>5 DEF Kick, Detach
  <2>2. UNCHANGED <<reader, why, hello, pending, todo, held, flush, lastSize, stream, typed>>
    BY <2>1 DEF readerVars, sinkVars, clientVars
  <2>3. SessionTypes'
    BY <1>1, <2>1, <2>2 DEF SessionTypes
  <2>4. Base(c)' = Base(c) /\ SinkOf(c)' = SinkOf(c) /\ ReaderOf(c)' = ReaderOf(c)
        /\ Heard(c)' = Heard(c)
    BY <2>1, <2>2 DEF Base, SinkOf, ReaderOf, Heard
  <2>5. StageOK(c)'
    BY <1>1, <2>2, <2>4 DEF StageOK, Ended, Unread
  <2>6. RouterOK(c)'
    <3>1. world'[c] = "none" /\ ~caps'[c]
      BY <1>1, <2>1
    <3> QED BY <1>1, <2>1, <3>1 DEF RouterOK
  <2>7. \A d \in Conns \ {c} : UNCHANGED View(d)
    <3>1. \A d \in Conns \ {c} : world'[d] = world[d] /\ caps'[d] = caps[d]
      BY <1>1, <2>1
    <3> QED BY <2>1, <2>2, <3>1 DEF View, Base, SinkOf
  <2> QED BY <2>3, <2>5, <2>6, <2>7, OneSession
<1>6. CASE UNCHANGED taskVars
  <2>1. UNCHANGED <<reader, why, hello, pending, todo, held, flush, lastSize, stream, typed, inbound,
                    seen, world, caps>>
    BY <1>6 DEF taskVars, readerVars, sinkVars, clientVars, worldVars
  <2>2. \A d \in Conns : UNCHANGED View(d)
    BY <2>1 DEF View, Base, SinkOf
  <2>3. SessionTypes'
    BY <1>1, <2>1 DEF SessionTypes
  <2> QED BY <2>2, <2>3, Untouched DEF SessionInv
<1> QED BY <1>2, <1>4, <1>5, <1>6 DEF Game, GameTurn, SyncAuthenticated

LEMMA InitSession == Init => SessionInv
<1> SUFFICES ASSUME Init PROVE SessionInv
  OBVIOUS
<1>1. inbound \in Channel /\ inbound = <<>>
  BY DEF Init, Channel
<1>2. SessionTypes
  BY DEF Init, SessionTypes, Stages
<1>3. ASSUME NEW c \in Conns PROVE StageOK(c) /\ RouterOK(c)
  <2>1. /\ reader[c] = "none" /\ why[c] = "none" /\ pending[c] = <<>> /\ todo[c] = <<>>
        /\ stream[c] = <<>> /\ typed[c] = 0 /\ lastSize[c] = 0 /\ held[c] = 0 /\ flush[c] = FALSE
        /\ hello[c] = FALSE /\ seen[c] = <<>> /\ world[c] = "none" /\ caps[c] = FALSE
    BY DEF Init
  <2>2. EventsOf(c, inbound) = <<>>
    BY <1>1, EventsOfEmpty
  <2>3. Heard(c) = <<>>
    <3>1. Heard(c) = (<<>> \o <<>>) \o <<>>
      BY <2>1, <2>2 DEF Heard
    <3> QED BY <3>1
  <2> QED BY <2>1, <2>3, Silence DEF StageOK, RouterOK
<1> QED BY <1>2, <1>3 DEF SessionInv

\* Every step keeps every session.
LEMMA NextSession ==
    ASSUME InScope, SessionInv, [Next]_vars PROVE SessionInv'
<1>1. scenario.conns \subseteq Conns /\ scenario.kinds \subseteq Inputs
  BY ScenariosInScope DEF InScope
<1>2. ASSUME UNCHANGED <<readerVars, inbound, seen, world, caps, stream, typed>> PROVE SessionInv'
  <2>1. UNCHANGED <<reader, why, hello, pending, todo, held, flush, lastSize, stream, typed, inbound,
                    seen, world, caps>>
    BY <1>2 DEF readerVars, sinkVars
  <2>2. \A d \in Conns : UNCHANGED View(d)
    BY <2>1 DEF View, Base, SinkOf
  <2>3. SessionTypes'
    BY <2>1 DEF SessionInv, SessionTypes
  <2> QED BY <2>2, <2>3, Untouched DEF SessionInv
<1>3. ASSUME NEW c \in Conns, Reader(c) PROVE SessionInv'
  BY <1>3, HandshakeDoneKeeps, EndingKeeps, ReadKeeps, GreetKeeps, FlushNawsKeeps, ReadEndsKeeps,
     DeliverKeeps, AnnounceKeeps DEF Reader
<1>4. ASSUME NEW c \in Conns, Writer(c) \/ HangUp(c) \/ StopReading(c) PROVE SessionInv'
  <2>1. UNCHANGED <<readerVars, inbound, seen, world, caps, stream, typed>>
    BY <1>4 DEF Writer, WriteFrame, WriterEnds, HangUp, StopReading, clientVars, worldVars
  <2> QED BY <1>2, <2>1
<1>5. ASSUME NEW c \in Conns, Client(c) PROVE SessionInv'
  BY <1>1, <1>4, <1>5, TypeKeeps DEF Client
<1>6. CASE Listener
  <2>1. ASSUME NEW ip, TurnAway(ip) PROVE SessionInv'
    <3>1. UNCHANGED <<readerVars, inbound, seen, world, caps, stream, typed>>
      BY <2>1 DEF TurnAway, taskVars, clientVars, worldVars
    <3> QED BY <1>2, <3>1
  <2> QED BY <1>1, <1>6, <2>1, AcceptKeeps DEF Listener
<1>7. CASE UNCHANGED taskVars \/ UNCHANGED vars
  <2>1. UNCHANGED <<readerVars, inbound, seen, world, caps, stream, typed>>
    BY <1>7 DEF vars, taskVars, clientVars, worldVars
  <2> QED BY <1>2, <2>1
<1> QED BY <1>1, <1>3, <1>4, <1>5, <1>6, <1>7, GameKeeps DEF Next

\* What was heard begins what is heard.
LEMMA SeenAhead ==
    ASSUME SessionTypes, NEW c \in Conns
    PROVE  \A i \in DOMAIN seen[c] : i \in DOMAIN Heard(c) /\ Heard(c)[i] = seen[c][i]
<1> DEFINE before == seen[c]
           q == EventsOf(c, inbound)
           front == before \o q
           rest == todo[c]
<1>1. before \in Seq(Events) /\ q \in Seq(Events) /\ rest \in Seq(Events) /\ Heard(c) = front \o rest
  BY EventsOfType DEF SessionTypes, Channel, Sent, Heard
<1> HIDE DEF before, q, rest
<1>2. /\ front \in Seq(Events) /\ Len(front) = Len(before) + Len(q)
      /\ \A i \in 1..(Len(before) + Len(q)) :
            front[i] = IF i <= Len(before) THEN before[i] ELSE q[i - Len(before)]
  <2>1. before \in Seq(Events) /\ q \in Seq(Events)
    BY <1>1
  <2> QED BY ONLY <2>1, ConcatProperties
<1> HIDE DEF front
<1>3. /\ front \o rest \in Seq(Events) /\ Len(front \o rest) = Len(front) + Len(rest)
      /\ \A i \in 1..(Len(front) + Len(rest)) :
            (front \o rest)[i] = IF i <= Len(front) THEN front[i] ELSE rest[i - Len(front)]
  <2>1. front \in Seq(Events) /\ rest \in Seq(Events)
    BY <1>1, <1>2
  <2> QED BY ONLY <2>1, ConcatProperties
<1>4. Len(before) \in Nat /\ Len(q) \in Nat /\ Len(rest) \in Nat /\ DOMAIN before = 1..Len(before)
      /\ DOMAIN (front \o rest) = 1..Len(front \o rest)
  BY <1>1, <1>3
<1>5. ASSUME NEW i \in 1..Len(before)
      PROVE i \in 1..(Len(front) + Len(rest)) /\ (front \o rest)[i] = before[i]
  <2>1. i \in 1..(Len(before) + Len(q)) /\ i <= Len(before) /\ i <= Len(front)
        /\ i \in 1..(Len(front) + Len(rest))
    BY <1>2, <1>4
  <2> QED BY <1>2, <1>3, <2>1
<1> QED BY <1>1, <1>3, <1>4, <1>5 DEF before

LEMMA SessionsOK == SessionInv => SessionShape
<1> SUFFICES ASSUME SessionInv, NEW c \in Conns
             PROVE  /\ \A i \in DOMAIN seen[c] :
                          /\ seen[c][i].kind = "connected" <=> i = 1
                          /\ seen[c][i].kind # "disconnected"
                          /\ \A j \in 1..(i - 1) :
                                seen[c][i].kind = "line" /\ seen[c][j].kind = "line" =>
                                    seen[c][j].n < seen[c][i].n
                    /\ LastSizeArrives(c)
                    /\ Idle(c) /\ ~Mentioned(c) => ~caps[c] /\ world[c] = "none"
  BY DEF SessionShape
<1>1. SessionTypes /\ StageOK(c) /\ RouterOK(c)
  BY DEF SessionInv
<1>2. Heard(c) \in Seq(Events) /\ seen[c] \in Seq(Events) /\ Base(c) \in Seq(Events)
      /\ Heard(c) = Base(c) \o todo[c]
  BY <1>1, HeardType, BaseType DEF SessionTypes
<1>3. seen[c] = <<>> \/ (Increasing(Heard(c)) /\ (Opened(Heard(c)) \/ Closed(Heard(c))))
  <2>1. CASE Heard(c) = <<>>
    BY <1>1, <2>1, HeardType
  <2>2. CASE reader[c] = "read"
    <3>1. SinkOK(Base(c), SinkOf(c))
      BY <1>1, <2>2 DEF StageOK
    <3>2. CASE hello[c]
      <4>1. Base(c) = <<>>
        BY <3>1, <3>2 DEF SinkOK, SinkOf
      <4> QED BY <1>1, <4>1, HeardType
    <3>3. CASE ~hello[c]
      BY <1>2, <3>1, <3>3 DEF SinkOK, SinkOf, Flow
    <3> QED BY <3>2, <3>3
  <2>3. CASE reader[c] # "read" /\ Heard(c) # <<>>
    BY <1>1, <2>3 DEF StageOK, Ended, SessionTypes, Stages
  <2> QED BY <2>1, <2>2, <2>3
<1>4. ASSUME NEW i \in DOMAIN seen[c]
      PROVE  /\ seen[c][i].kind = "connected" <=> i = 1
             /\ seen[c][i].kind # "disconnected"
             /\ \A j \in 1..(i - 1) :
                   seen[c][i].kind = "line" /\ seen[c][j].kind = "line" =>
                       seen[c][j].n < seen[c][i].n
  <2>1. seen[c] # <<>> /\ DOMAIN seen[c] = 1..Len(seen[c])
    BY <1>2
  <2>2. Increasing(Heard(c)) /\ (Opened(Heard(c)) \/ Closed(Heard(c)))
    BY <1>3, <2>1
  <2>3. \A k \in DOMAIN seen[c] : k \in DOMAIN Heard(c) /\ Heard(c)[k] = seen[c][k]
    BY <1>1, SeenAhead
  <2>4. seen[c][i].kind = "connected" <=> i = 1
    BY <2>2, <2>3 DEF Opened, Closed
  <2>5. ASSUME NEW j \in 1..(i - 1), seen[c][i].kind = "line", seen[c][j].kind = "line"
        PROVE seen[c][j].n < seen[c][i].n
    <3>1. j \in DOMAIN seen[c] /\ j < i
      BY <1>2, <2>1
    <3> QED BY <2>2, <2>3, <2>5, <3>1 DEF Increasing
  <2> QED BY <1>1, <2>4, <2>5 DEF RouterOK
<1>5. LastSizeArrives(c)
  <2> SUFFICES ASSUME ~Idle(c), why[c] = "none", ~flush[c], ~hello[c], lastSize[c] # 0
               PROVE  \E i \in DOMAIN Heard(c) :
                         /\ Heard(c)[i] = Event("size", lastSize[c])
                         /\ \A j \in DOMAIN Heard(c) : j > i => Heard(c)[j].kind # "size"
    BY DEF LastSizeArrives
  <2>1. reader[c] = "read"
    BY <1>1 DEF StageOK, SessionTypes, Stages, Idle
  <2>2. Latest(ReaderOf(c), Base(c), lastSize[c]) /\ SinkOK(Base(c), SinkOf(c))
    BY <1>1, <2>1 DEF StageOK
  <2>3. held[c] = 0
    BY <2>2 DEF Latest, ReaderOf
  <2>4. Flow(Base(c), SinkOf(c)) = Heard(c)
    BY <1>2 DEF Flow, SinkOf
  <2>5. Event("size", lastSize[c]) \in Items(Heard(c))
    BY <2>2, <2>3, <2>4 DEF Latest, ReaderOf, Passed
  <2>6. \A d \in Items(Heard(c)) : d.kind = "size" => d.n <= lastSize[c]
    BY <2>2, <2>4 DEF Latest, ReaderOf, Passed, Inputs
  <2>7. PICK i \in DOMAIN Heard(c) : Heard(c)[i] = Event("size", lastSize[c])
    BY <2>5 DEF Items
  <2>8. Heard(c)[i].kind = "size" /\ Heard(c)[i].n = lastSize[c] /\ lastSize[c] \in Nat
    BY <1>1, <2>7 DEF Event, SessionTypes
  <2>9. ASSUME NEW j \in DOMAIN Heard(c), j > i, Heard(c)[j].kind = "size" PROVE FALSE
    <3>1. i < j
      BY <1>2, <2>9
    <3>2. Heard(c)[i].n < Heard(c)[j].n
      BY <2>2, <2>4, <2>8, <2>9, <3>1 DEF SinkOK, Increasing
    <3>3. Heard(c)[j].n <= lastSize[c]
      BY <2>6, <2>9 DEF Items
    <3>4. Heard(c)[j].n \in Nat
      <4>1. Heard(c)[j] \in Events
        BY <1>2, ElementOfSeq
      <4> QED BY <4>1 DEF Events
    <3> QED BY <2>8, <3>2, <3>3, <3>4
  <2> QED BY <2>7, <2>9
<1>6. Idle(c) /\ ~Mentioned(c) => ~caps[c] /\ world[c] = "none"
  BY <1>1, Quiet DEF RouterOK
<1> QED BY <1>4, <1>5, <1>6

\* What the game hears of a connection is a session, whatever the chunks its bytes come
\* in, the frames the limiter sheds, the room in the channel and the game's own closes.
THEOREM SessionsShaped == Spec => []SessionShape
<1>1. Init => SessionInv
  BY InitSession
<1>2. InScope /\ SessionInv /\ [Next]_vars => SessionInv'
  BY NextSession
<1>3. SessionInv => SessionShape
  BY SessionsOK
<1> QED BY <1>1, <1>2, <1>3, ScopeInvariant, PTL DEF Spec

=============================================================================
