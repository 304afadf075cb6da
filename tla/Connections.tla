----------------------------- MODULE Connections -----------------------------
(***************************************************************************)
(* The tasks of a telnet connection (crates/mud-net/src/lib.rs) between    *)
(* the admission gate and the world's turn.  A connection is a reader task *)
(* (`handle_connection`, after the TLS handshake of `serve_tls_conn`) and  *)
(* a writer task (`spawn_writer`).  The reader turns the client's bytes    *)
(* into events and sends them down one bounded channel shared by every     *)
(* connection; the game takes them one per turn, answers on the            *)
(* connection's bounded outbound queue, and reports logins and closes      *)
(* back to the gate.                                                       *)
(*                                                                         *)
(* A connection id is used again once nothing refers to it, which stands   *)
(* for the next fresh id.  Timers are steps that may come at any time      *)
(* their code waits for them.  The rate limiters of lines and of control   *)
(* frames shed or drop at any time: their token counts are left out.       *)
(***************************************************************************)
EXTENDS Gate

CONSTANTS
    Scenarios,    \* who takes part and what may happen, chosen once:
                  \* [conns, ips, tls, inputs, kinds, hangups, outbound,
                  \* stall, clock]; outbound is OUTBOUND_QUEUE_CAP, or 0 for
                  \* queues that are always full
    InboundCap,   \* INBOUND_QUEUE_CAP
    MaxPending    \* MAX_PENDING_EVENTS

\* What a client sends: lines, window sizes, other control frames.
Inputs == {"line", "size", "ctl"}

ASSUME ScenariosInScope ==
    \A s \in Scenarios :
        s.conns \subseteq Conns /\ s.ips \subseteq IPs /\ s.kinds \subseteq Inputs

VARIABLES
    scenario,
    reader,       \* where the connection's own task stands
    why,          \* what ended its read loop
    hello,        \* Sink::hello is Some: Connected has not been sent
    pending,      \* Sink::pending
    todo,         \* events past the sink, waiting for room in the channel
    held,         \* CapsLocal::pending_naws, 0 for None
    flush,        \* CapsLocal::naws_flush_at is Some
    inbound,      \* the channel: sequence of [conn, kind, n]
    writer,       \* the writer task is running
    outq,         \* frames in the outbound queue
    client,       \* the peer: open, half-closed or gone
    stalled,      \* the peer has stopped reading
    stream,       \* what it sent and the reader has not read
    typed,        \* how much it has sent
    world,        \* the ConnRouter's record of the connection
    caps,         \* ConnRouter::caps has an entry
    seen,         \* history: the events the game received, until Disconnected
    lastSize      \* history: the last window size the reader read

sinkVars == <<hello, pending, todo, held, flush>>
readerVars == <<reader, why, sinkVars, lastSize>>
writerVars == <<writer, outq>>
clientVars == <<client, stalled, stream, typed>>
worldVars == <<world, caps, seen>>
taskVars == <<readerVars, inbound, writerVars, clientVars, worldVars>>
vars == <<gateVars, scenario, taskVars>>

Idle(c) == reader[c] = "none"
Mentioned(c) == \E i \in DOMAIN inbound : inbound[i].conn = c
Event(kind, n) == [kind |-> kind, n |-> n]

-----------------------------------------------------------------------------
(* The sink, as a record [hello, pending, todo].                           *)

SinkOf(c) == [hello |-> hello[c], pending |-> pending[c], todo |-> todo[c]]

\* What waited goes out ahead of Connected.
Connect_Late(s) ==
    IF s.hello
    THEN [hello |-> FALSE, pending |-> <<>>,
          todo |-> s.todo \o s.pending \o <<Event("connected", 0)>>]
    ELSE s

\* Sink::connect: Connected, then everything that waited for it.
Connect(s) ==
    IF s.hello
    THEN [hello |-> FALSE, pending |-> <<>>,
          todo |-> s.todo \o <<Event("connected", 0)>> \o s.pending]
    ELSE s

\* Sink::send: a full buffer releases the greeting.
Send(s, e) ==
    IF ~s.hello THEN [s EXCEPT !.todo = Append(@, e)]
    ELSE LET kept == [s EXCEPT !.pending = Append(@, e)]
         IN  IF Len(kept.pending) >= MaxPending THEN Connect(kept) ELSE kept

SetSink(c, s) ==
    /\ hello' = [hello EXCEPT ![c] = s.hello]
    /\ pending' = [pending EXCEPT ![c] = s.pending]
    /\ todo' = [todo EXCEPT ![c] = s.todo]

\* flush_pending_naws on r = [sink, held, flush]: the size held back by the
\* limiter is sent.
FlushHeld(r) ==
    [sink |-> IF r.held = 0 THEN r.sink ELSE Send(r.sink, Event("size", r.held)),
     held |-> 0, flush |-> FALSE]

\* charge_control_frame and handle_subneg on one control frame: a size that is
\* shed is held back, and the frame after it may not overtake it.
Control(r, e, shed) ==
    IF shed THEN IF e.kind = "size" THEN [r EXCEPT !.held = e.n, !.flush = TRUE] ELSE r
    ELSE LET first == IF e.kind = "size" THEN [r EXCEPT !.held = 0] ELSE FlushHeld(r)
         IN  [first EXCEPT !.sink = Send(@, e)]

\* One turn of the read loop over the chunk: the control frames in it, then the
\* lines, the first of which releases the greeting.  An input at a position in
\* `shed` is over its rate.
Controls(start, chunk, shed) ==
    LET after[i \in 0..Len(chunk)] ==
            IF i = 0 THEN start
            ELSE IF chunk[i].kind = "line" THEN after[i - 1]
            ELSE Control(after[i - 1], chunk[i], i \in shed)
    IN  after[Len(chunk)]

Lines(sink, chunk, shed) ==
    LET after[i \in 0..Len(chunk)] ==
            IF i = 0 THEN sink
            ELSE IF chunk[i].kind = "line" /\ i \notin shed THEN Send(after[i - 1], chunk[i])
            ELSE after[i - 1]
    IN  after[Len(chunk)]

Chunk(c, chunk, shed) ==
    LET read == Controls([sink |-> SinkOf(c), held |-> held[c], flush |-> flush[c]], chunk, shed)
        greeted == IF \E i \in DOMAIN chunk : chunk[i].kind = "line" THEN Connect(read.sink)
                   ELSE read.sink
    IN  [read EXCEPT !.sink = Lines(greeted, chunk, shed)]

-----------------------------------------------------------------------------
(* The listeners and the handshake.                                        *)

\* accept_plain / serve_tls: an admitted socket gets its task; the TLS one
\* holds its slot through the handshake.
Accept(c, ip, tls) ==
    /\ Idle(c) /\ ~Mentioned(c)
    /\ Admit(c, ip)
    /\ reader' = [reader EXCEPT ![c] = IF tls THEN "handshake" ELSE "read"]
    /\ hello' = [hello EXCEPT ![c] = TRUE]
    /\ writer' = [writer EXCEPT ![c] = ~tls]
    /\ client' = [client EXCEPT ![c] = "open"]
    /\ UNCHANGED <<why, pending, todo, held, flush, lastSize, inbound, outq, stalled, stream,
                   typed, worldVars>>

TurnAway(ip) == Refuse(ip) /\ UNCHANGED taskVars

HandshakeDone(c) ==
    /\ reader[c] = "handshake" /\ client[c] = "open"
    /\ reader' = [reader EXCEPT ![c] = "read"]
    /\ writer' = [writer EXCEPT ![c] = TRUE]
    /\ UNCHANGED <<gateVars, why, sinkVars, lastSize, inbound, outq, clientVars, worldVars>>

\* The task ends: its guard is dropped and whatever it owned goes with it.
TaskEnds(c) ==
    /\ DropGuard(c)
    /\ reader' = [reader EXCEPT ![c] = "none"]
    /\ why' = [why EXCEPT ![c] = "none"]
    /\ SetSink(c, [hello |-> FALSE, pending |-> <<>>, todo |-> <<>>])
    /\ held' = [held EXCEPT ![c] = 0]
    /\ flush' = [flush EXCEPT ![c] = FALSE]
    /\ lastSize' = [lastSize EXCEPT ![c] = 0]
    /\ writer' = [writer EXCEPT ![c] = FALSE]
    /\ outq' = [outq EXCEPT ![c] = 0]
    /\ client' = [client EXCEPT ![c] = "gone"]
    /\ stalled' = [stalled EXCEPT ![c] = FALSE]
    /\ stream' = [stream EXCEPT ![c] = <<>>]
    /\ typed' = [typed EXCEPT ![c] = 0]

\* The handshake fails or handshake_timeout elapses.
HandshakeFails(c) ==
    /\ reader[c] = "handshake"
    /\ TaskEnds(c)
    /\ UNCHANGED <<inbound, worldVars>>

-----------------------------------------------------------------------------
(* The reader.                                                             *)

\* The reader is in its select, not waiting for room in the channel.
Selecting(c) == reader[c] = "read" /\ todo[c] = <<>> /\ why[c] = "none"

\* read_chunk looks at the close signal first.
Listening(c) == Selecting(c) /\ c \notin closing

Sizes(chunk) == {chunk[i].n : i \in {j \in DOMAIN chunk : chunk[j].kind = "size"}}

\* A chunk arrives and is handled; a flood or an overlong line ends the loop.
Read(c) ==
    /\ Listening(c)
    /\ \E n \in 1..Len(stream[c]), fatal \in BOOLEAN : \E shed \in SUBSET (1..n) :
          LET chunk == SubSeq(stream[c], 1, n)
              r == Chunk(c, chunk, shed)
          IN  /\ SetSink(c, r.sink)
              /\ held' = [held EXCEPT ![c] = r.held]
              /\ flush' = [flush EXCEPT ![c] = r.flush]
              /\ why' = [why EXCEPT ![c] = IF fatal THEN "drop" ELSE "none"]
              /\ lastSize' = [lastSize EXCEPT ![c] =
                                 IF Sizes(chunk) = {} THEN @ ELSE Max(Sizes(chunk))]
              /\ stream' = [stream EXCEPT ![c] = SubSeq(@, n + 1, Len(@))]
    /\ UNCHANGED <<gateVars, reader, inbound, writerVars, client, stalled, typed, worldVars>>

\* Both timers of the select: the negotiation window runs out (an early end of
\* the terminal-type exchange does the same), the held size is due.
Greet(c) ==
    /\ Selecting(c) /\ hello[c]
    /\ SetSink(c, Connect(SinkOf(c)))
    /\ UNCHANGED <<gateVars, reader, why, held, flush, lastSize, inbound, writerVars,
                   clientVars, worldVars>>

FlushNaws(c) ==
    /\ Selecting(c) /\ flush[c]
    /\ LET r == FlushHeld([sink |-> SinkOf(c), held |-> held[c], flush |-> TRUE])
       IN  /\ SetSink(c, r.sink)
           /\ held' = [held EXCEPT ![c] = r.held]
           /\ flush' = [flush EXCEPT ![c] = r.flush]
    /\ UNCHANGED <<gateVars, reader, why, lastSize, inbound, writerVars, clientVars, worldVars>>

\* The read loop ends: the end of the client's input, the close signal, or a
\* failed read and the pre-login timers, which only an unauthenticated
\* connection has.  (At the end of input the code would also greet for a
\* buffered line; a line releases the greeting before it can be buffered.)
ReadEnds(c) ==
    /\ \/ /\ Listening(c) /\ client[c] = "half" /\ stream[c] = <<>>
          /\ why' = [why EXCEPT ![c] = "eof"]
       \/ /\ Selecting(c) /\ c \in closing
          /\ why' = [why EXCEPT ![c] = "close"]
       \/ /\ Listening(c) /\ (client[c] = "gone" \/ c \notin authed)
          /\ why' = [why EXCEPT ![c] = "drop"]
    /\ UNCHANGED <<gateVars, reader, sinkVars, lastSize, inbound, writerVars, clientVars,
                   worldVars>>

\* One event goes into the channel when it has room.
Deliver(c) ==
    /\ todo[c] # <<>> /\ Len(inbound) < InboundCap
    /\ LET e == Head(todo[c])
       IN  inbound' = Append(inbound, [conn |-> c, kind |-> e.kind, n |-> e.n])
    /\ todo' = [todo EXCEPT ![c] = Tail(@)]
    /\ UNCHANGED <<gateVars, reader, why, hello, pending, held, flush, lastSize, writerVars,
                   clientVars, worldVars>>

\* finish_connection announces the end of what was announced.
Announce(c) ==
    /\ reader[c] = "read" /\ why[c] # "none" /\ todo[c] = <<>>
    /\ reader' = [reader EXCEPT ![c] = "leave"]
    /\ todo' = [todo EXCEPT ![c] = IF hello[c] THEN <<>> ELSE <<Event("disconnected", 0)>>]
    /\ UNCHANGED <<gateVars, why, hello, pending, held, flush, lastSize, inbound, writerVars,
                   clientVars, worldVars>>

\* The close signal is looked at before the announcement, not after it.
Draining_OldSignal(c) == why[c] \in {"eof", "close"}

\* Then the writer gets time to finish, or is stopped at once.
Draining(c) == why[c] = "eof" \/ c \in closing

Settle(c) ==
    /\ reader[c] = "leave" /\ todo[c] = <<>>
    /\ \/ /\ Draining(c)
          /\ reader' = [reader EXCEPT ![c] = "wait"]
          /\ UNCHANGED <<gateVars, why, sinkVars, lastSize, writerVars, clientVars>>
       \/ ~Draining(c) /\ TaskEnds(c)
    /\ UNCHANGED <<inbound, worldVars>>

\* The writer has nothing to write, or nobody reads what it writes.  It waits
\* with an empty queue while a sender is left: the sink's, the router's, or that
\* of a body still waiting for its save turn (Retiring).
WriterStuck(c) == writer[c] /\ (outq[c] = 0 \/ (stalled[c] /\ client[c] # "gone"))

\* The wait for the writer has no bound.
Finish_Unbounded(c) ==
    /\ reader[c] = "wait" /\ ~writer[c]
    /\ TaskEnds(c)
    /\ UNCHANGED <<inbound, worldVars>>

\* The writer is done, or its time (EOF_DRAIN_TIMEOUT, CLOSE_FLUSH_TIMEOUT) is
\* up: that takes longer than writing what a reading client is owed.
Finish(c) ==
    /\ reader[c] = "wait" /\ (~writer[c] \/ WriterStuck(c))
    /\ TaskEnds(c)
    /\ UNCHANGED <<inbound, worldVars>>

-----------------------------------------------------------------------------
(* The writer: queued frames win over the close signal.                    *)

WriteFrame(c) ==
    /\ writer[c] /\ outq[c] > 0
    /\ \/ /\ client[c] = "gone"
          /\ writer' = [writer EXCEPT ![c] = FALSE]
          /\ outq' = [outq EXCEPT ![c] = 0]
       \/ /\ client[c] # "gone" /\ ~stalled[c]
          /\ outq' = [outq EXCEPT ![c] = @ - 1]
          /\ UNCHANGED writer
    /\ UNCHANGED <<gateVars, readerVars, inbound, clientVars, worldVars>>

WriterEnds(c) ==
    /\ writer[c] /\ outq[c] = 0
    /\ \/ c \in closing
       \/ reader[c] = "wait" /\ ~hello[c] /\ world[c] = "none"
    /\ writer' = [writer EXCEPT ![c] = FALSE]
    /\ UNCHANGED <<gateVars, readerVars, inbound, outq, clientVars, worldVars>>

-----------------------------------------------------------------------------
(* The client.                                                             *)

\* Only a window size needs a value: the rest is told apart by its order.
Type(c, kind) ==
    /\ reader[c] = "read" /\ why[c] = "none" /\ client[c] = "open"
    /\ typed[c] < scenario.inputs
    /\ typed' = [typed EXCEPT ![c] = @ + 1]
    /\ stream' = [stream EXCEPT ![c] = Append(@, Event(kind, typed[c] + 1))]
    /\ UNCHANGED <<gateVars, readerVars, inbound, writerVars, client, stalled, worldVars>>

HangUp(c) ==
    /\ ~Idle(c) /\ client[c] # "gone"
    /\ \E how \in scenario.hangups :
          /\ client[c] = "open" \/ how = "gone"
          /\ client' = [client EXCEPT ![c] = how]
    /\ UNCHANGED <<gateVars, readerVars, inbound, writerVars, stalled, stream, typed, worldVars>>

StopReading(c) ==
    /\ ~Idle(c) /\ client[c] # "gone" /\ ~stalled[c] /\ scenario.stall
    /\ stalled' = [stalled EXCEPT ![c] = TRUE]
    /\ UNCHANGED <<gateVars, readerVars, inbound, writerVars, client, stream, typed, worldVars>>

-----------------------------------------------------------------------------
(* The game's turn takes the oldest event.                                 *)

Turn(c, kinds) ==
    /\ inbound # <<>>
    /\ Head(inbound).conn = c /\ Head(inbound).kind \in kinds
    /\ inbound' = Tail(inbound)
    /\ seen' = [seen EXCEPT ![c] =
                   IF Head(inbound).kind = "disconnected" /\ @ # <<>> THEN <<>>
                   ELSE Append(@, Event(Head(inbound).kind, Head(inbound).n))]

\* try_send: lost when the queue is full or the writer is gone.
Reply(c) ==
    /\ outq' = IF writer[c] /\ outq[c] < scenario.outbound THEN [outq EXCEPT ![c] = @ + 1] ELSE outq
    /\ UNCHANGED writer

\* ConnRouter::on_connect_with
OnConnect(c) ==
    /\ Turn(c, {"connected"})
    /\ world' = [world EXCEPT ![c] = "login"]
    /\ caps' = [caps EXCEPT ![c] = TRUE]
    /\ Reply(c)
    /\ UNCHANGED <<gateVars, readerVars, clientVars>>

\* ConnRouter::on_line of a connection that logs in: it stays in the menus,
\* enters the game (bind_player) or is refused (refuse_login).
LoginLine(c) ==
    /\ Turn(c, {"line"}) /\ world[c] = "login"
    /\ Reply(c)
    /\ \/ UNCHANGED <<gateVars, world, caps>>
       \/ MarkAuthenticated(c) /\ world' = [world EXCEPT ![c] = "playing"] /\ UNCHANGED caps
       \/ /\ CloseConnection(c)
          /\ world' = [world EXCEPT ![c] = "none"]
          /\ caps' = [caps EXCEPT ![c] = FALSE]
    /\ UNCHANGED <<readerVars, clientVars>>

\* on_disconnect: the router forgets the connection.
Detach(c) ==
    /\ world' = [world EXCEPT ![c] = "none"]
    /\ caps' = [caps EXCEPT ![c] = FALSE]

\* on_line of a player: a command, or `quit`; a line of a connection the world
\* has let go of is ignored.
PlayLine(c) ==
    /\ Turn(c, {"line"}) /\ world[c] # "login"
    /\ \/ world[c] = "playing" /\ Reply(c) /\ UNCHANGED <<gateVars, world, caps>>
       \/ world[c] = "playing" /\ Reply(c) /\ Detach(c) /\ CloseConnection(c)
       \/ world[c] # "playing" /\ UNCHANGED <<gateVars, world, caps, writerVars>>
    /\ UNCHANGED <<readerVars, clientVars>>

\* on_window_size and the other control events: `entry(..).or_default()` also
\* makes the record of a connection that was let go of.
OnControl(c) ==
    /\ Turn(c, {"size", "ctl"})
    /\ caps' = [caps EXCEPT ![c] = TRUE]
    /\ UNCHANGED <<gateVars, readerVars, clientVars, writerVars, world>>

OnDisconnected(c) ==
    /\ Turn(c, {"disconnected"})
    /\ Detach(c)
    /\ UNCHANGED <<gateVars, readerVars, clientVars, writerVars>>

\* Outside its own turns: an idle kick, a completed camp or a takeover ends the
\* session with a notice, and sync_authenticated reports the login again.
Kick(c) ==
    /\ world[c] = "playing"
    /\ Reply(c)
    /\ Detach(c)
    /\ CloseConnection(c)
    /\ UNCHANGED <<readerVars, inbound, clientVars, seen>>

SyncAuthenticated(c) ==
    /\ world[c] = "playing"
    /\ MarkAuthenticated(c)
    /\ UNCHANGED taskVars

-----------------------------------------------------------------------------
Init ==
    /\ GateInit
    /\ scenario \in Scenarios
    /\ reader = [c \in Conns |-> "none"]
    /\ why = [c \in Conns |-> "none"]
    /\ hello = [c \in Conns |-> FALSE]
    /\ pending = [c \in Conns |-> <<>>]
    /\ todo = [c \in Conns |-> <<>>]
    /\ held = [c \in Conns |-> 0]
    /\ flush = [c \in Conns |-> FALSE]
    /\ inbound = <<>>
    /\ writer = [c \in Conns |-> FALSE]
    /\ outq = [c \in Conns |-> 0]
    /\ client = [c \in Conns |-> "gone"]
    /\ stalled = [c \in Conns |-> FALSE]
    /\ stream = [c \in Conns |-> <<>>]
    /\ typed = [c \in Conns |-> 0]
    /\ world = [c \in Conns |-> "none"]
    /\ caps = [c \in Conns |-> FALSE]
    /\ seen = [c \in Conns |-> <<>>]
    /\ lastSize = [c \in Conns |-> 0]

Listener ==
    \/ \E ip \in scenario.ips : TurnAway(ip)
    \/ \E c \in scenario.conns, ip \in scenario.ips, tls \in scenario.tls : Accept(c, ip, tls)

Reader(c) ==
    \/ HandshakeDone(c)
    \/ HandshakeFails(c)
    \/ Read(c)
    \/ Greet(c)
    \/ FlushNaws(c)
    \/ ReadEnds(c)
    \/ Deliver(c)
    \/ Announce(c)
    \/ Settle(c)
    \/ Finish(c)

Writer(c) == WriteFrame(c) \/ WriterEnds(c)

Client(c) ==
    \/ \E kind \in scenario.kinds : Type(c, kind)
    \/ HangUp(c)
    \/ StopReading(c)

GameTurn(c) ==
    \/ OnConnect(c)
    \/ LoginLine(c)
    \/ PlayLine(c)
    \/ OnControl(c)
    \/ OnDisconnected(c)

Game(c) ==
    \/ GameTurn(c)
    \/ Kick(c)
    \/ SyncAuthenticated(c)

Next ==
    /\ UNCHANGED scenario
    /\ \/ Listener
       \/ \E c \in scenario.conns : Reader(c) \/ Writer(c) \/ Client(c) \/ Game(c)
       \/ scenario.clock /\ Tick /\ UNCHANGED taskVars

\* The runtime polls every task that can run, timers included, and the channel
\* gives room to its senders in turn (strong fairness of a reader that waits
\* for room); the game takes its turns.
Fairness ==
    /\ \A c \in Conns :
          /\ SF_vars(Reader(c) /\ UNCHANGED scenario)
          /\ WF_vars(Writer(c) /\ UNCHANGED scenario)
    /\ WF_vars(UNCHANGED scenario /\ \E c \in Conns : GameTurn(c))

Spec == Init /\ [][Next]_vars /\ Fairness

-----------------------------------------------------------------------------
(* Properties.                                                             *)

\* The events of c in the channel.
EventsOf(c, channel) ==
    LET upto[i \in 0..Len(channel)] ==
            IF i = 0 THEN <<>>
            ELSE IF channel[i].conn = c
                 THEN Append(upto[i - 1], Event(channel[i].kind, channel[i].n))
            ELSE upto[i - 1]
    IN  upto[Len(channel)]

\* The session so far, as the game has heard it and is going to hear it.
Heard(c) == seen[c] \o EventsOf(c, inbound) \o todo[c]

\* A window size the limiter held back is not lost: when the reader has
\* nothing left to send and no flush is due, the last size it read is the last
\* one it let through.
LastSizeArrives(c) ==
    Idle(c) \/ why[c] # "none" \/ flush[c] \/ hello[c] \/ lastSize[c] = 0 \/
    \E i \in DOMAIN Heard(c) :
        /\ Heard(c)[i] = Event("size", lastSize[c])
        /\ \A j \in DOMAIN Heard(c) : j > i => Heard(c)[j].kind # "size"

\* What the game hears of a connection is a session: Connected once and first,
\* Disconnected once and last (it empties `seen`), its lines between in the
\* order typed, and the last window size always among them; and a connection that
\* is over leaves no record in the router.
SessionShape ==
    \A c \in Conns :
        /\ \A i \in DOMAIN seen[c] :
              /\ seen[c][i].kind = "connected" <=> i = 1
              /\ seen[c][i].kind # "disconnected"
              /\ \A j \in 1..(i - 1) :
                    seen[c][i].kind = "line" /\ seen[c][j].kind = "line" =>
                        seen[c][j].n < seen[c][i].n
        /\ LastSizeArrives(c)
        /\ Idle(c) /\ ~Mentioned(c) => ~caps[c] /\ world[c] = "none"

\* When a connection ends, a client that kept reading has been sent every frame
\* the game queued before it asked for the close (and, after the client's own
\* half-close, every frame queued so far).
FlushedBeforeEnd ==
    [][\A c \in Conns :
          ~Idle(c) /\ reader'[c] = "none" /\ ~stalled[c] /\ client[c] # "gone"
            /\ (c \in closing \/ why[c] = "eof")
          => outq[c] = 0]_vars

\* Every slot comes back: a connection that has not logged in, that the game
\* closed or whose client has gone is over one day, unless it logs in.
SlotsComeBack ==
    \A c \in Conns :
        ~Idle(c) ~> Idle(c) \/ (c \in authed /\ c \notin closing /\ client[c] = "open")
=============================================================================
