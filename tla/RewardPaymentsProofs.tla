------------------------ MODULE RewardPaymentsProofs ------------------------
(***************************************************************************)
(* No reward is paid twice, for any number of payers, whatever fails; and  *)
(* none is erased or lost but in the ways that `Calm` names.               *)
(***************************************************************************)
EXTENDS RewardPayments, FiniteSetTheorems, WellFoundedInduction, TLAPS

-----------------------------------------------------------------------------
(* Updates of a payer in a list of updates.                                *)

Places(p, q) == {i \in DOMAIN q : q[i] = p}

LEMMA PlacesFinite ==
    ASSUME NEW S, NEW q \in Seq(S), NEW p
    PROVE  /\ IsFiniteSet(Places(p, q)) /\ Of(p, q) = Cardinality(Places(p, q))
           /\ Of(p, q) \in Nat
<1>1. IsFiniteSet(1 .. Len(q)) /\ DOMAIN q = 1 .. Len(q)
  BY FS_Interval
<1>2. IsFiniteSet(Places(p, q))
  BY <1>1, FS_Subset DEF Places
<1> QED
  BY <1>2, FS_CardinalityType DEF Of, Places

LEMMA OfEmpty == \A p : Of(p, <<>>) = 0
<1> TAKE p
<1>1. Places(p, <<>>) = {}
  BY DEF Places
<1> QED
  BY <1>1, FS_EmptySet DEF Of, Places

LEMMA OfAppend ==
    ASSUME NEW S, NEW q \in Seq(S), NEW r \in S, NEW p
    PROVE  Of(p, Append(q, r)) = Of(p, q) + (IF r = p THEN 1 ELSE 0)
<1>1. IsFiniteSet(Places(p, q)) /\ Of(p, q) = Cardinality(Places(p, q)) /\ Of(p, q) \in Nat
  BY PlacesFinite
<1>2. Of(p, Append(q, r)) = Cardinality(Places(p, Append(q, r)))
  BY DEF Of, Places
<1>3. Len(q) + 1 \notin Places(p, q)
  BY DEF Places
<1>4. CASE r = p
  <2>1. Places(p, Append(q, r)) = Places(p, q) \cup {Len(q) + 1}
    BY <1>4 DEF Places
  <2> QED
    BY <1>1, <1>2, <1>3, <1>4, <2>1, FS_AddElement
<1>5. CASE r # p
  <2>1. Places(p, Append(q, r)) = Places(p, q)
    BY <1>5 DEF Places
  <2> QED
    BY <1>1, <1>2, <1>5, <2>1
<1> QED
  BY <1>4, <1>5

LEMMA OfPrefix ==
    ASSUME NEW S, NEW q \in Seq(S), NEW n \in 1 .. Len(q), NEW p
    PROVE  /\ Of(p, SubSeq(q, 1, n)) \in 0 .. Of(p, q)
           /\ (\A i \in DOMAIN q : i > n => q[i] # p) => Of(p, SubSeq(q, 1, n)) = Of(p, q)
<1>1. SubSeq(q, 1, n) \in Seq(S) /\ Len(SubSeq(q, 1, n)) = n
      /\ \A i \in 1 .. n : SubSeq(q, 1, n)[i] = q[i]
  OBVIOUS
<1>2. Places(p, SubSeq(q, 1, n)) \subseteq Places(p, q)
  BY <1>1 DEF Places
<1>3. /\ IsFiniteSet(Places(p, q)) /\ Of(p, q) = Cardinality(Places(p, q)) /\ Of(p, q) \in Nat
      /\ Of(p, SubSeq(q, 1, n)) = Cardinality(Places(p, SubSeq(q, 1, n)))
      /\ Of(p, SubSeq(q, 1, n)) \in Nat
  BY <1>1, PlacesFinite
<1>4. Of(p, SubSeq(q, 1, n)) \in 0 .. Of(p, q)
  BY <1>2, <1>3, FS_Subset
<1>5. ASSUME \A i \in DOMAIN q : i > n => q[i] # p
      PROVE  Of(p, SubSeq(q, 1, n)) = Of(p, q)
  <2>1. Places(p, q) \subseteq Places(p, SubSeq(q, 1, n))
    BY <1>1, <1>5 DEF Places
  <2>2. Places(p, q) = Places(p, SubSeq(q, 1, n))
    BY <1>2, <2>1
  <2> QED
    BY <1>3, <2>2
<1> QED
  BY <1>4, <1>5

LEMMA OfNone ==
    ASSUME NEW S, NEW q \in Seq(S), NEW p
    PROVE  Of(p, q) = 0 <=> \A i \in DOMAIN q : q[i] # p
<1>1. IsFiniteSet(Places(p, q)) /\ Of(p, q) = Cardinality(Places(p, q))
  BY PlacesFinite
<1>2. Places(p, q) = {} <=> \A i \in DOMAIN q : q[i] # p
  BY DEF Places
<1> QED
  BY <1>1, <1>2, FS_EmptySet

LEMMA FirstOf ==
    ASSUME NEW T, T \subseteq Nat, T # {}
    PROVE  \E x \in T : \A y \in T : x <= y
<1> DEFINE Less == {ss \in Nat \X Nat : ss[1] < ss[2]}
<1>1. IsWellFoundedOn(Less, Nat)
  BY NatLessThanWellFounded, Zenon DEF OpToRel
<1>2. PICK x \in T : \A y \in T : ~(<<y, x>> \in Less)
  <2> HIDE DEF Less
  <2> QED BY <1>1, WFMin
<1>3. x \in Nat /\ \A y \in T : y \in Nat /\ ~(y < x)
  BY <1>2
<1> QED
  BY <1>3

-----------------------------------------------------------------------------
(* Types.                                                                  *)

Users == {World} \cup {PayTask(p) : p \in Payers}
           \cup {GrantTask(p) : p \in ItemPayers} \cup {SaveTask(s) : s \in Savers}
SaverType == [at : {"free", "spawned", "queued"}, gen : Nat, pack : Owned]

\* Whoever waits for the turn is told apart from the others.
LEMMA UsersDiffer ==
    /\ \A p, q : PayTask(p) = PayTask(q) => p = q
    /\ \A p, q : PayTask(p) # World /\ PayTask(p) # GrantTask(q) /\ PayTask(p) # SaveTask(q)
    /\ \A p, q : GrantTask(p) # World /\ GrantTask(p) # SaveTask(q)
    /\ \A s, t : SaveTask(s) = SaveTask(t) => s = t
    /\ \A s : SaveTask(s) # World
BY DEF PayTask, GrantTask, SaveTask, World

\* The counts of the pieces that money is kept in.
LEMMA Counts ==
    ASSUME TypeOK
    PROVE  \A p \in Payers : /\ Of(p, queue) \in Nat /\ OnTheWay(p) \in Nat
                             /\ world[p] \in Nat /\ db[p] \in Nat
                             /\ \A s \in Savers : saver[s].pack[p] \in Nat
                             /\ OnTheWay(p) >= Of(p, queue)
<1> SUFFICES ASSUME NEW p \in Payers
             PROVE  /\ Of(p, queue) \in Nat /\ OnTheWay(p) \in Nat
                    /\ world[p] \in Nat /\ db[p] \in Nat
                    /\ \A s \in Savers : saver[s].pack[p] \in Nat
                    /\ OnTheWay(p) >= Of(p, queue)
  OBVIOUS
<1>1. Of(p, queue) \in Nat
  BY PlacesFinite DEF TypeOK
<1> QED
  BY <1>1 DEF TypeOK, OnTheWay, Owned

LEMMA WithOwned == ASSUME TypeOK, NEW q \in Seq(Payers) PROVE With(q) \in Owned
<1>1. \A p \in Payers : Of(p, q) \in Nat
  BY PlacesFinite
<1> QED
  BY <1>1 DEF With, Owned, TypeOK

LEMMA Drained ==
    ASSUME TypeOK, DrainQueue
    PROVE  /\ queue' = <<>> /\ others' = 0
           /\ grant' \in [ItemPayers -> {"none", "spawned", "queued", "sending"}]
           /\ \A p \in Payers : /\ Of(p, queue)' = 0
                                /\ OnTheWay(p)' <= OnTheWay(p)
                                /\ present => OnTheWay(p)' = OnTheWay(p) - Of(p, queue)
<1>1. \A p : Of(p, queue') = 0
  BY OfEmpty DEF DrainQueue
<1>2. grant' \in [ItemPayers -> {"none", "spawned", "queued", "sending"}]
  BY DEF DrainQueue, TypeOK
<1>3. ASSUME NEW p \in Payers
      PROVE  /\ OnTheWay(p)' <= OnTheWay(p)
             /\ present => OnTheWay(p)' = OnTheWay(p) - Of(p, queue)
  BY <1>1, <1>2, Counts DEF DrainQueue, OnTheWay, TypeOK
<1> QED
  BY <1>1, <1>2, <1>3 DEF DrainQueue

\* The save that an item asks for holds the entity and some of the queue.
PartOf(pack, p) == pack[p] \in world[p] .. (world[p] + Of(p, queue))
AfterDrain ==
    \/ SavesAfterDrain = [save |-> saver["background"], gen |-> nextGen]
    \/ \E pack \in Owned :
          /\ present /\ Free("background")
          /\ SavesAfterDrain = [save |-> Snapshot(nextGen, pack), gen |-> nextGen + 1]
          /\ \A p \in Payers : PartOf(pack, p)
          /\ \A p \in Payers :
                (\A i, j \in DOMAIN queue : i < j /\ queue[i] \in ItemPayers => queue[j] # p)
                => pack[p] = world[p] + Of(p, queue)

LEMMA SavesFollow == ASSUME TypeOK PROVE AfterDrain
<1>1. CASE present /\ ItemPlaces # {} /\ Free("background")
  <2> DEFINE first == CHOOSE i \in ItemPlaces : \A j \in ItemPlaces : i <= j
             pack == With(SubSeq(queue, 1, first))
  <2>1. ItemPlaces \subseteq 1 .. Len(queue) /\ ItemPlaces \subseteq Nat /\ queue \in Seq(Payers)
    BY DEF ItemPlaces, TypeOK
  <2>2. first \in ItemPlaces /\ \A j \in ItemPlaces : first <= j
    BY <1>1, <2>1, FirstOf
  <2> HIDE DEF first
  <2>3. SubSeq(queue, 1, first) \in Seq(Payers) /\ first \in 1 .. Len(queue)
    BY <2>1, <2>2
  <2>4. pack \in Owned
    BY <2>3, WithOwned
  <2>5. SavesAfterDrain = [save |-> Snapshot(nextGen, pack), gen |-> nextGen + 1]
    BY <1>1 DEF SavesAfterDrain, first
  <2>6. \A p \in Payers : /\ Of(p, SubSeq(queue, 1, first)) \in 0 .. Of(p, queue)
                          /\ (\A i \in DOMAIN queue : i > first => queue[i] # p)
                             => Of(p, SubSeq(queue, 1, first)) = Of(p, queue)
    BY <2>1, <2>3, OfPrefix
  <2>7. \A p \in Payers : pack[p] = world[p] + Of(p, SubSeq(queue, 1, first))
    BY DEF With
  <2>8. \A p \in Payers : PartOf(pack, p)
    BY <2>6, <2>7, Counts DEF PartOf
  <2>9. ASSUME NEW p \in Payers,
               \A i, j \in DOMAIN queue : i < j /\ queue[i] \in ItemPayers => queue[j] # p
        PROVE  pack[p] = world[p] + Of(p, queue)
    <3>1. first \in DOMAIN queue /\ queue[first] \in ItemPayers
      BY <2>2 DEF ItemPlaces
    <3>2. \A i \in DOMAIN queue : i > first => queue[i] # p
      BY <2>1, <2>9, <3>1
    <3> QED
      BY <2>6, <2>7, <3>2
  <2> HIDE DEF pack
  <2> QED
    BY <1>1, <2>4, <2>5, <2>8, <2>9 DEF AfterDrain
<1>2. CASE ~(present /\ ItemPlaces # {} /\ Free("background"))
  BY <1>2 DEF SavesAfterDrain, AfterDrain
<1> QED
  BY <1>1, <1>2

-----------------------------------------------------------------------------
\* The channel is never over its capacity: a place is reserved, or taken
\* without one, only where there is room.
Capacity == Len(queue) + others + Cardinality(permits) <= scene.cap

LEMMA Permits ==
    ASSUME NEW S \in SUBSET Payers
    PROVE  /\ Cardinality(S) \in Nat
           /\ \A p \in Payers :
                 /\ Cardinality(S \cup {p}) <= Cardinality(S) + 1
                 /\ Cardinality(S \ {p}) <= Cardinality(S)
                 /\ p \in S => Cardinality(S \ {p}) = Cardinality(S) - 1
<1>1. IsFiniteSet(S)
  BY RewardAssumption, FS_Subset
<1>2. ASSUME NEW p \in Payers
      PROVE  /\ Cardinality(S \cup {p}) <= Cardinality(S) + 1
             /\ Cardinality(S \ {p}) <= Cardinality(S)
             /\ p \in S => Cardinality(S \ {p}) = Cardinality(S) - 1
  <2>1. Cardinality(S) \in Nat
    BY <1>1, FS_CardinalityType
  <2>2. Cardinality(S \cup {p}) = IF p \in S THEN Cardinality(S) ELSE Cardinality(S) + 1
    BY <1>1, FS_AddElement
  <2>3. Cardinality(S \ {p}) = IF p \in S THEN Cardinality(S) - 1 ELSE Cardinality(S)
    BY <1>1, FS_RemoveElement
  <2> QED
    BY <2>1, <2>2, <2>3
<1> QED
  BY <1>1, <1>2, FS_CardinalityType

LEMMA CapacityKept == ASSUME TypeOK, [Next]_vars PROVE Capacity'
<1>0. /\ queue \in Seq(Payers) /\ others \in Nat /\ permits \subseteq Payers /\ scene \in Scenes
      /\ scene.cap \in Nat /\ Capacity
      /\ Len(queue) \in Nat /\ Cardinality(permits) \in Nat
  BY Permits, RewardAssumption DEF TypeOK, Capacity
<1>1. ASSUME NEW p \in Payers, Start(p) \/ Task(p) PROVE Capacity'
  <2>1. CASE \/ Start(p) \/ WaitForRoom(p) \/ Pay(p)
    BY <1>0, <2>1 DEF Start, WaitForRoom, Pay, worldVars, Capacity
  <2>0. /\ Cardinality(permits \cup {p}) \in Nat /\ Cardinality(permits \ {p}) \in Nat
        /\ Cardinality(permits \cup {p}) <= Cardinality(permits) + 1
        /\ Cardinality(permits \ {p}) <= Cardinality(permits)
        /\ p \in permits => Cardinality(permits \ {p}) = Cardinality(permits) - 1
    <3>1. permits \cup {p} \in SUBSET Payers /\ permits \ {p} \in SUBSET Payers
      BY <1>0
    <3> QED
      BY <1>0, <3>1, Permits
  <2>2. CASE Reserve(p) \/ RoomFound(p)
    <3>1. /\ UNCHANGED <<queue, others, scene>>
          /\ \/ permits' = permits
             \/ HasRoom /\ permits' = permits \cup {p}
      BY <2>2 DEF Reserve, RoomFound, worldVars
    <3>2. CASE permits' = permits
      BY <1>0, <3>1, <3>2 DEF Capacity
    <3>3. CASE HasRoom /\ permits' = permits \cup {p}
      <4>1. Len(queue) + others + Cardinality(permits) < scene.cap
        BY <3>3 DEF HasRoom
      <4>2. Len(queue) + others + Cardinality(permits \cup {p}) <= scene.cap
        BY <1>0, <2>0, <4>1
      <4> QED
        BY <3>1, <3>3, <4>2 DEF Capacity
    <3> QED
      BY <3>1, <3>2, <3>3
  <2>3. CASE PayFails(p)
    <3>1. UNCHANGED <<queue, others, scene>> /\ permits' \in {permits, permits \ {p}}
      BY <2>3 DEF PayFails, worldVars
    <3>2. Len(queue) + others + Cardinality(permits \ {p}) <= scene.cap
      BY <1>0, <2>0 DEF Capacity
    <3> QED
      BY <1>0, <3>1, <3>2 DEF Capacity
  <2>4. CASE Deliver(p)
    <3>1. /\ UNCHANGED <<others, scene>> /\ permits' = permits \ {p}
          /\ queue' = IF p \in permits THEN Append(queue, p) ELSE queue
      BY <2>4 DEF Deliver, worldVars
    <3>2. Len(Append(queue, p)) = Len(queue) + 1
      BY <1>0
    <3> QED
      BY <1>0, <2>0, <3>1, <3>2 DEF Capacity
  <2> QED
    BY <1>1, <2>1, <2>2, <2>3, <2>4 DEF Task
<1>2. ASSUME NEW p \in ItemPayers, Grant(p) PROVE Capacity'
  <2>1. p \in Payers
    BY RewardAssumption
  <2> QED
    BY <1>0, <1>2, <2>1 DEF Grant, GrantJoins, GrantTurn, GrantSends, HasRoom, worldVars, Capacity
<1>3. ASSUME NEW s \in Savers, Save(s) PROVE Capacity'
  BY <1>0, <1>3 DEF Save, SaverJoins, SaverWrites, SaverFails, worldVars, Capacity
<1>4. CASE \/ TickDrain \/ BackgroundSave \/ Retire \/ MainResumes
  <2>1. queue' = <<>> /\ others' = 0 /\ permits' = permits /\ scene' = scene
    BY <1>4 DEF TickDrain, BackgroundSave, Retire, MainResumes, LoginLoads, ShutdownSave,
                DrainQueue, worldVars
  <2> QED
    BY <1>0, <2>1 DEF Capacity
<1>5. CASE LoginBegins \/ Shutdown \/ Flushed
  BY <1>0, <1>5 DEF LoginBegins, Shutdown, Flushed, taskVars, worldVars, Capacity
<1>6. CASE OtherSend
  BY <1>0, <1>6 DEF OtherSend, HasRoom, taskVars, worldVars, Capacity
<1>7. CASE UNCHANGED vars
  BY <1>0, <1>7 DEF vars, taskVars, worldVars, Capacity
<1> QED
  BY <1>1, <1>2, <1>3, <1>4, <1>5, <1>6, <1>7 DEF Next

\* The rest of the types.
PieceType ==
    /\ main \in {"idle", "login", "saving", "flushing", "stopped"}
    /\ turn \in Seq(Users)
    /\ payer \in [Payers -> {"none", "queued", "room", "back", "ready", "paid", "done"}]
    /\ permits \subseteq Payers /\ queue \in Seq(Payers) /\ others \in Nat
    /\ grant \in [ItemPayers -> {"none", "spawned", "queued", "sending"}]
    /\ saver \in [Savers -> SaverType]
    /\ nextGen \in Nat /\ lastCommitted \in Nat
    /\ live \in BOOLEAN /\ closing \in BOOLEAN /\ present \in BOOLEAN
    /\ world \in Owned /\ db \in Owned /\ session \in Nat /\ scene \in Scenes
    /\ paid \subseteq Payers /\ lost \in BOOLEAN /\ dropped \subseteq ItemPayers

LEMMA Parts == TypeOK <=> PieceType /\ Capacity
BY DEF TypeOK, PieceType, Capacity, Users, SaverType

\* A task that asks for the turn, and the holder that lets it go.
LEMMA TurnKept ==
    ASSUME turn \in Seq(Users)
    PROVE  /\ \A x \in Users : Append(turn, x) \in Seq(Users)
           /\ \A x : HasTurn(x) => Tail(turn) \in Seq(Users)
BY DEF HasTurn

LEMMA PiecesKept == ASSUME TypeOK, [Next]_vars PROVE PieceType'
<1>0. PieceType
  BY Parts
<1>1. /\ \A x \in Users : Append(turn, x) \in Seq(Users)
      /\ \A x : HasTurn(x) => Tail(turn) \in Seq(Users)
  BY <1>0, TurnKept DEF PieceType
<1>2. ASSUME NEW p \in Payers, Start(p) \/ Task(p) PROVE PieceType'
  <2>1. PayTask(p) \in Users
    BY DEF Users
  <2>2. Append(turn, PayTask(p)) \in Seq(Users) /\ Append(queue, p) \in Seq(Payers)
    BY <1>0, <1>1, <2>1 DEF PieceType
  <2>3. CASE Start(p)
    BY <1>0, <2>2, <2>3 DEF Start, slotVars, worldVars, PieceType
  <2>4. CASE Reserve(p) \/ RoomFound(p)
    BY <1>0, <2>2, <2>4 DEF Reserve, RoomFound, slotVars, worldVars, PieceType
  <2>5. CASE WaitForRoom(p)
    BY <1>0, <1>1, <2>5 DEF WaitForRoom, slotVars, worldVars, PieceType
  <2>6. CASE Pay(p)
    BY <1>0, <2>6 DEF Pay, slotVars, worldVars, PieceType, Owned
  <2>7. CASE PayFails(p)
    BY <1>0, <1>1, <2>7 DEF PayFails, slotVars, worldVars, PieceType
  <2>8. CASE Deliver(p)
    BY <1>0, <1>1, <2>2, <2>8 DEF Deliver, worldVars, PieceType, Newest
  <2> QED
    BY <1>2, <2>3, <2>4, <2>5, <2>6, <2>7, <2>8 DEF Task
<1>3. ASSUME NEW p \in ItemPayers, Grant(p) PROVE PieceType'
  <2>1. p \in Payers /\ GrantTask(p) \in Users
    BY RewardAssumption DEF Users
  <2>2. Append(turn, GrantTask(p)) \in Seq(Users) /\ Append(queue, p) \in Seq(Payers)
    BY <1>0, <1>1, <2>1 DEF PieceType
  <2>3. CASE GrantJoins(p) \/ GrantSends(p)
    BY <1>0, <2>2, <2>3 DEF GrantJoins, GrantSends, slotVars, worldVars, PieceType
  <2>4. CASE GrantTurn(p)
    <3>1. /\ turn' \in Seq(Users) /\ grant' \in [ItemPayers -> {"none", "spawned", "queued", "sending"}]
          /\ db' \in Owned /\ dropped' \subseteq ItemPayers
      <4>1. /\ turn' = Tail(turn) /\ HasTurn(GrantTask(p)) /\ dropped' \in {dropped, dropped \cup {p}}
            /\ grant' \in {[grant EXCEPT ![p] = "sending"], [grant EXCEPT ![p] = "none"]}
            /\ db' = db \/ db' = [db EXCEPT ![p] = @ + 1]
        BY <2>4 DEF GrantTurn
      <4>2. db' \in Owned
        <5>1. p \in Payers
          BY RewardAssumption
        <5>2. db \in Owned /\ [db EXCEPT ![p] = @ + 1] \in Owned
          BY <1>0, <5>1 DEF PieceType, Owned
        <5> QED
          BY <4>1, <5>2
      <4> QED
        BY <1>0, <1>1, <4>1, <4>2 DEF PieceType
    <3> QED
      BY <1>0, <2>4, <3>1 DEF GrantTurn, slotVars, worldVars, PieceType
  <2> QED
    BY <1>3, <2>3, <2>4 DEF Grant
<1>4. ASSUME NEW s \in Savers, Save(s) PROVE PieceType'
  <2>1. Append(turn, SaveTask(s)) \in Seq(Users)
    BY <1>1 DEF Users
  <2>2. NoSave \in SaverType /\ saver[s] \in SaverType
    BY <1>0 DEF NoSave, Nothing, SaverType, Owned, PieceType
  <2>3. CASE SaverJoins(s)
    BY <1>0, <2>1, <2>3 DEF SaverJoins, slotVars, worldVars, PieceType, SaverType
  <2>4. CASE SaverWrites(s)
    BY <1>0, <1>1, <2>2, <2>4 DEF SaverWrites, worldVars, PieceType, SaverType
  <2>5. CASE SaverFails(s)
    <3>0. [saver[s] EXCEPT !.at = "spawned"] \in SaverType
      BY <2>2 DEF SaverType
    <3>1. saver' \in [Savers -> SaverType] /\ lost' \in BOOLEAN
      BY <1>0, <2>2, <2>5, <3>0 DEF SaverFails, PieceType
    <3>2. turn' \in Seq(Users)
      BY <1>1, <2>5 DEF SaverFails
    <3> QED
      BY <1>0, <2>5, <3>1, <3>2 DEF SaverFails, slotVars, worldVars, PieceType
  <2> QED
    BY <1>4, <2>3, <2>4, <2>5 DEF Save
<1>5. CASE TickDrain \/ BackgroundSave \/ Retire \/ ShutdownSave
  <2>1. DrainQueue
    BY <1>5 DEF TickDrain, BackgroundSave, Retire, ShutdownSave
  <2>2. /\ queue' = <<>> /\ others' = 0
        /\ grant' \in [ItemPayers -> {"none", "spawned", "queued", "sending"}]
    BY <2>1, Drained
  <2>3. With(queue) \in Owned
    BY <1>0, WithOwned DEF PieceType
  <2>4. /\ SavesAfterDrain.save \in SaverType
        /\ SavesAfterDrain.gen \in Nat
    BY <1>0, SavesFollow DEF AfterDrain, Snapshot, SaverType, PieceType, Savers
  <2>5. \A gen \in Nat, pack \in Owned :
           /\ Snapshot(gen, pack) \in SaverType
           /\ [Snapshot(gen, pack) EXCEPT !.at = "queued"] \in SaverType
    BY DEF Snapshot, SaverType
  <2>6. CASE TickDrain
    BY <1>0, <2>2, <2>3, <2>4, <2>6 DEF TickDrain, LiveAfterDrain, PieceType, Savers
  <2>7. CASE BackgroundSave
    <3>1. saver' \in [Savers -> SaverType]
      BY <1>0, <2>3, <2>5, <2>7 DEF BackgroundSave, PieceType, Savers
    <3> QED
      BY <1>0, <2>2, <2>3, <2>7, <3>1 DEF BackgroundSave, PieceType
  <2>8. CASE Retire
    <3>1. <<SaveTask("final")>> \in Seq(Users) /\ Nothing \in Owned
      BY DEF Users, Savers, Nothing, Owned
    <3>2. saver' \in [Savers -> SaverType] /\ nextGen' \in Nat
      BY <1>0, <2>3, <2>4, <2>5, <2>8 DEF Retire, PieceType, Savers
    <3>3. /\ turn' \in Seq(Users) /\ present' \in BOOLEAN /\ world' \in Owned
          /\ UNCHANGED <<main, payer, permits, lastCommitted, live, closing, session,
                         scene, db, paid, lost, dropped>>
      BY <2>8, <3>1 DEF Retire
    <3> QED
      BY <1>0, <2>2, <3>2, <3>3 DEF PieceType
  <2>9. CASE ShutdownSave
    <3> DEFINE a == SavesAfterDrain
    <3>0. a.save \in SaverType /\ a.gen \in Nat /\ Snapshot(a.gen, With(queue)) \in SaverType
      BY <2>3, <2>4, <2>5
    <3>1. saver' \in [Savers -> SaverType] /\ nextGen' \in Nat
      <4>1. /\ nextGen' = a.gen + 1
            /\ \/ saver' = [saver EXCEPT !["background"] = a.save]
               \/ saver' = [saver EXCEPT !["background"] = a.save,
                                         !["final"] = Snapshot(a.gen, With(queue))]
        BY <2>9 DEF ShutdownSave
      <4> HIDE DEF a
      <4> QED
        BY <1>0, <3>0, <4>1 DEF PieceType, Savers
    <3>2. db' \in Owned /\ lastCommitted' \in Nat /\ turn' \in Seq(Users)
      BY <1>0, <1>1, <2>3, <2>4, <2>9 DEF ShutdownSave, PieceType
    <3> QED
      BY <1>0, <2>2, <2>3, <2>9, <3>1, <3>2 DEF ShutdownSave, PieceType
  <2> QED
    BY <1>5, <2>6, <2>7, <2>8, <2>9
<1>6. CASE LoginLoads
  <2>1. /\ queue' = <<>> /\ others' = 0
        /\ grant' \in [ItemPayers -> {"none", "spawned", "queued", "sending"}]
    BY <1>6, Drained DEF LoginLoads
  <2> QED
    BY <1>0, <1>1, <1>6, <2>1 DEF LoginLoads, PieceType
<1>7. CASE LoginBegins \/ Shutdown \/ Flushed
  <2>1. Append(turn, World) \in Seq(Users)
    BY <1>1 DEF Users
  <2> QED
    BY <1>0, <1>7, <2>1 DEF LoginBegins, Shutdown, Flushed, Unsettled, taskVars, slotVars, worldVars, PieceType
<1>8. CASE OtherSend
  BY <1>0, <1>8 DEF OtherSend, taskVars, slotVars, worldVars, PieceType
<1>9. CASE UNCHANGED vars
  BY <1>0, <1>9 DEF vars, taskVars, slotVars, worldVars, PieceType
<1> QED
  BY <1>2, <1>3, <1>4, <1>5, <1>6, <1>7, <1>8, <1>9 DEF Next, MainResumes

LEMMA TypesKept == ASSUME TypeOK, [Next]_vars PROVE TypeOK'
BY CapacityKept, PiecesKept, Parts DEF TypeOK, PieceType, Capacity, Users, SaverType

-----------------------------------------------------------------------------
(* Paid once.                                                              *)

\* Where n copies of p's reward are kept, a copy of an item is not also on its way.
Once(p, n) == n <= 1 /\ (p \in ItemPayers => n + OnTheWay(p) <= 1)

\* PaidOnce with what makes it inductive: a payer that has not delivered has
\* left nothing in the world, and nothing in the rows but gold while it holds the
\* turn, so no login reads that gold and finds it in the queue afterwards.
Accounted(p) ==
    /\ world[p] + OnTheWay(p) <= 1
    /\ Once(p, db[p]) /\ \A s \in Savers : Once(p, saver[s].pack[p])
    /\ payer[p] # "done" =>
          /\ OnTheWay(p) = 0 /\ world[p] = 0 /\ \A s \in Savers : saver[s].pack[p] = 0
          /\ db[p] # 0 => p \notin ItemPayers /\ payer[p] = "paid"
    /\ payer[p] = "paid" => HasTurn(PayTask(p))

PaidInv ==
    /\ TypeOK /\ (main = "saving" => present)
    /\ \A p \in Payers : Accounted(p)

LEMMA StillHolds ==
    ASSUME turn \in Seq(Users), NEW x, HasTurn(x)
    PROVE  /\ \A y \in Users : turn' = Append(turn, y) => HasTurn(x)'
           /\ turn' = turn => HasTurn(x)'
           /\ \A y : HasTurn(y) => y = x
BY DEF HasTurn

\* A payer's own steps up to the delivery.
LEMMA WorkPaid ==
    ASSUME PaidInv, NEW q \in Payers,
           \/ Start(q) \/ Reserve(q) \/ WaitForRoom(q) \/ RoomFound(q) \/ Pay(q) \/ PayFails(q)
    PROVE  \A p \in Payers : Accounted(p)'
<1> SUFFICES ASSUME NEW p \in Payers PROVE Accounted(p)'
  OBVIOUS
<1>0. /\ PieceType /\ Accounted(p) /\ Accounted(q) /\ PayTask(q) \in Users
      /\ turn \in Seq(Users) /\ payer \in [Payers -> {"none", "queued", "room", "back", "ready", "paid", "done"}]
      /\ db \in Owned
  BY Parts DEF PaidInv, PieceType, Users
<1>1. /\ UNCHANGED <<queue, grant, saver, world>>
      /\ OnTheWay(p)' = OnTheWay(p)
  BY DEF Start, Reserve, WaitForRoom, RoomFound, Pay, PayFails, worldVars, OnTheWay
<1>2. OnTheWay(p) \in Nat /\ world[p] \in Nat /\ db[p] \in Nat
      /\ \A s \in Savers : saver[s].pack[p] \in Nat
  BY Counts DEF PaidInv
<1>3. CASE p # q
  <2>1. payer'[p] = payer[p] /\ db'[p] = db[p]
    BY <1>0, <1>3 DEF Start, Reserve, WaitForRoom, RoomFound, Pay, PayFails, Owned
  <2>2. payer[p] = "paid" => HasTurn(PayTask(p))'
    <3>1. SUFFICES ASSUME payer[p] = "paid" PROVE HasTurn(PayTask(p))'
      OBVIOUS
    <3>2. HasTurn(PayTask(p)) /\ ~HasTurn(PayTask(q))
      BY <1>0, <1>3, <3>1, StillHolds, UsersDiffer DEF Accounted
    <3>3. turn' = turn \/ turn' = Append(turn, PayTask(q))
      BY <3>2 DEF Start, Reserve, WaitForRoom, RoomFound, Pay, PayFails
    <3> QED
      BY <1>0, <3>2, <3>3, StillHolds
  <2> QED
    BY <1>0, <1>1, <1>2, <2>1, <2>2 DEF Accounted, Once
<1>4. CASE p = q /\ Pay(q)
  <2>1. payer'[p] = "paid" /\ payer[p] # "done" /\ payer[p] # "paid" /\ HasTurn(PayTask(p))'
        /\ db'[p] = IF p \in ItemPayers THEN db[p] ELSE db[p] + 1
    BY <1>0, <1>4, StillHolds DEF Pay, Owned
  <2> QED
    BY <1>0, <1>1, <1>2, <2>1 DEF Accounted, Once
<1>5. CASE p = q /\ ~Pay(q)
  <2>1. /\ db' = db /\ payer[p] \notin {"done", "paid"}
        /\ payer'[p] = "paid" => turn' = turn /\ HasTurn(PayTask(p))
    BY <1>0, <1>5 DEF Start, Reserve, WaitForRoom, RoomFound, PayFails, worldVars
  <2> QED
    BY <1>0, <1>1, <1>2, <2>1, StillHolds DEF Accounted, Once
<1> QED
  BY <1>3, <1>4, <1>5

LEMMA DeliverPaid ==
    ASSUME PaidInv, NEW q \in Payers, Deliver(q)
    PROVE  \A p \in Payers : Accounted(p)'
<1> SUFFICES ASSUME NEW p \in Payers PROVE Accounted(p)'
  OBVIOUS
<1>0. /\ PieceType /\ Accounted(p) /\ turn \in Seq(Users) /\ queue \in Seq(Payers)
      /\ payer \in [Payers -> {"none", "queued", "room", "back", "ready", "paid", "done"}]
  BY Parts DEF PaidInv, PieceType
<1>1. UNCHANGED <<grant, saver, world, db>>
  BY DEF Deliver, worldVars
<1>2. OnTheWay(p) \in Nat /\ world[p] \in Nat /\ db[p] \in Nat
      /\ \A s \in Savers : saver[s].pack[p] \in Nat
  BY Counts DEF PaidInv
<1>3. Of(p, queue) \in Nat
      /\ Of(p, Append(queue, q)) = Of(p, queue) + (IF q = p THEN 1 ELSE 0)
  BY <1>0, OfAppend, PlacesFinite
<1>4. OnTheWay(p)' \in {OnTheWay(p), OnTheWay(p) + (IF q = p THEN 1 ELSE 0)}
  BY <1>0, <1>1, <1>3 DEF Deliver, OnTheWay, PieceType
<1>5. payer[q] = "paid" /\ payer' = [payer EXCEPT ![q] = "done"] /\ HasTurn(PayTask(q))
  BY DEF Deliver
<1>6. CASE p # q
  <2>1. payer[p] # "paid" /\ payer'[p] = payer[p]
    BY <1>0, <1>5, <1>6, StillHolds, UsersDiffer DEF Accounted
  <2> QED
    BY <1>0, <1>1, <1>2, <1>4, <1>6, <2>1 DEF Accounted, Once
<1>7. CASE p = q
  <2>1. /\ OnTheWay(p)' \in {0, 1} /\ payer'[p] = "done" /\ world'[p] = 0
        /\ \A s \in Savers : saver'[s].pack[p] = 0
        /\ db'[p] <= 1 /\ (p \in ItemPayers => db'[p] = 0)
    BY <1>0, <1>1, <1>2, <1>4, <1>5, <1>7 DEF Accounted, Once
  <2> QED
    BY <2>1 DEF Accounted, Once
<1> QED
  BY <1>6, <1>7

\* An item that comes to an absent character.
LEMMA GrantPaid ==
    ASSUME PaidInv, NEW q \in ItemPayers, Grant(q)
    PROVE  \A p \in Payers : Accounted(p)'
<1> SUFFICES ASSUME NEW p \in Payers PROVE Accounted(p)'
  OBVIOUS
<1>0. /\ PieceType /\ Accounted(p) /\ turn \in Seq(Users) /\ queue \in Seq(Payers) /\ q \in Payers
      /\ grant \in [ItemPayers -> {"none", "spawned", "queued", "sending"}]
      /\ GrantTask(q) \in Users /\ db \in Owned
  BY Parts, RewardAssumption DEF PaidInv, PieceType, Users
<1>1. UNCHANGED <<payer, saver, world>>
  BY DEF Grant, GrantJoins, GrantTurn, GrantSends, worldVars
<1>2. OnTheWay(p) \in Nat /\ world[p] \in Nat /\ db[p] \in Nat /\ Of(p, queue) \in Nat
      /\ \A s \in Savers : saver[s].pack[p] \in Nat
  BY Counts DEF PaidInv
<1>3. Of(p, Append(queue, q)) = Of(p, queue) + (IF q = p THEN 1 ELSE 0)
  BY <1>0, OfAppend
<1>4. payer[p] = "paid" => HasTurn(PayTask(p))'
  BY <1>0, StillHolds, UsersDiffer DEF Accounted, Grant, GrantJoins, GrantTurn, GrantSends
<1>5. \/ OnTheWay(p)' = OnTheWay(p) /\ db'[p] = db[p]
      \/ /\ p \in ItemPayers /\ OnTheWay(p) >= 1 /\ OnTheWay(p)' = OnTheWay(p) - 1
         /\ db'[p] \in {db[p], db[p] + 1}
  <2>1. CASE GrantJoins(q)
    BY <1>0, <1>2, <2>1 DEF GrantJoins, OnTheWay
  <2>3. CASE GrantSends(q)
    <3>1. /\ grant[q] = "sending" /\ grant' = [grant EXCEPT ![q] = "none"] /\ db' = db
          /\ \/ Of(p, queue)' = Of(p, queue) + (IF q = p THEN 1 ELSE 0)
             \/ queue' = queue
      BY <1>3, <2>3 DEF GrantSends
    <3> QED
      BY <1>0, <1>2, <3>1 DEF OnTheWay
  <2>2. CASE GrantTurn(q)
    <3>1. /\ grant[q] # "none" /\ queue' = queue /\ \A r \in ItemPayers : r # q => grant'[r] = grant[r]
          /\ \/ grant'[q] # "none" /\ db' = db
             \/ grant'[q] = "none" /\ db' \in {db, [db EXCEPT ![q] = @ + 1]}
      BY <1>0, <2>2 DEF GrantTurn
    <3>2. db'[p] = db[p] \/ (p = q /\ grant'[q] = "none" /\ db'[p] = db[p] + 1)
      BY <1>0, <3>1 DEF Owned
    <3>3. p = q => OnTheWay(p)' = OnTheWay(p) - (IF grant'[q] = "none" THEN 1 ELSE 0)
      BY <1>0, <1>2, <3>1 DEF OnTheWay
    <3>4. p # q => OnTheWay(p)' = OnTheWay(p)
      BY <3>1 DEF OnTheWay
    <3>5. p = q => OnTheWay(p) >= 1
      BY <1>0, <1>2, <3>1 DEF OnTheWay
    <3> QED
      BY <1>0, <1>2, <3>1, <3>2, <3>3, <3>4, <3>5
  <2> QED
    BY <2>1, <2>2, <2>3 DEF Grant
<1>6. CASE OnTheWay(p)' = OnTheWay(p) /\ db'[p] = db[p]
  BY <1>0, <1>1, <1>4, <1>6 DEF Accounted, Once
<1>7. CASE /\ p \in ItemPayers /\ OnTheWay(p) >= 1 /\ OnTheWay(p)' = OnTheWay(p) - 1
           /\ db'[p] \in {db[p], db[p] + 1}
  <2>1. payer[p] = "done" /\ db[p] = 0 /\ OnTheWay(p) = 1 /\ world[p] = 0
        /\ \A s \in Savers : saver[s].pack[p] = 0
    BY <1>0, <1>2, <1>7 DEF Accounted, Once
  <2> QED
    BY <1>1, <1>7, <2>1 DEF Accounted, Once
<1> QED
  BY <1>5, <1>6, <1>7

LEMMA SavePaid ==
    ASSUME PaidInv, NEW t \in Savers, Save(t)
    PROVE  \A p \in Payers : Accounted(p)'
<1> SUFFICES ASSUME NEW p \in Payers PROVE Accounted(p)'
  OBVIOUS
<1>0. /\ PieceType /\ Accounted(p) /\ turn \in Seq(Users) /\ saver \in [Savers -> SaverType]
      /\ SaveTask(t) \in Users
  BY Parts DEF PaidInv, PieceType, Users
<1>1. UNCHANGED <<payer, queue, grant, world>> /\ OnTheWay(p)' = OnTheWay(p)
  BY DEF Save, SaverJoins, SaverWrites, SaverFails, worldVars, OnTheWay
<1>2. OnTheWay(p) \in Nat /\ world[p] \in Nat /\ db[p] \in Nat
      /\ \A s \in Savers : saver[s].pack[p] \in Nat
  BY Counts DEF PaidInv
<1>3. payer[p] = "paid" => HasTurn(PayTask(p))'
  BY <1>0, StillHolds, UsersDiffer DEF Accounted, Save, SaverJoins, SaverWrites, SaverFails
<1>4. NoSave.pack[p] = 0
  BY DEF NoSave, Nothing
<1>5. \A s \in Savers : saver'[s].pack[p] \in {0, saver[s].pack[p]}
  BY <1>0, <1>4 DEF Save, SaverJoins, SaverWrites, SaverFails, SaverType
<1>6. db'[p] \in {db[p], saver[t].pack[p]}
  BY DEF Save, SaverJoins, SaverWrites, SaverFails
<1>7. HasTurn(SaveTask(t)) => payer[p] # "paid"
  BY <1>0, StillHolds, UsersDiffer DEF Accounted
<1>8. payer[p] # "done" => db'[p] = db[p] \/ db'[p] = 0
  BY <1>0, <1>6 DEF Accounted
<1> QED
  BY <1>0, <1>1, <1>2, <1>3, <1>5, <1>6, <1>8 DEF Accounted, Once

\* The queue is drained: into the entity, and from it into saves; or, with
\* nobody there, away or to the grants.
DrainedInto(p) ==
    /\ payer' = payer /\ (payer[p] = "paid" => HasTurn(PayTask(p))')
    /\ OnTheWay(p)' <= OnTheWay(p) - (IF present THEN Of(p, queue) ELSE 0)
    /\ world'[p] \in {0, world[p]} \cup (IF present THEN {world[p] + Of(p, queue)} ELSE {})
    /\ db'[p] \in {db[p], world'[p]}
    /\ \A s \in Savers :
          \/ saver'[s].pack[p] = saver[s].pack[p]
          \/ present /\ saver'[s].pack[p] \in world[p] .. (world[p] + Of(p, queue))

LEMMA DrainPaid ==
    ASSUME PaidInv, TypeOK', NEW p \in Payers, DrainedInto(p)
    PROVE  Accounted(p)'
<1>1. OnTheWay(p) \in Nat /\ world[p] \in Nat /\ db[p] \in Nat /\ Of(p, queue) \in Nat
      /\ OnTheWay(p) >= Of(p, queue) /\ \A s \in Savers : saver[s].pack[p] \in Nat
  BY Counts DEF PaidInv
<1>2. OnTheWay(p)' \in Nat
  <2>1. Of(p, queue') \in Nat
    BY PlacesFinite DEF TypeOK
  <2> QED
    BY <2>1 DEF OnTheWay
<1>3. Accounted(p)
  BY DEF PaidInv
<1>4. world'[p] + OnTheWay(p)' <= 1
  BY <1>1, <1>2, <1>3 DEF Accounted, DrainedInto
<1>5. Once(p, db[p])'
  BY <1>1, <1>2, <1>3, <1>4 DEF Accounted, DrainedInto, Once
<1>6. ASSUME NEW s \in Savers PROVE Once(p, saver[s].pack[p])'
  BY <1>1, <1>2, <1>3 DEF Accounted, DrainedInto, Once
<1>7. ASSUME payer'[p] # "done"
      PROVE  /\ OnTheWay(p)' = 0 /\ world'[p] = 0 /\ \A s \in Savers : saver'[s].pack[p] = 0
             /\ db'[p] # 0 => p \notin ItemPayers /\ payer'[p] = "paid"
  <2>1. /\ OnTheWay(p) = 0 /\ world[p] = 0 /\ \A s \in Savers : saver[s].pack[p] = 0
        /\ Of(p, queue) = 0
        /\ db[p] # 0 => p \notin ItemPayers /\ payer[p] = "paid"
    BY <1>1, <1>3, <1>7 DEF Accounted, DrainedInto
  <2> QED
    BY <1>2, <1>7, <2>1 DEF DrainedInto
<1> QED
  BY <1>4, <1>5, <1>6, <1>7 DEF Accounted, DrainedInto

LEMMA WorldDrains ==
    ASSUME PaidInv, TickDrain \/ BackgroundSave \/ Retire \/ ShutdownSave, NEW p \in Payers
    PROVE  DrainedInto(p)
<1>0. /\ PieceType /\ Accounted(p) /\ turn \in Seq(Users) /\ saver \in [Savers -> SaverType] /\ DrainQueue
      /\ Savers = {"background", "final"} /\ (main = "saving" => present) /\ payer' = payer
  BY Parts DEF PaidInv, PieceType, Savers, TickDrain, BackgroundSave, Retire, ShutdownSave
<1>1. payer[p] = "paid" => HasTurn(PayTask(p))'
  <2>1. HasTurn(PayTask(p)) => turn # <<>> /\ ~HasTurn(World)
    BY <1>0, StillHolds, UsersDiffer DEF HasTurn
  <2>2. payer[p] = "paid" => turn' = turn
    BY <1>0, <2>1 DEF Accounted, TickDrain, BackgroundSave, Retire, ShutdownSave, TurnFree
  <2> QED
    BY <1>0, <2>2, StillHolds DEF Accounted
<1>2. OnTheWay(p) \in Nat /\ world[p] \in Nat /\ db[p] \in Nat /\ Of(p, queue) \in Nat
      /\ OnTheWay(p)' <= OnTheWay(p) /\ (present => OnTheWay(p)' = OnTheWay(p) - Of(p, queue))
  BY <1>0, Counts, Drained DEF PaidInv
<1>3. With(queue)[p] = world[p] + Of(p, queue) /\ Nothing[p] = 0
  BY DEF With, Nothing
<1>4. world'[p] \in {0, world[p]} \cup (IF present THEN {world[p] + Of(p, queue)} ELSE {})
  BY <1>0, <1>3 DEF TickDrain, BackgroundSave, Retire, ShutdownSave
<1>5. db'[p] \in {db[p], world'[p]}
  BY DEF TickDrain, BackgroundSave, Retire, ShutdownSave
<1>6. \/ SavesAfterDrain.save = saver["background"]
      \/ present /\ SavesAfterDrain.save.pack[p] \in world[p] .. (world[p] + Of(p, queue))
  BY SavesFollow DEF PaidInv, AfterDrain, PartOf, Snapshot
<1>7. \A gen : /\ Snapshot(gen, With(queue)).pack = With(queue)
               /\ [Snapshot(gen, With(queue)) EXCEPT !.at = "queued"].pack = With(queue)
  BY DEF Snapshot
<1>8. ASSUME NEW s \in Savers
      PROVE  \/ saver'[s].pack[p] = saver[s].pack[p]
             \/ present /\ saver'[s].pack[p] \in world[p] .. (world[p] + Of(p, queue))
  <2>1. CASE TickDrain
    BY <1>0, <1>6, <2>1 DEF TickDrain
  <2>2. CASE BackgroundSave
    BY <1>0, <1>2, <1>3, <1>7, <2>2 DEF BackgroundSave
  <2>3. CASE Retire
    <3>1. saver'["background"] = SavesAfterDrain.save /\ saver'["final"].pack = With(queue) /\ present
      BY <1>0, <1>7, <2>3 DEF Retire
    <3> QED
      BY <1>0, <1>2, <1>3, <1>6, <3>1
  <2>4. CASE ShutdownSave
    <3>1. /\ saver'["background"] = SavesAfterDrain.save
          /\ saver'["final"].pack = With(queue) \/ saver'["final"] = saver["final"]
          /\ present
      BY <1>0, <1>7, <2>4 DEF ShutdownSave
    <3> QED
      BY <1>0, <1>2, <1>3, <1>6, <3>1
  <2> QED
    BY <2>1, <2>2, <2>3, <2>4
<1> QED
  BY <1>0, <1>1, <1>2, <1>4, <1>5, <1>8 DEF DrainedInto

LEMMA WorldPaid ==
    ASSUME PaidInv, TypeOK', TickDrain \/ BackgroundSave \/ Retire \/ ShutdownSave
    PROVE  \A p \in Payers : Accounted(p)'
BY WorldDrains, DrainPaid

\* A login finds gold in the row alone, and an item in the row or on its way.
LEMMA LoginPaid == ASSUME PaidInv, LoginLoads PROVE \A p \in Payers : Accounted(p)'
<1> SUFFICES ASSUME NEW p \in Payers PROVE Accounted(p)'
  OBVIOUS
<1>0. /\ PieceType /\ Accounted(p) /\ turn \in Seq(Users) /\ DrainQueue
      /\ UNCHANGED <<payer, saver, db>> /\ world' = db /\ HasTurn(World)
  BY Parts DEF PaidInv, PieceType, LoginLoads
<1>1. OnTheWay(p) \in Nat /\ world[p] \in Nat /\ db[p] \in Nat
      /\ OnTheWay(p)' <= OnTheWay(p) /\ Of(p, queue)' = 0
      /\ \A s \in Savers : saver[s].pack[p] \in Nat
      /\ grant' \in [ItemPayers -> {"none", "spawned", "queued", "sending"}]
  BY <1>0, Counts, Drained DEF PaidInv
<1>2. payer[p] # "paid"
  BY <1>0, StillHolds, UsersDiffer DEF Accounted
<1>3. OnTheWay(p)' \in Nat /\ (p \notin ItemPayers => OnTheWay(p)' = 0)
  BY <1>1 DEF OnTheWay
<1>4. world'[p] + OnTheWay(p)' <= 1
  BY <1>0, <1>1, <1>3 DEF Accounted, Once
<1> QED
  BY <1>0, <1>1, <1>2, <1>3, <1>4 DEF Accounted, Once

LEMMA OthersPaid ==
    ASSUME PaidInv, LoginBegins \/ Shutdown \/ Flushed \/ OtherSend \/ UNCHANGED vars
    PROVE  \A p \in Payers : Accounted(p)'
<1> SUFFICES ASSUME NEW p \in Payers PROVE Accounted(p)'
  OBVIOUS
<1>0. /\ Accounted(p) /\ turn \in Seq(Users) /\ World \in Users
  BY Parts DEF PaidInv, PieceType, Users
<1>1. /\ UNCHANGED <<payer, saver, db, world, queue, grant>>
      /\ turn' = turn \/ turn' = Append(turn, World)
  BY DEF LoginBegins, Shutdown, Flushed, OtherSend, vars, taskVars, worldVars
<1>2. payer[p] = "paid" => HasTurn(PayTask(p))'
  BY <1>0, <1>1, StillHolds DEF Accounted
<1> QED
  BY <1>0, <1>1, <1>2 DEF Accounted, Once, OnTheWay

LEMMA PaidStep == ASSUME PaidInv, [Next]_vars PROVE PaidInv'
<1>1. TypeOK'
  BY TypesKept DEF PaidInv
<1>2. \A p \in Payers : Accounted(p)'
  BY <1>1, WorkPaid, DeliverPaid, GrantPaid, SavePaid, WorldPaid, LoginPaid, OthersPaid
     DEF Next, Task, MainResumes
<1>3. main' = "saving" => present'
  BY DEF PaidInv, Next, TickDrain, BackgroundSave, LoginBegins, Retire, Shutdown, Flushed, OtherSend,
         MainResumes, LoginLoads, ShutdownSave, Start, Task, Reserve, WaitForRoom, RoomFound, Pay,
         PayFails, Deliver, Grant, GrantJoins, GrantTurn, GrantSends, Save, SaverJoins, SaverWrites,
         SaverFails, worldVars, vars, Idle
<1> QED
  BY <1>1, <1>2, <1>3 DEF PaidInv

LEMMA PaidInit == Init => PaidInv
<1> SUFFICES ASSUME Init PROVE PaidInv
  OBVIOUS
<1>1. Nothing \in Owned /\ NoSave \in SaverType /\ \A p \in Payers : Nothing[p] = 0 /\ NoSave.pack[p] = 0
  BY DEF Nothing, NoSave, Owned, SaverType
<1>2. PieceType
  <2>1. turn \in Seq(Users) /\ queue \in Seq(Payers)
    BY DEF Init
  <2>2. saver \in [Savers -> SaverType] /\ world \in Owned /\ db \in Owned
    BY <1>1 DEF Init
  <2> QED
    BY <2>1, <2>2 DEF Init, PieceType
<1>3. Capacity
  <2>1. Cardinality(permits) = 0 /\ Len(queue) = 0 /\ scene.cap \in Nat
    BY FS_EmptySet, RewardAssumption DEF Init
  <2> QED
    BY <2>1 DEF Init, Capacity
<1>4. ASSUME NEW p \in Payers PROVE Accounted(p)
  <2>1. OnTheWay(p) = 0
    BY OfEmpty DEF Init, OnTheWay
  <2> QED
    BY <1>1, <2>1 DEF Init, Accounted, Once
<1> QED
  BY <1>2, <1>3, <1>4, Parts DEF Init, PaidInv

LEMMA PaidInvariant == Spec => []PaidInv
BY PaidInit, PaidStep, PTL DEF Spec

\* Dropped.  An item whose loss was logged is nowhere: it can be restored by hand
\* without making two of it.
Gone(p) ==
    OnTheWay(p) = 0 /\ world[p] = 0 /\ db[p] = 0 /\ \A s \in Savers : saver[s].pack[p] = 0
DroppedGone == \A p \in dropped : payer[p] = "done" /\ Gone(p)

LEMMA GoneStays ==
    ASSUME PaidInv, [Next]_vars, NEW p \in ItemPayers, payer[p] = "done", Gone(p)
    PROVE  payer'[p] = "done" /\ Gone(p)'
<1>0. /\ PieceType /\ p \in Payers /\ queue \in Seq(Payers) /\ Of(p, queue) = 0 /\ grant[p] = "none"
      /\ payer \in [Payers -> {"none", "queued", "room", "back", "ready", "paid", "done"}]
      /\ db \in Owned /\ saver \in [Savers -> SaverType]
      /\ grant \in [ItemPayers -> {"none", "spawned", "queued", "sending"}]
  <2>1. PieceType /\ p \in Payers
    BY Parts, RewardAssumption DEF PaidInv
  <2>2. Of(p, queue) \in Nat
    BY <2>1, Counts DEF PaidInv
  <2>3. Of(p, queue) = 0 /\ grant[p] = "none"
    BY <2>2 DEF Gone, OnTheWay
  <2> QED
    BY <2>1, <2>3 DEF PieceType
<1>1. \A q \in Payers : q # p => Of(p, Append(queue, q)) = 0
  BY <1>0, OfAppend
<1>2. ASSUME NEW q \in Payers, Start(q) \/ Task(q) PROVE payer'[p] = "done" /\ Gone(p)'
  <2>1. q # p
    BY <1>2 DEF Start, Task, Reserve, WaitForRoom, RoomFound, Pay, PayFails, Deliver
  <2>2. /\ payer'[p] = payer[p] /\ UNCHANGED <<world, grant, saver>>
        /\ db' = db \/ db' = [db EXCEPT ![q] = @ + 1]
        /\ queue' = queue \/ queue' = Append(queue, q)
    BY <1>0, <1>2, <2>1 DEF Start, Task, Reserve, WaitForRoom, RoomFound, Pay, PayFails, Deliver, worldVars
  <2>3. db'[p] = db[p]
    BY <1>0, <2>1, <2>2 DEF Owned
  <2>4. Of(p, queue)' = 0
    <3>1. Of(p, Append(queue, q)) = 0 /\ Of(p, queue) = 0
      BY <1>0, <1>1, <2>1
    <3>2. CASE queue' = queue
      BY <3>1, <3>2
    <3>3. CASE queue' = Append(queue, q)
      BY <3>1, <3>3, Zenon
    <3> QED
      BY <2>2, <3>2, <3>3
  <2> QED
    BY <1>0, <2>2, <2>3, <2>4 DEF Gone, OnTheWay
<1>3. ASSUME NEW q \in ItemPayers, Grant(q) PROVE payer'[p] = "done" /\ Gone(p)'
  <2>1. q # p /\ q \in Payers
    BY <1>0, <1>3, RewardAssumption DEF Grant, GrantJoins, GrantTurn, GrantSends
  <2>2. /\ UNCHANGED <<payer, world, saver>> /\ grant'[p] = grant[p]
        /\ db' = db \/ db' = [db EXCEPT ![q] = @ + 1]
        /\ queue' = queue \/ queue' = Append(queue, q)
    BY <1>0, <1>3, <2>1 DEF Grant, GrantJoins, GrantTurn, GrantSends, worldVars
  <2>3. db'[p] = db[p]
    BY <1>0, <2>1, <2>2 DEF Owned
  <2>4. Of(p, queue)' = 0
    <3>1. Of(p, Append(queue, q)) = 0 /\ Of(p, queue) = 0
      BY <1>0, <1>1, <2>1
    <3>2. CASE queue' = queue
      BY <3>1, <3>2
    <3>3. CASE queue' = Append(queue, q)
      BY <3>1, <3>3, Zenon
    <3> QED
      BY <2>2, <3>2, <3>3
  <2> QED
    BY <1>0, <2>2, <2>3, <2>4 DEF Gone, OnTheWay
<1>4. ASSUME NEW t \in Savers, Save(t) PROVE payer'[p] = "done" /\ Gone(p)'
  <2>1. NoSave.pack[p] = 0
    BY <1>0 DEF NoSave, Nothing
  <2>2. /\ UNCHANGED <<payer, queue, grant, world>> /\ db'[p] \in {db[p], saver[t].pack[p]}
        /\ \A s \in Savers : saver'[s].pack[p] \in {0, saver[s].pack[p]}
    <3>1. CASE SaverJoins(t)
      BY <1>0, <3>1 DEF SaverJoins, SaverType, worldVars
    <3>2. CASE SaverWrites(t)
      BY <1>0, <2>1, <3>2 DEF SaverWrites, worldVars
    <3>3. CASE SaverFails(t)
      <4>1. /\ UNCHANGED <<payer, queue, grant, world, db>>
            /\ saver' \in {[saver EXCEPT ![t] = NoSave], [saver EXCEPT ![t].at = "spawned"]}
        BY <3>3 DEF SaverFails, worldVars
      <4>2. ASSUME NEW s \in Savers PROVE saver'[s].pack[p] \in {0, saver[s].pack[p]}
        <5>1. CASE s # t
          BY <1>0, <4>1, <5>1
        <5>2. CASE s = t /\ saver' = [saver EXCEPT ![t] = NoSave]
          BY <1>0, <2>1, <5>2
        <5>3. CASE s = t /\ saver' = [saver EXCEPT ![t].at = "spawned"]
          <6>1. saver'[t] = [saver[t] EXCEPT !.at = "spawned"] /\ saver[t] \in SaverType
            BY <1>0, <5>3
          <6>2. saver'[t].pack = saver[t].pack
            BY <6>1 DEF SaverType
          <6> QED
            BY <5>3, <6>2
        <5> QED
          BY <4>1, <5>1, <5>2, <5>3
      <4> QED
        BY <4>1, <4>2
    <3> QED
      BY <1>4, <3>1, <3>2, <3>3 DEF Save
  <2> QED
    BY <2>2 DEF Gone, OnTheWay
<1>5. CASE TickDrain \/ BackgroundSave \/ Retire \/ ShutdownSave
  <2>1. DrainedInto(p)
    BY <1>0, <1>5, WorldDrains
  <2>2. OnTheWay(p)' \in Nat
    <3>1. DrainQueue
      BY <1>5 DEF TickDrain, BackgroundSave, Retire, ShutdownSave
    <3> QED
      BY <1>0, <3>1, Drained DEF PaidInv, OnTheWay
  <2>3. OnTheWay(p)' = 0 /\ payer' = payer
    BY <1>0, <2>1, <2>2 DEF DrainedInto, Gone
  <2>4. world'[p] = 0
    BY <1>0, <2>1 DEF DrainedInto, Gone
  <2>5. db'[p] = 0 /\ \A s \in Savers : saver'[s].pack[p] = 0
    BY <1>0, <2>1, <2>4 DEF DrainedInto, Gone
  <2> QED
    BY <2>3, <2>4, <2>5 DEF Gone
<1>6. CASE LoginLoads
  <2>1. UNCHANGED <<payer, saver, db>> /\ world' = db /\ DrainQueue
    BY <1>6 DEF LoginLoads
  <2>2. OnTheWay(p)' = 0
    BY <1>0, <2>1, Drained DEF DrainQueue, OnTheWay, PaidInv
  <2> QED
    BY <2>1, <2>2 DEF Gone
<1>7. CASE LoginBegins \/ Shutdown \/ Flushed \/ OtherSend \/ UNCHANGED vars
  <2>1. UNCHANGED <<payer, saver, db, world, queue, grant>>
    BY <1>7 DEF LoginBegins, Shutdown, Flushed, OtherSend, vars, taskVars, worldVars
  <2> QED
    BY <2>1 DEF Gone, OnTheWay
<1> QED
  BY <1>2, <1>3, <1>4, <1>5, <1>6, <1>7 DEF Next, MainResumes

LEMMA DroppedStep == ASSUME PaidInv, DroppedGone, [Next]_vars PROVE DroppedGone'
<1>1. ASSUME NEW p \in dropped' PROVE p \in dropped \/ (p \in ItemPayers /\ Grant(p) /\ p \in dropped')
  BY <1>1 DEF Next, TickDrain, BackgroundSave, LoginBegins, Retire, Shutdown, Flushed, OtherSend,
         MainResumes, LoginLoads, ShutdownSave, Start, Task, Reserve, WaitForRoom, RoomFound, Pay,
         PayFails, Deliver, Grant, GrantJoins, GrantTurn, GrantSends, Save, SaverJoins, SaverWrites,
         SaverFails, vars
<1>2. ASSUME NEW p \in dropped PROVE payer'[p] = "done" /\ Gone(p)'
  <2>1. p \in ItemPayers
    BY <1>2 DEF PaidInv, TypeOK
  <2> QED
    BY <1>2, <2>1, GoneStays DEF DroppedGone
<1>3. ASSUME NEW p \in ItemPayers, Grant(p), p \in dropped', p \notin dropped
      PROVE  payer'[p] = "done" /\ Gone(p)'
  <2>1. /\ p \in Payers /\ UNCHANGED <<payer, world, saver, db, queue>>
        /\ grant[p] # "none" /\ grant' = [grant EXCEPT ![p] = "none"]
        /\ grant \in [ItemPayers -> {"none", "spawned", "queued", "sending"}]
    BY <1>3, RewardAssumption DEF Grant, GrantJoins, GrantTurn, GrantSends, worldVars, PaidInv, TypeOK
  <2>2. /\ Accounted(p) /\ OnTheWay(p) = Of(p, queue) + 1 /\ OnTheWay(p)' = Of(p, queue)
        /\ Of(p, queue) \in Nat /\ world[p] \in Nat /\ db[p] \in Nat
        /\ \A s \in Savers : saver[s].pack[p] \in Nat
    BY <2>1, Counts DEF PaidInv, OnTheWay
  <2> QED
    BY <2>1, <2>2 DEF Accounted, Once, Gone
<1> QED
  BY <1>1, <1>2, <1>3 DEF DroppedGone

LEMMA DroppedInvariant == Spec => []DroppedGone
<1>1. Init => DroppedGone
  BY DEF Init, DroppedGone
<1> QED
  BY <1>1, DroppedStep, PaidInvariant, PTL DEF Spec

\* No reward reaches the character twice, whatever fails and whenever it logs in or
\* out, and the queue never exceeds its capacity (PaidOnce).
THEOREM RewardsPaidOnce == Spec => []PaidOnce
<1>1. PaidInv => PaidOnce
  <2>1. ASSUME PaidInv, NEW p \in Payers
        PROVE  /\ db[p] <= 1
               /\ world[p] + OnTheWay(p) <= 1
               /\ p \in ItemPayers => db[p] + OnTheWay(p) <= 1
    BY <2>1 DEF PaidInv, Accounted, Once
  <2> QED
    BY <2>1 DEF PaidInv, PaidOnce
<1> QED
  BY <1>1, PaidInvariant, PTL

-----------------------------------------------------------------------------
(* Kept.  The code can erase or lose a reward in four ways: a failed last   *)
(* save, or a shutdown, with items about; gold behind an item in the queue; *)
(* a payer that finds the queue full once the server is closing.  `Calm`    *)
(* says that none of them is met, and nothing else.                         *)

HasItems == scene.payers \cap ItemPayers # {}
Calm ==
    /\ HasItems => scene.features \cap {"savefail", "shutdown"} = {}
    /\ \A i, j \in DOMAIN queue : i < j /\ queue[i] \in ItemPayers => queue[j] \in ItemPayers
    /\ \A p \in Payers : closing /\ payer[p] = "paid" => p \in permits

Valid(s) == ~Free(s) /\ saver[s].gen > lastCommitted

Ordered ==
    /\ lastCommitted < nextGen /\ \A s \in Savers : saver[s].gen < nextGen
    /\ \A s \in Savers : Free(s) => saver[s] = NoSave

Involved ==
    /\ paid \subseteq scene.payers
    /\ \A p \in Payers :
         /\ payer[p] # "none" => p \in scene.payers
         /\ ~closing /\ payer[p] \in {"ready", "back", "paid"} => p \in permits
         /\ p \in paid => payer[p] \in {"paid", "done"}
    /\ main = "login" => ~present /\ \A s \in Savers : Free(s)
    /\ HasItems => main \in {"idle", "login"} /\ ~closing
    /\ present => live

\* What may still be written holds all that the rows hold, and later snapshots
\* hold more.  Between its payment and the delivery a payer's gold is in the rows
\* alone, but nobody else has the turn.
Fresh(p) ==
    payer[p] # "paid" =>
        /\ \A s \in Savers : Valid(s) => saver[s].pack[p] >= db[p]
        /\ present => world[p] + Of(p, queue) >= db[p]
Growing ==
    /\ \A s, t \in Savers : Valid(s) /\ Valid(t) /\ saver[s].gen < saver[t].gen =>
           \A p \in Payers : saver[s].pack[p] <= saver[t].pack[p]
    /\ present => \A p \in Payers, s \in Savers : saver[s].pack[p] <= world[p]
GoldKept == \A p \in paid \ ItemPayers : db[p] = 1

\* The last save of an absent character goes before any grant of an item to it.
LastFirst ==
    HasItems /\ ~present /\ (\E s \in Savers : Valid(s)) =>
        /\ Valid("final") /\ HasTurn(SaveTask("final")) /\ saver["final"].at = "queued"
        /\ Valid("background") => saver["background"].gen < saver["final"].gen

ItemKept(p) ==
    p \in paid \cap ItemPayers /\ payer[p] = "done" => ItemFound(p) \/ p \in dropped

Kept ==
    /\ Growing /\ GoldKept /\ LastFirst
    /\ \A p \in Payers : Fresh(p) /\ ItemKept(p)
KeptInv == PaidInv /\ Ordered /\ Involved /\ Kept

LEMMA OrderedStep == ASSUME PaidInv, Ordered, [Next]_vars PROVE Ordered'
<1>0. /\ PieceType /\ saver \in [Savers -> SaverType] /\ nextGen \in Nat /\ lastCommitted \in Nat
      /\ NoSave.gen = 0 /\ Savers = {"background", "final"}
      /\ NoSave.at = "free"
  BY Parts DEF PaidInv, PieceType, NoSave, Savers
<1>1. CASE UNCHANGED <<saver, nextGen, lastCommitted>>
  BY <1>1 DEF Ordered, Free
<1>2. ASSUME NEW p \in Payers, Deliver(p) PROVE Ordered'
  BY <1>0, <1>2 DEF Deliver, Ordered, Free, Newest, SaverType
<1>3. ASSUME NEW s \in Savers, Save(s) PROVE Ordered'
  <2>1. CASE SaverJoins(s)
    BY <1>0, <2>1 DEF SaverJoins, slotVars, Ordered, Free, SaverType
  <2>2. CASE SaverWrites(s)
    BY <1>0, <2>2 DEF SaverWrites, Ordered, Free, SaverType
  <2>3. CASE SaverFails(s)
    BY <1>0, <2>3 DEF SaverFails, slotVars, Ordered, Free, SaverType
  <2> QED
    BY <1>3, <2>1, <2>2, <2>3 DEF Save
<1>4. CASE TickDrain \/ BackgroundSave \/ Retire \/ ShutdownSave
  <2> DEFINE a == SavesAfterDrain
  <2>1. /\ a.gen \in Nat /\ a.gen >= nextGen /\ a.save.gen \in Nat /\ a.save.gen < a.gen
        /\ a.save.at = "free" => a.save = NoSave
    <3>1. CASE a = [save |-> saver["background"], gen |-> nextGen]
      BY <1>0, <3>1 DEF Ordered, Free, SaverType
    <3>2. ASSUME NEW pack, a = [save |-> Snapshot(nextGen, pack), gen |-> nextGen + 1]
          PROVE  /\ a.gen \in Nat /\ a.gen >= nextGen /\ a.save.gen \in Nat /\ a.save.gen < a.gen
                 /\ a.save.at # "free"
      BY <1>0, <3>2 DEF Snapshot
    <3> QED
      BY <3>1, <3>2, SavesFollow DEF PaidInv, AfterDrain
  <2>2. \A pack : \A gen \in Nat :
           /\ Snapshot(gen, pack).gen = gen /\ Snapshot(gen, pack).at # "free"
           /\ [Snapshot(gen, pack) EXCEPT !.at = "queued"].gen = gen
           /\ [Snapshot(gen, pack) EXCEPT !.at = "queued"].at # "free"
    BY DEF Snapshot
  <2> HIDE DEF a
  <2>3. CASE TickDrain
    <3>1. saver' = [saver EXCEPT !["background"] = a.save] /\ nextGen' = a.gen
          /\ lastCommitted' = lastCommitted
      BY <2>3 DEF TickDrain, a
    <3> QED
      BY <1>0, <2>1, <3>1 DEF Ordered, Free, SaverType
  <2>4. CASE BackgroundSave
    BY <1>0, <2>2, <2>4 DEF BackgroundSave, Ordered, Free, SaverType
  <2>5. CASE Retire
    <3>1. /\ nextGen' = a.gen + 1 /\ lastCommitted' = lastCommitted
          /\ saver' = [saver EXCEPT !["background"] = a.save,
                         !["final"] = [Snapshot(a.gen, With(queue)) EXCEPT !.at = "queued"]]
      BY <2>5 DEF Retire, a
    <3>2. saver'["background"] = a.save /\ saver'["final"].gen = a.gen /\ ~(saver'["final"].at = "free")
      BY <1>0, <2>1, <2>2, <3>1
    <3>3. lastCommitted' < nextGen' /\ a.save.gen < nextGen' /\ a.gen < nextGen'
      BY <1>0, <2>1, <3>1 DEF Ordered
    <3> QED
      BY <1>0, <2>1, <3>2, <3>3 DEF Ordered, Free
  <2>6. CASE ShutdownSave
    <3>1. /\ nextGen' = a.gen + 1 /\ lastCommitted' \in {lastCommitted, a.gen}
          /\ \/ saver' = [saver EXCEPT !["background"] = a.save]
             \/ saver' = [saver EXCEPT !["background"] = a.save,
                            !["final"] = Snapshot(a.gen, With(queue))]
      BY <2>6 DEF ShutdownSave, a
    <3>2. /\ saver'["background"] = a.save
          /\ \/ saver'["final"] = saver["final"]
             \/ saver'["final"].gen = a.gen /\ ~(saver'["final"].at = "free")
      BY <1>0, <2>1, <2>2, <3>1
    <3>3. /\ lastCommitted' < nextGen' /\ a.save.gen < nextGen' /\ a.gen < nextGen'
          /\ saver["final"].gen < nextGen'
      BY <1>0, <2>1, <3>1 DEF Ordered, SaverType
    <3>4. saver["final"].at = "free" => saver["final"] = NoSave
      BY <1>0 DEF Ordered, Free
    <3> QED
      BY <1>0, <2>1, <3>2, <3>3, <3>4 DEF Ordered, Free
  <2> QED
    BY <1>4, <2>3, <2>4, <2>5, <2>6
<1> QED
  BY <1>1, <1>2, <1>3, <1>4 DEF Next, vars, LoginBegins, Shutdown, Flushed, OtherSend, Start, Task,
     Reserve, WaitForRoom, RoomFound, Pay, PayFails, Grant, GrantJoins, GrantTurn, GrantSends,
     MainResumes, LoginLoads, taskVars, slotVars

LEMMA InvolvedStep == ASSUME PaidInv, Calm, Involved, [Next]_vars PROVE Involved'
<1>0. /\ PieceType /\ payer \in [Payers -> {"none", "queued", "room", "back", "ready", "paid", "done"}]
      /\ saver \in [Savers -> SaverType] /\ scene \in Scenes /\ permits \subseteq Payers
  BY Parts DEF PaidInv, PieceType
<1>1. scene' = scene
  BY DEF Next, TickDrain, BackgroundSave, LoginBegins, Retire, Shutdown, Flushed, OtherSend,
         MainResumes, LoginLoads, ShutdownSave, Start, Task, Reserve, WaitForRoom, RoomFound, Pay,
         PayFails, Deliver, Grant, GrantJoins, GrantTurn, GrantSends, Save, SaverJoins, SaverWrites,
         SaverFails, worldVars, vars
<1>2. /\ paid' \subseteq scene.payers
      /\ \A p \in Payers : /\ payer'[p] # "none" => p \in scene.payers
                           /\ ~closing' /\ payer'[p] \in {"ready", "back", "paid"} => p \in permits'
                           /\ p \in paid' => payer'[p] \in {"paid", "done"}
  <2>1. CASE UNCHANGED <<payer, permits, paid>> /\ (closing => closing')
    BY <2>1 DEF Involved
  <2>2. ASSUME NEW p \in Payers, Start(p) \/ Task(p)
        PROVE  /\ paid' \subseteq scene.payers
               /\ \A q \in Payers : /\ payer'[q] # "none" => q \in scene.payers
                                    /\ ~closing' /\ payer'[q] \in {"ready", "back", "paid"} => q \in permits'
                                    /\ q \in paid' => payer'[q] \in {"paid", "done"}
    BY <1>0, <2>2 DEF Involved, Start, Task, Reserve, WaitForRoom, RoomFound, Pay, PayFails, Deliver,
                      slotVars
  <2> QED
    BY <2>1, <2>2 DEF Next, TickDrain, BackgroundSave, LoginBegins, Retire, Shutdown, Flushed, OtherSend,
         MainResumes, LoginLoads, ShutdownSave, Grant, GrantJoins, GrantTurn, GrantSends, Save,
         SaverJoins, SaverWrites, SaverFails, taskVars, slotVars, vars
<1>3. HasItems => main' \in {"idle", "login"} /\ ~closing'
  <2>1. CASE UNCHANGED <<main, closing>>
    BY <2>1 DEF Involved
  <2>2. CASE LoginBegins \/ LoginLoads
    BY <2>2 DEF LoginBegins, LoginLoads, slotVars, Involved
  <2>3. CASE Shutdown \/ ShutdownSave \/ Flushed
    BY <2>3 DEF Shutdown, ShutdownSave, Flushed, Involved, Calm
  <2> QED
    BY <2>1, <2>2, <2>3 DEF Next, TickDrain, BackgroundSave, Retire, OtherSend,
         MainResumes, Start, Task, Reserve, WaitForRoom, RoomFound, Pay,
         PayFails, Deliver, Grant, GrantJoins, GrantTurn, GrantSends, Save, SaverJoins, SaverWrites,
         SaverFails, slotVars, vars
<1>5. present' => live'
  <2>1. CASE UNCHANGED <<present, live>>
    BY <2>1 DEF Involved
  <2>2. CASE TickDrain \/ LoginLoads \/ Retire
    BY <2>2 DEF TickDrain, LoginLoads, Retire, LiveAfterDrain, Involved
  <2> QED
    BY <2>1, <2>2 DEF Next, BackgroundSave, LoginBegins, Shutdown, Flushed, OtherSend,
         MainResumes, ShutdownSave, Start, Task, Reserve, WaitForRoom, RoomFound, Pay,
         PayFails, Deliver, Grant, GrantJoins, GrantTurn, GrantSends, Save, SaverJoins, SaverWrites,
         SaverFails, slotVars, worldVars, vars
<1>4. main' = "login" => ~present' /\ \A s \in Savers : Free(s)'
  <2>1. CASE main' = main /\ present' = present /\ saver' = saver
    BY <2>1 DEF Involved, Free
  <2>2. CASE main' # "login"
    BY <2>2
  <2>3. CASE LoginBegins
    BY <2>3 DEF LoginBegins, Unsettled, taskVars, worldVars, Free
  <2>4. ASSUME NEW s \in Savers, Save(s), main = "login" PROVE FALSE
    BY <2>4 DEF Involved, Save, SaverJoins, SaverWrites, SaverFails, Free
  <2>5. ASSUME NEW s \in Savers, Save(s) PROVE main' = main
    BY <2>5 DEF Save, SaverJoins, SaverWrites, SaverFails
  <2> QED
    BY <2>1, <2>2, <2>3, <2>4, <2>5 DEF Next, TickDrain, BackgroundSave, Retire, Shutdown, Flushed,
         OtherSend, MainResumes, LoginLoads, ShutdownSave, Start, Task, Reserve, WaitForRoom, RoomFound,
         Pay, PayFails, Deliver, Grant, GrantJoins, GrantTurn, GrantSends, Idle, taskVars, worldVars, vars
<1> QED
  BY <1>1, <1>2, <1>3, <1>4, <1>5 DEF Involved, HasItems

\* What the proofs that a step keeps `Kept` start from.
LEMMA KeptFacts ==
    ASSUME KeptInv
    PROVE  /\ turn \in Seq(Users) /\ queue \in Seq(Payers)
           /\ payer \in [Payers -> {"none", "queued", "room", "back", "ready", "paid", "done"}]
           /\ grant \in [ItemPayers -> {"none", "spawned", "queued", "sending"}]
           /\ saver \in [Savers -> SaverType] /\ world \in Owned /\ db \in Owned
           /\ nextGen \in Nat /\ lastCommitted \in Nat /\ lastCommitted < nextGen
           /\ Savers = {"background", "final"} /\ ItemPayers \subseteq Payers
           /\ paid \subseteq Payers
           /\ \A p \in Payers : /\ Of(p, queue) \in Nat /\ OnTheWay(p) \in Nat
                                /\ world[p] \in Nat /\ db[p] \in Nat
                                /\ \A s \in Savers : saver[s].pack[p] \in Nat
                                /\ OnTheWay(p) >= Of(p, queue)
                                /\ Accounted(p) /\ Fresh(p) /\ ItemKept(p)
           /\ \A s \in Savers : /\ saver[s].gen \in Nat /\ saver[s].gen < nextGen
                                /\ Free(s) => saver[s] = NoSave
           /\ NoSave.at = "free" /\ NoSave.gen = 0 /\ \A p \in Payers : NoSave.pack[p] = 0
           /\ \A p \in Payers : (\E x : HasTurn(x) /\ x # PayTask(p)) \/ turn = <<>> => payer[p] # "paid"
<1>1. PieceType /\ \A p \in Payers : Accounted(p)
  BY Parts DEF KeptInv, PaidInv
<1>2. NoSave.at = "free" /\ NoSave.gen = 0 /\ \A p \in Payers : NoSave.pack[p] = 0
  BY DEF NoSave, Nothing
<1>3. \A s \in Savers : saver[s].gen \in Nat
  BY <1>1 DEF PieceType, SaverType
<1>4. ASSUME NEW p \in Payers, payer[p] = "paid"
      PROVE  turn # <<>> /\ \A x : HasTurn(x) => x = PayTask(p)
  BY <1>1, <1>4 DEF Accounted, HasTurn
<1>5. \A p \in Payers : /\ Of(p, queue) \in Nat /\ OnTheWay(p) \in Nat
                        /\ world[p] \in Nat /\ db[p] \in Nat
                        /\ \A s \in Savers : saver[s].pack[p] \in Nat
                        /\ OnTheWay(p) >= Of(p, queue)
  BY Counts DEF KeptInv, PaidInv
<1>6. \A p \in Payers : (\E x : HasTurn(x) /\ x # PayTask(p)) \/ turn = <<>> => payer[p] # "paid"
  BY <1>4
<1>7. PieceType /\ ItemPayers \subseteq Payers
  BY <1>1, RewardAssumption
<1>8. \A p \in Payers : Fresh(p) /\ ItemKept(p)
  BY DEF KeptInv, Kept
<1>9. /\ lastCommitted < nextGen
      /\ \A s \in Savers : saver[s].gen < nextGen /\ (Free(s) => saver[s] = NoSave)
  BY DEF KeptInv, Ordered
<1> QED
  BY <1>1, <1>2, <1>3, <1>5, <1>6, <1>7, <1>8, <1>9 DEF PieceType, Savers

\* A payer between its payment and the delivery keeps everybody else from the turn.
LEMMA NoneUnpaid ==
    ASSUME KeptInv, NEW x, HasTurn(x), \A p \in Payers : x # PayTask(p)
    PROVE  \A p \in Payers : payer[p] # "paid"
BY KeptFacts DEF Accounted, HasTurn

\* Steps that leave alone what is stored and what may be written.
LEMMA StillKept ==
    ASSUME KeptInv,
           UNCHANGED <<queue, grant, saver, lastCommitted, present, world, db, scene>>,
           HasTurn(SaveTask("final")) => HasTurn(SaveTask("final"))',
           payer' \in [Payers -> {"none", "queued", "room", "back", "ready", "paid", "done"}],
           paid' = paid, dropped' = dropped,
           \A p \in Payers : /\ payer'[p] # "paid" => payer[p] # "paid"
                             /\ payer'[p] = "done" => payer[p] = "done" \/ p \notin paid
    PROVE  Kept'
<1>1. Growing' /\ GoldKept'
  BY DEF KeptInv, Kept, Growing, GoldKept, Valid, Free
<1>2. LastFirst'
  BY DEF KeptInv, Kept, LastFirst, HasItems, Valid, Free
<1>3. ASSUME NEW p \in Payers PROVE Fresh(p)' /\ ItemKept(p)'
  <2>1. OnTheWay(p)' = OnTheWay(p) /\ Of(p, queue)' = Of(p, queue) /\ InWrite(p)' = InWrite(p)
    BY DEF OnTheWay, InWrite
  <2>2. Fresh(p) /\ ItemKept(p)
    BY KeptFacts
  <2>3. Fresh(p)'
    BY <2>1, <2>2 DEF Fresh, Valid, Free
  <2> QED
    BY <2>1, <2>2, <2>3 DEF ItemKept, ItemFound
<1> QED
  BY <1>1, <1>2, <1>3 DEF Kept

LEMMA QuietKept ==
    ASSUME KeptInv, LoginBegins \/ Shutdown \/ Flushed \/ OtherSend \/ UNCHANGED vars
    PROVE  Kept'
<1>1. /\ UNCHANGED <<queue, grant, saver, lastCommitted, present, world, db, scene, payer, paid,
                   dropped>>
      /\ turn' = turn \/ turn' = Append(turn, World)
  BY DEF LoginBegins, Shutdown, Flushed, OtherSend, vars, taskVars, slotVars, worldVars
<1>2. HasTurn(SaveTask("final")) => HasTurn(SaveTask("final"))'
  BY <1>1, KeptFacts, StillHolds DEF Users
<1> QED
  BY <1>1, <1>2, KeptFacts, StillKept

LEMMA WorkKept ==
    ASSUME KeptInv, NEW q \in Payers,
           Start(q) \/ Reserve(q) \/ WaitForRoom(q) \/ RoomFound(q) \/ PayFails(q)
    PROVE  Kept'
<1>0. /\ PayTask(q) \in Users
      /\ payer \in [Payers -> {"none", "queued", "room", "back", "ready", "paid", "done"}]
  BY KeptFacts DEF Users
<1>1. UNCHANGED <<queue, grant, saver, lastCommitted, present, world, db, scene, paid, dropped>>
  BY DEF Start, Reserve, WaitForRoom, RoomFound, PayFails, slotVars, worldVars
<1>2. HasTurn(SaveTask("final")) => HasTurn(SaveTask("final"))'
  <2>1. HasTurn(SaveTask("final")) => ~HasTurn(PayTask(q))
    BY UsersDiffer DEF HasTurn
  <2>2. HasTurn(SaveTask("final")) => turn' = turn \/ turn' = Append(turn, PayTask(q))
    BY <2>1 DEF Start, Reserve, WaitForRoom, RoomFound, PayFails
  <2> QED
    BY <1>0, <2>2, KeptFacts, StillHolds
<1>3. /\ payer' \in [Payers -> {"none", "queued", "room", "back", "ready", "paid", "done"}]
      /\ payer[q] \notin {"paid", "done"}
      /\ \A p \in Payers : p # q => payer'[p] = payer[p]
  BY <1>0 DEF Start, Reserve, WaitForRoom, RoomFound, PayFails
<1>4. q \notin paid
  BY <1>3 DEF KeptInv, Involved
<1> QED
  BY <1>0, <1>1, <1>2, <1>3, <1>4, StillKept

LEMMA PayKept == ASSUME KeptInv, NEW q \in Payers, Pay(q) PROVE Kept'
<1>0. /\ payer \in [Payers -> {"none", "queued", "room", "back", "ready", "paid", "done"}]
      /\ db \in Owned /\ Accounted(q)
  BY KeptFacts
<1>1. /\ UNCHANGED <<turn, queue, grant, saver, lastCommitted, present, world, scene, dropped>>
      /\ payer[q] \notin {"paid", "done"} /\ payer'[q] = "paid" /\ paid' = paid \cup {q}
      /\ \A p \in Payers : p # q => payer'[p] = payer[p] /\ db'[p] = db[p]
      /\ db'[q] = IF q \in ItemPayers THEN db[q] ELSE db[q] + 1
  BY <1>0 DEF Pay, slotVars, worldVars, Owned
<1>2. Growing' /\ LastFirst'
  BY <1>1 DEF KeptInv, Kept, Growing, LastFirst, HasItems, Valid, Free, HasTurn
<1>3. GoldKept'
  BY <1>0, <1>1, KeptFacts DEF KeptInv, Kept, GoldKept, Accounted
<1>4. ASSUME NEW p \in Payers PROVE Fresh(p)' /\ ItemKept(p)'
  <2>1. OnTheWay(p)' = OnTheWay(p) /\ Of(p, queue)' = Of(p, queue) /\ InWrite(p)' = InWrite(p)
    BY <1>1 DEF OnTheWay, InWrite
  <2>2. Fresh(p) /\ ItemKept(p)
    BY KeptFacts
  <2>3. Fresh(p)'
    BY <1>1, <2>1, <2>2 DEF Fresh, Valid, Free
  <2>4. ItemKept(p)'
    BY <1>1, <2>1, <2>2 DEF ItemKept, ItemFound
  <2> QED
    BY <2>3, <2>4
<1> QED
  BY <1>2, <1>3, <1>4 DEF Kept

\* An item of this character is about, so the order of `LastFirst` is kept: with
\* the character away and another holding the turn, nothing may still be written.
LEMMA NoneValid ==
    ASSUME KeptInv, HasItems, ~present, NEW x, HasTurn(x), x # SaveTask("final")
    PROVE  \A s \in Savers : ~Valid(s)
BY KeptFacts, StillHolds DEF KeptInv, Kept, LastFirst

LEMMA ItemAbout ==
    ASSUME KeptInv
    PROVE  \A p \in ItemPayers : p \in paid \/ OnTheWay(p) # 0 => HasItems
<1>1. \A p \in ItemPayers : p \in scene.payers => HasItems
  BY DEF HasItems
<1>2. \A p \in Payers : OnTheWay(p) # 0 => p \in scene.payers
  BY KeptFacts DEF KeptInv, Involved, Accounted
<1> QED
  BY <1>1, <1>2, KeptFacts DEF KeptInv, Involved

\* The delivery makes every snapshot stale, and its place in the queue is there.
LEMMA DeliverKept == ASSUME KeptInv, Calm, NEW q \in Payers, Deliver(q) PROVE Kept'
<1>0. /\ UNCHANGED <<grant, saver, present, world, db, paid, scene, dropped>>
      /\ payer[q] = "paid" /\ payer'[q] = "done" /\ HasTurn(PayTask(q)) /\ q \in permits
      /\ \A p \in Payers : p # q => payer'[p] = payer[p]
      /\ lastCommitted' = nextGen /\ queue' = Append(queue, q)
  <2>1. q \in permits
    BY DEF Deliver, Calm, KeptInv, Involved
  <2> QED
    BY <2>1, KeptFacts DEF Deliver, worldVars, Newest
<1>1. \A s \in Savers : ~Valid(s)'
  BY <1>0, KeptFacts DEF Valid
<1>2. Growing' /\ GoldKept' /\ LastFirst'
  BY <1>0, <1>1 DEF KeptInv, Kept, Growing, GoldKept, LastFirst
<1>3. ASSUME NEW p \in Payers PROVE Fresh(p)' /\ ItemKept(p)'
  <2>1. /\ Of(p, queue)' = Of(p, queue) + (IF q = p THEN 1 ELSE 0)
        /\ OnTheWay(p)' = OnTheWay(p) + (IF q = p THEN 1 ELSE 0)
    <3>1. Of(p, queue)' = Of(p, queue) + (IF q = p THEN 1 ELSE 0)
      BY <1>0, KeptFacts, OfAppend
    <3> QED
      BY <1>0, <3>1, KeptFacts DEF OnTheWay
  <2>2. Fresh(p)'
    <3>1. p # q => Fresh(p)'
      BY <1>0, <1>1, <2>1, KeptFacts DEF Fresh
    <3>2. p = q => Fresh(p)'
      BY <1>0, <1>1, <2>1, KeptFacts DEF Fresh, Accounted, Once
    <3> QED
      BY <3>1, <3>2
  <2>3. p = q => ItemKept(p)'
    BY <1>0, <2>1, KeptFacts DEF ItemKept, ItemFound, Accounted
  <2>4. ASSUME p # q PROVE ItemKept(p)'
    <3>1. SUFFICES ASSUME p \in paid \cap ItemPayers, payer[p] = "done", ~present
                   PROVE  ~InWrite(p)
      BY <1>0, <2>1, <2>4, KeptFacts DEF ItemKept, ItemFound
    <3>2. \A s \in Savers : ~Valid(s)
      BY <1>0, <3>1, ItemAbout, NoneValid, UsersDiffer
    <3> QED
      BY <3>2, KeptFacts DEF InWrite, Valid
  <2> QED
    BY <2>2, <2>3, <2>4
<1> QED
  BY <1>2, <1>3 DEF Kept

LEMMA GrantKept == ASSUME KeptInv, NEW q \in ItemPayers, Grant(q) PROVE Kept'
<1>0. /\ UNCHANGED <<payer, saver, lastCommitted, present, world, paid, scene>>
      /\ q \in Payers /\ grant[q] # "none" /\ GrantTask(q) \in Users /\ HasItems
  <2>1. OnTheWay(q) # 0
    BY KeptFacts DEF OnTheWay, Grant, GrantJoins, GrantTurn, GrantSends
  <2> QED
    BY <2>1, KeptFacts, ItemAbout DEF Grant, GrantJoins, GrantTurn, GrantSends, slotVars, worldVars, Users
<1>1. \A p \in Payers : InWrite(p)' = InWrite(p)
  BY <1>0 DEF InWrite
<1>2. CASE GrantJoins(q) \/ GrantSends(q) \/ (GrantTurn(q) /\ live)
  <2>0. main # "stopped" /\ dropped' = dropped
    BY <1>0, <1>2 DEF KeptInv, Involved, GrantJoins, GrantSends, GrantTurn
  <2>1. ASSUME NEW p \in Payers
        PROVE  OnTheWay(p)' = OnTheWay(p) /\ Of(p, queue)' \in Nat /\ Of(p, queue)' >= Of(p, queue)
    <3>1. CASE GrantSends(q)
      <4>1. /\ grant[q] = "sending" /\ grant' = [grant EXCEPT ![q] = "none"]
            /\ Of(p, queue)' = Of(p, queue) + (IF q = p THEN 1 ELSE 0)
        <5>1. queue' = Append(queue, q) /\ grant[q] = "sending" /\ grant' = [grant EXCEPT ![q] = "none"]
          BY <2>0, <3>1 DEF GrantSends
        <5> QED
          BY <1>0, <5>1, KeptFacts, OfAppend
      <4> QED
        BY <1>0, <4>1, KeptFacts DEF OnTheWay
    <3>2. CASE GrantJoins(q) \/ (GrantTurn(q) /\ live)
      <4>1. queue' = queue /\ grant[q] # "none" /\ grant'[q] # "none"
            /\ \A r \in ItemPayers : r # q => grant'[r] = grant[r]
        BY <3>2, KeptFacts DEF GrantJoins, GrantTurn
      <4> QED
        BY <4>1, KeptFacts DEF OnTheWay
    <3> QED
      BY <1>2, <3>1, <3>2
  <2>2. db' = db
    BY <1>2 DEF GrantJoins, GrantSends, GrantTurn
  <2>3. Growing' /\ GoldKept'
    BY <1>0, <2>2 DEF KeptInv, Kept, Growing, GoldKept, Valid, Free
  <2>4. LastFirst'
    <3>1. CASE HasTurn(GrantTask(q))
      <4>1. ~present => \A s \in Savers : ~Valid(s)
        BY <1>0, <3>1, NoneValid, UsersDiffer
      <4> QED
        BY <1>0, <4>1 DEF LastFirst, Valid, Free
    <3>2. CASE ~HasTurn(GrantTask(q))
      <4>1. turn' = turn \/ turn' = Append(turn, GrantTask(q))
        BY <1>2, <3>2 DEF GrantJoins, GrantSends, GrantTurn
      <4>2. HasTurn(SaveTask("final")) => HasTurn(SaveTask("final"))'
        BY <1>0, <4>1, KeptFacts, StillHolds
      <4> QED
        BY <1>0, <4>2 DEF KeptInv, Kept, LastFirst, HasItems, Valid, Free
    <3> QED
      BY <3>1, <3>2
  <2>5. ASSUME NEW p \in Payers PROVE Fresh(p)' /\ ItemKept(p)'
    <3>1. Fresh(p)'
      BY <1>0, <2>1, <2>2, KeptFacts DEF Fresh, Valid, Free
    <3>2. ItemKept(p)'
      BY <1>0, <1>1, <2>0, <2>1, <2>2, KeptFacts DEF ItemKept, ItemFound
    <3> QED
      BY <3>1, <3>2
  <2> QED
    BY <2>3, <2>4, <2>5 DEF Kept
<1>3. CASE GrantTurn(q) /\ ~live
  <2>1. /\ ~present /\ queue' = queue
        /\ \A p \in Payers : p # q => db'[p] = db[p]
        /\ \/ db'[q] = db[q] + 1 /\ dropped' = dropped
           \/ db' = db /\ dropped' = dropped \cup {q}
        /\ \A p \in ItemPayers : p # q => grant'[p] = grant[p]
    <3>1. /\ queue' = queue /\ grant' = [grant EXCEPT ![q] = "none"]
          /\ \/ db' = [db EXCEPT ![q] = @ + 1] /\ dropped' = dropped
             \/ db' = db /\ dropped' = dropped \cup {q}
      BY <1>3 DEF GrantTurn
    <3>2. ~present /\ db \in Owned /\ grant \in [ItemPayers -> {"none", "spawned", "queued", "sending"}]
      BY <1>3, KeptFacts DEF KeptInv, Involved
    <3> QED
      BY <1>0, <3>1, <3>2 DEF Owned
  <2>2. \A s \in Savers : ~Valid(s) /\ ~Valid(s)'
    <3>1. \A s \in Savers : ~Valid(s)
      BY <1>0, <1>3, <2>1, NoneValid, UsersDiffer DEF GrantTurn
    <3> QED
      BY <1>0, <3>1 DEF Valid, Free
  <2>3. Growing' /\ LastFirst' /\ \A p \in Payers : Fresh(p)'
    BY <1>0, <2>1, <2>2 DEF Growing, LastFirst, Fresh
  <2>4. GoldKept'
    BY <1>0, <2>1, KeptFacts DEF KeptInv, Kept, GoldKept
  <2>5. ASSUME NEW p \in Payers, p # q PROVE ItemKept(p)'
    <3>1. OnTheWay(p)' = OnTheWay(p)
      BY <2>1, <2>5 DEF OnTheWay
    <3> QED
      BY <1>0, <1>1, <2>1, <2>5, <3>1, KeptFacts DEF ItemKept, ItemFound
  <2>6. ItemKept(q)'
    <3>1. OnTheWay(q) >= 1
      BY <1>0, KeptFacts DEF OnTheWay
    <3>2. db'[q] = 1 \/ q \in dropped'
      BY <1>0, <2>1, <3>1, KeptFacts DEF Accounted, Once
    <3> QED
      BY <1>0, <2>1, <3>2 DEF ItemKept, ItemFound
  <2> QED
    BY <2>3, <2>4, <2>5, <2>6 DEF Kept
<1> QED
  BY <1>2, <1>3 DEF Grant

LEMMA PacksSmall ==
    ASSUME KeptInv, present,
           \A s \in Savers : saver'[s] = NoSave \/ saver'[s].pack = saver[s].pack
    PROVE  \A s \in Savers, p \in Payers : saver'[s].pack[p] <= world[p]
<1>1. \A s \in Savers, p \in Payers : saver[s].pack[p] <= world[p]
  BY DEF KeptInv, Kept, Growing
<1>2. \A p \in Payers : world[p] \in Nat /\ NoSave.pack[p] = 0
  BY KeptFacts
<1> QED
  BY <1>1, <1>2

\* A write holds all that the rows held, and so do the snapshots after it.
LEMMA SaveKept == ASSUME KeptInv, Calm, NEW t \in Savers, Save(t) PROVE Kept'
<1>0. /\ UNCHANGED <<payer, permits, queue, grant, present, world, paid, scene, dropped>>
      /\ \A p \in Payers : OnTheWay(p)' = OnTheWay(p) /\ Of(p, queue)' = Of(p, queue)
  BY DEF Save, SaverJoins, SaverWrites, SaverFails, worldVars, OnTheWay
<1>1. CASE SaverJoins(t)
  <2>1. /\ UNCHANGED <<db, lastCommitted>> /\ turn' = Append(turn, SaveTask(t))
        /\ saver[t].at = "spawned" /\ saver' = [saver EXCEPT ![t].at = "queued"]
    BY <1>1 DEF SaverJoins, slotVars
  <2>2. \A s \in Savers : /\ saver'[s].gen = saver[s].gen /\ saver'[s].pack = saver[s].pack
                          /\ Free(s)' <=> Free(s)
                          /\ saver[s].at = "queued" => saver'[s].at = "queued"
    BY <2>1, KeptFacts DEF SaverType, Free
  <2>3. \A s \in Savers : Valid(s)' <=> Valid(s)
    BY <2>1, <2>2 DEF Valid
  <2>4. Growing' /\ GoldKept'
    BY <1>0, <2>1, <2>2, <2>3 DEF KeptInv, Kept, Growing, GoldKept
  <2>5. LastFirst'
    <3>1. HasTurn(SaveTask("final")) => HasTurn(SaveTask("final"))'
      BY <2>1, KeptFacts, StillHolds DEF Users
    <3>2. "final" \in Savers /\ "background" \in Savers
      BY DEF Savers
    <3> QED
      BY <1>0, <2>1, <2>2, <2>3, <3>1, <3>2 DEF KeptInv, Kept, LastFirst, HasItems
  <2>6. ASSUME NEW p \in Payers PROVE Fresh(p)' /\ ItemKept(p)'
    <3>1. InWrite(p)' <=> InWrite(p)
      BY <2>1, <2>2 DEF InWrite
    <3>2. Fresh(p) /\ ItemKept(p)
      BY KeptFacts
    <3> QED
      BY <1>0, <2>1, <2>2, <2>3, <3>1, <3>2 DEF Fresh, ItemKept, ItemFound
  <2> QED
    BY <2>4, <2>5, <2>6 DEF Kept
<1>2. CASE SaverWrites(t) /\ ~Valid(t)
  <2>1. /\ UNCHANGED <<db, lastCommitted>> /\ turn' = Tail(turn) /\ HasTurn(SaveTask(t))
        /\ saver' = [saver EXCEPT ![t] = NoSave] /\ ~(saver[t].gen > lastCommitted)
    BY <1>2 DEF SaverWrites, Valid, Free
  <2>2. \A s \in Savers : /\ Valid(s)' <=> Valid(s)
                          /\ saver[s].gen > lastCommitted => saver'[s] = saver[s]
                          /\ saver'[s] # saver[s] => saver'[s] = NoSave
    BY <2>1, <1>2, KeptFacts DEF Valid, Free
  <2>3. \A s \in Savers, p \in Payers : present => saver'[s].pack[p] <= world[p]
    BY <2>2, PacksSmall
  <2>4. Growing' /\ GoldKept'
    <3>1. \A s \in Savers : Valid(s) => saver'[s] = saver[s]
      BY <2>2 DEF Valid
    <3> QED
      BY <1>0, <2>1, <2>2, <2>3, <3>1 DEF KeptInv, Kept, Growing, GoldKept
  <2>5. LastFirst'
    <3>1. SUFFICES ASSUME HasItems, ~present, NEW s \in Savers, Valid(s) PROVE FALSE
      BY <1>0, <2>2 DEF LastFirst, HasItems
    <3>2. Valid("final") /\ HasTurn(SaveTask("final"))
      BY <3>1 DEF KeptInv, Kept, LastFirst
    <3>3. t = "final"
      BY <2>1, <3>2, UsersDiffer DEF HasTurn
    <3> QED
      BY <1>2, <3>2, <3>3
  <2>6. ASSUME NEW p \in Payers PROVE Fresh(p)' /\ ItemKept(p)'
    <3>1. InWrite(p) => InWrite(p)'
      BY <2>1, <2>2 DEF InWrite
    <3>2. Fresh(p) /\ ItemKept(p)
      BY KeptFacts
    <3>3. Fresh(p)'
      BY <1>0, <2>1, <2>2, <3>2 DEF Fresh, Valid
    <3> QED
      BY <1>0, <2>1, <3>1, <3>2, <3>3 DEF ItemKept, ItemFound
  <2> QED
    BY <2>4, <2>5, <2>6 DEF Kept
<1>3. CASE SaverWrites(t) /\ Valid(t)
  <2>1. /\ db' = saver[t].pack /\ lastCommitted' = saver[t].gen
        /\ turn' = Tail(turn) /\ HasTurn(SaveTask(t))
        /\ saver' = [saver EXCEPT ![t] = NoSave] /\ saver[t].gen > lastCommitted
    BY <1>3 DEF SaverWrites, Valid
  <2>2. /\ \A s \in Savers : s # t => saver'[s] = saver[s]
        /\ saver'[t] = NoSave
        /\ \A s \in Savers : Valid(s)' => s # t /\ Valid(s) /\ saver[t].gen < saver[s].gen
    BY <2>1, KeptFacts DEF Valid, Free
  <2>3. \A p \in Payers : payer[p] # "paid" /\ db'[p] >= db[p] /\ db'[p] \in 0 .. 1
    <3>1. \A p \in Payers : payer[p] # "paid"
      BY <2>1, UsersDiffer, NoneUnpaid
    <3>2. ASSUME NEW p \in Payers PROVE db'[p] >= db[p] /\ db'[p] \in 0 .. 1
      <4>1. Fresh(p) /\ Accounted(p) /\ saver[t].pack[p] \in Nat
        BY KeptFacts
      <4> QED
        BY <1>3, <2>1, <3>1, <4>1 DEF Fresh, Accounted, Once
    <3> QED
      BY <3>1, <3>2
  <2>4. Growing'
    <3>1. ASSUME present, NEW p \in Payers, NEW s \in Savers PROVE saver'[s].pack[p] <= world[p]
      BY <2>2, <3>1, PacksSmall
    <3> QED
      BY <1>0, <2>2, <3>1 DEF KeptInv, Kept, Growing
  <2>5. GoldKept'
    BY <1>0, <2>3, KeptFacts DEF KeptInv, Kept, GoldKept
  <2>6. HasItems /\ ~present => t = "final" /\ \A s \in Savers : ~Valid(s)'
    <3>1. SUFFICES ASSUME HasItems, ~present PROVE t = "final" /\ \A s \in Savers : ~Valid(s)'
      OBVIOUS
    <3>2. /\ HasTurn(SaveTask("final"))
          /\ Valid("background") => saver["background"].gen < saver["final"].gen
      BY <1>3, <3>1 DEF KeptInv, Kept, LastFirst
    <3>3. t = "final"
      BY <2>1, <3>2, UsersDiffer DEF HasTurn
    <3>4. ASSUME NEW s \in Savers, Valid(s)' PROVE FALSE
      <4>1. s # t /\ Valid(s) /\ saver[t].gen < saver[s].gen /\ saver[s].gen \in Nat /\ saver[t].gen \in Nat
        BY <2>2, <3>4, KeptFacts
      <4>2. s = "background"
        BY <3>3, <4>1 DEF Savers
      <4> QED
        BY <3>2, <3>3, <4>1, <4>2
    <3> QED
      BY <3>3, <3>4
  <2>7. LastFirst'
    BY <1>0, <2>6 DEF LastFirst, HasItems
  <2>8. ASSUME NEW p \in Payers PROVE Fresh(p)'
    <3>1. \A s \in Savers : Valid(s)' => saver'[s].pack[p] >= db'[p]
      BY <1>3, <2>1, <2>2, KeptFacts DEF KeptInv, Kept, Growing
    <3>2. present => world[p] + Of(p, queue) >= db'[p]
      BY <2>1, KeptFacts DEF KeptInv, Kept, Growing
    <3> QED
      BY <1>0, <3>1, <3>2 DEF Fresh
  <2>9. ASSUME NEW p \in Payers PROVE ItemKept(p)'
    <3>1. SUFFICES ASSUME p \in paid \cap ItemPayers, ~present, InWrite(p)
                   PROVE  db'[p] = 1
      <4>1. ItemKept(p) /\ db[p] \in Nat /\ db'[p] >= db[p] /\ db'[p] \in 0 .. 1 /\ OnTheWay(p)' = OnTheWay(p)
        BY <1>0, <2>3, KeptFacts
      <4> QED
        BY <1>0, <4>1 DEF ItemKept, ItemFound
    <3>2. HasItems
      BY <3>1, ItemAbout
    <3>3. PICK s \in Savers : saver[s].gen > lastCommitted /\ saver[s].pack[p] = 1
      BY <3>1 DEF InWrite
    <3>4. Valid(s)
      BY <3>3, KeptFacts DEF Valid
    <3>5. t = "final" /\ (s = t \/ saver[s].gen < saver[t].gen)
      BY <2>6, <3>1, <3>2, <3>4, KeptFacts DEF KeptInv, Kept, LastFirst
    <3>6. saver[s].pack[p] <= saver[t].pack[p]
      <4>1. Growing /\ Valid(t) /\ saver[t].pack[p] \in Nat
        BY <1>3, KeptFacts DEF KeptInv, Kept
      <4>2. CASE s = t
        BY <4>1, <4>2
      <4>3. CASE saver[s].gen < saver[t].gen
        BY <3>4, <4>1, <4>3 DEF Growing
      <4> QED
        BY <3>5, <4>2, <4>3
    <3>7. saver[t].pack[p] \in Nat /\ db'[p] = saver[t].pack[p]
      BY <2>1, KeptFacts
    <3> QED
      BY <2>3, <3>3, <3>6, <3>7
  <2> QED
    BY <2>4, <2>5, <2>7, <2>8, <2>9 DEF Kept
<1>4. CASE SaverFails(t)
  <2>1. /\ UNCHANGED <<db, lastCommitted>> /\ ~HasItems
        /\ saver' \in {[saver EXCEPT ![t] = NoSave], [saver EXCEPT ![t].at = "spawned"]}
    BY <1>4 DEF SaverFails, slotVars, Calm
  <2>2. \A s \in Savers : /\ Valid(s)' => Valid(s) /\ saver'[s].pack = saver[s].pack
                                                   /\ saver'[s].gen = saver[s].gen
                          /\ saver'[s] = NoSave \/ saver'[s].pack = saver[s].pack
    <3>1. /\ \A s \in Savers : s # t => saver'[s] = saver[s]
          /\ \/ saver'[t] = NoSave
             \/ saver'[t].pack = saver[t].pack /\ saver'[t].gen = saver[t].gen
          /\ Valid(t)
      BY <1>4, <2>1, KeptFacts DEF Valid, Free, SaverType, SaverFails
    <3> QED
      BY <2>1, <3>1, KeptFacts DEF Valid, Free
  <2>3. Growing'
    <3>1. ASSUME present, NEW p \in Payers, NEW s \in Savers PROVE saver'[s].pack[p] <= world[p]
      BY <2>2, <3>1, PacksSmall
    <3> QED
      BY <1>0, <2>1, <2>2, <3>1 DEF KeptInv, Kept, Growing
  <2>4. GoldKept' /\ LastFirst'
    BY <1>0, <2>1 DEF KeptInv, Kept, GoldKept, LastFirst, HasItems
  <2>5. ASSUME NEW p \in Payers PROVE Fresh(p)' /\ ItemKept(p)'
    <3>1. Fresh(p)'
      BY <1>0, <2>1, <2>2, KeptFacts DEF Fresh
    <3>2. ItemKept(p)'
      BY <1>0, <2>1, ItemAbout DEF ItemKept, ItemFound
    <3> QED
      BY <3>1, <3>2
  <2> QED
    BY <2>3, <2>4, <2>5 DEF Kept
<1> QED
  BY <1>1, <1>2, <1>3, <1>4 DEF Save

\* A snapshot taken after the drain, of all of the queue or of some of it, holds
\* what the rows hold.
Holds(pack) ==
    /\ \A p \in Payers : pack[p] \in world[p] .. (world[p] + Of(p, queue))
    /\ \A p \in Payers : payer[p] # "paid" => pack[p] >= db[p]

LEMMA SnapshotsHold ==
    ASSUME KeptInv, Calm, present
    PROVE  /\ Holds(With(queue))
           /\ \/ SavesAfterDrain = [save |-> saver["background"], gen |-> nextGen]
              \/ \E pack \in Owned :
                    /\ SavesAfterDrain = [save |-> Snapshot(nextGen, pack), gen |-> nextGen + 1]
                    /\ Holds(pack)
<1>1. Holds(With(queue))
  <2>1. ASSUME NEW p \in Payers
        PROVE  /\ With(queue)[p] \in world[p] .. (world[p] + Of(p, queue))
               /\ payer[p] # "paid" => With(queue)[p] >= db[p]
    <3>1. With(queue)[p] = world[p] + Of(p, queue) /\ Fresh(p)
          /\ world[p] \in Nat /\ Of(p, queue) \in Nat
      BY KeptFacts DEF With
    <3> QED
      BY <3>1 DEF Fresh
  <2> QED
    BY <2>1 DEF Holds
<1>2. ASSUME NEW pack \in Owned, \A p \in Payers : PartOf(pack, p),
             \A p \in Payers :
                (\A i, j \in DOMAIN queue : i < j /\ queue[i] \in ItemPayers => queue[j] # p)
                => pack[p] = world[p] + Of(p, queue)
      PROVE  Holds(pack)
  <2>1. ASSUME NEW p \in Payers, payer[p] # "paid" PROVE pack[p] >= db[p]
    <3>1. /\ Fresh(p) /\ Accounted(p) /\ world[p] \in Nat /\ Of(p, queue) \in Nat /\ db[p] \in Nat
          /\ OnTheWay(p) \in Nat /\ OnTheWay(p) >= Of(p, queue)
          /\ pack[p] \in world[p] .. (world[p] + Of(p, queue))
      BY <1>2, KeptFacts DEF PartOf
    <3>2. world[p] + Of(p, queue) >= db[p]
      BY <2>1, <3>1 DEF Fresh
    <3>3. CASE p \in ItemPayers
      BY <3>1, <3>2, <3>3 DEF Accounted, Once
    <3>4. CASE p \notin ItemPayers
      <4>1. pack[p] = world[p] + Of(p, queue)
        BY <1>2, <3>4 DEF Calm
      <4> QED
        BY <3>2, <4>1
    <3> QED
      BY <3>3, <3>4
  <2> QED
    BY <1>2, <2>1 DEF Holds, PartOf
<1> QED
  BY <1>1, <1>2, SavesFollow DEF KeptInv, PaidInv, AfterDrain

\* The tick's drain and the autosave: the queue moves into the entity.
LEMMA DrainKept ==
    ASSUME KeptInv, Calm, present, DrainQueue,
           UNCHANGED <<payer, paid, present, scene, db, lastCommitted, dropped>>, world' = With(queue),
           saver'["final"] = saver["final"],
           \/ saver'["background"] = saver["background"]
           \/ \E pack : saver'["background"] = Snapshot(nextGen, pack) /\ Holds(pack)
    PROVE  Kept'
<1>0. ASSUME NEW p \in Payers
      PROVE  /\ world[p] \in Nat /\ Of(p, queue) \in Nat /\ db[p] \in Nat
             /\ OnTheWay(p) \in Nat /\ OnTheWay(p) >= Of(p, queue)
             /\ OnTheWay(p)' = OnTheWay(p) - Of(p, queue) /\ Of(p, queue)' = 0
             /\ world'[p] = world[p] + Of(p, queue)
             /\ Fresh(p) /\ ItemKept(p) /\ Accounted(p)
  BY KeptFacts, Drained DEF KeptInv, PaidInv, With
<1>1. ASSUME NEW s \in Savers
      PROVE  \/ saver'[s] = saver[s] /\ (Valid(s)' <=> Valid(s))
             \/ /\ s = "background" /\ saver'[s].gen = nextGen
                /\ \A p \in Payers :
                      /\ saver'[s].pack[p] \in world[p] .. (world[p] + Of(p, queue))
                      /\ payer[p] # "paid" => saver'[s].pack[p] >= db[p]
  <2>1. CASE saver'[s] = saver[s]
    BY <2>1 DEF Valid, Free
  <2>2. CASE saver'[s] # saver[s]
    <3>1. s = "background"
      BY <2>2 DEF Savers
    <3>2. PICK pack : saver'[s] = Snapshot(nextGen, pack) /\ Holds(pack)
      BY <2>2, <3>1
    <3>3. saver'[s].gen = nextGen /\ saver'[s].pack = pack
      BY <3>2 DEF Snapshot
    <3>4. ASSUME NEW p \in Payers
          PROVE  /\ saver'[s].pack[p] \in world[p] .. (world[p] + Of(p, queue))
                 /\ payer[p] # "paid" => saver'[s].pack[p] >= db[p]
      <4>1. /\ pack[p] \in world[p] .. (world[p] + Of(p, queue))
            /\ payer[p] # "paid" => pack[p] >= db[p]
        BY <3>2 DEF Holds
      <4>2. saver'[s].pack[p] = pack[p]
        BY <3>3
      <4> QED
        BY <4>1, <4>2
    <3> QED
      BY <3>1, <3>3, <3>4
  <2> QED
    BY <2>1, <2>2
<1>2. ASSUME NEW s \in Savers, NEW p \in Payers
      PROVE  saver[s].pack[p] <= world[p] /\ saver[s].pack[p] \in Nat
  BY KeptFacts DEF KeptInv, Kept, Growing
<1>3. Growing'
  <2>1. ASSUME NEW s \in Savers, NEW t \in Savers, Valid(s)', Valid(t)', saver'[s].gen < saver'[t].gen,
               NEW p \in Payers
        PROVE  saver'[s].pack[p] <= saver'[t].pack[p]
    <3>1. saver[s].gen < nextGen /\ saver[t].gen < nextGen /\ nextGen \in Nat
          /\ saver[s].gen \in Nat /\ saver[t].gen \in Nat
      BY KeptFacts
    <3>2. CASE saver'[t] = saver[t] /\ (Valid(t)' <=> Valid(t))
      <4>1. saver'[s] = saver[s] /\ Valid(s)
        BY <1>1, <2>1, <3>1, <3>2
      <4> QED
        BY <2>1, <3>2, <4>1 DEF KeptInv, Kept, Growing
    <3>3. CASE /\ t = "background" /\ saver'[t].gen = nextGen
               /\ saver'[t].pack[p] \in world[p] .. (world[p] + Of(p, queue))
      <4>1. saver'[s] = saver[s]
        BY <1>1, <2>1, <3>1, <3>3
      <4> QED
        BY <1>0, <1>2, <3>3, <4>1
    <3> QED
      BY <1>1, <3>2, <3>3
  <2>2. ASSUME NEW s \in Savers, NEW p \in Payers PROVE saver'[s].pack[p] <= world'[p]
    BY <1>0, <1>1, <1>2
  <2> QED
    BY <2>1, <2>2 DEF Growing
<1>4. GoldKept' /\ LastFirst'
  BY DEF KeptInv, Kept, GoldKept, LastFirst
<1>5. ASSUME NEW p \in Payers PROVE Fresh(p)'
  <2>1. ASSUME payer[p] # "paid", NEW s \in Savers, Valid(s)' PROVE saver'[s].pack[p] >= db[p]
    BY <1>0, <1>1, <2>1 DEF Fresh
  <2> QED
    BY <1>0, <2>1 DEF Fresh
<1>6. ASSUME NEW p \in Payers PROVE ItemKept(p)'
  BY <1>0 DEF ItemKept, ItemFound, Accounted
<1> QED
  BY <1>3, <1>4, <1>5, <1>6 DEF Kept

LEMMA TickKept == ASSUME KeptInv, Calm, TickDrain \/ BackgroundSave PROVE Kept'
<1>0. saver \in [Savers -> SaverType] /\ "background" \in Savers /\ "final" \in Savers /\ DrainQueue
      /\ UNCHANGED <<payer, paid, present, scene, db, lastCommitted, dropped>>
  BY KeptFacts DEF TickDrain, BackgroundSave, Savers
<1>1. CASE present
  <2>1. CASE TickDrain
    <3>1. /\ world' = With(queue) /\ saver' = [saver EXCEPT !["background"] = SavesAfterDrain.save]
      BY <1>1, <2>1 DEF TickDrain
    <3>2. \/ SavesAfterDrain.save = saver["background"]
          \/ \E pack : SavesAfterDrain.save = Snapshot(nextGen, pack) /\ Holds(pack)
      BY <1>1, SnapshotsHold
    <3> QED
      BY <1>0, <1>1, <3>1, <3>2, DrainKept
  <2>2. CASE BackgroundSave
    <3>1. /\ world' = With(queue)
          /\ saver' = [saver EXCEPT !["background"] = Snapshot(nextGen, With(queue))]
      BY <2>2 DEF BackgroundSave
    <3> QED
      BY <1>0, <1>1, <3>1, SnapshotsHold, DrainKept
  <2> QED
    BY <2>1, <2>2
<1>2. CASE ~present
  <2>1. TickDrain /\ UNCHANGED <<saver, world, turn>>
    <3>1. TickDrain
      BY <1>2 DEF BackgroundSave
    <3>2. SavesAfterDrain.save = saver["background"]
      BY <1>2 DEF SavesAfterDrain
    <3> QED
      BY <1>0, <1>2, <3>1, <3>2 DEF TickDrain
  <2>2. Growing' /\ GoldKept' /\ LastFirst'
    BY <1>0, <1>2, <2>1 DEF KeptInv, Kept, Growing, GoldKept, LastFirst, Valid, Free, HasItems, HasTurn
  <2>3. ASSUME NEW p \in Payers PROVE Fresh(p)' /\ ItemKept(p)'
    <3>1. Fresh(p) /\ ItemKept(p) /\ InWrite(p)' = InWrite(p)
      BY <1>0, <2>1, KeptFacts DEF InWrite
    <3>2. Fresh(p)'
      BY <1>0, <1>2, <2>1, <3>1 DEF Fresh, Valid, Free
    <3>3. p \in ItemPayers /\ OnTheWay(p) = 1 => OnTheWay(p)' = 1
      <4>1. Of(p, queue) \in Nat /\ Of(p, queue)' = 0
        BY KeptFacts, <1>0, Drained DEF KeptInv, PaidInv
      <4> QED
        BY <1>0, <1>2, <4>1 DEF DrainQueue, OnTheWay
    <3> QED
      BY <1>0, <1>2, <3>1, <3>2, <3>3 DEF ItemKept, ItemFound
  <2> QED
    BY <2>2, <2>3 DEF Kept
<1> QED
  BY <1>1, <1>2

\* At an exit and at shutdown a second snapshot follows the drain's own.
LEMMA BackgroundBehind ==
    ASSUME KeptInv, Calm, present, \A p \in Payers : payer[p] # "paid",
           lastCommitted' >= lastCommitted, lastCommitted' \in Nat,
           saver'["background"] = SavesAfterDrain.save
    PROVE  LET a == SavesAfterDrain IN
           /\ saver'["background"].gen < a.gen /\ saver'["background"].gen \in Nat
           /\ a.gen \in Nat /\ a.gen >= nextGen
           /\ \A p \in Payers :
                 /\ saver'["background"].pack[p] <= With(queue)[p]
                 /\ Valid("background")' => saver'["background"].pack[p] >= db[p]
<1> DEFINE a == SavesAfterDrain
<1>1. \/ a.save = saver["background"] /\ a.gen = nextGen
      \/ a.gen = nextGen + 1 /\ \E pack : a.save = Snapshot(nextGen, pack) /\ Holds(pack)
  BY SnapshotsHold
<1>2. saver'["background"] = a.save /\ "background" \in Savers
  BY DEF Savers
<1> HIDE DEF a
<1>3. /\ nextGen \in Nat /\ lastCommitted \in Nat
      /\ saver["background"].gen \in Nat /\ saver["background"].gen < nextGen
  BY <1>2, KeptFacts
<1>4. ASSUME NEW p \in Payers
      PROVE  /\ world[p] \in Nat /\ Of(p, queue) \in Nat /\ db[p] \in Nat
             /\ With(queue)[p] = world[p] + Of(p, queue) /\ Fresh(p)
  BY KeptFacts DEF With
<1>5. CASE a.save = saver["background"] /\ a.gen = nextGen
  <2>1. ASSUME NEW p \in Payers
        PROVE  saver["background"].pack[p] <= world[p] /\ saver["background"].pack[p] \in Nat
    BY <1>2, KeptFacts DEF KeptInv, Kept, Growing
  <2>2. Valid("background")' => Valid("background")
    BY <1>2, <1>3, <1>5 DEF Valid, Free
  <2>3. ASSUME NEW p \in Payers
        PROVE  /\ saver["background"].pack[p] <= With(queue)[p]
               /\ Valid("background")' => saver["background"].pack[p] >= db[p]
    BY <1>2, <1>4, <2>1, <2>2 DEF Fresh
  <2> QED
    BY <1>2, <1>3, <1>5, <2>3 DEF a
<1>6. CASE a.gen = nextGen + 1 /\ \E pack : a.save = Snapshot(nextGen, pack) /\ Holds(pack)
  <2>1. PICK pack : a.save = Snapshot(nextGen, pack) /\ Holds(pack)
    BY <1>6
  <2>2. saver'["background"].gen = nextGen /\ saver'["background"].pack = pack
    BY <1>2, <2>1 DEF Snapshot
  <2>3. ASSUME NEW p \in Payers
        PROVE  /\ saver'["background"].pack[p] <= With(queue)[p]
               /\ saver'["background"].pack[p] >= db[p]
    <3>1. pack[p] \in world[p] .. (world[p] + Of(p, queue)) /\ pack[p] >= db[p]
      BY <2>1 DEF Holds
    <3>2. saver'["background"].pack[p] = pack[p]
      BY <2>2
    <3> QED
      BY <1>4, <3>1, <3>2
  <2> QED
    BY <1>3, <1>6, <2>2, <2>3 DEF a
<1> QED
  BY <1>1, <1>5, <1>6

\* retire_player: the last snapshot holds everything and goes first.
LEMMA RetireKept == ASSUME KeptInv, Calm, Retire PROVE Kept'
<1> DEFINE a == SavesAfterDrain
<1>0. /\ present /\ DrainQueue /\ turn = <<>> /\ ~present' /\ turn' = <<SaveTask("final")>>
      /\ UNCHANGED <<payer, paid, scene, db, lastCommitted, dropped>>
      /\ saver' = [saver EXCEPT !["background"] = a.save,
                     !["final"] = [Snapshot(a.gen, With(queue)) EXCEPT !.at = "queued"]]
      /\ saver \in [Savers -> SaverType] /\ Savers = {"background", "final"}
  BY KeptFacts DEF Retire, TurnFree
<1>1. /\ \/ a.save = saver["background"] /\ a.gen = nextGen
         \/ a.gen = nextGen + 1 /\ \E pack : a.save = Snapshot(nextGen, pack) /\ Holds(pack)
      /\ Holds(With(queue))
  BY <1>0, SnapshotsHold
<1> HIDE DEF a
<1>2. ASSUME NEW p \in Payers
      PROVE  /\ world[p] \in Nat /\ Of(p, queue) \in Nat /\ db[p] \in Nat
             /\ OnTheWay(p) \in Nat /\ OnTheWay(p) >= Of(p, queue)
             /\ OnTheWay(p)' = OnTheWay(p) - Of(p, queue)
             /\ With(queue)[p] = world[p] + Of(p, queue)
             /\ payer[p] # "paid" /\ Fresh(p) /\ ItemKept(p) /\ Accounted(p)
  BY <1>0, KeptFacts, Drained DEF KeptInv, PaidInv, With
<1>3. /\ nextGen \in Nat /\ lastCommitted \in Nat /\ lastCommitted < nextGen
      /\ saver["background"].gen \in Nat /\ saver["background"].gen < nextGen
  BY <1>0, KeptFacts
<1>4. /\ saver'["final"].gen = a.gen /\ saver'["final"].pack = With(queue)
      /\ saver'["final"].at = "queued" /\ Valid("final")'
  <2>1. saver'["final"].gen = a.gen /\ saver'["final"].pack = With(queue) /\ saver'["final"].at = "queued"
    BY <1>0 DEF Snapshot
  <2> QED
    BY <1>0, <1>1, <1>3, <2>1 DEF Valid, Free
<1>5. /\ saver'["background"].gen < a.gen /\ saver'["background"].gen \in Nat /\ a.gen \in Nat
      /\ \A p \in Payers :
            /\ saver'["background"].pack[p] <= With(queue)[p]
            /\ Valid("background")' => saver'["background"].pack[p] >= db[p]
  BY <1>0, <1>2, <1>3, BackgroundBehind DEF a
<1>6. Growing'
  BY <1>0, <1>4, <1>5 DEF Growing
<1>7. GoldKept' /\ LastFirst'
  BY <1>0, <1>4, <1>5 DEF KeptInv, Kept, GoldKept, LastFirst, HasTurn
<1>8. ASSUME NEW p \in Payers PROVE Fresh(p)'
  <2>1. With(queue)[p] >= db[p]
    BY <1>1, <1>2 DEF Holds
  <2>2. \A s \in Savers : Valid(s)' => saver'[s].pack[p] >= db[p]
    BY <1>0, <1>4, <1>5, <2>1
  <2> QED
    BY <1>0, <2>2 DEF Fresh
<1>9. ASSUME NEW p \in Payers PROVE ItemKept(p)'
  <2>1. SUFFICES ASSUME p \in (paid \cap ItemPayers) \ dropped, payer[p] = "done", OnTheWay(p)' # 1
                 PROVE  InWrite(p)'
    BY <1>0 DEF ItemKept, ItemFound
  <2>2. With(queue)[p] = 1
    BY <1>0, <1>2, <2>1 DEF ItemKept, ItemFound, Accounted
  <2> QED
    BY <1>0, <1>4, <2>2 DEF InWrite, Valid
<1> QED
  BY <1>6, <1>7, <1>8, <1>9 DEF Kept

\* A login finds all that was kept in the rows, or on its way through the grants.
LEMMA LoginKept == ASSUME KeptInv, LoginLoads PROVE Kept'
<1>0. /\ ~present /\ present' /\ world' = db /\ DrainQueue /\ HasTurn(World)
      /\ UNCHANGED <<payer, paid, saver, lastCommitted, db, scene, dropped>>
      /\ \A s \in Savers : Free(s) /\ saver[s] = NoSave
  BY KeptFacts DEF LoginLoads, KeptInv, Involved
<1>1. ASSUME NEW p \in Payers
      PROVE  /\ db[p] \in Nat /\ Of(p, queue) \in Nat /\ Of(p, queue)' = 0
             /\ Accounted(p) /\ ItemKept(p) /\ NoSave.pack[p] = 0
  BY <1>0, KeptFacts, Drained DEF KeptInv, PaidInv
<1>2. \A s \in Savers : ~Valid(s)'
  BY <1>0 DEF Valid, Free
<1>3. Growing' /\ GoldKept' /\ LastFirst'
  BY <1>0, <1>1, <1>2 DEF KeptInv, Kept, Growing, GoldKept, LastFirst
<1>4. ASSUME NEW p \in Payers PROVE Fresh(p)'
  BY <1>0, <1>1, <1>2 DEF Fresh
<1>5. ASSUME NEW p \in Payers PROVE ItemKept(p)'
  <2>1. SUFFICES ASSUME p \in (paid \cap ItemPayers) \ dropped, payer[p] = "done"
                 PROVE  OnTheWay(p)' = 1 \/ world'[p] = 1
    BY <1>0 DEF ItemKept, ItemFound
  <2>2. OnTheWay(p) = 1 => OnTheWay(p)' = 1
    BY <1>0, <1>1, <2>1 DEF DrainQueue, OnTheWay
  <2>3. ~InWrite(p)
    BY <1>0, <1>1 DEF InWrite
  <2> QED
    BY <1>0, <1>1, <2>1, <2>2, <2>3 DEF ItemKept, ItemFound
<1> QED
  BY <1>3, <1>4, <1>5 DEF Kept

\* save_all_online's own save, which Calm allows only where no item is about.
LEMMA ShutdownKept == ASSUME KeptInv, Calm, ShutdownSave PROVE Kept'
<1> DEFINE a == SavesAfterDrain
<1>0. /\ present /\ DrainQueue /\ ~HasItems /\ HasTurn(World)
      /\ UNCHANGED <<payer, paid, scene, present>> /\ world' = With(queue)
      /\ saver \in [Savers -> SaverType] /\ Savers = {"background", "final"}
  BY KeptFacts DEF ShutdownSave, KeptInv, PaidInv, Involved
<1>1. \/ /\ db' = With(queue) /\ lastCommitted' = a.gen
         /\ saver' = [saver EXCEPT !["background"] = a.save]
      \/ /\ saver' = [saver EXCEPT !["background"] = a.save, !["final"] = Snapshot(a.gen, With(queue))]
         /\ UNCHANGED <<db, lastCommitted>>
  BY DEF ShutdownSave
<1>2. \A p \in Payers : payer[p] # "paid"
  BY <1>0, UsersDiffer, NoneUnpaid
<1>3. ASSUME NEW p \in Payers
      PROVE  /\ world[p] \in Nat /\ Of(p, queue) \in Nat /\ db[p] \in Nat
             /\ Of(p, queue)' = 0 /\ OnTheWay(p) \in Nat /\ OnTheWay(p) >= Of(p, queue)
             /\ With(queue)[p] = world[p] + Of(p, queue)
             /\ Fresh(p) /\ Accounted(p) /\ With(queue)[p] >= db[p]
  <2>1. /\ world[p] \in Nat /\ Of(p, queue) \in Nat /\ db[p] \in Nat
        /\ Of(p, queue)' = 0 /\ OnTheWay(p) \in Nat /\ OnTheWay(p) >= Of(p, queue)
        /\ With(queue)[p] = world[p] + Of(p, queue)
        /\ Fresh(p) /\ Accounted(p)
    BY <1>0, KeptFacts, Drained DEF KeptInv, PaidInv, With
  <2> QED
    BY <1>0, <1>2, <2>1 DEF Fresh
<1>4. /\ saver'["background"] = a.save /\ nextGen \in Nat /\ lastCommitted \in Nat
      /\ lastCommitted < nextGen /\ saver["final"].gen < nextGen /\ saver["final"].gen \in Nat
      /\ a.gen \in Nat
  <2>1. a.gen \in Nat
    BY <1>0, SnapshotsHold, KeptFacts
  <2> QED
    BY <1>0, <1>1, <2>1, KeptFacts
<1>5. a.gen >= nextGen
  BY <1>0, <1>4, SnapshotsHold
<1> HIDE DEF a
<1>6. /\ saver'["background"].gen < a.gen /\ saver'["background"].gen \in Nat
      /\ \A p \in Payers :
            /\ saver'["background"].pack[p] <= With(queue)[p]
            /\ Valid("background")' => saver'["background"].pack[p] >= db[p]
  <2>1. lastCommitted' \in Nat /\ lastCommitted' >= lastCommitted
    BY <1>1, <1>4, <1>5
  <2> QED
    BY <1>0, <1>2, <1>4, <2>1, BackgroundBehind DEF a
<1>7. LastFirst' /\ \A p \in Payers : ItemKept(p)'
  BY <1>0, ItemAbout DEF LastFirst, ItemKept, HasItems
<1>8. GoldKept'
  <2>1. ASSUME NEW p \in paid \ ItemPayers PROVE db'[p] = 1
    <3>1. db[p] = 1 /\ p \in Payers
      BY KeptFacts DEF KeptInv, Kept, GoldKept
    <3> QED
      <4>1. With(queue)[p] >= 1 /\ With(queue)[p] <= 1 /\ With(queue)[p] \in Nat
        BY <1>3, <3>1 DEF Accounted
      <4> QED
        BY <1>1, <3>1, <4>1
  <2> QED
    BY <1>0, <2>1 DEF GoldKept
<1>9. CASE /\ db' = With(queue) /\ lastCommitted' = a.gen
           /\ saver' = [saver EXCEPT !["background"] = a.save]
  <2>1. \A s \in Savers : ~Valid(s)'
    BY <1>0, <1>4, <1>5, <1>6, <1>9 DEF Valid
  <2>2. Growing'
    <3>1. \A p \in Payers : saver["final"].pack[p] <= world[p] /\ saver["final"].pack[p] \in Nat
      BY <1>0, KeptFacts DEF KeptInv, Kept, Growing
    <3>2. saver'["final"] = saver["final"]
      BY <1>0, <1>9
    <3>3. ASSUME NEW s \in Savers, NEW p \in Payers PROVE saver'[s].pack[p] <= world'[p]
      <4>1. CASE s = "final"
        BY <1>0, <1>3, <3>1, <3>2, <4>1
      <4>2. CASE s = "background"
        BY <1>0, <1>6, <4>2
      <4> QED
        BY <1>0, <4>1, <4>2
    <3> QED
      BY <2>1, <3>3 DEF Growing
  <2>3. ASSUME NEW p \in Payers PROVE Fresh(p)'
    BY <1>0, <1>3, <1>9, <2>1 DEF Fresh
  <2> QED
    BY <1>7, <1>8, <2>2, <2>3 DEF Kept
<1>10. CASE /\ saver' = [saver EXCEPT !["background"] = a.save, !["final"] = Snapshot(a.gen, With(queue))]
            /\ UNCHANGED <<db, lastCommitted>>
  <2>1. saver'["final"].gen = a.gen /\ saver'["final"].pack = With(queue)
    BY <1>0, <1>10 DEF Snapshot
  <2>2. Growing'
    BY <1>0, <1>3, <1>4, <1>6, <2>1 DEF Growing
  <2>3. ASSUME NEW p \in Payers PROVE Fresh(p)'
    BY <1>0, <1>3, <1>6, <1>10, <2>1 DEF Fresh
  <2> QED
    BY <1>7, <1>8, <2>2, <2>3 DEF Kept
<1> QED
  BY <1>1, <1>9, <1>10

LEMMA KeptStep == ASSUME KeptInv, Calm, [Next]_vars PROVE KeptInv'
<1>1. PaidInv' /\ Ordered' /\ Involved'
  BY PaidStep, OrderedStep, InvolvedStep DEF KeptInv
<1>2. Kept'
  BY QuietKept, WorkKept, PayKept, DeliverKept, GrantKept, SaveKept, TickKept, RetireKept, LoginKept,
     ShutdownKept DEF Next, Task, MainResumes
<1> QED
  BY <1>1, <1>2 DEF KeptInv

LEMMA KeptInit == Init => KeptInv
<1> SUFFICES ASSUME Init PROVE KeptInv
  OBVIOUS
<1>1. PaidInv
  BY PaidInit
<1>2. \A s \in Savers : saver[s] = NoSave /\ Free(s)
  BY DEF Init, NoSave, Free
<1>3. Ordered /\ Involved
  BY <1>2 DEF Init, Ordered, Involved, NoSave
<1>4. \A s \in Savers : ~Valid(s)
  BY <1>2 DEF Valid
<1> QED
  BY <1>1, <1>3, <1>4 DEF Init, KeptInv, Kept, Growing, GoldKept, LastFirst, Fresh, ItemKept

LEMMA KeptInvariant == Spec /\ []Calm => []KeptInv
BY KeptInit, KeptStep, PTL DEF Spec

\* As long as none of the four ways is met, no snapshot of the character is written
\* over a reward that it does not have (RewardNotErased).
THEOREM RewardsNotErased == Spec /\ []Calm => RewardNotErased
<1>1. ASSUME KeptInv, [Next]_vars, Calm PROVE [\A p \in Payers : db'[p] >= db[p]]_vars
  <2>1. SUFFICES ASSUME NEW p \in Payers, Next PROVE db'[p] >= db[p]
    BY <1>1
  <2>2. db[p] \in Nat /\ Fresh(p)
    BY <1>1, KeptFacts
  <2>3. CASE db'[p] = db[p]
    BY <2>2, <2>3
  <2>4. ASSUME NEW q \in Payers, Pay(q) PROVE db'[p] >= db[p]
    BY <1>1, <2>2, <2>4, KeptFacts DEF Pay, Owned
  <2>5. ASSUME NEW q \in ItemPayers, GrantTurn(q) PROVE db'[p] >= db[p]
    <3>1. db' = db \/ db' = [db EXCEPT ![q] = @ + 1]
      BY <2>5 DEF GrantTurn
    <3> QED
      BY <1>1, <2>2, <3>1, KeptFacts DEF Owned
  <2>6. ASSUME NEW s \in Savers, SaverWrites(s) PROVE db'[p] >= db[p]
    <3>1. payer[p] # "paid"
      BY <1>1, <2>6, UsersDiffer, NoneUnpaid DEF SaverWrites
    <3>2. Valid(s) => saver[s].pack[p] >= db[p]
      BY <2>2, <3>1 DEF Fresh
    <3> QED
      BY <2>2, <2>6, <3>2 DEF SaverWrites, Valid, Free
  <2>7. CASE ShutdownSave
    <3>1. payer[p] # "paid" /\ present
      BY <1>1, <2>7, UsersDiffer, NoneUnpaid DEF ShutdownSave, KeptInv, PaidInv
    <3>2. With(queue)[p] >= db[p]
      BY <1>1, <3>1, SnapshotsHold DEF Holds
    <3> QED
      BY <2>2, <2>7, <3>2 DEF ShutdownSave
  <2> QED
    BY <2>1, <2>3, <2>4, <2>5, <2>6, <2>7 DEF Next, TickDrain, BackgroundSave, LoginBegins, Retire, Shutdown,
       Flushed, OtherSend, MainResumes, LoginLoads, Start, Task, Reserve, WaitForRoom, RoomFound, PayFails,
       Deliver, Grant, GrantJoins, GrantSends, Save, SaverJoins, SaverFails
<1> QED
  BY <1>1, KeptInvariant, PTL DEF Spec, RewardNotErased

\* As long as none of them is met, a paid reward is always found, or is an item whose
\* grant failed, said to be lost and really gone; and gold is in the rows once the
\* server has stopped (RewardKept).
THEOREM RewardsKept == Spec /\ []Calm => []RewardKept
<1>1. ASSUME KeptInv, DroppedGone PROVE RewardKept
  <2>1. ASSUME NEW p \in Payers, p \in paid, payer[p] = "done", p \in ItemPayers
        PROVE  ItemFound(p) <=> p \notin dropped
    <3>1. p \in dropped => ~ItemFound(p)
      <4>1. p \in dropped => Gone(p)
        BY <1>1 DEF DroppedGone
      <4>2. Gone(p) => OnTheWay(p) # 1 /\ world[p] # 1 /\ db[p] # 1 /\ ~InWrite(p)
        BY DEF Gone, InWrite
      <4> QED
        BY <4>1, <4>2 DEF ItemFound
    <3>2. ItemKept(p)
      BY <1>1, <2>1, KeptFacts
    <3> QED
      BY <2>1, <3>1, <3>2 DEF ItemKept
  <2>2. ASSUME NEW p \in Payers, p \in paid, payer[p] = "done", p \notin ItemPayers PROVE GoldFound(p)
    <3>1. db[p] = 1
      BY <1>1, <2>2 DEF KeptInv, Kept, GoldKept
    <3>2. /\ world[p] \in Nat /\ OnTheWay(p) \in Nat /\ Of(p, queue) \in Nat
          /\ OnTheWay(p) >= Of(p, queue) /\ Fresh(p) /\ world[p] + OnTheWay(p) <= 1
      BY <1>1, KeptFacts DEF Accounted
    <3>3. present => world[p] + Of(p, queue) >= 1
      BY <2>2, <3>1, <3>2 DEF Fresh
    <3> QED
      BY <3>1, <3>2, <3>3 DEF GoldFound
  <2>3. ASSUME main = "stopped", NEW p \in paid PROVE db[p] = 1
    <3>1. ~HasItems /\ p \in Payers
      BY <1>1, <2>3, KeptFacts DEF KeptInv, Involved
    <3>2. p \notin ItemPayers
      BY <1>1, <3>1, ItemAbout
    <3> QED
      BY <1>1, <3>2 DEF KeptInv, Kept, GoldKept
  <2> QED
    BY <2>1, <2>2, <2>3 DEF RewardKept
<1> QED
  BY <1>1, KeptInvariant, DroppedInvariant, PTL

-----------------------------------------------------------------------------
(* Where none of them can be met.                                          *)

\* Scenes that cannot meet any of them: with items no failing save and no shutdown;
\* gold only, items only, or room for one update; and at a shutdown room for all.
CalmScene(sc) ==
    /\ sc.payers \cap ItemPayers # {} => sc.features \cap {"savefail", "shutdown"} = {}
    /\ sc.payers \cap ItemPayers = {} \/ sc.payers \subseteq ItemPayers \/ sc.cap = 1
    /\ "shutdown" \in sc.features => "other" \notin sc.features /\ Cardinality(sc.payers) <= sc.cap

Reserving == {"ready", "back", "paid"}
Roomy ==
    /\ \A p \in Payers : payer[p] # "none" => p \in scene.payers
    /\ closing => "shutdown" \in scene.features
    /\ "shutdown" \in scene.features =>
          /\ others = 0
          /\ \A p \in Payers : (p \in permits <=> payer[p] \in Reserving) /\ payer[p] # "room"

\* The queue holds each payer's update once.
LEMMA QueueLength ==
    ASSUME PaidInv
    PROVE  LET Q == {queue[i] : i \in DOMAIN queue} IN
           /\ Q \subseteq {p \in Payers : payer[p] = "done"}
           /\ IsFiniteSet(Q) /\ Len(queue) \in Nat /\ Len(queue) <= Cardinality(Q)
<1> DEFINE Q == {queue[i] : i \in DOMAIN queue}
<1>1. /\ queue \in Seq(Payers) /\ Len(queue) \in Nat /\ DOMAIN queue = 1 .. Len(queue)
      /\ payer \in [Payers -> {"none", "queued", "room", "back", "ready", "paid", "done"}]
      /\ Q \subseteq Payers
  BY DEF PaidInv, TypeOK
<1>2. IsFiniteSet(Q)
  BY <1>1, RewardAssumption, FS_Subset
<1>3. ASSUME NEW p \in Payers PROVE Of(p, queue) <= 1 /\ Of(p, queue) \in Nat
                                    /\ (Of(p, queue) # 0 => payer[p] = "done")
  BY Counts DEF PaidInv, Accounted
<1>4. Q \subseteq {p \in Payers : payer[p] = "done"}
  <2>1. ASSUME NEW i \in DOMAIN queue PROVE Of(queue[i], queue) # 0
    BY <1>1, <2>1, OfNone
  <2> QED
    BY <1>1, <1>3, <2>1
<1>5. ASSUME NEW i \in DOMAIN queue, NEW j \in DOMAIN queue, i # j, queue[i] = queue[j] PROVE FALSE
  <2>1. {i, j} \subseteq Places(queue[i], queue) /\ IsFiniteSet(Places(queue[i], queue))
    BY <1>1, <1>5, PlacesFinite DEF Places
  <2>2. Cardinality({i, j}) = 2
    <3>1. IsFiniteSet({i}) /\ Cardinality({i}) = 1 /\ {i, j} = {i} \cup {j}
      BY FS_Singleton
    <3> QED
      BY <1>5, <3>1, FS_AddElement
  <2>3. Of(queue[i], queue) >= 2
    <3>1. Cardinality({i, j}) <= Cardinality(Places(queue[i], queue))
      BY <2>1, FS_Subset
    <3> QED
      BY <1>1, <2>2, <3>1, PlacesFinite
  <2> QED
    BY <1>1, <1>3, <2>3
<1>6. Len(queue) <= Cardinality(Q)
  <2>1. SUFFICES ASSUME Cardinality(Q) < Len(queue) PROVE FALSE
    BY <1>1, <1>2, FS_CardinalityType
  <2>2. IsFiniteSet(1 .. Len(queue)) /\ Cardinality(1 .. Len(queue)) = Len(queue)
    <3>1. 1 \in Int /\ Len(queue) \in Int
      BY <1>1
    <3>2. /\ IsFiniteSet(1 .. Len(queue))
          /\ Cardinality(1 .. Len(queue)) = IF 1 > Len(queue) THEN 0 ELSE Len(queue) - 1 + 1
      BY <3>1, FS_Interval
    <3> QED
      BY <1>1, <3>2
  <2>3. queue \in [1 .. Len(queue) -> Q]
    BY <1>1
  <2>4. \E i, j \in 1 .. Len(queue) : i # j /\ queue[i] = queue[j]
    BY <1>2, <2>1, <2>2, <2>3, FS_PigeonHole
  <2> QED
    BY <1>1, <1>5, <2>4
<1> QED
  BY <1>1, <1>2, <1>4, <1>6

\* At a shutdown in such a scene every payer finds room.
LEMMA RoomForAll ==
    ASSUME PaidInv, Roomy, CalmScene(scene), "shutdown" \in scene.features,
           NEW p \in Payers, payer[p] \notin {"none", "done"} \cup Reserving
    PROVE  HasRoom
<1> DEFINE Q == {queue[i] : i \in DOMAIN queue}
<1>1. /\ Q \subseteq {q \in Payers : payer[q] = "done"}
      /\ IsFiniteSet(Q) /\ Len(queue) \in Nat /\ Len(queue) <= Cardinality(Q)
  BY QueueLength
<1>2. /\ permits \subseteq Payers /\ scene \in Scenes /\ scene.payers \subseteq Payers /\ scene.cap \in Nat
      /\ others = 0
  BY RewardAssumption DEF PaidInv, TypeOK, Roomy
<1>3. /\ IsFiniteSet(permits) /\ IsFiniteSet(scene.payers)
      /\ Cardinality(permits) \in Nat /\ Cardinality(Q) \in Nat /\ Cardinality(scene.payers) \in Nat
  <2>1. IsFiniteSet(permits) /\ IsFiniteSet(scene.payers)
    BY <1>2, RewardAssumption, FS_Subset
  <2> QED
    BY <1>1, <2>1, FS_CardinalityType
<1>4. Q \cup permits \subseteq scene.payers \ {p} /\ p \in scene.payers /\ Q \cap permits = {}
  BY <1>1, <1>2 DEF Roomy, Reserving
<1>5. Cardinality(Q) + Cardinality(permits) = Cardinality(Q \cup permits)
  <2>1. /\ Cardinality(Q \cup permits) = Cardinality(Q) + Cardinality(permits) - Cardinality(Q \cap permits)
        /\ Cardinality(Q \cap permits) = 0
    BY <1>1, <1>3, <1>4, FS_Union, FS_EmptySet
  <2> HIDE DEF Q
  <2> QED
    BY <1>3, <2>1
<1>6. /\ Cardinality(Q \cup permits) <= Cardinality(scene.payers \ {p})
      /\ Cardinality(scene.payers \ {p}) = Cardinality(scene.payers) - 1
  <2>1. IsFiniteSet(scene.payers \ {p}) /\ Cardinality(scene.payers \ {p}) = Cardinality(scene.payers) - 1
    BY <1>3, <1>4, FS_RemoveElement
  <2> QED
    BY <1>4, <2>1, FS_Subset
<1> QED
  BY <1>1, <1>2, <1>3, <1>5, <1>6 DEF CalmScene, HasRoom

LEMMA CalmStates ==
    ASSUME PaidInv, Roomy, CalmScene(scene)
    PROVE  Calm
<1> DEFINE Q == {queue[i] : i \in DOMAIN queue}
<1>1. /\ Q \subseteq scene.payers /\ Len(queue) \in Nat /\ DOMAIN queue = 1 .. Len(queue)
      /\ scene.cap \in Nat
  <2>1. Q \subseteq {q \in Payers : payer[q] = "done"}
    BY QueueLength
  <2> QED
    BY <2>1, RewardAssumption DEF Roomy, PaidInv, TypeOK
<1>2. ASSUME NEW i \in DOMAIN queue, NEW j \in DOMAIN queue, i < j, queue[i] \in ItemPayers
      PROVE  queue[j] \in ItemPayers
  <2>1. queue[i] \in scene.payers /\ queue[j] \in scene.payers
    BY <1>1
  <2>2. scene.cap # 1
    <3>1. Len(queue) <= scene.cap
      <4>1. Len(queue) + others + Cardinality(permits) <= scene.cap /\ others \in Nat
            /\ Cardinality(permits) \in Nat
        BY Permits DEF PaidInv, TypeOK
      <4> QED
        BY <1>1, <4>1
    <3> QED
      BY <1>1, <1>2, <3>1
  <2> QED
    BY <1>2, <2>1, <2>2 DEF CalmScene
<1> QED
  BY <1>2 DEF Calm, CalmScene, HasItems, Roomy, Reserving

LEMMA RoomyStep == ASSUME PaidInv, Roomy, CalmScene(scene), [Next]_vars PROVE Roomy' /\ scene' = scene
<1>0. /\ payer \in [Payers -> {"none", "queued", "room", "back", "ready", "paid", "done"}]
      /\ permits \subseteq Payers /\ grant \in [ItemPayers -> {"none", "spawned", "queued", "sending"}]
  BY DEF PaidInv, TypeOK
<1>1. scene' = scene
  BY DEF Next, TickDrain, BackgroundSave, LoginBegins, Retire, Shutdown, Flushed, OtherSend,
         MainResumes, LoginLoads, ShutdownSave, Start, Task, Reserve, WaitForRoom, RoomFound, Pay,
         PayFails, Deliver, Grant, GrantJoins, GrantTurn, GrantSends, Save, SaverJoins, SaverWrites,
         SaverFails, worldVars, vars
<1>2. closing' => "shutdown" \in scene.features
  BY DEF Roomy, Next, TickDrain, BackgroundSave, LoginBegins, Retire, Shutdown, Flushed, OtherSend,
         MainResumes, LoginLoads, ShutdownSave, Start, Task, Reserve, WaitForRoom, RoomFound, Pay,
         PayFails, Deliver, Grant, GrantJoins, GrantTurn, GrantSends, Save, SaverJoins, SaverWrites,
         SaverFails, slotVars, vars
<1>3. "shutdown" \in scene.features => others' = 0
  BY DEF Roomy, CalmScene, Next, TickDrain, BackgroundSave, LoginBegins, Retire, Shutdown, Flushed, OtherSend,
         MainResumes, LoginLoads, ShutdownSave, Start, Task, Reserve, WaitForRoom, RoomFound, Pay,
         PayFails, Deliver, Grant, GrantJoins, GrantTurn, GrantSends, Save, SaverJoins, SaverWrites,
         SaverFails, DrainQueue, vars
<1>4. ASSUME NEW q \in Payers, Start(q) \/ Task(q) PROVE Roomy'
  <2>1. "shutdown" \in scene.features /\ payer[q] \in {"queued", "room"} => HasRoom
    BY RoomForAll DEF Reserving
  <2>2. ASSUME "shutdown" \in scene.features
        PROVE  \A p \in Payers : (p \in permits' <=> payer'[p] \in Reserving) /\ payer'[p] # "room"
    BY <1>0, <1>4, <2>1, <2>2 DEF Roomy, Start, Task, Reserve, WaitForRoom, RoomFound, Pay, PayFails,
         Deliver, Reserving
  <2>3. \A p \in Payers : payer'[p] # "none" => p \in scene.payers
    BY <1>0, <1>4 DEF Roomy, Start, Task, Reserve, WaitForRoom, RoomFound, Pay, PayFails, Deliver
  <2> QED
    BY <1>1, <1>2, <1>3, <2>2, <2>3 DEF Roomy
<1>5. CASE UNCHANGED <<payer, permits>>
  BY <1>1, <1>2, <1>3, <1>5 DEF Roomy
<1> QED
  BY <1>1, <1>4, <1>5 DEF Next, TickDrain, BackgroundSave, LoginBegins, Retire, Shutdown, Flushed, OtherSend,
         MainResumes, LoginLoads, ShutdownSave, Grant, GrantJoins, GrantTurn, GrantSends, Save, SaverJoins,
         SaverWrites, SaverFails, taskVars, vars

\* In scenes like those of the run, gold and an item for one place in the queue and
\* gold with room up to a shutdown, none of the four ways is ever met: what the two
\* theorems above assume holds.
THEOREM CalmScenesStayCalm == (\A sc \in Scenes : CalmScene(sc)) => (Spec => []Calm)
<1> SUFFICES ASSUME \A sc \in Scenes : CalmScene(sc) PROVE Spec => []Calm
  OBVIOUS
<1>1. PaidInv => CalmScene(scene)
  BY DEF PaidInv, TypeOK
<1>2. Init => Roomy
  BY DEF Init, Roomy, Reserving
<1>3. PaidInv /\ Roomy /\ [Next]_vars => Roomy'
  BY <1>1, RoomyStep
<1>4. PaidInv /\ Roomy => Calm
  BY <1>1, CalmStates
<1> QED
  BY <1>2, <1>3, <1>4, PaidInvariant, PTL DEF Spec
=============================================================================
