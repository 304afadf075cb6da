---------------------------- MODULE CorpsesProofs ----------------------------
(***************************************************************************)
(* The coins of the dead are in one place, every item has its row, and a   *)
(* corpse its own, in every scene; a departed player's pack has its rows   *)
(* unless an item was given away during a save of the giver.  Exits with a *)
(* save still queued, retries and last saves given up are all steps; what  *)
(* the theorems leave to TLC is the queued save that is written after all, *)
(* because the first write of the exit's own has failed (LeftUnwritten).   *)
(***************************************************************************)
EXTENDS Corpses, FiniteSetTheorems, TLAPS

\* A save of p: on its way, in the database or not.
Out(p) == snap[p].at # "none"
Writing(p) == snap[p].at = "writing"
Committed(p) == snap[p].at = "committed"

\* Deletions in the writer's channel: of the corpse, and of single items, which the
\* corpse does not wait for.
Deletes(s) == \E k \in DOMAIN s : s[k].op = "Delete"
OneDelete(s) ==
    \A j, k \in DOMAIN s : s[j].op = "Delete" /\ s[k].op = "Delete" => j = k
Waits(s, w) == \A k \in DOMAIN s : s[k].op = "Delete" => s[k].waiting = w
ItemsGoUnheard(s) == \A k \in DOMAIN s : s[k].op = "DeleteItems" => ~s[k].waiting

\* Types.
Snaps ==
    [at : {"none", "writing", "committed"}, quit : BOOLEAN, held : SUBSET Items,
     inCorpse : SUBSET Items, ids : [Items -> 0 .. MaxRow], purse : 0 .. 1,
     ghost : BOOLEAN, death : BOOLEAN, pile : 0 .. 1, takes : 0 .. 1,
     mark : 0 .. MaxSeq, retire : BOOLEAN, new : [Items -> 0 .. MaxRow]]
Ops == [op : {"Delete", "DeleteItems"}, waiting : BOOLEAN, ids : SUBSET (1 .. MaxRow)]

WorldTypes ==
    /\ online \subseteq Players
    /\ place \in [Items -> Players \cup {"corpse", "room", "gone"}]
    /\ rowId \in [Items -> 0 .. MaxRow]
    /\ purse \in [Players -> 0 .. 1] /\ pile \in 0 .. 1
    /\ corpse \in {"none", "unsettled", "settled", "deleting", "gone", "stranded"}
    /\ ghost \in BOOLEAN /\ pendingDeath \in BOOLEAN /\ retire \in BOOLEAN
    /\ takes \in [Players -> 0 .. 1] /\ mark \in [Players -> 0 .. MaxSeq]
    /\ nextSeq \in 1 .. MaxSeq + 1 /\ removals \subseteq 1 .. MaxRow
    /\ snap \in [Players -> Snaps] /\ left \in [Players -> Snaps]
DbTypes ==
    /\ ops \in Seq(Ops) /\ finished \in {"no", "Deleted", "DeleteFailed"}
    /\ rows \subseteq [id : 1 .. MaxRow, item : Items, char : Players, filed : BOOLEAN]
    /\ nextRow \in 1 .. MaxRow + 1
    /\ dbPurse \in [Players -> 0 .. 1] /\ dbGhost \in BOOLEAN /\ dbCorpse \in -1 .. 1
HistTypes ==
    /\ packed \in [Players -> SUBSET Items] /\ quits \in Nat /\ spent \in BOOLEAN
    /\ missed \in BOOLEAN /\ handed \in [Items -> {"no", "busy", "calm"}]
    /\ forsaken \in BOOLEAN /\ scene \in Scenes
Types == WorldTypes /\ DbTypes /\ HistTypes

\* A death is pending, or in the snapshot that stores it, as long as the corpse is
\* not in the database.
Death ==
    /\ corpse = "unsettled" <=> pendingDeath \/ snap[Owner].death
    /\ pendingDeath => Owner \in online
    /\ \A p \in Players : ~Out(p) => snap[p] = NoSnap
    /\ \A p \in Players : Out(p) => snap[p].quit = (p \notin online)
    /\ \A p \in Players : snap[p].death => p = Owner /\ (snap[p].quit \/ pendingDeath)
    /\ removals # {} => corpse = "unsettled"

\* At most one deletion of the corpse is on its way, and the corpse waits for its
\* outcome as long as it is "deleting".
Writer ==
    /\ OneDelete(ops) /\ ItemsGoUnheard(ops)
    /\ Deletes(ops) => corpse \in {"deleting", "gone"} /\ Waits(ops, corpse = "deleting")
    /\ finished # "no" => corpse = "deleting" /\ ~Deletes(ops)
    /\ corpse = "deleting" => Deletes(ops) \/ finished # "no"
    /\ finished = "DeleteFailed" => missed

\* Before the corpse is in the database, and when it is about to leave it.
Early == corpse \in {"none", "unsettled", "stranded"}
Ending == corpse = "deleting" \/ Deletes(ops)

\* A mark or a debt is a looter's or Owner's, and goes with the corpse.
Mark(p) ==
    /\ mark[p] < nextSeq /\ snap[p].mark < nextSeq
    /\ ~Out(p) /\ p \notin online => mark[p] = 0
    /\ snap[p].quit => snap[p].mark = mark[p]
    /\ p \notin online => takes[p] = 0 /\ purse[p] = 0
    /\ Early => mark[p] = 0 /\ snap[p].mark = 0 /\ takes[p] = 0 /\ snap[p].takes = 0
    /\ Ending => mark[p] = 0
    /\ snap[p].takes <= takes[p] \/ snap[p].quit
    /\ snap[p].retire => /\ p = Owner /\ corpse = "gone" /\ ~PendingLoot(Owner)
                         /\ snap[p].quit \/ retire
Marks ==
    /\ \A p \in Players : Mark(p)
    /\ retire => corpse = "gone" /\ Owner \in online /\ ~Deletes(ops)

\* What p has taken out of the corpse and its row has not been debited for.
Due(p) ==
    IF Writing(p) /\ snap[p].quit THEN snap[p].takes
    ELSE IF Committed(p) /\ ~snap[p].quit THEN takes[p] - snap[p].takes
    ELSE takes[p]
Stored == IF dbCorpse > 0 THEN dbCorpse ELSE 0
Returned(p) == p = Owner /\ corpse = "gone"

\* A purse holds what its row says and what its player has taken since; what was taken
\* is still in the corpse's row, and a mark or a retirement will see to it.
Purse(p) ==
    /\ dbPurse[p] + Stored <= 1
    /\ Due(p) \in 0 .. 1 /\ Due(p) <= Stored
    /\ pile + Due(p) <= 1
    /\ p \in online /\ ~(p = Owner /\ pendingDeath) => purse[p] = dbPurse[p] + Due(p)
    /\ Writing(p) /\ ~snap[p].death => snap[p].purse = dbPurse[p] + snap[p].takes
    /\ Committed(p) => dbPurse[p] = snap[p].purse /\ snap[p].takes <= snap[p].purse
    /\ snap[p].death => snap[p].purse = 0 /\ snap[p].pile = pile
    /\ Due(p) # 0 /\ ~Returned(p) => mark[p] # 0
    /\ Out(p) /\ ~snap[p].quit /\ snap[p].mark = mark[p] /\ ~Returned(p)
            => takes[p] = snap[p].takes
    /\ snap[p].retire /\ ~snap[p].quit => takes[p] = snap[p].takes
    /\ Ending => Due(p) = 0
\* No two players hold the coins.
Apart(p, q) == dbPurse[p] + dbPurse[q] <= 1 /\ Due(p) + Due(q) <= 1
\* The pile is in the row of the corpse, or on its way there.
Pile ==
    /\ corpse \in {"none", "stranded"} => dbCorpse = -1 /\ pile = 0
    /\ corpse = "unsettled" /\ Committed(Owner) /\ snap[Owner].death
          => dbPurse[Owner] = 0 /\ dbCorpse = pile
    /\ corpse = "unsettled" /\ ~(Committed(Owner) /\ snap[Owner].death)
          => dbPurse[Owner] = pile /\ dbCorpse = -1
    /\ pendingDeath => purse[Owner] = 0
    /\ corpse = "settled" \/ (corpse = "deleting" /\ finished # "Deleted") => dbCorpse >= pile
    /\ finished = "Deleted" => dbCorpse = -1
    /\ corpse = "gone" => pile = 0
    /\ corpse = "deleting" /\ pile = 1 => spent
\* Coins are in the database until they are spent, or taken by a save given up.
DueSome == \E p \in Players : Due(p) = 1
Kept ==
    /\ dbCorpse = 1 /\ corpse \in {"settled", "deleting"} => pile = 1 \/ DueSome \/ forsaken
    /\ dbCorpse = 1 /\ corpse = "gone" => spent \/ DueSome \/ forsaken
    /\ ~spent /\ ~forsaken => dbCorpse = 1 \/ \E p \in Players : dbPurse[p] = 1
Coins ==
    /\ \A p \in Players : Purse(p)
    /\ \A p, q \in Players : p # q => Apart(p, q)
    /\ Pile /\ Kept

\* A save an exit left behind stays unwritten: it is stale when the exit's own is
\* written, and comes before it only after that one's first write has failed.
LeftUnwritten == \A p \in Players : left[p].at \notin {"committed", "folded"}
\* The steps that leaves.
Quiet == [Next]_vars /\ \A p \in Players : ~LeftCommits(p) /\ ~LeftApplies(p)

\* The invariant of the coins.
LifeInv == Types /\ Death /\ Writer /\ Marks /\ Coins

-----------------------------------------------------------------------------
(* The channel of the corpse writer.                                       *)

\* What Append does to a channel of corpse operations.
LEMMA OpsAppended ==
    ASSUME NEW s \in Seq(Ops), NEW o \in Ops
    PROVE  /\ Append(s, o) \in Seq(Ops) /\ Append(s, o) # <<>>
           /\ DOMAIN s = 1 .. Len(s) /\ Len(s) \in Nat
           /\ DOMAIN Append(s, o) = 1 .. Len(s) + 1
           /\ Append(s, o)[Len(s) + 1] = o
           /\ \A k \in DOMAIN s : Append(s, o)[k] = s[k]
  OBVIOUS

\* What Tail does to one.
LEMMA OpsTaken ==
    ASSUME NEW s \in Seq(Ops), s # <<>>
    PROVE  /\ Tail(s) \in Seq(Ops) /\ Head(s) = s[1] /\ 1 \in DOMAIN s /\ Head(s) \in Ops
           /\ DOMAIN Tail(s) = 1 .. Len(s) - 1 /\ Len(s) \in Nat /\ DOMAIN s = 1 .. Len(s)
           /\ \A k \in DOMAIN Tail(s) : k + 1 \in DOMAIN s /\ Tail(s)[k] = s[k + 1]
  OBVIOUS

\* A Delete sent when none is on its way.
LEMMA DeleteSent ==
    ASSUME NEW s \in Seq(Ops), NEW w \in BOOLEAN, ~Deletes(s), ItemsGoUnheard(s)
    PROVE  LET t == Append(s, DeleteOp(w))
           IN  /\ t \in Seq(Ops) /\ OneDelete(t) /\ ItemsGoUnheard(t) /\ Deletes(t)
               /\ Waits(t, w)
  <1> DEFINE t == Append(s, DeleteOp(w))
  <1>1. DeleteOp(w) \in Ops /\ DeleteOp(w).op = "Delete" /\ DeleteOp(w).waiting = w
    BY DEF DeleteOp, Ops
  <1>2. /\ t \in Seq(Ops) /\ DOMAIN s = 1 .. Len(s) /\ Len(s) \in Nat
        /\ DOMAIN t = 1 .. Len(s) + 1 /\ t[Len(s) + 1] = DeleteOp(w)
        /\ \A k \in DOMAIN s : t[k] = s[k]
    BY <1>1, OpsAppended
  <1> HIDE DEF t
  <1>3. \A k \in DOMAIN t : IF k = Len(s) + 1 THEN t[k] = DeleteOp(w)
                            ELSE t[k].op # "Delete" /\ (t[k].op = "DeleteItems" => ~t[k].waiting)
    BY <1>2 DEF Deletes, ItemsGoUnheard
  <1>4. OneDelete(t) /\ ItemsGoUnheard(t) /\ Waits(t, w)
    BY <1>1, <1>3 DEF OneDelete, ItemsGoUnheard, Waits
  <1>5. Deletes(t)
    BY <1>1, <1>2 DEF Deletes
  <1> QED
    BY <1>2, <1>4, <1>5 DEF t

\* A deletion of items sent.
LEMMA ItemsSent ==
    ASSUME NEW s \in Seq(Ops), NEW ids \in SUBSET (1 .. MaxRow), OneDelete(s), ItemsGoUnheard(s)
    PROVE  LET t == Append(s, ItemsOp(ids))
           IN  /\ t \in Seq(Ops) /\ OneDelete(t) /\ ItemsGoUnheard(t)
               /\ Deletes(t) <=> Deletes(s)
               /\ \A w : Waits(s, w) => Waits(t, w)
  <1> DEFINE t == Append(s, ItemsOp(ids))
  <1>1. ItemsOp(ids) \in Ops /\ ItemsOp(ids).op = "DeleteItems" /\ ItemsOp(ids).waiting = FALSE
    BY DEF ItemsOp, Ops
  <1>2. /\ t \in Seq(Ops) /\ DOMAIN s = 1 .. Len(s) /\ Len(s) \in Nat
        /\ DOMAIN t = 1 .. Len(s) + 1 /\ t[Len(s) + 1] = ItemsOp(ids)
        /\ \A k \in DOMAIN s : t[k] = s[k]
    BY <1>1, OpsAppended
  <1> HIDE DEF t
  <1>3. \A k \in DOMAIN t : t[k].op = "Delete" => k \in DOMAIN s /\ t[k] = s[k]
    BY <1>1, <1>2
  <1>4. \A k \in DOMAIN t : t[k].op = "DeleteItems" => ~t[k].waiting
    BY <1>1, <1>2 DEF ItemsGoUnheard
  <1>5. \A k \in DOMAIN s : k \in DOMAIN t /\ t[k] = s[k]
    BY <1>2
  <1> QED
    BY <1>2, <1>3, <1>4, <1>5 DEF OneDelete, ItemsGoUnheard, Waits, Deletes, t

\* The next operation taken.
LEMMA OpTaken ==
    ASSUME NEW s \in Seq(Ops), s # <<>>, OneDelete(s), ItemsGoUnheard(s)
    PROVE  /\ Head(s) \in Ops /\ Tail(s) \in Seq(Ops)
           /\ OneDelete(Tail(s)) /\ ItemsGoUnheard(Tail(s))
           /\ Head(s).op = "Delete" => Deletes(s) /\ ~Deletes(Tail(s))
           /\ Head(s).op # "Delete" => (Deletes(Tail(s)) <=> Deletes(s)) /\ ~Head(s).waiting
           /\ Deletes(Tail(s)) => Deletes(s)
           /\ \A w : Waits(s, w) => /\ Waits(Tail(s), w)
                                    /\ Head(s).op = "Delete" => Head(s).waiting = w
  <1> DEFINE t == Tail(s)
  <1>1. /\ t \in Seq(Ops) /\ Head(s) = s[1] /\ 1 \in DOMAIN s /\ Head(s) \in Ops
        /\ DOMAIN t = 1 .. Len(s) - 1 /\ Len(s) \in Nat /\ DOMAIN s = 1 .. Len(s)
        /\ \A k \in DOMAIN t : k + 1 \in DOMAIN s /\ t[k] = s[k + 1]
    BY OpsTaken
  <1> HIDE DEF t
  <1>2. \A j, k \in DOMAIN t : j + 1 = k + 1 => j = k
    BY <1>1
  <1>3. OneDelete(t) /\ ItemsGoUnheard(t) /\ (Deletes(t) => Deletes(s))
    BY <1>1, <1>2 DEF OneDelete, ItemsGoUnheard, Deletes
  <1>4. ASSUME Head(s).op = "Delete" PROVE Deletes(s) /\ ~Deletes(t)
    <2>1. \A k \in DOMAIN t : k + 1 # 1
      BY <1>1
    <2> QED
      BY <1>1, <1>4, <2>1 DEF OneDelete, Deletes
  <1>5. ASSUME Head(s).op # "Delete" PROVE (Deletes(s) => Deletes(t)) /\ ~Head(s).waiting
    <2>1. \A k \in DOMAIN s : k = 1 \/ (k - 1 \in DOMAIN t /\ t[k - 1] = s[k])
      BY <1>1
    <2>2. Head(s).op = "DeleteItems"
      BY <1>1, <1>5 DEF Ops
    <2> QED
      BY <1>1, <1>5, <2>1, <2>2 DEF Deletes, ItemsGoUnheard
  <1>6. \A w : Waits(s, w) => Waits(t, w) /\ (Head(s).op = "Delete" => Head(s).waiting = w)
    BY <1>1 DEF Waits
  <1> QED
    BY <1>1, <1>3, <1>4, <1>5, <1>6 DEF t

-----------------------------------------------------------------------------
(* Types.                                                                  *)

\* The empty snapshot and the one a save takes.
LEMMA SnapsFit ==
    /\ NoSnap \in Snaps
    /\ NoSnap.at = "none" /\ ~NoSnap.quit /\ ~NoSnap.death /\ ~NoSnap.retire
    /\ NoSnap.takes = 0 /\ NoSnap.mark = 0 /\ NoSnap.held = {} /\ NoSnap.inCorpse = {}
    /\ NoSnap.ids = NoIds /\ NoSnap.new = NoIds /\ NoSnap.pile = 0 /\ NoSnap.purse = 0
  BY CorpsesAssumption DEF NoSnap, NoIds, Snaps

\* What a save puts in its snapshot (snapshot_of), field by field.
LEMMA SnapshotFits ==
    ASSUME WorldTypes, NEW p \in Players, NEW quit \in BOOLEAN
    PROVE  /\ SnapshotOf(p, quit) \in Snaps
           /\ SnapshotOf(p, quit).at = "writing" /\ SnapshotOf(p, quit).quit = quit
           /\ SnapshotOf(p, quit).death = (p = Owner /\ pendingDeath)
           /\ SnapshotOf(p, quit).purse = purse[p]
           /\ SnapshotOf(p, quit).pile = IF p = Owner /\ pendingDeath THEN pile ELSE 0
           /\ SnapshotOf(p, quit).takes = takes[p] /\ SnapshotOf(p, quit).mark = mark[p]
           /\ SnapshotOf(p, quit).retire = (p = Owner /\ retire /\ ~PendingLoot(Owner))
           /\ SnapshotOf(p, quit).new = NoIds
           /\ SnapshotOf(p, quit).held = Held(p)
           /\ SnapshotOf(p, quit).inCorpse = IF p = Owner /\ pendingDeath THEN Contents ELSE {}
           /\ \A i \in Items : SnapshotOf(p, quit).ids[i] =
                 IF place[i] = p \/ (p = Owner /\ pendingDeath /\ place[i] = "corpse")
                 THEN rowId[i] ELSE 0
  <1>1. [i \in Items |-> IF place[i] = p \/ (p = Owner /\ pendingDeath /\ place[i] = "corpse")
                         THEN rowId[i] ELSE 0] \in [Items -> 0 .. MaxRow]
    BY CorpsesAssumption DEF WorldTypes
  <1>2. Held(p) \in SUBSET Items /\ Contents \in SUBSET Items
    BY DEF Held, Contents
  <1>3. NoIds \in [Items -> 0 .. MaxRow]
    BY CorpsesAssumption DEF NoIds
  <1>4. /\ purse[p] \in 0 .. 1 /\ takes[p] \in 0 .. 1 /\ mark[p] \in 0 .. MaxSeq /\ pile \in 0 .. 1
        /\ pendingDeath \in BOOLEAN /\ retire \in BOOLEAN /\ ghost \in BOOLEAN
    BY DEF WorldTypes
  <1>5. PendingLoot(Owner) \in BOOLEAN
    BY DEF PendingLoot
  <1> QED
    BY <1>1, <1>2, <1>3, <1>4, <1>5 DEF SnapshotOf, Snaps

\* What a save inserts, and the ids it inserts under.
LEMMA FreshFit ==
    ASSUME Types, NEW p \in Players, NEW new \in [Items -> 0 .. MaxRow],
           snap[p].at = "writing",
           nextRow + Cardinality(Inserted(p, snap[p])) <= MaxRow + 1,
           FreshIds(Inserted(p, snap[p]), new)
    PROVE  /\ nextRow + Cardinality(Inserted(p, snap[p])) \in 1 .. MaxRow + 1
           /\ nextRow + Cardinality(Inserted(p, snap[p])) >= nextRow
           /\ \A i \in Inserted(p, snap[p]) :
                 /\ new[i] \in 1 .. MaxRow /\ new[i] >= nextRow
                 /\ new[i] < nextRow + Cardinality(Inserted(p, snap[p]))
           /\ \A i \in Items : i \notin Inserted(p, snap[p]) => new[i] = 0
           /\ snap[p].held \subseteq Items /\ snap[p].inCorpse \subseteq Items
  <1> DEFINE N == Inserted(p, snap[p])
  <1>1. snap[p] \in Snaps /\ nextRow \in 1 .. MaxRow + 1
    BY DEF Types, WorldTypes, DbTypes
  <1>2. snap[p].held \subseteq Items /\ snap[p].inCorpse \subseteq Items
    BY <1>1 DEF Snaps
  <1>3. N \subseteq Items
    BY <1>2 DEF Inserted
  <1>4. Cardinality(N) \in Nat
    BY <1>3, CorpsesAssumption, FS_Subset, FS_CardinalityType
  <1> HIDE DEF N
  <1>5. \A i \in N : new[i] \in 0 .. MaxRow /\ new[i] # 0
    BY <1>3 DEF FreshIds, N
  <1>6. \A i \in N : new[i] >= nextRow /\ new[i] < nextRow + Cardinality(N)
    BY DEF FreshIds, N
  <1>7. \A i \in Items : i \notin N => new[i] = 0
    BY DEF FreshIds, N
  <1>8. nextRow + Cardinality(N) \in 1 .. MaxRow + 1 /\ nextRow + Cardinality(N) >= nextRow
    BY <1>1, <1>4, CorpsesAssumption DEF N
  <1>9. \A i \in N : new[i] \in 1 .. MaxRow
    BY <1>5, CorpsesAssumption
  <1> QED
    BY <1>2, <1>6, <1>7, <1>8, <1>9 DEF N

\* A commit changes the state of the snapshot and the ids it inserted under.
LEMMA SnapCommits ==
    ASSUME NEW p \in Players, snap \in [Players -> Snaps], NEW new \in [Items -> 0 .. MaxRow],
           snap' = [snap EXCEPT ![p].at = "committed", ![p].new = new]
    PROVE  /\ snap' \in [Players -> Snaps]
           /\ \A q \in Players \ {p} : snap'[q] = snap[q]
           /\ snap'[p].at = "committed" /\ snap'[p].new = new
           /\ snap'[p].quit = snap[p].quit /\ snap'[p].held = snap[p].held
           /\ snap'[p].inCorpse = snap[p].inCorpse /\ snap'[p].ids = snap[p].ids
           /\ snap'[p].purse = snap[p].purse /\ snap'[p].ghost = snap[p].ghost
           /\ snap'[p].death = snap[p].death /\ snap'[p].pile = snap[p].pile
           /\ snap'[p].takes = snap[p].takes /\ snap'[p].mark = snap[p].mark
           /\ snap'[p].retire = snap[p].retire
  <1>1. snap[p] \in Snaps
    OBVIOUS
  <1>2. snap'[p] = [snap[p] EXCEPT !.at = "committed", !.new = new]
    OBVIOUS
  <1>3. snap' = [snap EXCEPT ![p] = snap'[p]]
    BY <1>2
  <1>4. snap'[p] \in Snaps
    BY <1>1, <1>2 DEF Snaps
  <1>5. /\ snap'[p].at = "committed" /\ snap'[p].new = new
        /\ snap'[p].quit = snap[p].quit /\ snap'[p].held = snap[p].held
        /\ snap'[p].inCorpse = snap[p].inCorpse /\ snap'[p].ids = snap[p].ids
        /\ snap'[p].purse = snap[p].purse /\ snap'[p].ghost = snap[p].ghost
        /\ snap'[p].death = snap[p].death /\ snap'[p].pile = snap[p].pile
        /\ snap'[p].takes = snap[p].takes /\ snap'[p].mark = snap[p].mark
        /\ snap'[p].retire = snap[p].retire
    BY <1>1, <1>2 DEF Snaps
  <1> QED
    BY <1>3, <1>4, <1>5

\* The rows a save of the pack writes are rows.
LEMMA RowsFit ==
    ASSUME Types, NEW p \in Players, NEW s \in Snaps, NEW new \in [Items -> 0 .. MaxRow],
           \A i \in Inserted(p, s) : new[i] \in 1 .. MaxRow
    PROVE  SaveInventory(p, s, new)
              \subseteq [id : 1 .. MaxRow, item : Items, char : Players, filed : BOOLEAN]
  <1>1. s.held \subseteq Items /\ s.inCorpse \subseteq Items
    BY DEF Snaps
  <1>2. rows \subseteq [id : 1 .. MaxRow, item : Items, char : Players, filed : BOOLEAN]
    BY DEF Types, DbTypes
  <1>3. \A i \in Items, n \in 1 .. MaxRow :
           Row(i, n, p, s) \in [id : 1 .. MaxRow, item : Items, char : Players, filed : BOOLEAN]
    BY DEF Row
  <1>4. \A r \in rows : r.id \in 1 .. MaxRow
    BY <1>2
  <1> DEFINE entries == s.held \cup s.inCorpse
             kept == rows \ Dropped(p, s)
             known == {i \in entries : \E r \in kept : r.id = s.ids[i]}
  <1>5. \A i \in known : i \in Items /\ s.ids[i] \in 1 .. MaxRow
    BY <1>1, <1>4
  <1>6. \A i \in entries \ known : i \in Items /\ new[i] \in 1 .. MaxRow
    BY <1>1 DEF Inserted
  <1>7. SaveInventory(p, s, new) =
           (kept \ {r \in kept : \E i \in known : r.id = s.ids[i]})
              \cup {Row(i, s.ids[i], p, s) : i \in known}
              \cup {Row(i, new[i], p, s) : i \in entries \ known}
    BY DEF SaveInventory
  <1> HIDE DEF known, entries
  <1>8. {Row(i, s.ids[i], p, s) : i \in known}
           \subseteq [id : 1 .. MaxRow, item : Items, char : Players, filed : BOOLEAN]
    BY <1>3, <1>5
  <1>9. {Row(i, new[i], p, s) : i \in entries \ known}
           \subseteq [id : 1 .. MaxRow, item : Items, char : Players, filed : BOOLEAN]
    BY <1>3, <1>6
  <1> QED
    BY <1>2, <1>7, <1>8, <1>9

\* The purses and the pile stay within their one coin.
LEMMA OneCoin ==
    ASSUME Types, Death, Marks, Coins
    PROVE  \A p \in Players : corpse \in {"settled", "gone"} /\ p \in online
              => purse[p] + pile \in 0 .. 1 /\ takes[p] + pile \in 0 .. 1
  <1> SUFFICES ASSUME NEW p \in Players, corpse \in {"settled", "gone"}, p \in online
               PROVE  purse[p] + pile \in 0 .. 1 /\ takes[p] + pile \in 0 .. 1
    OBVIOUS
  <1>1. /\ dbPurse[p] \in 0 .. 1 /\ pile \in 0 .. 1 /\ purse[p] \in 0 .. 1 /\ takes[p] \in 0 .. 1
        /\ dbCorpse \in -1 .. 1 /\ snap[p].takes \in 0 .. 1
    BY DEF Types, WorldTypes, DbTypes, Snaps
  <1>2. Purse(p) /\ Mark(p) /\ Pile
    BY DEF Marks, Coins
  <1>3. ~pendingDeath
    BY DEF Death
  <1>4. dbPurse[p] + Stored <= 1 /\ Due(p) \in 0 .. 1 /\ Due(p) <= Stored /\ pile + Due(p) <= 1
        /\ purse[p] = dbPurse[p] + Due(p)
    BY <1>2, <1>3 DEF Purse
  <1>5. pile <= Stored /\ Stored \in 0 .. 1
    BY <1>1, <1>2 DEF Pile, Stored
  <1>6. takes[p] <= dbPurse[p] + Due(p)
    <2>1. Committed(p) => snap[p].takes <= dbPurse[p]
      BY <1>1, <1>2 DEF Purse
    <2>2. snap[p].quit => takes[p] = takes[p] /\ ~Writing(p) /\ ~Committed(p)
      BY DEF Death, Writing, Committed, Out, NoSnap
    <2> QED
      BY <1>1, <2>1, <2>2 DEF Due
  <1>7. dbPurse[p] + Due(p) <= 1 /\ dbPurse[p] + Due(p) + pile <= 1
    BY <1>1, <1>4, <1>5
  <1> QED
    BY <1>1, <1>4, <1>6, <1>7

\* The first state is well typed.
LEMMA TypesInit == Init => Types
  <1> SUFFICES ASSUME Init PROVE Types
    OBVIOUS
  <1>1. PICK stored \in SUBSET Items :
          /\ \E f \in [Items -> 0 .. Cardinality(Items)] :
                /\ \A i \in Items : (f[i] = 0) = (i \notin stored)
                /\ \A i, j \in stored : f[i] = f[j] => i = j
                /\ \A i \in stored : f[i] <= Cardinality(stored)
                /\ rowId = f
                /\ rows = {[id |-> f[i], item |-> i, char |-> Owner, filed |-> FALSE] :
                              i \in stored}
          /\ nextRow = Cardinality(stored) + 1
    BY DEF Init
  <1>0. /\ online = Players /\ place = [i \in Items |-> Owner]
        /\ purse = [p \in Players |-> IF p = Owner THEN 1 ELSE 0]
        /\ pile = 0 /\ corpse = "none" /\ ghost = FALSE
        /\ pendingDeath = FALSE /\ retire = FALSE
        /\ takes = [p \in Players |-> 0] /\ mark = [p \in Players |-> 0]
        /\ nextSeq = 1 /\ removals = {} /\ snap = [p \in Players |-> NoSnap] /\ left = snap
        /\ ops = <<>> /\ finished = "no"
        /\ dbPurse = purse /\ dbGhost = FALSE /\ dbCorpse = -1
        /\ packed = [p \in Players |-> {}] /\ quits = 0 /\ spent = FALSE
        /\ forsaken = FALSE /\ missed = FALSE /\ handed = [i \in Items |-> "no"] /\ scene \in Scenes
    BY DEF Init
  <1>2. Cardinality(stored) \in Nat /\ Cardinality(stored) <= Cardinality(Items)
        /\ Cardinality(Items) \in Nat
    BY CorpsesAssumption, FS_Subset, FS_CardinalityType
  <1>3. nextRow \in 1 .. MaxRow + 1
    BY <1>1, <1>2, CorpsesAssumption
  <1>4. rowId \in [Items -> 0 .. MaxRow] /\ (\A i \in stored : rowId[i] \in 1 .. MaxRow)
        /\ rows = {[id |-> rowId[i], item |-> i, char |-> Owner, filed |-> FALSE] :
                              i \in stored}
    BY <1>1, <1>2, CorpsesAssumption
  <1>5. rows \subseteq [id : 1 .. MaxRow, item : Items, char : Players, filed : BOOLEAN]
    <2>1. \A i \in stored : [id |-> rowId[i], item |-> i, char |-> Owner, filed |-> FALSE]
                             \in [id : 1 .. MaxRow, item : Items, char : Players, filed : BOOLEAN]
      BY <1>4, CorpsesAssumption
    <2> QED
      BY <1>4, <2>1
  <1>6. WorldTypes
    <2>1. snap \in [Players -> Snaps]
      BY <1>0, SnapsFit
    <2>2. /\ purse \in [Players -> 0 .. 1] /\ takes \in [Players -> 0 .. 1]
          /\ mark \in [Players -> 0 .. MaxSeq]
      BY <1>0, CorpsesAssumption
    <2>3. place \in [Items -> Players \cup {"corpse", "room", "gone"}]
      BY <1>0, CorpsesAssumption
    <2>4. nextSeq \in 1 .. MaxSeq + 1 /\ pile \in 0 .. 1
      BY <1>0, CorpsesAssumption
    <2> QED
      BY <1>0, <1>4, <2>1, <2>2, <2>3, <2>4 DEF WorldTypes
  <1>7. DbTypes
    <2>1. ops \in Seq(Ops) /\ dbCorpse \in -1 .. 1 /\ dbPurse \in [Players -> 0 .. 1]
      BY <1>0
    <2> QED
      BY <1>0, <1>3, <1>5, <2>1 DEF DbTypes
  <1>8. HistTypes
    BY <1>0 DEF HistTypes
  <1> QED
    BY <1>6, <1>7, <1>8 DEF Types

\* Every step leaves the state well typed: counters stay within their bounds and one
\* coin stays one coin.
LEMMA TypesKept == Types /\ Death /\ Writer /\ Marks /\ Coins /\ Quiet => Types'
  <1> SUFFICES ASSUME Types, Death, Writer, Marks, Coins, Quiet PROVE Types'
    OBVIOUS
  <1> USE CorpsesAssumption
  <1>0. WorldTypes /\ DbTypes /\ HistTypes
    BY DEF Types
  <1>1. CASE Die
    BY <1>0, <1>1 DEF Die, Types, WorldTypes, DbTypes, HistTypes, writerVars, dbVars, histVars
  <1>2. CASE Release
    BY <1>0, <1>2 DEF Release, Types, WorldTypes, DbTypes, HistTypes, writerVars, dbVars,
       histVars, pendVars
  <1>3. CASE Resurrect
    <2>1. CASE corpse = "settled"
      <3>1. purse[Owner] + pile \in 0 .. 1 /\ takes[Owner] + pile \in 0 .. 1
        BY <1>3, <2>1, OneCoin DEF Resurrect
      <3>2. /\ purse' \in [Players -> 0 .. 1] /\ takes' \in [Players -> 0 .. 1]
            /\ pile' \in 0 .. 1
        BY <1>0, <1>3, <2>1, <3>1 DEF Resurrect, WorldTypes
      <3>3. place' \in [Items -> Players \cup {"corpse", "room", "gone"}]
        BY <1>0, <1>3, <2>1 DEF Resurrect, WorldTypes
      <3> QED
        BY <1>0, <1>3, <2>1, <3>2, <3>3 DEF Resurrect, Types, WorldTypes, DbTypes, HistTypes,
           writerVars, dbVars, histVars
    <2>2. CASE corpse # "settled"
      BY <1>0, <1>3, <2>2 DEF Resurrect, Types, WorldTypes, DbTypes, HistTypes,
         writerVars, dbVars, histVars
    <2> QED
      BY <2>1, <2>2
  <1>4. CASE Purge
    <2>1. ops' \in Seq(Ops)
      <3>1. DeleteOp(FALSE) \in Ops
        BY DEF DeleteOp, Ops
      <3> QED
        BY <1>0, <1>4, <3>1, OpsAppended DEF Purge, DbTypes
    <2>7. place' \in [Items -> Players \cup {"corpse", "room", "gone"}]
          /\ rowId' \in [Items -> 0 .. MaxRow]
      BY <1>0, <1>4 DEF Purge, Despawned, WorldTypes
    <2>8. WorldTypes'
      BY <1>0, <1>4, <2>7 DEF Purge, WorldTypes, pendVars
    <2>9. DbTypes'
      BY <1>0, <1>4, <2>1 DEF Purge, DbTypes, dbVars
    <2>10. HistTypes'
      BY <1>0, <1>4 DEF Purge, HistTypes, histVars
    <2> QED
      BY <2>8, <2>9, <2>10 DEF Types
  <1>5. CASE DecayBegins
    <2>1. ops' \in Seq(Ops)
      <3>1. DeleteOp(TRUE) \in Ops
        BY DEF DeleteOp, Ops
      <3> QED
        BY <1>0, <1>5, <3>1, OpsAppended DEF DecayBegins, DbTypes
    <2> QED
      BY <1>0, <1>5, <2>1 DEF DecayBegins, Types, WorldTypes, DbTypes, HistTypes, dbVars,
         pendVars
  <1>6. CASE TakeDecayed
    <2>1. place' \in [Items -> Players \cup {"corpse", "room", "gone"}]
      BY <1>0, <1>6 DEF TakeDecayed, WorldTypes
    <2>2. pile' \in 0 .. 1 /\ corpse' \in {"settled", "gone"} /\ spent' \in BOOLEAN
      <3>1. pile \in 0 .. 1 /\ spent \in BOOLEAN
        BY <1>0 DEF WorldTypes, HistTypes
      <3>2. CASE finished = "Deleted"
        BY <1>6, <3>1, <3>2 DEF TakeDecayed
      <3>3. CASE finished # "Deleted"
        BY <1>6, <3>1, <3>3 DEF TakeDecayed
      <3> QED
        BY <3>2, <3>3
    <2> QED
      BY <1>0, <1>6, <2>1, <2>2 DEF TakeDecayed, Types, WorldTypes, DbTypes, HistTypes, dbVars,
         pendVars
  <1>7. CASE OpDone
    <2>1. ops' \in Seq(Ops)
      BY <1>0, <1>7, OpsTaken DEF OpDone, DbTypes
    <2> QED
      BY <1>0, <1>7, <2>1 DEF OpDone, Types, WorldTypes, DbTypes, HistTypes, worldVars,
         pendVars, histVars
  <1>8. CASE OpFails
    <2>1. ops' \in Seq(Ops)
      BY <1>0, <1>8, OpsTaken DEF OpFails, DbTypes
    <2> QED
      BY <1>0, <1>8, <2>1 DEF OpFails, Types, WorldTypes, DbTypes, HistTypes, worldVars,
         pendVars, dbVars
  <1>9. CASE Crash
    <2>1. rowId' \in [Items -> 0 .. MaxRow]
      <3>1. \A i \in Items : {r \in CorpseRows : r.item = i} # {}
               => (CHOOSE r \in {r \in CorpseRows : r.item = i} : TRUE).id \in 0 .. MaxRow
        BY <1>0 DEF DbTypes, CorpseRows
      <3> QED
        BY <1>9, <3>1 DEF Crash
    <2>2. packed' \in [Players -> SUBSET Items]
      BY <1>0, <1>9 DEF Crash, PackRows, DbTypes
    <2>3. place' \in [Items -> Players \cup {"corpse", "room", "gone"}]
      BY <1>9 DEF Crash
    <2>4. snap' \in [Players -> Snaps] /\ ops' \in Seq(Ops)
      BY <1>9, SnapsFit DEF Crash
    <2>11. left' \in [Players -> Snaps]
      BY <1>9, SnapsFit DEF Crash
    <2>5. /\ takes' \in [Players -> 0 .. 1] /\ mark' \in [Players -> 0 .. MaxSeq]
          /\ purse' \in [Players -> 0 .. 1]
      BY <1>9 DEF Crash
    <2>6. pile' \in 0 .. 1 /\ corpse' \in {"none", "settled"}
      BY <1>0, <1>9 DEF Crash, DbTypes
    <2>7. /\ online' = {} /\ ghost' = FALSE /\ pendingDeath' = FALSE /\ retire' = FALSE
          /\ removals' = {} /\ nextSeq' = 1 /\ finished' = "no" /\ quits' = quits + 1
          /\ UNCHANGED <<dbVars, missed, handed, scene>> /\ spent' \in BOOLEAN
          /\ forsaken' = FALSE
      BY <1>9 DEF Crash
    <2>8. WorldTypes'
      <3>1. /\ corpse' \in {"none", "unsettled", "settled", "deleting", "gone", "stranded"}
            /\ nextSeq' \in 1 .. MaxSeq + 1 /\ removals' \subseteq 1 .. MaxRow
            /\ online' \subseteq Players
        BY <2>6, <2>7
      <3> QED
        BY <2>1, <2>3, <2>4, <2>5, <2>6, <2>7, <2>11, <3>1 DEF WorldTypes
    <2>9. DbTypes'
      BY <1>0, <2>4, <2>7 DEF DbTypes, dbVars
    <2>12. quits' \in Nat
      BY <1>0, <2>7 DEF HistTypes
    <2>14. spent' \in BOOLEAN /\ forsaken' \in BOOLEAN
      BY <2>7
    <2>15. missed' \in BOOLEAN
      BY <1>0, <2>7, Zenon DEF HistTypes
    <2>13. handed' \in [Items -> {"no", "busy", "calm"}] /\ scene' \in Scenes
      BY <1>0, <2>7 DEF HistTypes
    <2>10. HistTypes'
      BY <2>2, <2>12, <2>13, <2>14, <2>15 DEF HistTypes
    <2> QED
      BY <2>8, <2>9, <2>10 DEF Types
  <1>10. ASSUME NEW i \in Items, Rot(i) PROVE Types'
    <2>1. rowId[i] \in 1 .. MaxRow
      BY <1>0, <1>10 DEF Rot, WorldTypes
    <2>2. ops' \in Seq(Ops)
      <3>1. ItemsOp({rowId[i]}) \in Ops
        BY <2>1 DEF ItemsOp, Ops
      <3> QED
        BY <1>0, <1>10, <3>1, OpsAppended DEF Rot, DbTypes
    <2>7. place' \in [Items -> Players \cup {"corpse", "room", "gone"}]
          /\ rowId' \in [Items -> 0 .. MaxRow]
      BY <1>0, <1>10 DEF Rot, Despawned, WorldTypes
    <2>8. WorldTypes'
      BY <1>0, <1>10, <2>1, <2>7 DEF Rot, WorldTypes, pendVars
    <2>9. DbTypes'
      BY <1>0, <1>10, <2>1, <2>2 DEF Rot, DbTypes, dbVars
    <2>10. HistTypes'
      BY <1>0, <1>10 DEF Rot, HistTypes, histVars
    <2> QED
      BY <2>8, <2>9, <2>10 DEF Types
  <1>11. ASSUME NEW p \in Players, Loot(p) PROVE Types'
    <2>1. PICK S \in SUBSET Contents, c \in {0, pile} :
            /\ place' = [i \in Items |-> IF i \in S THEN p ELSE place[i]]
            /\ purse' = [purse EXCEPT ![p] = @ + c]
            /\ pile' = pile - c
            /\ takes' = [takes EXCEPT ![p] = @ + c]
      BY <1>11 DEF Loot
    <2>2. purse[p] + c \in 0 .. 1 /\ takes[p] + c \in 0 .. 1 /\ pile - c \in 0 .. 1
      <3>1. /\ purse[p] + pile \in 0 .. 1 /\ takes[p] + pile \in 0 .. 1
            /\ purse[p] \in 0 .. 1 /\ takes[p] \in 0 .. 1 /\ pile \in 0 .. 1
        BY <1>0, <1>11, OneCoin DEF Loot, WorldTypes
      <3> QED
        BY <3>1
    <2>3. /\ purse' \in [Players -> 0 .. 1] /\ takes' \in [Players -> 0 .. 1]
          /\ pile' \in 0 .. 1
      BY <1>0, <2>1, <2>2 DEF WorldTypes
    <2>4. mark' \in [Players -> 0 .. MaxSeq] /\ nextSeq' \in 1 .. MaxSeq + 1
      BY <1>0, <1>11 DEF WorldTypes, Loot
    <2>5. place' \in [Items -> Players \cup {"corpse", "room", "gone"}]
      BY <1>0, <2>1 DEF WorldTypes
    <2> QED
      BY <1>0, <1>11, <2>3, <2>4, <2>5 DEF Loot, Types, WorldTypes, DbTypes, HistTypes,
         writerVars, dbVars, histVars
  <1>12. ASSUME NEW p \in Players, Save(p) PROVE Types'
    <2>1. snap' \in [Players -> Snaps]
      BY <1>0, <1>12, SnapshotFits DEF Save, WorldTypes
    <2> QED
      BY <1>0, <1>12, <2>1 DEF Save, Types, WorldTypes, DbTypes, HistTypes, worldVars,
         pendVars, writerVars, dbVars, histVars
  <1>13. ASSUME NEW p \in Players, Quit(p) PROVE Types'
    <2>1. snap' \in [Players -> Snaps] /\ left' \in [Players -> Snaps]
      BY <1>0, <1>13, SnapshotFits DEF Quit, WorldTypes
    <2>2. packed' \in [Players -> SUBSET Items]
      BY <1>0, <1>13 DEF Quit, HistTypes, Held
    <2>7. place' \in [Items -> Players \cup {"corpse", "room", "gone"}]
          /\ rowId' \in [Items -> 0 .. MaxRow]
      BY <1>0, <1>13 DEF Quit, Despawned, WorldTypes
    <2>8. WorldTypes'
      <3>1. purse' \in [Players -> 0 .. 1] /\ takes' \in [Players -> 0 .. 1]
        BY <1>0, <1>13 DEF Quit, WorldTypes
      <3>2. pendingDeath' \in BOOLEAN /\ retire' \in BOOLEAN /\ ghost' \in BOOLEAN
        BY <1>0, <1>13 DEF Quit, WorldTypes
      <3> QED
        BY <1>0, <1>13, <2>1, <2>7, <3>1, <3>2 DEF Quit, WorldTypes
    <2>9. DbTypes'
      BY <1>0, <1>13 DEF Quit, DbTypes, writerVars, dbVars
    <2>10. HistTypes'
      BY <1>0, <1>13, <2>2 DEF Quit, HistTypes, histVars
    <2> QED
      BY <2>8, <2>9, <2>10 DEF Types
  <1>14. ASSUME NEW p \in Players, Commit(p) PROVE Types'
    <2> DEFINE s == snap[p]
               N == Inserted(p, s)
    <2>1. PICK new \in [Items -> 0 .. MaxRow] :
            /\ FreshIds(N, new)
            /\ snap' = [snap EXCEPT ![p].at = "committed", ![p].new = new]
            /\ Written(p, s, new)
            /\ rows' \subseteq SaveInventory(p, s, new)
      BY <1>14 DEF Commit, Written
    <2>2. /\ nextRow + Cardinality(N) \in 1 .. MaxRow + 1
          /\ \A i \in N : new[i] \in 1 .. MaxRow
      BY <1>14, <2>1, FreshFit DEF Commit, Written
    <2>3. s \in Snaps
      BY <1>0 DEF WorldTypes
    <2>4. rows' \subseteq [id : 1 .. MaxRow, item : Items, char : Players, filed : BOOLEAN]
      BY <2>1, <2>2, <2>3, RowsFit
    <2>5. snap' \in [Players -> Snaps]
      BY <1>0, <2>1, SnapCommits DEF WorldTypes
    <2>14. left' \in [Players -> Snaps]
      BY <1>0, <1>14, SnapsFit DEF Commit, WorldTypes
    <2>6. nextRow' \in 1 .. MaxRow + 1
      BY <2>1, <2>2 DEF Written
    <2>7. /\ s.purse \in 0 .. 1 /\ s.pile \in 0 .. 1 /\ s.takes \in 0 .. 1
          /\ s.ghost \in BOOLEAN /\ dbCorpse \in -1 .. 1
      BY <1>0, <2>3 DEF Snaps, DbTypes
    <2>8. dbCorpse' \in -1 .. 1
      BY <2>1, <2>7 DEF Written, CoinsLeft
    <2>9. dbPurse' \in [Players -> 0 .. 1] /\ dbGhost' \in BOOLEAN
      BY <1>0, <2>1, <2>7 DEF Written, DbTypes
    <2>10. UNCHANGED <<worldVars, pendVars, writerVars, packed, quits, spent, missed, handed,
                       forsaken, scene>>
      BY <1>14 DEF Commit
    <2>11. WorldTypes'
      BY <1>0, <2>5, <2>10, <2>14 DEF WorldTypes, worldVars, pendVars
    <2>12. DbTypes'
      BY <1>0, <2>4, <2>6, <2>8, <2>9, <2>10 DEF DbTypes, writerVars
    <2>13. HistTypes'
      BY <1>0, <2>10 DEF HistTypes
    <2> QED
      BY <2>11, <2>12, <2>13 DEF Types
  <1>15. ASSUME NEW p \in Players, SaveFails(p) PROVE Types'
    <2>1. snap' \in [Players -> Snaps] /\ left' \in [Players -> Snaps]
      BY <1>0, <1>15, SnapsFit DEF SaveFails, WorldTypes
    <2> QED
      BY <1>0, <1>15, <2>1 DEF SaveFails, Types, WorldTypes, DbTypes, HistTypes, worldVars,
         pendVars, writerVars, dbVars, histVars
  <1>16. ASSUME NEW p \in Players, ApplyCommit(p) PROVE Types'
    <2>1. snap' \in [Players -> Snaps] /\ left' \in [Players -> Snaps]
      BY <1>0, <1>16, SnapsFit DEF ApplyCommit, WorldTypes
    <2>2. snap[p] \in Snaps
      BY <1>0 DEF WorldTypes
    <2>3. snap[p].takes \in 0 .. 1 /\ snap[p].new \in [Items -> 0 .. MaxRow]
      BY <2>2 DEF Snaps
    <2>4. ops' \in Seq(Ops)
      <3>1. ItemsOp(removals) \in Ops
        BY <1>0 DEF ItemsOp, Ops, WorldTypes
      <3> QED
        BY <1>0, <1>16, <3>1, OpsAppended DEF ApplyCommit, FoldedIn, DbTypes
    <2>5. takes' \in [Players -> 0 .. 1] /\ mark' \in [Players -> 0 .. MaxSeq]
      <3>1. CoinsLeft(takes[p], snap[p].takes) \in 0 .. 1 /\ MarkAfter(p, snap[p]) \in 0 .. MaxSeq
        BY <1>0, <2>3 DEF WorldTypes, CoinsLeft, MarkAfter
      <3>2. /\ takes' = [takes EXCEPT ![p] = CoinsLeft(takes[p], snap[p].takes)]
            /\ mark' = [mark EXCEPT ![p] = MarkAfter(p, snap[p])]
        BY <1>16 DEF ApplyCommit, FoldedIn
      <3> QED
        BY <1>0, <3>1, <3>2 DEF WorldTypes
    <2>6. rowId' \in [Items -> 0 .. MaxRow]
      BY <1>0, <1>16, <2>3 DEF ApplyCommit, FoldedIn, WorldTypes
    <2>7. /\ corpse' \in {"none", "unsettled", "settled", "deleting", "gone", "stranded"}
          /\ removals' \subseteq 1 .. MaxRow /\ pendingDeath' \in BOOLEAN /\ retire' \in BOOLEAN
      BY <1>0, <1>16 DEF ApplyCommit, FoldedIn, WorldTypes
    <2> QED
      BY <1>0, <1>16, <2>1, <2>4, <2>5, <2>6, <2>7 DEF ApplyCommit, FoldedIn, Types, WorldTypes, DbTypes,
         HistTypes, dbVars, histVars
  <1>20. ASSUME NEW p \in Players, GiveUp(p) PROVE Types'
    <2>1. snap' \in [Players -> Snaps] /\ left' \in [Players -> Snaps]
      BY <1>0, <1>20, SnapsFit DEF GiveUp, WorldTypes
    <2>2. place' \in [Items -> Players \cup {"corpse", "room", "gone"}]
          /\ rowId' \in [Items -> 0 .. MaxRow]
      BY <1>0, <1>20 DEF GiveUp, Despawned, WorldTypes
    <2>3. mark' \in [Players -> 0 .. MaxSeq]
      BY <1>0, <1>20 DEF GiveUp, WorldTypes
    <2>8. pile' \in 0 .. 1 /\ removals' \subseteq 1 .. MaxRow
          /\ corpse' \in {"none", "unsettled", "settled", "deleting", "gone", "stranded"}
      <3>1. \/ pile' = 0 /\ removals' = {} /\ corpse' = "stranded"
            \/ pile' = pile /\ removals' = removals /\ corpse' = corpse
        BY <1>20 DEF GiveUp
      <3>2. /\ pile \in 0 .. 1 /\ removals \subseteq 1 .. MaxRow
            /\ corpse \in {"none", "unsettled", "settled", "deleting", "gone", "stranded"}
        BY <1>0 DEF WorldTypes
      <3>3. pile' \in 0 .. 1
        BY <3>1, <3>2
      <3>4. removals' \subseteq 1 .. MaxRow
        BY <3>1, <3>2
      <3>5. corpse' \in {"none", "unsettled", "settled", "deleting", "gone", "stranded"}
        BY <3>1, <3>2
      <3> QED
        BY <3>3, <3>4, <3>5
    <2>4. WorldTypes'
      BY <1>0, <1>20, <2>1, <2>2, <2>3, <2>8 DEF GiveUp, WorldTypes
    <2>5. DbTypes'
      BY <1>0, <1>20 DEF GiveUp, DbTypes, writerVars, dbVars
    <2>6. packed' \in [Players -> SUBSET Items]
      <3>1. {r.item : r \in PackRows(p)} \in SUBSET Items
        BY <1>0 DEF DbTypes, PackRows
      <3> QED
        BY <1>0, <1>20, <3>1 DEF GiveUp, HistTypes
    <2>7. HistTypes'
      BY <1>0, <1>20, <2>6 DEF GiveUp, HistTypes
    <2> QED
      BY <2>4, <2>5, <2>7 DEF Types
  <1>17. ASSUME NEW p \in Players, Login(p) PROVE Types'
    <2>1. rowId' \in [Items -> 0 .. MaxRow]
      <3>1. \A i \in Items : {r \in PackRows(p) : r.item = i} # {}
               => (CHOOSE r \in {r \in PackRows(p) : r.item = i} : TRUE).id \in 0 .. MaxRow
        BY <1>0 DEF DbTypes, PackRows
      <3> QED
        BY <1>0, <1>17, <3>1 DEF Login, WorldTypes
    <2>2. place' \in [Items -> Players \cup {"corpse", "room", "gone"}]
      BY <1>0, <1>17 DEF Login, WorldTypes
    <2> QED
      BY <1>0, <1>17, <2>1, <2>2 DEF Login, Types, WorldTypes, DbTypes, HistTypes,
         pendVars, writerVars, dbVars, histVars
  <1>18. ASSUME NEW p \in Players, NEW q \in Players, NEW i \in Items, Give(p, q, i)
         PROVE  Types'
    BY <1>0, <1>18 DEF Give, Types, WorldTypes, DbTypes, HistTypes, pendVars, writerVars, dbVars
  <1>19. CASE UNCHANGED vars
    BY <1>0, <1>19 DEF vars, Types, WorldTypes, DbTypes, HistTypes, worldVars, pendVars,
       writerVars, dbVars, histVars
  <1> QED
    BY <1>1, <1>2, <1>3, <1>4, <1>5, <1>6, <1>7, <1>8, <1>9, <1>10, <1>11, <1>12, <1>13, <1>14,
       <1>15, <1>16, <1>17, <1>18, <1>19, <1>20 DEF Next, Quiet

-----------------------------------------------------------------------------
(* The death, the writer and the marks.                                    *)

\* No death is pending at first.
LEMMA DeathInit == Init => Death
  BY SnapsFit, CorpsesAssumption DEF Init, Death, Out

\* Every step keeps the corpse unsettled exactly as long as its death is not stored.
LEMMA DeathKept == Types /\ Types' /\ Death /\ Writer /\ Quiet => Death'
  <1> SUFFICES ASSUME Types, Types', Death, Writer, Quiet PROVE Death'
    OBVIOUS
  <1> USE CorpsesAssumption
  <1>0. snap \in [Players -> Snaps] /\ snap' \in [Players -> Snaps] /\ pendingDeath \in BOOLEAN
        /\ \A q \in Players : snap[q].quit \in BOOLEAN /\ snap[q].death \in BOOLEAN
    BY DEF Types, WorldTypes, Snaps
  <1>1. CASE Die
    BY <1>0, <1>1 DEF Die, Death, Out
  <1>2. CASE Release
    BY <1>0, <1>2 DEF Release, Death, Out, pendVars
  <1>3. CASE Resurrect
    BY <1>0, <1>3 DEF Resurrect, Death, Out
  <1>4. CASE Purge
    BY <1>0, <1>4 DEF Purge, Death, Out, pendVars
  <1>5. CASE DecayBegins
    BY <1>0, <1>5 DEF DecayBegins, Death, Out, pendVars
  <1>6. CASE TakeDecayed
    BY <1>0, <1>6 DEF TakeDecayed, Death, Writer, Out, pendVars
  <1>7. CASE OpDone \/ OpFails
    BY <1>0, <1>7 DEF OpDone, OpFails, Death, Out, worldVars, pendVars
  <1>8. CASE Crash
    <2>1. /\ snap' = [p \in Players |-> NoSnap] /\ corpse' \in {"none", "settled"}
          /\ pendingDeath' = FALSE /\ online' = {} /\ removals' = {}
      BY <1>8 DEF Crash
    <2>2. \A p \in Players : snap'[p] = NoSnap
      BY <2>1
    <2> QED
      BY <2>1, <2>2, SnapsFit DEF Death, Out
  <1>9. ASSUME NEW i \in Items, Rot(i) PROVE Death'
    BY <1>0, <1>9 DEF Rot, Death, Out
  <1>10. ASSUME NEW p \in Players, Loot(p) PROVE Death'
    BY <1>0, <1>10 DEF Loot, Death, Out
  <1>11. ASSUME NEW p \in Players, Save(p) \/ Quit(p) PROVE Death'
    <2>1. PICK quit \in BOOLEAN : /\ snap' = [snap EXCEPT ![p] = SnapshotOf(p, quit)]
                                  /\ quit = (Quit(p) /\ ~Save(p))
      BY <1>11 DEF Save, Quit
    <2>2. /\ snap'[p].at = "writing" /\ snap'[p].quit = quit
          /\ snap'[p].death = (p = Owner /\ pendingDeath)
          /\ \A q \in Players \ {p} : snap'[q] = snap[q]
      BY <1>0, <2>1, SnapshotFits DEF Types
    <2>3. p \in online /\ (snap[p].death => p = Owner /\ pendingDeath)
          /\ corpse' = corpse /\ removals' = removals
      BY <1>0, <1>11, SnapsFit DEF Save, Quit, worldVars, pendVars, Death, Out, Unsettled
    <2>4. CASE Save(p)
      BY <1>0, <2>1, <2>2, <2>3, <2>4 DEF Save, Death, Out, worldVars, pendVars
    <2>5. CASE Quit(p) /\ ~Save(p)
      <3>1. online' = online \ {p} /\ pendingDeath' = (pendingDeath /\ p # Owner)
        BY <1>0, <2>5 DEF Quit
      <3> QED
        BY <1>0, <2>1, <2>2, <2>3, <2>5, <3>1 DEF Death, Out
    <2> QED
      BY <1>11, <2>4, <2>5
  <1>12. ASSUME NEW p \in Players, Commit(p) PROVE Death'
    <2>1. PICK new \in [Items -> 0 .. MaxRow] :
             snap' = [snap EXCEPT ![p].at = "committed", ![p].new = new]
      BY <1>12 DEF Commit
    <2>2. /\ \A q \in Players \ {p} : snap'[q] = snap[q]
          /\ snap'[p].at = "committed" /\ snap'[p].quit = snap[p].quit
          /\ snap'[p].death = snap[p].death
      BY <1>0, <2>1, SnapCommits
    <2>3. UNCHANGED <<worldVars, pendVars>> /\ snap[p].at = "writing"
      BY <1>12 DEF Commit
    <2> QED
      BY <2>2, <2>3 DEF Death, Out, worldVars, pendVars
  <1>13. ASSUME NEW p \in Players, SaveFails(p), snap' # snap PROVE Death'
    <2>1. /\ \A q \in Players \ {p} : snap'[q] = snap[q]
          /\ snap'[p] = NoSnap
      BY <1>0, <1>13 DEF SaveFails
    <2>2. UNCHANGED <<worldVars, pendVars>> /\ snap[p].at = "writing" /\ ~snap[p].quit
      BY <1>13 DEF SaveFails
    <2> QED
      BY <2>1, <2>2, SnapsFit DEF Death, Out, worldVars, pendVars
  <1>14. ASSUME NEW p \in Players, ApplyCommit(p) PROVE Death'
    <2>1. /\ \A q \in Players \ {p} : snap'[q] = snap[q]
          /\ snap'[p] = NoSnap
      BY <1>0, <1>14 DEF ApplyCommit
    <2>2. CASE snap[p].death
      <3>1. p = Owner /\ corpse = "unsettled"
        BY <2>2 DEF Death
      <3>2. corpse' = "settled" /\ pendingDeath' = FALSE /\ removals' = {} /\ online' = online
        BY <1>14, <2>2, <3>1 DEF ApplyCommit, FoldedIn
      <3> QED
        BY <2>1, <3>1, <3>2, SnapsFit DEF Death, Out
    <2>3. CASE ~snap[p].death
      <3>1. /\ corpse' = corpse /\ pendingDeath' = pendingDeath /\ removals' = removals
            /\ online' = online
        BY <1>0, <1>14, <2>3 DEF ApplyCommit, FoldedIn
      <3> QED
        BY <2>1, <2>3, <3>1, SnapsFit DEF Death, Out
    <2> QED
      BY <2>2, <2>3
  <1>15. ASSUME NEW p \in Players, Login(p) PROVE Death'
    BY <1>0, <1>15 DEF Login, Death, Out, pendVars, Unsettled
  <1>16. ASSUME NEW p \in Players, NEW q \in Players, NEW i \in Items, Give(p, q, i)
         PROVE  Death'
    BY <1>0, <1>16 DEF Give, Death, Out, pendVars
  <1>18. ASSUME NEW p \in Players, GiveUp(p) PROVE Death'
    <2>1. /\ \A q \in Players \ {p} : snap'[q] = snap[q]
          /\ snap'[p] = NoSnap
      BY <1>0, <1>18 DEF GiveUp
    <2>2. online' = online /\ pendingDeath' = pendingDeath /\ snap[p].at = "writing" /\ snap[p].quit
      BY <1>18 DEF GiveUp
    <2>3. p \notin online
      BY <2>2 DEF Death, Out
    <2>4. CASE snap[p].death
      <3>1. p = Owner /\ corpse = "unsettled" /\ ~pendingDeath
        BY <2>3, <2>4 DEF Death
      <3>2. corpse' = "stranded" /\ removals' = {}
        BY <1>18, <2>4, <3>1 DEF GiveUp
      <3> QED
        BY <1>0, <2>1, <2>2, <3>1, <3>2, SnapsFit DEF Death, Out
    <2>5. CASE ~snap[p].death
      <3>1. corpse' = corpse /\ removals' = removals
        BY <1>18, <2>5 DEF GiveUp
      <3> QED
        BY <1>0, <2>1, <2>2, <2>5, <3>1, SnapsFit DEF Death, Out
    <2> QED
      BY <2>4, <2>5
  <1>19. ASSUME NEW p \in Players, SaveFails(p), snap' = snap PROVE Death'
    BY <1>0, <1>19 DEF SaveFails, Death, Out, worldVars, pendVars
  <1>17. CASE UNCHANGED vars
    BY <1>0, <1>17 DEF vars, Death, Out, worldVars, pendVars
  <1> QED
    BY <1>1, <1>2, <1>3, <1>4, <1>5, <1>6, <1>7, <1>8, <1>9, <1>10, <1>11, <1>12, <1>13, <1>14,
       <1>15, <1>16, <1>17, <1>18, <1>19 DEF Next, Quiet

\* The corpse writer starts with nothing to do.
LEMMA WriterInit == Init => Writer
  <1> SUFFICES ASSUME Init PROVE Writer
    OBVIOUS
  <1>1. ops = <<>> /\ corpse = "none" /\ finished = "no"
    BY DEF Init
  <1>2. DOMAIN ops = {}
    BY <1>1
  <1> QED
    BY <1>1, <1>2 DEF Writer, OneDelete, ItemsGoUnheard, Deletes

\* Every step keeps one whole-corpse deletion on its way at most, and the one the
\* corpse waits for.
LEMMA WriterKept == Types /\ Types' /\ Death /\ Writer /\ Quiet => Writer'
  <1> SUFFICES ASSUME Types, Types', Death, Writer, Quiet PROVE Writer'
    OBVIOUS
  <1>0. /\ ops \in Seq(Ops) /\ removals \in SUBSET (1 .. MaxRow)
        /\ finished \in {"no", "Deleted", "DeleteFailed"}
        /\ \A i \in Items : rowId[i] # 0 => {rowId[i]} \in SUBSET (1 .. MaxRow)
        /\ OneDelete(ops) /\ ItemsGoUnheard(ops)
    BY DEF Types, WorldTypes, DbTypes, Writer
  <1>1. CASE Purge \/ DecayBegins
    <2>1. /\ corpse = "settled" /\ ~Deletes(ops) /\ finished = "no" /\ finished' = finished
          /\ missed' = missed
      BY <1>1 DEF Purge, DecayBegins, Writer
    <2>2. PICK w \in BOOLEAN : ops' = Append(ops, DeleteOp(w))
                               /\ corpse' = (IF w THEN "deleting" ELSE "gone")
      BY <1>1 DEF Purge, DecayBegins
    <2>3. OneDelete(ops') /\ ItemsGoUnheard(ops') /\ Deletes(ops') /\ Waits(ops', w)
      BY <1>0, <2>1, <2>2, DeleteSent
    <2> QED
      BY <2>1, <2>2, <2>3 DEF Writer
  <1>2. CASE TakeDecayed
    BY <1>2 DEF TakeDecayed, Writer
  <1>3. CASE OpDone \/ OpFails
    <2>1. /\ ops # <<>> /\ ops' = Tail(ops) /\ corpse' = corpse /\ missed' \in {missed, TRUE}
      BY <1>3 DEF OpDone, OpFails, worldVars, histVars
    <2>2. /\ Head(ops) \in Ops
          /\ OneDelete(ops') /\ ItemsGoUnheard(ops')
          /\ Head(ops).op = "Delete" => Deletes(ops) /\ ~Deletes(ops')
          /\ Head(ops).op # "Delete" => (Deletes(ops') <=> Deletes(ops)) /\ ~Head(ops).waiting
          /\ \A w : Waits(ops, w) => /\ Waits(ops', w)
                                     /\ Head(ops).op = "Delete" => Head(ops).waiting = w
      BY <1>0, <2>1, OpTaken
    <2>3. CASE Head(ops).op = "Delete"
      <3>1. Head(ops).waiting = (corpse = "deleting") /\ finished = "no"
            /\ corpse \in {"deleting", "gone"}
        BY <2>2, <2>3 DEF Writer
      <3>2. IF corpse = "deleting" THEN /\ finished' \in {"Deleted", "DeleteFailed"}
                                        /\ finished' = "DeleteFailed" => missed'
                                   ELSE finished' = "no"
        BY <1>3, <2>3, <3>1 DEF OpDone, OpFails
      <3> QED
        BY <2>1, <2>2, <2>3, <3>1, <3>2 DEF Writer
    <2>4. CASE Head(ops).op # "Delete"
      <3>1. finished' = finished /\ (missed => missed')
        <4>1. ~Head(ops).waiting
          BY <2>2, <2>4
        <4>2. CASE OpDone
          BY <2>4, <4>2 DEF OpDone, histVars
        <4>3. CASE OpFails
          BY <4>1, <4>3 DEF OpFails
        <4> QED
          BY <1>3, <4>2, <4>3
      <3> QED
        BY <2>1, <2>2, <2>4, <3>1 DEF Writer
    <2> QED
      BY <2>3, <2>4
  <1>4. CASE Crash
    <2>1. ops' = <<>> /\ finished' = "no" /\ corpse' \in {"none", "settled"}
      BY <1>4 DEF Crash
    <2>2. DOMAIN ops' = {}
      BY <2>1
    <2> QED
      BY <2>1, <2>2 DEF Writer, OneDelete, ItemsGoUnheard, Deletes
  <1>5. ASSUME NEW i \in Items, Rot(i) PROVE Writer'
    <2>1. corpse' = corpse /\ finished' = finished /\ missed' = missed /\ rowId[i] # 0
          /\ ops' = IF corpse = "settled" THEN Append(ops, ItemsOp({rowId[i]})) ELSE ops
      BY <1>5 DEF Rot, histVars
    <2>2. CASE corpse = "settled"
      <3>1. /\ OneDelete(ops') /\ ItemsGoUnheard(ops') /\ (Deletes(ops') <=> Deletes(ops))
            /\ \A w : Waits(ops, w) => Waits(ops', w)
        BY <1>0, <2>1, <2>2, ItemsSent
      <3> QED
        BY <2>1, <2>2, <3>1 DEF Writer
    <2>3. CASE corpse # "settled"
      BY <2>1, <2>3 DEF Writer
    <2> QED
      BY <2>2, <2>3
  <1>6. ASSUME NEW p \in Players, ApplyCommit(p) PROVE Writer'
    <2>1. finished' = finished /\ missed' = missed
      BY <1>6 DEF ApplyCommit, FoldedIn, histVars
    <2>2. CASE snap[p].death /\ corpse = "unsettled"
      <3>1. /\ ops' = IF removals # {} THEN Append(ops, ItemsOp(removals)) ELSE ops
            /\ corpse' = "settled"
        BY <1>6, <2>2 DEF ApplyCommit, FoldedIn
      <3>2. /\ OneDelete(ops') /\ ItemsGoUnheard(ops') /\ (Deletes(ops') <=> Deletes(ops))
            /\ \A w : Waits(ops, w) => Waits(ops', w)
        BY <1>0, <3>1, ItemsSent
      <3> QED
        BY <2>1, <2>2, <3>1, <3>2 DEF Writer
    <2>3. CASE ~(snap[p].death /\ corpse = "unsettled")
      <3>1. ops' = ops /\ corpse' = corpse
        BY <1>6, <2>3 DEF ApplyCommit, FoldedIn
      <3> QED
        BY <2>1, <3>1 DEF Writer
    <2> QED
      BY <2>2, <2>3
  <1>7. CASE Die
    BY <1>7 DEF Die, Writer, writerVars, histVars
  <1>8. CASE Release
    BY <1>8 DEF Release, Writer, writerVars, histVars
  <1>9. CASE Resurrect
    <2>1. /\ UNCHANGED <<ops, finished, missed>>
          /\ corpse' = corpse \/ (corpse = "settled" /\ corpse' = "gone")
      BY <1>9 DEF Resurrect, writerVars, histVars
    <2> QED
      BY <2>1 DEF Writer
  <1>10. ASSUME NEW p \in Players,
                \/ Loot(p) \/ Save(p) \/ Quit(p) \/ Commit(p) \/ SaveFails(p) \/ Login(p)
         PROVE  Writer'
    <2>1. UNCHANGED <<ops, finished, missed, corpse>>
      BY <1>10 DEF Loot, Save, Quit, Commit, SaveFails, Login, worldVars, writerVars, histVars
    <2> QED
      BY <2>1 DEF Writer
  <1>11. ASSUME NEW p \in Players, NEW q \in Players, NEW i \in Items, Give(p, q, i)
         PROVE  Writer'
    BY <1>11 DEF Give, Writer, writerVars
  <1>13. ASSUME NEW p \in Players, GiveUp(p) PROVE Writer'
    <2>1. /\ UNCHANGED <<ops, finished>> /\ missed'
          /\ corpse' = corpse \/ (corpse = "unsettled" /\ corpse' = "stranded")
      BY <1>13 DEF GiveUp, writerVars
    <2> QED
      BY <2>1 DEF Writer
  <1>12. CASE UNCHANGED vars
    BY <1>12 DEF vars, Writer, worldVars, writerVars, histVars
  <1> QED
    BY <1>1, <1>2, <1>3, <1>4, <1>5, <1>6, <1>7, <1>8, <1>9, <1>10, <1>11, <1>12, <1>13 DEF Next, Quiet

\* A mark is set only in Loot, from a settled corpse.
LEMMA MarksInit == Init => Marks
  <1> SUFFICES ASSUME Init PROVE Marks
    OBVIOUS
  <1>1. /\ corpse = "none" /\ online = Players /\ retire = FALSE /\ ops = <<>> /\ nextSeq = 1
        /\ \A p \in Players : snap[p] = NoSnap /\ mark[p] = 0 /\ takes[p] = 0
    BY DEF Init
  <1>2. ~Deletes(ops)
    <2>1. DOMAIN ops = {}
      BY <1>1
    <2> QED
      BY <2>1 DEF Deletes
  <1> QED
    BY <1>1, <1>2, SnapsFit DEF Marks, Mark, Early, Ending

\* Every step keeps the marks of the looters behind the ledger's next number, and
\* none is left when the corpse is being deleted.
LEMMA MarksKept == Types /\ Types' /\ Death /\ Death' /\ Writer /\ Writer' /\ Marks /\ Quiet
                     => Marks'
  <1> SUFFICES ASSUME Types, Types', Death, Death', Writer, Writer', Marks, Quiet
               PROVE  Marks'
    OBVIOUS
  <1> USE CorpsesAssumption
  <1>0. /\ snap \in [Players -> Snaps] /\ snap' \in [Players -> Snaps]
        /\ pendingDeath \in BOOLEAN /\ retire \in BOOLEAN /\ nextSeq \in 1 .. MaxSeq + 1
        /\ mark \in [Players -> 0 .. MaxSeq] /\ takes \in [Players -> 0 .. 1]
        /\ purse \in [Players -> 0 .. 1] /\ pile \in 0 .. 1
        /\ \A q \in Players : /\ snap[q].quit \in BOOLEAN /\ snap[q].mark \in 0 .. MaxSeq
                              /\ snap[q].takes \in 0 .. 1 /\ snap[q].retire \in BOOLEAN
    BY DEF Types, WorldTypes, Snaps
  <1>s. \A q \in Players : Mark(q)
    BY DEF Marks
  <1>e. Deletes(ops) => corpse \in {"deleting", "gone"}
    BY DEF Writer
  <1>1. CASE Die
    <2>1. /\ corpse = "none" /\ corpse' = "unsettled" /\ purse' = [purse EXCEPT ![Owner] = 0]
          /\ UNCHANGED <<online, retire, takes, mark, nextSeq, snap, ops>>
      BY <1>1 DEF Die, writerVars
    <2>2. \A q \in Players : q \notin online => purse'[q] = 0
      BY <1>0, <1>s, <2>1 DEF Mark
    <2> QED
      BY <1>0, <1>s, <2>1, <2>2 DEF Marks, Mark, Out, Early, Ending, PendingLoot
  <1>2. CASE Release \/ OpDone \/ OpFails \/ TakeDecayed \/ UNCHANGED vars
            \/ (\E i \in Items : Rot(i)) \/ (\E p, q \in Players, i \in Items : Give(p, q, i))
    <2>1. UNCHANGED <<online, retire, takes, mark, nextSeq, snap, purse>>
      BY <1>2 DEF Release, OpDone, OpFails, TakeDecayed, vars, Rot, Give, worldVars, pendVars
    <2>2. corpse' = corpse \/ (TakeDecayed /\ corpse = "deleting" /\ corpse' \in {"settled", "gone"})
      BY <1>2 DEF Release, OpDone, OpFails, TakeDecayed, vars, Rot, Give, worldVars, pendVars, Writer
    <2>3. Deletes(ops') => Deletes(ops)
      <3>1. CASE OpDone \/ OpFails
        <4>1. ops # <<>> /\ ops' = Tail(ops)
          BY <3>1 DEF OpDone, OpFails
        <4> QED
          BY <4>1, OpTaken DEF Types, DbTypes, Writer
      <3>2. CASE \E i \in Items : Rot(i)
        <4>1. PICK i \in Items : Rot(i)
          BY <3>2
        <4>2. {rowId[i]} \in SUBSET (1 .. MaxRow)
          BY <4>1 DEF Rot, Types, WorldTypes
        <4>3. ops' = ops \/ ops' = Append(ops, ItemsOp({rowId[i]}))
          BY <4>1 DEF Rot
        <4> QED
          BY <4>2, <4>3, ItemsSent DEF Types, DbTypes, Writer
      <3>3. CASE Release \/ TakeDecayed \/ UNCHANGED vars
              \/ (\E p, q \in Players, i \in Items : Give(p, q, i))
        BY <3>3 DEF Release, TakeDecayed, vars, Give, writerVars
      <3> QED
        BY <1>2, <3>1, <3>2, <3>3
    <2>4. Ending' => Ending
      BY <2>2, <2>3 DEF Ending
    <2>5. (Early' => Early) /\ (corpse = "gone" => corpse' = "gone")
      BY <2>2 DEF Early
    <2>6. \A q \in Players : Mark(q)'
      BY <1>s, <2>1, <2>4, <2>5 DEF Mark, Out, PendingLoot
    <2> QED
      BY <2>1, <2>3, <2>5, <2>6 DEF Marks
  <1>3. CASE Resurrect
    <2>1. CASE corpse = "settled"
      <3>1. /\ corpse' = "gone" /\ retire' = TRUE /\ Owner \in online
            /\ takes' = [takes EXCEPT ![Owner] = @ + pile]
            /\ purse' = [purse EXCEPT ![Owner] = @ + pile]
            /\ UNCHANGED <<online, mark, nextSeq, snap, ops>>
        BY <1>3, <2>1 DEF Resurrect, writerVars
      <3>2. ~Deletes(ops')
        BY <1>e, <2>1, <3>1
      <3>3. \A q \in Players : /\ takes'[q] >= takes[q]
                               /\ q # Owner => takes'[q] = takes[q] /\ purse'[q] = purse[q]
        BY <1>0, <3>1
      <3>4. \A q \in Players : ~snap[q].retire
        BY <1>s, <2>1 DEF Mark
      <3>5. takes' \in [Players -> 0 .. 1]
        BY DEF Types, WorldTypes
      <3>6. ASSUME NEW q \in Players PROVE Mark(q)'
        <4>1. snap[q].takes <= takes'[q] \/ snap[q].quit
          BY <1>0, <1>s, <3>3, <3>5 DEF Mark
        <4>2. q \notin online => takes'[q] = 0 /\ purse'[q] = 0
          BY <1>s, <3>1, <3>3 DEF Mark
        <4> QED
          BY <1>s, <3>1, <3>2, <3>4, <4>1, <4>2 DEF Mark, Out, Early, Ending
      <3> QED
        BY <3>1, <3>2, <3>6 DEF Marks
    <2>2. CASE corpse # "settled"
      <3>1. UNCHANGED <<corpse, retire, online, takes, purse, mark, nextSeq, snap, ops>>
        BY <1>3, <2>2 DEF Resurrect, writerVars
      <3> QED
        BY <1>s, <3>1 DEF Marks, Mark, Out, Early, Ending, PendingLoot
    <2> QED
      BY <2>1, <2>2
  <1>4. CASE Purge \/ DecayBegins
    <2>1. /\ corpse = "settled" /\ corpse' \in {"gone", "deleting"} /\ ~PendingLoot("nobody")
          /\ UNCHANGED <<online, retire, takes, mark, nextSeq, snap, purse>>
      BY <1>4 DEF Purge, DecayBegins, pendVars
    <2>2. \A q \in Players : ~snap[q].retire /\ mark[q] = 0
      BY <1>s, <2>1 DEF Mark, PendingLoot
    <2>3. ~retire
      BY <2>1 DEF Marks
    <2> QED
      BY <1>s, <2>1, <2>2, <2>3 DEF Marks, Mark, Out, Early, Ending
  <1>5. CASE Crash
    <2>1. /\ online' = {} /\ retire' = FALSE /\ nextSeq' = 1 /\ ops' = <<>>
          /\ corpse' \in {"none", "settled"}
          /\ \A q \in Players : /\ mark'[q] = 0 /\ takes'[q] = 0 /\ purse'[q] = 0
                                /\ snap'[q] = NoSnap
      BY <1>5 DEF Crash
    <2>2. ~Deletes(ops')
      <3>1. DOMAIN ops' = {}
        BY <2>1
      <3> QED
        BY <3>1 DEF Deletes
    <2> QED
      BY <2>1, <2>2, SnapsFit DEF Marks, Mark, Out, Early, Ending
  <1>6. ASSUME NEW p \in Players, Loot(p) PROVE Marks'
    <2>1. PICK c \in {0, pile} : purse' = [purse EXCEPT ![p] = @ + c]
                               /\ takes' = [takes EXCEPT ![p] = @ + c]
      BY <1>6 DEF Loot
    <2>2. /\ p \in online /\ corpse = "settled" /\ mark' = [mark EXCEPT ![p] = nextSeq]
          /\ nextSeq' = nextSeq + 1 /\ UNCHANGED <<online, corpse, retire, snap, ops>>
      BY <1>6 DEF Loot, writerVars
    <2>3. ~Deletes(ops)
      BY <1>e, <2>2
    <2>4. \A q \in Players : ~snap[q].retire
      BY <1>s, <2>2 DEF Mark
    <2>5. takes' \in [Players -> 0 .. 1]
      BY DEF Types, WorldTypes
    <2>6. \A q \in Players : /\ q # p => takes'[q] = takes[q] /\ purse'[q] = purse[q]
                                        /\ mark'[q] = mark[q]
                            /\ takes'[q] >= takes[q]
      BY <1>0, <2>1, <2>2
    <2>7. mark'[p] = nextSeq
      BY <1>0, <2>2
    <2>8. ASSUME NEW q \in Players PROVE Mark(q)'
      <3>1. mark'[q] < nextSeq' /\ snap[q].mark < nextSeq'
        BY <1>0, <1>s, <2>2, <2>6, <2>7 DEF Mark
      <3>2. snap[q].takes <= takes'[q] \/ snap[q].quit
        BY <1>0, <1>s, <2>5, <2>6 DEF Mark
      <3>3. snap[q].quit => q \notin online
        BY SnapsFit DEF Death, Out
      <3> QED
        BY <1>s, <2>2, <2>3, <2>4, <2>6, <3>1, <3>2, <3>3 DEF Mark, Out, Early, Ending
    <2> QED
      BY <2>2, <2>3, <2>8 DEF Marks
  <1>7. ASSUME NEW p \in Players, Save(p) \/ Quit(p) PROVE Marks'
    <2>1. PICK quit \in BOOLEAN : /\ snap' = [snap EXCEPT ![p] = SnapshotOf(p, quit)]
                                  /\ quit = (Quit(p) /\ ~Save(p))
      BY <1>7 DEF Save, Quit
    <2>2. /\ snap'[p].at = "writing" /\ snap'[p].quit = quit
          /\ snap'[p].takes = takes[p] /\ snap'[p].mark = mark[p]
          /\ snap'[p].retire = (p = Owner /\ retire /\ ~PendingLoot(Owner))
          /\ \A q \in Players \ {p} : snap'[q] = snap[q]
      <3>1. snap'[p] = SnapshotOf(p, quit) /\ \A q \in Players \ {p} : snap'[q] = snap[q]
        BY <1>0, <2>1
      <3> QED
        BY <3>1, SnapshotFits DEF Types
    <2>3. /\ p \in online /\ UNCHANGED <<corpse, mark, nextSeq, ops>>
      BY <1>7 DEF Save, Quit, worldVars, pendVars, writerVars
    <2>4. PendingLoot(Owner)' = PendingLoot(Owner)
      BY <2>3 DEF PendingLoot
    <2>5. CASE Save(p)
      <3>1. UNCHANGED <<online, retire, takes, purse>> /\ quit = FALSE
        BY <1>0, <2>1, <2>5 DEF Save, worldVars, pendVars
      <3>2. Mark(p)'
        BY <1>0, <1>s, <2>2, <2>3, <2>4, <3>1 DEF Mark, Marks, Out, Early, Ending
      <3>3. \A q \in Players \ {p} : Mark(q)'
        BY <1>s, <2>2, <2>3, <2>4, <3>1 DEF Mark, Out, Early, Ending
      <3> QED
        BY <2>3, <3>1, <3>2, <3>3 DEF Marks
    <2>6. CASE Quit(p) /\ ~Save(p)
      <3>1. /\ online' = online \ {p} /\ purse' = [purse EXCEPT ![p] = 0]
            /\ takes' = [takes EXCEPT ![p] = 0] /\ retire' = (retire /\ p # Owner)
        BY <1>0, <2>6 DEF Quit
      <3>2. quit = TRUE
        BY <2>1, <2>6
      <3>3. Mark(p)'
        BY <1>0, <1>s, <2>2, <2>3, <2>4, <3>1, <3>2 DEF Mark, Marks, Out, Early, Ending
      <3>4. ASSUME NEW q \in Players \ {p} PROVE Mark(q)'
        <4>1. /\ takes'[q] = takes[q] /\ purse'[q] = purse[q] /\ (q \in online' <=> q \in online)
              /\ snap'[q] = snap[q]
          BY <1>0, <2>2, <3>1
        <4>2. snap[q].retire => p # Owner
          BY <1>s DEF Mark
        <4> QED
          BY <1>s, <2>3, <2>4, <3>1, <4>1, <4>2 DEF Mark, Out, Early, Ending
      <3> QED
        BY <2>3, <3>1, <3>3, <3>4 DEF Marks
    <2> QED
      BY <1>7, <2>5, <2>6
  <1>8. ASSUME NEW p \in Players, Commit(p) PROVE Marks'
    <2>1. PICK new \in [Items -> 0 .. MaxRow] :
             snap' = [snap EXCEPT ![p].at = "committed", ![p].new = new]
      BY <1>8 DEF Commit
    <2>2. /\ \A q \in Players \ {p} : snap'[q] = snap[q]
          /\ snap'[p].at = "committed" /\ snap'[p].quit = snap[p].quit
          /\ snap'[p].takes = snap[p].takes /\ snap'[p].mark = snap[p].mark
          /\ snap'[p].retire = snap[p].retire
      BY <1>0, <2>1, SnapCommits
    <2>3. /\ UNCHANGED <<online, purse, corpse, retire, takes, mark, nextSeq, ops>>
          /\ snap[p].at = "writing"
      BY <1>8 DEF Commit, worldVars, pendVars, writerVars
    <2>4. \A q \in Players : Mark(q)'
      BY <1>s, <2>2, <2>3 DEF Mark, Out, Early, Ending, PendingLoot
    <2> QED
      BY <2>3, <2>4 DEF Marks
  <1>9. ASSUME NEW p \in Players, SaveFails(p), snap' # snap PROVE Marks'
    <2>1. /\ \A q \in Players \ {p} : snap'[q] = snap[q]
          /\ snap'[p] = NoSnap
      BY <1>0, <1>9 DEF SaveFails
    <2>2. /\ UNCHANGED <<online, purse, corpse, retire, takes, mark, nextSeq, ops>>
          /\ snap[p].at = "writing" /\ ~snap[p].quit
      BY <1>9 DEF SaveFails, worldVars, pendVars, writerVars
    <2>3. p \in online
      BY <2>2 DEF Death, Out
    <2>4. \A q \in Players \ {p} : Mark(q)'
      BY <1>s, <2>1, <2>2 DEF Mark, Out, Early, Ending, PendingLoot
    <2>5. Mark(p)'
      BY <1>0, <1>s, <2>1, <2>2, <2>3, SnapsFit DEF Mark, Out, Early, Ending, PendingLoot
    <2> QED
      BY <2>2, <2>4, <2>5 DEF Marks
  <1>10. ASSUME NEW p \in Players, ApplyCommit(p) PROVE Marks'
    <2>1. /\ \A q \in Players \ {p} : snap'[q] = snap[q]
          /\ snap'[p] = NoSnap
          /\ mark' = [mark EXCEPT ![p] = MarkAfter(p, snap[p])]
          /\ takes' = [takes EXCEPT ![p] = CoinsLeft(takes[p], snap[p].takes)]
          /\ retire' = (retire /\ ~snap[p].retire)
          /\ UNCHANGED <<online, purse, nextSeq>> /\ snap[p].at = "committed"
      BY <1>0, <1>10 DEF ApplyCommit, FoldedIn
    <2>2. /\ mark'[p] = MarkAfter(p, snap[p]) /\ takes'[p] = CoinsLeft(takes[p], snap[p].takes)
          /\ \A q \in Players \ {p} : mark'[q] = mark[q] /\ takes'[q] = takes[q]
      BY <1>0, <2>1
    <2>3. mark'[p] \in {mark[p], 0} /\ takes'[p] \in {takes[p], 0}
      BY <1>0, <2>2 DEF MarkAfter, CoinsLeft
    <2>4. snap[p].quit => mark'[p] = 0
      BY <1>s, <2>2 DEF Mark, MarkAfter
    <2>5. corpse' = corpse \/ (corpse = "unsettled" /\ corpse' = "settled")
      BY <1>10 DEF ApplyCommit, FoldedIn
    <2>6. Deletes(ops') => Deletes(ops)
      <3>1. ops' = ops \/ ops' = Append(ops, ItemsOp(removals))
        BY <1>10 DEF ApplyCommit, FoldedIn
      <3> QED
        BY <3>1, ItemsSent DEF Types, WorldTypes, DbTypes, Writer
    <2>7. (Early' => Early) /\ (Ending' => Ending) /\ (corpse = "gone" => corpse' = "gone")
      BY <2>5, <2>6 DEF Early, Ending
    <2>8. PendingLoot(Owner)' => PendingLoot(Owner)
      BY <2>2, <2>3 DEF PendingLoot
    <2>9. snap[p].quit = (p \notin online)
      BY <2>1 DEF Death, Out
    <2>10. \A q \in Players \ {p} : snap[q].retire => ~snap[p].retire
      BY <1>s DEF Mark
    <2>11. Mark(p)'
      BY <1>0, <1>s, <2>1, <2>3, <2>4, <2>7, <2>9, SnapsFit DEF Mark, Out
    <2>12. ASSUME NEW q \in Players \ {p} PROVE Mark(q)'
      <3>1. /\ snap'[q] = snap[q] /\ mark'[q] = mark[q] /\ takes'[q] = takes[q]
            /\ purse' = purse /\ online' = online /\ nextSeq' = nextSeq
        BY <2>1, <2>2
      <3>2. snap[q].retire => retire' = retire
        BY <2>1, <2>10, <1>0
      <3>3. Mark(q)
        BY <1>s
      <3> QED
        BY <2>7, <2>8, <3>1, <3>2, <3>3 DEF Mark, Out
    <2> QED
      BY <2>1, <2>6, <2>7, <2>11, <2>12 DEF Marks
  <1>12. ASSUME NEW p \in Players, GiveUp(p) PROVE Marks'
    <2>1. /\ \A q \in Players \ {p} : snap'[q] = snap[q] /\ mark'[q] = mark[q]
          /\ snap'[p] = NoSnap /\ mark'[p] = 0
          /\ UNCHANGED <<online, purse, retire, takes, nextSeq, ops>>
      BY <1>0, <1>12 DEF GiveUp, writerVars
    <2>2. p \notin online
      BY <1>12 DEF GiveUp, Death, Out
    <2>3. corpse' = corpse \/ (corpse = "unsettled" /\ corpse' = "stranded")
      BY <1>12 DEF GiveUp
    <2>4. (Early' <=> Early) /\ (Ending' <=> Ending) /\ (corpse' = "gone" <=> corpse = "gone")
      BY <2>1, <2>3 DEF Early, Ending
    <2>5. PendingLoot(Owner)' => PendingLoot(Owner)
      BY <2>1 DEF PendingLoot
    <2>6. \A q \in Players \ {p} : Mark(q)'
      BY <1>s, <2>1, <2>4, <2>5 DEF Mark, Out
    <2>7. Mark(p)'
      BY <1>0, <1>s, <2>1, <2>2, <2>4, SnapsFit DEF Mark, Out
    <2> QED
      BY <2>1, <2>4, <2>6, <2>7 DEF Marks
  <1>13. ASSUME NEW p \in Players, SaveFails(p), snap' = snap PROVE Marks'
    <2>1. UNCHANGED <<online, purse, corpse, retire, takes, mark, nextSeq, ops, snap>>
      BY <1>13 DEF SaveFails, worldVars, pendVars, writerVars
    <2> QED
      BY <1>s, <2>1 DEF Marks, Mark, Out, Early, Ending, PendingLoot
  <1>11. ASSUME NEW p \in Players, Login(p) PROVE Marks'
    <2>1. /\ p \notin online /\ snap[p].at = "none" /\ online' = online \cup {p}
          /\ purse' = [purse EXCEPT ![p] = dbPurse[p]]
          /\ UNCHANGED <<corpse, retire, takes, mark, nextSeq, snap, ops>>
      BY <1>11 DEF Login, pendVars, writerVars, Unsettled
    <2>2. \A q \in Players \ {p} : purse'[q] = purse[q]
      BY <1>0, <2>1
    <2>3. \A q \in Players : Mark(q)'
      BY <1>s, <2>1, <2>2 DEF Mark, Out, Early, Ending, PendingLoot
    <2> QED
      BY <2>1, <2>3 DEF Marks
  <1> QED
    BY <1>1, <1>2, <1>3, <1>4, <1>5, <1>6, <1>7, <1>8, <1>9, <1>10, <1>11, <1>12, <1>13 DEF Next, Quiet

-----------------------------------------------------------------------------
(* Coins.                                                                  *)

Life == Types /\ Death /\ Writer /\ Marks

\* The types the steps of the coins' proof use.
LEMMA CoinTypes ==
    ASSUME Life
    PROVE  /\ snap \in [Players -> Snaps] /\ dbPurse \in [Players -> 0 .. 1]
           /\ purse \in [Players -> 0 .. 1] /\ takes \in [Players -> 0 .. 1]
           /\ mark \in [Players -> 0 .. MaxSeq] /\ nextSeq \in 1 .. MaxSeq + 1
           /\ pile \in 0 .. 1 /\ dbCorpse \in -1 .. 1 /\ Stored \in 0 .. 1
           /\ pendingDeath \in BOOLEAN /\ retire \in BOOLEAN /\ spent \in BOOLEAN
           /\ forsaken \in BOOLEAN
           /\ corpse \in {"none", "unsettled", "settled", "deleting", "gone", "stranded"}
           /\ finished \in {"no", "Deleted", "DeleteFailed"}
           /\ \A p \in Players :
                 /\ dbPurse[p] \in 0 .. 1 /\ purse[p] \in 0 .. 1 /\ takes[p] \in 0 .. 1
                 /\ snap[p].takes \in 0 .. 1 /\ snap[p].purse \in 0 .. 1
                 /\ snap[p].pile \in 0 .. 1 /\ snap[p].quit \in BOOLEAN
                 /\ snap[p].death \in BOOLEAN /\ snap[p].retire \in BOOLEAN
                 /\ snap[p].mark \in 0 .. MaxSeq
                 /\ snap[p].at \in {"none", "writing", "committed"} /\ Due(p) \in -1 .. 1
  <1>1. snap \in [Players -> Snaps] /\ takes \in [Players -> 0 .. 1]
    BY DEF Life, Types, WorldTypes
  <1>2. \A p \in Players : /\ snap[p].takes \in 0 .. 1 /\ snap[p].purse \in 0 .. 1
                 /\ snap[p].pile \in 0 .. 1 /\ snap[p].quit \in BOOLEAN
                 /\ snap[p].death \in BOOLEAN /\ snap[p].retire \in BOOLEAN
                 /\ snap[p].mark \in 0 .. MaxSeq
                 /\ snap[p].at \in {"none", "writing", "committed"}
    BY <1>1 DEF Snaps
  <1>3. \A p \in Players : takes[p] \in 0 .. 1
    BY <1>1
  <1>4. \A p \in Players : Due(p) \in -1 .. 1
    BY <1>2, <1>3 DEF Due
  <1>5. dbCorpse \in -1 .. 1
    BY DEF Life, Types, DbTypes
  <1>6. Stored \in 0 .. 1
    BY <1>5 DEF Stored
  <1> QED
    BY <1>1, <1>2, <1>3, <1>4, <1>5, <1>6 DEF Life, Types, WorldTypes, DbTypes, HistTypes

\* What is owed, by where the snapshot of p is.
LEMMA DueCases ==
    ASSUME Life, NEW p \in Players
    PROVE  /\ ~Out(p) => Due(p) = takes[p]
           /\ Writing(p) /\ ~snap[p].quit => Due(p) = takes[p]
           /\ Writing(p) /\ snap[p].quit => Due(p) = snap[p].takes /\ takes[p] = 0
           /\ Committed(p) /\ ~snap[p].quit => Due(p) = takes[p] - snap[p].takes
           /\ Committed(p) /\ snap[p].quit => Due(p) = 0 /\ takes[p] = 0
           /\ Out(p) <=> Writing(p) \/ Committed(p)
           /\ ~(Writing(p) /\ Committed(p))
           /\ ~snap[p].quit => snap[p].takes <= takes[p]
           /\ Out(p) /\ snap[p].quit => p \notin online
           /\ ~Out(p) => snap[p] = NoSnap
  <1>1. Out(p) <=> Writing(p) \/ Committed(p)
    BY CoinTypes DEF Out, Writing, Committed
  <1>2. Out(p) /\ snap[p].quit => p \notin online
    BY DEF Life, Death
  <1>3. p \notin online => takes[p] = 0
    BY DEF Life, Marks, Mark
  <1>4. ~(Writing(p) /\ Committed(p)) /\ ~(~Out(p) /\ (Writing(p) \/ Committed(p)))
    BY DEF Writing, Committed, Out
  <1>5. ~snap[p].quit => snap[p].takes <= takes[p]
    BY DEF Life, Marks, Mark
  <1>6. ~Out(p) => snap[p] = NoSnap
    BY DEF Life, Death
  <1> QED
    BY <1>1, <1>2, <1>3, <1>4, <1>5, <1>6 DEF Due

\* No coin has left a corpse that has not settled.
LEMMA EarlyOwesNone == Life /\ Early => \A p \in Players : Due(p) = 0
  BY DueCases, CoinTypes DEF Life, Marks, Mark, Due

\* Nothing about coins changes.
LEMMA CoinsStill ==
    ASSUME Life, Life', Coins, Deletes(ops') => Deletes(ops),
           UNCHANGED <<snap, takes, purse, pile, dbPurse, dbCorpse, mark, corpse,
                       pendingDeath, online, finished, spent, forsaken>>
    PROVE  Coins'
  <1>1. \A p \in Players : Due(p)' = Due(p)
    BY DEF Due, Writing, Committed
  <1>2. Stored' = Stored /\ (Ending' => Ending)
    BY DEF Stored, Ending
  <1>3. \A p \in Players : Purse(p)'
    BY <1>1, <1>2 DEF Coins, Purse, Out, Writing, Committed, Returned
  <1>4. \A p, q \in Players : p # q => Apart(p, q)'
    BY <1>1 DEF Coins, Apart
  <1>5. Pile' /\ Kept'
    BY <1>1 DEF Coins, Pile, Kept, DueSome, Committed
  <1> QED
    BY <1>3, <1>4, <1>5 DEF Coins

\* The coins are Owner's at first.
LEMMA CoinsInit == Init /\ Life => Coins
  <1> SUFFICES ASSUME Init, Life PROVE Coins
    OBVIOUS
  <1>1. /\ corpse = "none" /\ pendingDeath = FALSE /\ pile = 0 /\ finished = "no" /\ spent = FALSE
        /\ forsaken = FALSE
        /\ purse = [p \in Players |-> IF p = Owner THEN 1 ELSE 0] /\ dbPurse = purse /\ dbCorpse = -1
        /\ snap = [p \in Players |-> NoSnap] /\ takes = [p \in Players |-> 0]
    BY DEF Init
  <1>2. \A p \in Players : snap[p] = NoSnap /\ ~Out(p) /\ Due(p) = 0 /\ dbPurse[p] = purse[p]
                           /\ dbPurse[p] = (IF p = Owner THEN 1 ELSE 0)
    BY <1>1, SnapsFit DEF Out, Due, Writing, Committed
  <1>3. Stored = 0 /\ ~Ending
    BY <1>1 DEF Stored, Ending, Life, Writer
  <1>4. \A p \in Players : Purse(p)
    BY <1>1, <1>2, <1>3, SnapsFit DEF Purse, Out, Writing, Committed
  <1>5. \A p, q \in Players : p # q => Apart(p, q)
    BY <1>2 DEF Apart
  <1>6. Pile /\ Kept
    BY <1>1, <1>2, CorpsesAssumption DEF Pile, Kept, Committed, Out
  <1> QED
    BY <1>4, <1>5, <1>6 DEF Coins

\* A death moves the coins of the purse to the pile.
LEMMA CoinsDie == Life /\ Life' /\ Coins /\ Die => Coins'
  <1> SUFFICES ASSUME Life, Life', Coins, Die PROVE Coins'
    OBVIOUS
  <1>1. /\ corpse = "none" /\ corpse' = "unsettled" /\ pendingDeath' = TRUE /\ Owner \in online
        /\ pile' = purse[Owner] /\ purse' = [purse EXCEPT ![Owner] = 0]
        /\ UNCHANGED <<snap, takes, dbPurse, dbCorpse, mark, online, finished, spent, forsaken, ops>>
    BY DEF Die, writerVars, dbVars, histVars
  <1>2. \A p \in Players : Due(p)' = 0 /\ Due(p) = 0
    BY <1>1, EarlyOwesNone DEF Early, Due, Writing, Committed
  <1>3. dbCorpse = -1 /\ Stored = 0 /\ Stored' = 0 /\ ~pendingDeath /\ ~snap[Owner].death
    BY <1>1 DEF Coins, Pile, Stored, Life, Death
  <1>4. purse[Owner] = dbPurse[Owner] /\ purse[Owner] \in 0 .. 1
    BY <1>1, <1>2, <1>3, CoinTypes, CorpsesAssumption DEF Coins, Purse
  <1>5. /\ purse'[Owner] = 0
        /\ \A p \in Players : p # Owner => purse'[p] = purse[p]
        /\ \A p \in Players : ~snap[p].death
    BY <1>1, <1>3, CoinTypes, CorpsesAssumption DEF Life, Death
  <1>6. ~Ending'
    BY <1>1 DEF Ending, Life, Writer
  <1>7. ASSUME NEW p \in Players PROVE Purse(p)'
    <2>1. Purse(p) /\ dbPurse[p] \in 0 .. 1
      BY CoinTypes DEF Coins
    <2>2. ~(Returned(p)') /\ ~Returned(p)
      BY <1>1 DEF Returned
    <2> QED
      BY <1>1, <1>2, <1>3, <1>4, <1>5, <1>6, <2>1, <2>2 DEF Purse, Out, Writing, Committed
  <1>8. \A p, q \in Players : p # q => Apart(p, q)'
    BY <1>1, <1>2 DEF Coins, Apart
  <1>9. Pile' /\ Kept'
    BY <1>1, <1>2, <1>3, <1>4, <1>5 DEF Coins, Pile, Kept, Committed
  <1> QED
    BY <1>7, <1>8, <1>9 DEF Coins

\* p takes c coins out of a settled corpse.
LEMMA CoinsTaken ==
    ASSUME Life, Life', Coins, NEW p \in Players, NEW c \in {0, pile},
           p \in online, corpse = "settled",
           purse' = [purse EXCEPT ![p] = @ + c], takes' = [takes EXCEPT ![p] = @ + c],
           pile' = pile - c,
           UNCHANGED <<snap, dbPurse, dbCorpse, online, finished, spent, forsaken, pendingDeath, ops>>,
           \/ mark' = [mark EXCEPT ![p] = nextSeq] /\ corpse' = "settled"
           \/ p = Owner /\ mark' = mark /\ corpse' = "gone" /\ c = pile
    PROVE  Coins'
  <1>0. ~pendingDeath /\ ~Ending /\ ~Ending' /\ finished = "no"
    BY DEF Life, Death, Writer, Ending
  <1>1. /\ takes'[p] = takes[p] + c /\ purse'[p] = purse[p] + c
        /\ \A q \in Players \ {p} : takes'[q] = takes[q] /\ purse'[q] = purse[q]
                                    /\ mark'[q] = mark[q]
    BY CoinTypes
  <1>2. ~(Writing(p) /\ snap[p].quit) /\ ~(Committed(p) /\ snap[p].quit)
    BY DueCases
  <1>3. Due(p)' = Due(p) + c /\ \A q \in Players \ {p} : Due(q)' = Due(q)
    BY <1>1, <1>2, CoinTypes DEF Due, Writing, Committed
  <1>4. Pile /\ Purse(p) /\ pile \in 0 .. 1 /\ Stored \in 0 .. 1 /\ dbCorpse \in -1 .. 1
        /\ Due(p) \in -1 .. 1 /\ dbPurse[p] \in 0 .. 1 /\ takes[p] \in 0 .. 1
        /\ snap[p].takes \in 0 .. 1
    BY CoinTypes DEF Coins
  <1>5. pile <= Stored /\ Stored' = Stored /\ c \in 0 .. 1 /\ c <= Stored
    BY <1>4 DEF Pile, Stored
  <1>6. \A q \in Players : ~snap[q].death /\ ~snap[q].retire
    <2>1. \A q \in Players : ~snap[q].death
      BY <1>0, CoinTypes, CorpsesAssumption DEF Life, Death
    <2> QED
      BY <2>1 DEF Life, Marks, Mark
  <1>7. c = 1 => Due(p) = 0 /\ \A q \in Players \ {p} : Due(q) = 0
    <2>1. ASSUME c = 1, NEW q \in Players PROVE Due(q) = 0
      <3>1. pile + Due(q) <= 1 /\ Due(q) \in 0 .. 1
        BY DEF Coins, Purse
      <3> QED
        BY <1>4, <2>1, <3>1
    <2> QED
      BY <2>1
  <1>8. Purse(p)'
    <2>1. Due(p) \in 0 .. 1 /\ Due(p) <= Stored /\ pile + Due(p) <= 1
          /\ dbPurse[p] + Stored <= 1 /\ purse[p] = dbPurse[p] + Due(p)
      BY <1>0, <1>4 DEF Purse
    <2>2. Due(p)' \in 0 .. 1 /\ Due(p)' <= Stored /\ pile' + Due(p)' <= 1
      BY <1>3, <1>4, <1>5, <1>7, <2>1
    <2>3. purse'[p] = dbPurse[p] + Due(p)'
      BY <1>1, <1>3, <1>4, <1>5, <2>1
    <2>4. Due(p)' # 0 /\ ~Returned(p)' => mark'[p] # 0
      BY <1>4, CoinTypes DEF Returned
    <2>5. ~Returned(p)' => snap[p].mark # mark'[p]
      BY CoinTypes DEF Returned, Life, Marks, Mark
    <2>6. Writing(p) => snap[p].purse = dbPurse[p] + snap[p].takes
      BY <1>4, <1>6 DEF Purse
    <2>7. Committed(p) => dbPurse[p] = snap[p].purse /\ snap[p].takes <= snap[p].purse
      BY <1>4 DEF Purse
    <2> QED
      BY <1>0, <1>5, <1>6, <2>1, <2>2, <2>3, <2>4, <2>5, <2>6, <2>7 DEF Purse, Out, Writing, Committed
  <1>9. ASSUME NEW q \in Players \ {p} PROVE Purse(q)'
    <2>1. Purse(q) /\ Due(q) \in 0 .. 1
      BY DEF Coins, Purse
    <2>2. pile' + Due(q)' <= 1
      BY <1>3, <1>4, <2>1 DEF Purse
    <2>3. ~Returned(q)' => ~Returned(q)
      BY DEF Returned
    <2> QED
      BY <1>0, <1>1, <1>3, <1>5, <1>6, <2>1, <2>2, <2>3 DEF Purse, Out, Writing, Committed
  <1>10. ASSUME NEW q \in Players, NEW r \in Players, q # r PROVE Apart(q, r)'
    <2>1. Apart(q, r) /\ Due(q) \in 0 .. 1 /\ Due(r) \in 0 .. 1
      BY <1>10 DEF Coins, Purse
    <2> QED
      BY <1>3, <1>4, <1>5, <1>7, <1>10, <2>1 DEF Apart
  <1>11. Pile'
    BY <1>0, <1>4, <1>5 DEF Pile
  <1>12. DueSome => DueSome'
    BY <1>3, <1>4, <1>5, <1>7 DEF DueSome
  <1>13. c = 1 => DueSome'
    BY <1>3, <1>7 DEF DueSome
  <1>14. Kept'
    BY <1>4, <1>12, <1>13 DEF Coins, Kept
  <1> QED
    BY <1>8, <1>9, <1>10, <1>11, <1>14 DEF Coins

\* A looter's purse gains what the pile loses, and the looter owes it.
LEMMA CoinsLoot == ASSUME Life, Life', Coins, NEW p \in Players, Loot(p) PROVE Coins'
  <1>1. PICK c \in {0, pile} :
            /\ purse' = [purse EXCEPT ![p] = @ + c]
            /\ pile' = pile - c
            /\ takes' = [takes EXCEPT ![p] = @ + c]
    BY DEF Loot
  <1>2. /\ p \in online /\ corpse = "settled" /\ mark' = [mark EXCEPT ![p] = nextSeq]
        /\ corpse' = "settled"
        /\ UNCHANGED <<snap, dbPurse, dbCorpse, online, finished, spent, forsaken, pendingDeath, ops>>
    BY DEF Loot, writerVars, dbVars, histVars
  <1> QED
    BY <1>1, <1>2, CoinsTaken

\* So does the purse of one who comes back.
LEMMA CoinsResurrect == Life /\ Life' /\ Coins /\ Resurrect => Coins'
  <1> SUFFICES ASSUME Life, Life', Coins, Resurrect PROVE Coins'
    OBVIOUS
  <1>1. /\ Owner \in online /\ UNCHANGED <<snap, mark, dbPurse, dbCorpse, online, finished, spent, forsaken,
                                           pendingDeath, ops>>
    BY DEF Resurrect, writerVars, dbVars, histVars
  <1>2. CASE corpse = "settled"
    <2>1. /\ purse' = [purse EXCEPT ![Owner] = @ + pile]
          /\ takes' = [takes EXCEPT ![Owner] = @ + pile]
          /\ pile' = 0 /\ corpse' = "gone"
      BY <1>2 DEF Resurrect
    <2>2. pile' = pile - pile
      BY <2>1, CoinTypes
    <2> QED
      BY <1>1, <1>2, <2>1, <2>2, CoinsTaken, CorpsesAssumption
  <1>3. CASE corpse # "settled"
    <2>1. UNCHANGED <<purse, pile, takes, corpse>>
      BY <1>3 DEF Resurrect
    <2> QED
      BY <1>1, <2>1, CoinsStill
  <1> QED
    BY <1>2, <1>3

\* The corpse is purged, or its decay begins: nobody owes it.
LEMMA CoinsEnd == Life /\ Life' /\ Coins /\ (Purge \/ DecayBegins) => Coins'
  <1> SUFFICES ASSUME Life, Life', Coins, Purge \/ DecayBegins PROVE Coins'
    OBVIOUS
  <1>1. /\ corpse = "settled" /\ ~PendingLoot("nobody") /\ spent' = (spent \/ pile > 0)
        /\ \/ corpse' = "gone" /\ pile' = 0
           \/ corpse' = "deleting" /\ pile' = pile
        /\ UNCHANGED <<snap, mark, dbPurse, dbCorpse, online, finished, purse, takes, pendingDeath,
                       forsaken>>
    BY DEF Purge, DecayBegins, pendVars, dbVars
  <1>2. finished = "no" /\ ~pendingDeath
    BY <1>1 DEF Life, Writer, Death
  <1>s. (spent' <=> spent \/ pile = 1) /\ pile \in 0 .. 1 /\ dbCorpse \in -1 .. 1
    <2>1. pile \in 0 .. 1 /\ dbCorpse \in -1 .. 1 /\ spent \in BOOLEAN
      BY CoinTypes
    <2>2. pile > 0 <=> pile = 1
      BY <2>1
    <2>3. spent' <=> spent \/ pile > 0
      BY <1>1
    <2> QED
      BY <2>1, <2>2, <2>3
  <1>3. \A p \in Players : ~snap[p].death /\ ~snap[p].retire
    <2>1. \A q \in Players : ~snap[q].death
      BY <1>1, <1>2, CoinTypes, CorpsesAssumption DEF Life, Death
    <2> QED
      BY <1>1, <2>1 DEF Life, Marks, Mark
  <1>4. \A p \in Players : Due(p) = 0 /\ Due(p)' = 0
    <2>1. \A p \in Players : mark[p] = 0
      BY <1>1, CorpsesAssumption DEF PendingLoot
    <2>2. \A p \in Players : Due(p)' = Due(p)
      BY <1>1 DEF Due, Writing, Committed
    <2> QED
      BY <1>1, <2>1, <2>2 DEF Coins, Purse, Returned
  <1>5. Stored' = Stored
    BY <1>1 DEF Stored
  <1>6. ASSUME NEW p \in Players PROVE Purse(p)'
    <2>1. Purse(p)
      BY DEF Coins
    <2>2. pile' \in 0 .. 1 /\ (Returned(p) => Returned(p)') /\ ~Returned(p)
      BY <1>1, CoinTypes DEF Returned
    <2> QED
      BY <1>1, <1>2, <1>3, <1>4, <1>5, <2>1, <2>2 DEF Purse, Out, Writing, Committed
  <1>7. \A p, q \in Players : p # q => Apart(p, q)'
    BY <1>1, <1>4 DEF Coins, Apart
  <1>8. Pile'
    <2>1. Pile
      BY DEF Coins
    <2>2. CASE corpse' = "gone"
      BY <1>1, <1>2, <2>2 DEF Pile
    <2>3. CASE corpse' = "deleting"
      BY <1>1, <1>2, <1>s, <2>1, <2>3 DEF Pile
    <2> QED
      BY <1>1, <2>2, <2>3
  <1>9. ~DueSome
    BY <1>4 DEF DueSome
  <1>10. Kept'
    <2>1. Kept
      BY DEF Coins
    <2>2. dbCorpse = 1 => pile = 1 \/ forsaken
      BY <1>1, <1>9, <2>1 DEF Kept
    <2>3. ~spent' /\ ~forsaken' => dbCorpse' = 1 \/ \E p \in Players : dbPurse'[p] = 1
      BY <1>1, <1>s, <2>1 DEF Kept
    <2> QED
      BY <1>1, <1>s, <2>2, <2>3 DEF Kept
  <1> QED
    BY <1>6, <1>7, <1>8, <1>10 DEF Coins

\* What DbCoins = 0 says.
LEMMA NoCoins ==
    ASSUME Life, DbCoins # 0
    PROVE  dbCorpse = 1 \/ \E p \in Players : dbPurse[p] = 1
  <1> SUFFICES ASSUME dbCorpse # 1, \A p \in Players : dbPurse[p] # 1 PROVE FALSE
    OBVIOUS
  <1>1. {p \in Players : dbPurse[p] > 0} = {}
    BY CoinTypes
  <1>2. Cardinality({p \in Players : dbPurse[p] > 0}) = 0
    BY <1>1, FS_EmptySet
  <1>3. ~(dbCorpse > 0)
    BY CoinTypes
  <1> QED
    BY <1>2, <1>3 DEF DbCoins

\* Coins of a corpse that decays are spent.
LEMMA CoinsTakeDecayed == Life /\ Life' /\ Coins /\ TakeDecayed => Coins'
  <1> SUFFICES ASSUME Life, Life', Coins, TakeDecayed PROVE Coins'
    OBVIOUS
  <1>1. /\ corpse = "deleting" /\ finished # "no" /\ ~pendingDeath /\ ~Deletes(ops) /\ finished' = "no"
        /\ UNCHANGED <<snap, mark, dbPurse, dbCorpse, online, purse, takes, pendingDeath, ops,
                       forsaken>>
    BY DEF TakeDecayed, Life, Writer, Death, pendVars, dbVars
  <1>2. IF finished = "Deleted" THEN corpse' = "gone" /\ pile' = 0 /\ spent' = spent
        ELSE corpse' = "settled" /\ pile' = pile /\ spent' = (DbCoins = 0)
    BY DEF TakeDecayed
  <1>3. \A p \in Players : ~snap[p].death /\ ~snap[p].retire
    <2>1. \A q \in Players : ~snap[q].death
      BY <1>1, CoinTypes, CorpsesAssumption DEF Life, Death
    <2> QED
      BY <1>1, <2>1 DEF Life, Marks, Mark
  <1>4. \A p \in Players : Due(p) = 0 /\ Due(p)' = 0
    <2>2. \A p \in Players : Due(p)' = Due(p)
      BY <1>1 DEF Due, Writing, Committed
    <2> QED
      BY <1>1, <2>2 DEF Coins, Purse, Ending
  <1>5. Stored' = Stored /\ ~Ending'
    BY <1>1, <1>2 DEF Stored, Ending
  <1>6. ASSUME NEW p \in Players PROVE Purse(p)'
    <2>1. Purse(p)
      BY DEF Coins
    <2>2. pile' \in 0 .. 1 /\ ~Returned(p)
      BY <1>1, <1>2, CoinTypes DEF Returned
    <2> QED
      BY <1>1, <1>3, <1>4, <1>5, <2>1, <2>2 DEF Purse, Out, Writing, Committed
  <1>7. \A p, q \in Players : p # q => Apart(p, q)'
    BY <1>1, <1>4 DEF Coins, Apart
  <1>8. Pile'
    BY <1>1, <1>2, CoinTypes DEF Coins, Pile
  <1>9. ~DueSome /\ ~DueSome'
    BY <1>4 DEF DueSome
  <1>10. Kept'
    <2>1. CASE finished = "Deleted"
      <3>1. dbCorpse = -1
        BY <2>1 DEF Coins, Pile
      <3> QED
        BY <1>1, <1>2, <2>1, <3>1, CoinTypes DEF Coins, Kept
    <2>2. CASE finished # "Deleted"
      <3>1. ~spent' /\ ~forsaken' => dbCorpse = 1 \/ \E p \in Players : dbPurse[p] = 1
        BY <1>2, <2>2, NoCoins
      <3> QED
        BY <1>1, <1>2, <1>9, <2>2, <3>1, CoinTypes DEF Coins, Kept
    <2> QED
      BY <2>1, <2>2
  <1> QED
    BY <1>6, <1>7, <1>8, <1>10 DEF Coins

\* A deletion takes the row's coins when nobody owes any.
LEMMA CoinsOp == Life /\ Life' /\ Coins /\ (OpDone \/ OpFails) => Coins'
  <1> SUFFICES ASSUME Life, Life', Coins, OpDone \/ OpFails PROVE Coins'
    OBVIOUS
  <1>1. /\ ops # <<>> /\ ops' = Tail(ops)
        /\ UNCHANGED <<snap, takes, purse, pile, dbPurse, mark, corpse, pendingDeath, online, spent, forsaken>>
    BY DEF OpDone, OpFails, worldVars, pendVars, histVars, dbVars
  <1>2. /\ Head(ops) \in Ops
        /\ Head(ops).op = "Delete" => Deletes(ops) /\ ~Deletes(ops')
        /\ Head(ops).op # "Delete" => ~Head(ops).waiting
        /\ Deletes(ops') => Deletes(ops)
        /\ \A w : Waits(ops, w) => (Head(ops).op = "Delete" => Head(ops).waiting = w)
    BY <1>1, OpTaken DEF Life, Types, DbTypes, Writer
  <1>3. \A p \in Players : Due(p)' = Due(p)
    BY <1>1 DEF Due, Writing, Committed
  <1>4. Ending' => Ending
    BY <1>1, <1>2 DEF Ending
  <1>5. Pile /\ Kept
    BY DEF Coins
  <1>6. CASE OpDone /\ Head(ops).op = "Delete"
    <2>1. dbCorpse' = -1 /\ finished' = (IF Head(ops).waiting THEN "Deleted" ELSE finished)
      BY <1>6 DEF OpDone
    <2>2. /\ corpse \in {"deleting", "gone"} /\ Head(ops).waiting = (corpse = "deleting")
          /\ Ending /\ finished = "no" /\ ~pendingDeath
      BY <1>2, <1>6 DEF Life, Writer, Death, Ending
    <2>3. \A p \in Players : Due(p) = 0
      BY <2>2 DEF Coins, Purse
    <2>4. ~DueSome
      BY <2>3 DEF DueSome
    <2>5. Stored' = 0
      BY <2>1 DEF Stored
    <2>6. ASSUME NEW p \in Players PROVE Purse(p)'
      <3>1. Purse(p) /\ dbPurse[p] \in 0 .. 1 /\ pile \in 0 .. 1
        BY CoinTypes DEF Coins
      <3> QED
        BY <1>1, <1>3, <2>2, <2>3, <2>5, <3>1 DEF Purse, Out, Writing, Committed, Returned
    <2>7. \A p, q \in Players : p # q => Apart(p, q)'
      BY <1>1, <1>3 DEF Coins, Apart
    <2>8. Pile'
      BY <1>1, <1>5, <2>1, <2>2 DEF Pile
    <2>9. dbCorpse = 1 => spent \/ forsaken
      <3>1. CASE corpse = "gone"
        BY <1>5, <2>4, <3>1 DEF Kept
      <3>2. CASE corpse = "deleting"
        BY <1>5, <2>4, <3>2 DEF Kept, Pile
      <3> QED
        BY <2>2, <3>1, <3>2
    <2>10. Kept'
      BY <1>1, <1>5, <2>1, <2>9 DEF Kept
    <2> QED
      BY <2>6, <2>7, <2>8, <2>10 DEF Coins
  <1>7. CASE OpDone /\ Head(ops).op # "Delete"
    <2>1. dbCorpse' = dbCorpse /\ finished' = finished
      BY <1>7 DEF OpDone
    <2> QED
      BY <1>1, <1>2, <2>1, CoinsStill
  <1>8. CASE OpFails
    <2>1. dbCorpse' = dbCorpse /\ finished' = IF Head(ops).waiting THEN "DeleteFailed" ELSE finished
      BY <1>8 DEF OpFails, dbVars
    <2>2. CASE Head(ops).waiting
      <3>1. corpse = "deleting" /\ finished = "no" /\ finished' = "DeleteFailed"
        <4>1. Head(ops).op = "Delete"
          BY <1>2, <2>2
        <4> QED
          BY <1>2, <2>1, <2>2, <4>1 DEF Life, Writer
      <3>2. \A p \in Players : Purse(p)'
        BY <1>1, <1>3, <1>4, <2>1 DEF Coins, Purse, Out, Writing, Committed, Returned, Stored
      <3>3. \A p, q \in Players : p # q => Apart(p, q)'
        BY <1>1, <1>3 DEF Coins, Apart
      <3>4. Pile' /\ Kept'
        BY <1>1, <1>3, <1>5, <2>1, <3>1 DEF Pile, Kept, DueSome
      <3> QED
        BY <3>2, <3>3, <3>4 DEF Coins
    <2>3. CASE ~Head(ops).waiting
      BY <1>1, <1>2, <2>1, <2>3, CoinsStill
    <2> QED
      BY <2>2, <2>3
  <1> QED
    BY <1>6, <1>7, <1>8

\* A crash forgets the pile and what was owed; the rows still hold the coins once.
LEMMA CoinsCrash == Life /\ Life' /\ Coins /\ Crash => Coins'
  <1> SUFFICES ASSUME Life, Life', Coins, Crash PROVE Coins'
    OBVIOUS
  <1>1. /\ online' = {} /\ pendingDeath' = FALSE /\ finished' = "no" /\ ops' = <<>>
        /\ corpse' = (IF dbCorpse < 0 THEN "none" ELSE "settled")
        /\ pile' = (IF dbCorpse < 0 THEN 0 ELSE dbCorpse)
        /\ spent' = (DbCoins = 0) /\ forsaken' = FALSE
        /\ UNCHANGED <<dbPurse, dbCorpse>>
        /\ \A p \in Players : takes'[p] = 0 /\ mark'[p] = 0 /\ purse'[p] = 0 /\ snap'[p] = NoSnap
    BY DEF Crash, dbVars
  <1>2. \A p \in Players : Due(p)' = 0 /\ ~Out(p)' /\ ~Writing(p)' /\ ~Committed(p)'
    BY <1>1, SnapsFit DEF Due, Out, Writing, Committed
  <1>3. dbCorpse \in -1 .. 1 /\ Stored' = Stored
    BY <1>1, CoinTypes DEF Stored
  <1>4. ~Ending'
    <2>1. corpse' # "deleting" /\ corpse' # "gone"
      BY <1>1
    <2> QED
      BY <2>1 DEF Ending, Life, Writer
  <1>5. ASSUME NEW p \in Players PROVE Purse(p)'
    <2>1. dbPurse[p] + Stored <= 1
      BY DEF Coins, Purse
    <2>2. Stored \in 0 .. 1 /\ pile' \in 0 .. 1
      BY <1>1, <1>3, CoinTypes
    <2> QED
      BY <1>1, <1>2, <1>3, <1>4, <2>1, <2>2, SnapsFit DEF Purse
  <1>6. \A p, q \in Players : p # q => Apart(p, q)'
    BY <1>1, <1>2 DEF Coins, Apart
  <1>7. Pile'
    BY <1>1, <1>3 DEF Pile
  <1>8. Kept'
    <2>1. ~spent' /\ ~forsaken' => dbCorpse = 1 \/ \E p \in Players : dbPurse[p] = 1
      BY <1>1, NoCoins
    <2> QED
      BY <1>1, <1>3, <2>1 DEF Kept
  <1> QED
    BY <1>5, <1>6, <1>7, <1>8 DEF Coins

\* A snapshot takes what the character owes with it.
LEMMA CoinsSave == ASSUME Life, Life', Coins, NEW p \in Players, Save(p) \/ Quit(p) PROVE Coins'
  <1>1. PICK quit \in BOOLEAN : /\ snap' = [snap EXCEPT ![p] = SnapshotOf(p, quit)]
                                /\ quit = (Quit(p) /\ ~Save(p))
    BY DEF Save, Quit
  <1>2. snap'[p] = SnapshotOf(p, quit) /\ \A q \in Players \ {p} : snap'[q] = snap[q]
    BY <1>1, CoinTypes
  <1>3. /\ snap'[p].at = "writing" /\ snap'[p].quit = quit
        /\ snap'[p].death = (p = Owner /\ pendingDeath)
        /\ snap'[p].purse = purse[p]
        /\ snap'[p].pile = (IF p = Owner /\ pendingDeath THEN pile ELSE 0)
        /\ snap'[p].takes = takes[p] /\ snap'[p].mark = mark[p]
        /\ snap'[p].retire = (p = Owner /\ retire /\ ~PendingLoot(Owner))
    BY <1>2, SnapshotFits DEF Life, Types
  <1>4. /\ p \in online /\ ~Committed(p)
        /\ UNCHANGED <<pile, corpse, mark, dbPurse, dbCorpse, finished, ops, spent, forsaken>>
    BY DEF Save, Quit, worldVars, pendVars, writerVars, dbVars, histVars, Unsettled, Committed
  <1>5. /\ (Save(p) /\ quit = FALSE /\ UNCHANGED <<online, purse, takes, pendingDeath>>)
           \/ /\ quit = TRUE /\ online' = online \ {p} /\ purse' = [purse EXCEPT ![p] = 0]
              /\ takes' = [takes EXCEPT ![p] = 0]
              /\ pendingDeath' = (pendingDeath /\ p # Owner)
    <2>1. CASE Save(p)
      BY <1>1, <2>1, CoinTypes DEF Save, worldVars, pendVars
    <2>2. CASE Quit(p) /\ ~Save(p)
      BY <1>1, <2>2, CoinTypes DEF Quit
    <2> QED
      BY <2>1, <2>2
  <1>6. \A q \in Players \ {p} : /\ takes'[q] = takes[q] /\ purse'[q] = purse[q]
                                 /\ q \in online' <=> q \in online
                                 /\ q = Owner => pendingDeath' = pendingDeath
    BY <1>5, CoinTypes
  <1>7. Due(p) = takes[p]
    BY <1>4, DueCases, SnapsFit
  <1>8. \A q \in Players : Due(q)' = Due(q)
    <2>1. Due(p)' = Due(p)
      BY <1>3, <1>5, <1>7 DEF Due, Writing, Committed
    <2>2. \A q \in Players \ {p} : Due(q)' = Due(q)
      BY <1>2, <1>6 DEF Due, Writing, Committed
    <2> QED
      BY <2>1, <2>2
  <1>9. Stored' = Stored /\ (Ending' = Ending) /\ \A q \in Players : Returned(q)' = Returned(q)
    BY <1>4 DEF Stored, Ending, Returned
  <1>10. Purse(p)'
    <2>1. Purse(p) /\ Pile
      BY DEF Coins
    <2>2. p \in online' => quit = FALSE /\ UNCHANGED <<purse, takes, pendingDeath>>
      BY <1>5
    <2>3. p = Owner /\ pendingDeath => purse[p] = 0
      BY <2>1 DEF Pile
    <2>4. snap'[p].death => snap'[p].purse = 0 /\ snap'[p].pile = pile'
      BY <1>3, <1>4, <2>3
    <2>5. ~snap'[p].death => snap'[p].purse = dbPurse[p] + snap'[p].takes
      BY <1>3, <1>4, <1>7, <2>1 DEF Purse
    <2>6. ~quit => takes'[p] = snap'[p].takes
      BY <1>3, <1>5
    <2> QED
      BY <1>3, <1>4, <1>8, <1>9, <2>1, <2>2, <2>4, <2>5, <2>6 DEF Purse, Out, Writing, Committed
  <1>11. ASSUME NEW q \in Players \ {p} PROVE Purse(q)'
    <2>1. Purse(q)
      BY DEF Coins
    <2> QED
      BY <1>2, <1>4, <1>6, <1>8, <1>9, <2>1 DEF Purse, Out, Writing, Committed
  <1>12. \A q, r \in Players : q # r => Apart(q, r)'
    BY <1>4, <1>8 DEF Coins, Apart
  <1>13. Pile'
    <2>1. Pile
      BY DEF Coins
    <2>2. (Committed(Owner) /\ snap[Owner].death)' <=> Committed(Owner) /\ snap[Owner].death
      <3>1. CASE p = Owner
        BY <1>3, <1>4, <3>1 DEF Committed
      <3>2. CASE p # Owner
        BY <1>2, <3>2, CorpsesAssumption DEF Committed
      <3> QED
        BY <3>1, <3>2
    <2>3. pendingDeath' => pendingDeath /\ purse'[Owner] = purse[Owner]
      <3>1. CASE p = Owner
        BY <1>5, <3>1
      <3>2. CASE p # Owner
        BY <1>6, <3>2, CorpsesAssumption
      <3> QED
        BY <3>1, <3>2
    <2> QED
      BY <1>4, <2>1, <2>2, <2>3 DEF Pile
  <1>14. Kept'
    BY <1>4, <1>8 DEF Coins, Kept, DueSome
  <1> QED
    BY <1>10, <1>11, <1>12, <1>13, <1>14 DEF Coins

\* A save that fails changes no row.
LEMMA CoinsSaveFails == ASSUME Life, Life', Coins, NEW p \in Players, SaveFails(p), snap' # snap
                        PROVE  Coins'
  <1>1. /\ Writing(p) /\ ~snap[p].quit /\ snap' = [snap EXCEPT ![p] = NoSnap]
        /\ UNCHANGED <<takes, purse, pile, dbPurse, dbCorpse, mark, corpse, pendingDeath, online,
                       finished, spent, forsaken, ops>>
    BY DEF SaveFails, Writing, worldVars, pendVars, writerVars, dbVars, histVars
  <1>2. snap'[p] = NoSnap /\ \A q \in Players \ {p} : snap'[q] = snap[q]
    BY <1>1, CoinTypes
  <1>3. \A q \in Players : Due(q)' = Due(q)
    BY <1>1, <1>2, SnapsFit, DueCases DEF Due, Writing, Committed
  <1>4. Stored' = Stored /\ (Ending' = Ending) /\ \A q \in Players : Returned(q)' = Returned(q)
    BY <1>1 DEF Stored, Ending, Returned
  <1>5. \A q \in Players : Purse(q)'
    <2>1. Purse(p)'
      BY <1>1, <1>2, <1>3, <1>4, SnapsFit DEF Coins, Purse, Out, Writing, Committed
    <2>2. ASSUME NEW q \in Players \ {p} PROVE Purse(q)'
      <3>1. Purse(q)
        BY DEF Coins
      <3> QED
        BY <1>1, <1>2, <1>3, <1>4, <3>1 DEF Purse, Out, Writing, Committed
    <2> QED
      BY <2>1, <2>2
  <1>6. \A q, r \in Players : q # r => Apart(q, r)'
    BY <1>1, <1>3 DEF Coins, Apart
  <1>7. Pile' /\ Kept'
    <2>1. (Committed(Owner) /\ snap[Owner].death)' <=> Committed(Owner) /\ snap[Owner].death
      BY <1>1, <1>2, SnapsFit, CorpsesAssumption DEF Committed, Writing
    <2> QED
      BY <1>1, <1>3, <2>1 DEF Coins, Pile, Kept, DueSome
  <1> QED
    BY <1>5, <1>6, <1>7 DEF Coins

\* A login loads the purse that was saved, and owes nothing.
LEMMA CoinsLogin == ASSUME Life, Life', Coins, NEW p \in Players, Login(p) PROVE Coins'
  <1>1. /\ p \notin online /\ ~Out(p) /\ online' = online \cup {p}
        /\ purse' = [purse EXCEPT ![p] = dbPurse[p]]
        /\ UNCHANGED <<snap, takes, pile, dbPurse, dbCorpse, mark, corpse, pendingDeath,
                       finished, spent, forsaken, ops>>
    BY DEF Login, Unsettled, Out, pendVars, writerVars, dbVars, histVars
  <1>2. purse'[p] = dbPurse[p] /\ \A q \in Players \ {p} : purse'[q] = purse[q]
    BY <1>1, CoinTypes
  <1>3. \A q \in Players : Due(q)' = Due(q)
    BY <1>1 DEF Due, Writing, Committed
  <1>4. Stored' = Stored /\ (Ending' = Ending) /\ \A q \in Players : Returned(q)' = Returned(q)
    BY <1>1 DEF Stored, Ending, Returned
  <1>5. Due(p) = 0 /\ dbPurse[p] \in 0 .. 1
    BY <1>1, DueCases, CoinTypes DEF Life, Marks, Mark
  <1>6. \A q \in Players : Purse(q)'
    <2>1. Purse(p)'
      BY <1>1, <1>2, <1>3, <1>4, <1>5 DEF Coins, Purse, Out, Writing, Committed
    <2>2. ASSUME NEW q \in Players \ {p} PROVE Purse(q)'
      <3>1. Purse(q) /\ purse'[q] = purse[q] /\ (q \in online' <=> q \in online)
        BY <1>1, <1>2 DEF Coins
      <3> QED
        BY <1>1, <1>3, <1>4, <3>1 DEF Purse, Out, Writing, Committed
    <2> QED
      BY <2>1, <2>2
  <1>7. \A q, r \in Players : q # r => Apart(q, r)'
    BY <1>1, <1>3 DEF Coins, Apart
  <1>8. Pile' /\ Kept'
    <2>1. pendingDeath => p # Owner
      BY <1>1 DEF Life, Death
    <2>2. pendingDeath => purse'[Owner] = purse[Owner]
      BY <1>2, <2>1, CorpsesAssumption
    <2> QED
      BY <1>1, <1>3, <2>2 DEF Coins, Pile, Kept, DueSome, Committed
  <1> QED
    BY <1>6, <1>7, <1>8 DEF Coins

\* Coins of a commit: the debit of the corpse matches the credit of the purse.
LEMMA CoinsCommit == ASSUME Life, Life', Coins, NEW p \in Players, Commit(p) PROVE Coins'
  <1> DEFINE s == snap[p]
  <1>1. PICK new \in [Items -> 0 .. MaxRow] :
             Written(p, s, new) /\ snap' = [snap EXCEPT ![p].at = "committed", ![p].new = new]
    BY DEF Commit
  <1>2. /\ \A q \in Players \ {p} : snap'[q] = snap[q]
        /\ snap'[p].at = "committed" /\ snap'[p].quit = s.quit
        /\ snap'[p].takes = s.takes /\ snap'[p].mark = s.mark /\ snap'[p].death = s.death
        /\ snap'[p].purse = s.purse /\ snap'[p].retire = s.retire /\ snap'[p].pile = s.pile
    BY <1>1, SnapCommits, CoinTypes
  <1>3. /\ Writing(p) /\ dbPurse' = [dbPurse EXCEPT ![p] = s.purse]
        /\ dbCorpse' = IF s.retire THEN -1
                       ELSE IF (IF s.death THEN s.pile ELSE dbCorpse) < 0
                            THEN (IF s.death THEN s.pile ELSE dbCorpse)
                            ELSE CoinsLeft(IF s.death THEN s.pile ELSE dbCorpse, s.takes)
        /\ UNCHANGED <<takes, purse, pile, mark, corpse, pendingDeath, online, finished, spent, forsaken, ops>>
    BY <1>1 DEF Commit, Written, worldVars, pendVars, writerVars, Writing
  <1>4. /\ s.takes \in 0 .. 1 /\ s.purse \in 0 .. 1 /\ s.pile \in 0 .. 1 /\ dbCorpse \in -1 .. 1
        /\ pile \in 0 .. 1 /\ dbPurse[p] \in 0 .. 1 /\ takes[p] \in 0 .. 1
        /\ s.quit \in BOOLEAN /\ s.death \in BOOLEAN /\ s.retire \in BOOLEAN /\ Stored \in 0 .. 1
    BY CoinTypes
  <1>5. dbPurse'[p] = s.purse /\ \A q \in Players \ {p} : dbPurse'[q] = dbPurse[q]
    BY <1>3, CoinTypes
  <1>6. Purse(p) /\ Pile /\ Kept /\ Due(p) \in 0 .. 1 /\ Due(p) <= Stored
    BY DEF Coins, Purse
  <1>7. Due(p)' = Due(p) - s.takes /\ s.takes <= Due(p)
        /\ \A q \in Players \ {p} : Due(q)' = Due(q)
    <2>1. \A q \in Players \ {p} : Due(q)' = Due(q)
      BY <1>2, <1>3 DEF Due, Writing, Committed
    <2>2. CASE s.quit
      <3>1. Due(p) = s.takes /\ takes[p] = 0
        BY <1>3, <2>2, DueCases
      <3>2. Due(p)' = 0
        BY <1>2, <1>3, <2>2, <3>1 DEF Due, Writing, Committed
      <3> QED
        BY <1>4, <2>1, <3>1, <3>2
    <2>3. CASE ~s.quit
      <3>1. Due(p) = takes[p] /\ s.takes <= takes[p]
        BY <1>3, <2>3, DueCases
      <3>2. Due(p)' = takes[p] - s.takes
        BY <1>2, <1>3, <2>3 DEF Due, Writing, Committed
      <3> QED
        BY <1>4, <2>1, <3>1, <3>2
    <2> QED
      BY <2>2, <2>3
  <1>8. \A q \in Players : Returned(q)' = Returned(q)
    BY <1>3 DEF Returned
  <1>9. (Ending' = Ending)
    BY <1>3 DEF Ending
  <1>10. CASE s.death
    <2>1. p = Owner /\ corpse = "unsettled" /\ s.takes = 0 /\ ~s.retire /\ ~Committed(p)
      BY <1>3, <1>10 DEF Life, Death, Marks, Mark, Early, Writing, Committed
    <2>2. s.purse = 0 /\ s.pile = pile /\ dbPurse[p] = pile /\ dbCorpse = -1
      BY <1>6, <1>10, <2>1 DEF Purse, Pile
    <2>3. dbCorpse' = pile
      BY <1>3, <1>4, <1>10, <2>1, <2>2 DEF CoinsLeft
    <2>4. Stored' = pile
      BY <1>4, <2>3 DEF Stored
    <2>5. \A q \in Players : Due(q) = 0 /\ Due(q)' = 0
      <3>1. Early
        BY <2>1 DEF Early
      <3> QED
        BY <1>4, <1>7, <2>1, <3>1, EarlyOwesNone
    <2>6. ~Ending'
      BY <1>9, <2>1 DEF Ending, Life, Writer
    <2>7. Purse(p)'
      <3>1. ~(p \in online /\ ~pendingDeath) /\ takes[p] = 0
        BY <1>3, <1>10, <2>1 DEF Life, Death, Out, Writing, Marks, Mark, Early
      <3> QED
        BY <1>2, <1>3, <1>4, <1>5, <1>6, <1>10, <2>1, <2>2, <2>4, <2>5, <2>6, <3>1
           DEF Purse, Out, Writing, Committed
    <2>8. ASSUME NEW q \in Players \ {p} PROVE Purse(q)'
      <3>1. Purse(q) /\ Apart(q, p) /\ dbPurse[q] \in 0 .. 1
        BY CoinTypes DEF Coins
      <3>2. dbPurse'[q] + Stored' <= 1
        BY <1>5, <2>2, <2>4, <3>1 DEF Apart
      <3> QED
        BY <1>2, <1>3, <1>4, <1>5, <1>8, <2>4, <2>5, <2>6, <3>1, <3>2
           DEF Purse, Out, Writing, Committed
    <2>9. ASSUME NEW q \in Players, NEW r \in Players, q # r PROVE Apart(q, r)'
      <3>1. Apart(q, r) /\ dbPurse[q] \in 0 .. 1 /\ dbPurse[r] \in 0 .. 1
        BY <2>9, CoinTypes DEF Coins
      <3> QED
        BY <1>5, <2>2, <2>5, <3>1 DEF Apart
    <2>10. Pile'
      <3>1. finished = "no"
        BY <2>1 DEF Life, Writer
      <3> QED
        BY <1>2, <1>3, <1>4, <1>5, <1>6, <1>10, <2>1, <2>2, <2>3, <3>1 DEF Pile, Committed
    <2>11. ~spent' /\ ~forsaken' => dbCorpse' = 1 \/ \E q \in Players : dbPurse'[q] = 1
      <3>1. ~spent /\ ~forsaken => \E q \in Players : dbPurse[q] = 1
        BY <1>6, <2>2 DEF Kept
      <3>2. ASSUME NEW q \in Players, dbPurse[q] = 1
            PROVE  dbCorpse' = 1 \/ dbPurse'[q] = 1
        BY <1>5, <2>2, <2>3, <3>2
      <3> QED
        BY <1>3, <3>1, <3>2
    <2>12. Kept'
      BY <1>3, <2>1, <2>11 DEF Kept
    <2> QED
      BY <2>7, <2>8, <2>9, <2>10, <2>12 DEF Coins
  <1>11. CASE ~s.death
    <2>1. s.purse = dbPurse[p] + s.takes
      BY <1>3, <1>6, <1>11 DEF Purse
    <2>2. s.takes = 1 => /\ Stored = 1 /\ dbPurse[p] = 0 /\ Due(p) = 1 /\ pile = 0
                         /\ \A q \in Players \ {p} : Due(q) = 0 /\ dbPurse[q] = 0
      <3>1. s.takes = 1 => Stored = 1 /\ Due(p) = 1 /\ dbPurse[p] + Stored <= 1 /\ pile + Due(p) <= 1
        BY <1>4, <1>6, <1>7 DEF Purse
      <3>2. \A q \in Players \ {p} : /\ Apart(p, q) /\ Due(q) \in 0 .. 1 /\ dbPurse[q] + Stored <= 1
                                     /\ dbPurse[q] \in 0 .. 1
        BY CoinTypes DEF Coins, Purse
      <3>3. \A q \in Players \ {p} : Due(p) + Due(q) <= 1
        BY <3>2 DEF Apart
      <3> QED
        BY <1>4, <3>1, <3>2, <3>3
    <2>3. s.retire => /\ p = Owner /\ corpse = "gone" /\ Due(p) = s.takes
                      /\ \A q \in Players \ {p} : Due(q) = 0
      <3>1. s.retire => p = Owner /\ corpse = "gone" /\ ~PendingLoot(Owner)
        BY DEF Life, Marks, Mark
      <3>2. s.retire => \A q \in Players \ {p} : mark[q] = 0
        BY <3>1 DEF PendingLoot
      <3>3. s.retire => \A q \in Players \ {p} : Due(q) = 0
        BY <3>1, <3>2 DEF Coins, Purse, Returned
      <3>4. s.retire /\ ~s.quit => takes[p] = s.takes
        BY <1>6 DEF Purse
      <3>5. s.retire => Due(p) = s.takes
        BY <1>3, <3>4, <1>4, DueCases
      <3> QED
        BY <3>1, <3>3, <3>5
    <2>4. Stored' = IF s.retire THEN 0 ELSE Stored - s.takes
      <3>1. CASE s.retire
        BY <1>3, <3>1 DEF Stored
      <3>2. CASE ~s.retire
        BY <1>3, <1>4, <1>11, <2>2, <3>2 DEF Stored, CoinsLeft
      <3> QED
        BY <3>1, <3>2
    <2>5. dbCorpse' = IF s.retire THEN -1 ELSE IF s.takes = 1 THEN 0 ELSE dbCorpse
      <3>1. s.takes = 1 => dbCorpse = 1
        BY <1>4, <2>2 DEF Stored
      <3> QED
        BY <1>3, <1>4, <1>11, <3>1 DEF CoinsLeft
    <2>6. \A q \in Players : Due(q)' \in 0 .. 1 /\ Due(q)' <= Stored'
      <3>1. Due(p)' \in 0 .. 1 /\ Due(p)' <= Stored'
        BY <1>4, <1>6, <1>7, <2>3, <2>4
      <3>2. ASSUME NEW q \in Players \ {p} PROVE Due(q)' \in 0 .. 1 /\ Due(q)' <= Stored'
        <4>1. Due(q) \in 0 .. 1 /\ Due(q) <= Stored
          BY DEF Coins, Purse
        <4> QED
          BY <1>4, <1>7, <2>2, <2>3, <2>4, <4>1
      <3> QED
        BY <3>1, <3>2
    <2>7. Purse(p)'
      <3>1. dbPurse'[p] + Stored' <= 1
        BY <1>4, <1>5, <1>6, <2>1, <2>2, <2>4 DEF Purse
      <3>2. pile + Due(p)' <= 1
        BY <1>4, <1>6, <1>7 DEF Purse
      <3>3. p \in online /\ ~(p = Owner /\ pendingDeath) => purse[p] = dbPurse'[p] + Due(p)'
        <4>1. dbPurse'[p] + Due(p)' = dbPurse[p] + Due(p)
          BY <1>4, <1>5, <1>6, <1>7, <2>1
        <4> QED
          BY <1>6, <4>1 DEF Purse
      <3>4. s.takes <= s.purse
        BY <1>4, <2>1
      <3>5. Due(p)' # 0 => Due(p) # 0
        BY <1>4, <1>6, <1>7
      <3> QED
        BY <1>2, <1>3, <1>5, <1>6, <1>8, <1>9, <1>11, <2>6, <3>1, <3>2, <3>3, <3>4, <3>5,
           <1>4, <1>7 DEF Purse, Out, Writing, Committed
    <2>8. ASSUME NEW q \in Players \ {p} PROVE Purse(q)'
      <3>1. Purse(q)
        BY DEF Coins
      <3>2. dbPurse[q] + Stored' <= 1
        <4>1. dbPurse[q] + Stored <= 1 /\ dbPurse[q] \in 0 .. 1
          BY <3>1, CoinTypes DEF Purse
        <4> QED
          BY <1>4, <2>4, <4>1
      <3> QED
        BY <1>2, <1>3, <1>5, <1>7, <1>8, <1>9, <2>6, <3>1, <3>2 DEF Purse, Out, Writing, Committed
    <2>9. ASSUME NEW q \in Players, NEW r \in Players, q # r PROVE Apart(q, r)'
      <3>1. Apart(q, r) /\ dbPurse[q] \in 0 .. 1 /\ dbPurse[r] \in 0 .. 1
            /\ Due(q) \in 0 .. 1 /\ Due(r) \in 0 .. 1
        BY <2>9, CoinTypes DEF Coins, Purse
      <3>2. dbPurse'[q] + dbPurse'[r] <= 1
        BY <1>4, <1>5, <2>1, <2>2, <2>9, <3>1 DEF Apart
      <3>3. Due(q)' + Due(r)' <= 1
        BY <1>4, <1>7, <2>9, <3>1 DEF Apart
      <3> QED
        BY <3>2, <3>3 DEF Apart
    <2>10. Pile'
      <3>1. Early => s.takes = 0 /\ ~s.retire
        BY DEF Life, Marks, Mark, Early
      <3>2. Early => dbPurse' = dbPurse /\ dbCorpse' = dbCorpse
        <4>1. Early => s.purse = dbPurse[p]
          BY <1>4, <2>1, <3>1
        <4> QED
          BY <1>3, <2>5, <3>1, <4>1, CoinTypes
      <3>3. (Committed(Owner) /\ snap[Owner].death)' <=> Committed(Owner) /\ snap[Owner].death
        BY <1>2, <1>3, <1>11, CorpsesAssumption DEF Committed, Writing
      <3>4. corpse = "settled" \/ (corpse = "deleting" /\ finished # "Deleted") => dbCorpse' >= pile
        BY <1>4, <1>6, <2>2, <2>3, <2>5 DEF Pile
      <3>5. finished = "Deleted" => dbCorpse' = -1
        <4>1. finished = "Deleted" => Stored = 0
          BY <1>6 DEF Pile, Stored
        <4> QED
          BY <1>4, <1>6, <2>2, <2>5, <4>1 DEF Pile
      <3> QED
        BY <1>3, <1>6, <3>2, <3>3, <3>4, <3>5 DEF Pile, Early
    <2>11. Kept'
      <3>1. dbCorpse' = 1 => dbCorpse = 1 /\ s.takes = 0 /\ ~s.retire
        BY <1>4, <2>5
      <3>2. s.takes = 0 /\ DueSome => DueSome'
        BY <1>4, <1>6, <1>7 DEF DueSome
      <3>3. s.takes = 1 => dbPurse'[p] = 1
        BY <1>5, <2>1, <2>2
      <3>4. dbCorpse = 1 /\ s.retire /\ s.takes = 0 => spent \/ forsaken
        <4>1. s.retire /\ s.takes = 0 => ~DueSome
          BY <2>3 DEF DueSome
        <4> QED
          BY <1>6, <2>3, <4>1 DEF Kept
      <3>5. ASSUME NEW q \in Players, dbPurse[q] = 1 PROVE dbPurse'[q] = 1 \/ dbPurse'[p] = 1
        BY <1>4, <1>5, <2>1, <2>2, <3>3, <3>5
      <3>6. ~spent /\ ~forsaken => dbCorpse' = 1 \/ \E q \in Players : dbPurse'[q] = 1
        <4>1. CASE s.takes = 1
          BY <3>3, <4>1
        <4>2. CASE s.takes = 0 /\ dbCorpse = 1
          BY <2>5, <3>4, <4>2
        <4>3. CASE dbCorpse # 1
          BY <1>6, <3>5, <4>3 DEF Kept
        <4> QED
          BY <1>4, <4>1, <4>2, <4>3
      <3> QED
        BY <1>3, <1>6, <3>1, <3>2, <3>6 DEF Kept
    <2> QED
      BY <2>7, <2>8, <2>9, <2>10, <2>11 DEF Coins
  <1> QED
    BY <1>4, <1>10, <1>11

\* The fold of a committed save clears no more than the row was debited for.
LEMMA CoinsApply == ASSUME Life, Life', Coins, NEW p \in Players, ApplyCommit(p) PROVE Coins'
  <1> DEFINE s == snap[p]
  <1>1. /\ Committed(p) /\ snap' = [snap EXCEPT ![p] = NoSnap]
        /\ takes' = [takes EXCEPT ![p] = CoinsLeft(takes[p], s.takes)]
        /\ mark' = [mark EXCEPT ![p] = MarkAfter(p, s)]
        /\ corpse' = IF s.death /\ corpse = "unsettled" THEN "settled" ELSE corpse
        /\ pendingDeath' = (pendingDeath /\ ~s.death)
        /\ UNCHANGED <<purse, pile, dbPurse, dbCorpse, online, finished, spent, forsaken>>
    BY DEF ApplyCommit, FoldedIn, Committed, dbVars, histVars
  <1>2. /\ snap'[p] = NoSnap /\ takes'[p] = CoinsLeft(takes[p], s.takes)
        /\ mark'[p] = MarkAfter(p, s)
        /\ \A q \in Players \ {p} : /\ snap'[q] = snap[q] /\ takes'[q] = takes[q]
                                    /\ mark'[q] = mark[q]
    BY <1>1, CoinTypes
  <1>3. /\ s.takes \in 0 .. 1 /\ takes[p] \in 0 .. 1 /\ s.quit \in BOOLEAN /\ s.death \in BOOLEAN
        /\ pile \in 0 .. 1 /\ pendingDeath \in BOOLEAN
    BY CoinTypes
  <1>4. \A q \in Players : Due(q)' = Due(q)
    <2>1. Due(p)' = takes'[p]
      BY <1>2, SnapsFit DEF Due, Writing, Committed
    <2>2. Due(p) = takes'[p]
      <3>1. CASE s.quit
        BY <1>1, <1>2, <1>3, <3>1, DueCases DEF CoinsLeft
      <3>2. CASE ~s.quit
        BY <1>1, <1>2, <1>3, <3>2, DueCases DEF CoinsLeft
      <3> QED
        BY <3>1, <3>2
    <2>3. \A q \in Players \ {p} : Due(q)' = Due(q)
      BY <1>2 DEF Due, Writing, Committed
    <2> QED
      BY <2>1, <2>2, <2>3
  <1>5. Purse(p) /\ Pile /\ Kept
    BY DEF Coins
  <1>6. Ending' => Ending
    <2>1. Deletes(ops') => Deletes(ops)
      <3>1. ops' = ops \/ ops' = Append(ops, ItemsOp(removals))
        BY DEF ApplyCommit, FoldedIn
      <3> QED
        BY <3>1, ItemsSent DEF Life, Types, WorldTypes, DbTypes, Writer
    <2> QED
      BY <1>1, <2>1 DEF Ending
  <1>7. \A q \in Players : Returned(q)' = Returned(q)
    BY <1>1 DEF Returned
  <1>8. s.death => p = Owner /\ corpse = "unsettled"
    BY DEF Life, Death
  <1>9. Due(p) # 0 /\ ~Returned(p) => mark'[p] # 0
    <2>1. CASE s.quit
      BY <1>1, <2>1, DueCases
    <2>2. CASE ~s.quit /\ s.mark = mark[p] /\ ~Returned(p)
      <3>1. takes[p] = s.takes
        BY <1>1, <1>5, <2>2 DEF Purse, Out, Committed
      <3>2. Due(p) = 0
        BY <1>1, <1>3, <2>2, <3>1, DueCases
      <3> QED
        BY <3>2
    <2>3. CASE s.mark # mark[p]
      BY <1>2, <1>5, <2>3 DEF Purse, MarkAfter
    <2> QED
      BY <1>3, <2>1, <2>2, <2>3
  <1>10. s.death => dbPurse[Owner] = 0 /\ dbCorpse = pile /\ \A q \in Players : Due(q) = 0
    <2>1. s.death => Early
      BY <1>8 DEF Early
    <2> QED
      BY <1>1, <1>5, <1>8, <2>1, EarlyOwesNone DEF Pile
  <1>11. ~s.death => corpse' = corpse /\ pendingDeath' = pendingDeath
    BY <1>1, <1>3
  <1>12. s.death => corpse' = "settled" /\ ~pendingDeath'
    BY <1>1, <1>8
  <1>13. Stored' = Stored
    BY <1>1 DEF Stored
  <1>14. Purse(p)'
    <2>1. p \in online /\ ~(p = Owner /\ pendingDeath') => purse[p] = dbPurse[p] + Due(p)
      <3>1. CASE s.death
        <4>1. pendingDeath \/ ~(p \in online)
          BY <1>1, <3>1 DEF Life, Death, Out, Committed
        <4>2. pendingDeath => purse[Owner] = 0
          BY <1>5 DEF Pile
        <4> QED
          BY <1>8, <1>10, <3>1, <4>1, <4>2
      <3>2. CASE ~s.death
        BY <1>5, <1>11, <3>2 DEF Purse
      <3> QED
        BY <1>3, <3>1, <3>2
    <2> QED
      BY <1>1, <1>2, <1>4, <1>5, <1>6, <1>7, <1>9, <1>13, <2>1, SnapsFit
         DEF Purse, Out, Writing, Committed
  <1>15. ASSUME NEW q \in Players \ {p} PROVE Purse(q)'
    <2>1. Purse(q) /\ (q = Owner => pendingDeath' = pendingDeath) /\ ~(snap[q].death /\ s.death)
      BY <1>8, <1>11 DEF Coins, Life, Death
    <2> QED
      BY <1>1, <1>2, <1>4, <1>6, <1>7, <1>13, <2>1 DEF Purse, Out, Writing, Committed
  <1>16. \A q, r \in Players : q # r => Apart(q, r)'
    BY <1>1, <1>4 DEF Coins, Apart
  <1>17. Pile'
    <2>1. CASE s.death
      BY <1>1, <1>5, <1>10, <1>12, <1>3, <2>1 DEF Pile, Life, Writer
    <2>2. CASE ~s.death
      <3>1. (Committed(Owner) /\ snap[Owner].death)' <=> Committed(Owner) /\ snap[Owner].death
        <4>1. CASE p = Owner
          BY <1>2, <2>2, <4>1, SnapsFit
        <4>2. CASE p # Owner
          BY <1>2, <4>2, CorpsesAssumption DEF Committed
        <4> QED
          BY <4>1, <4>2
      <3> QED
        BY <1>1, <1>5, <1>11, <2>2, <3>1 DEF Pile
    <2> QED
      BY <1>3, <2>1, <2>2
  <1>18. Kept'
    <2>1. DueSome' <=> DueSome
      BY <1>4 DEF DueSome
    <2>2. CASE s.death
      BY <1>1, <1>5, <1>10, <1>12, <2>2 DEF Kept
    <2>3. CASE ~s.death
      BY <1>1, <1>5, <1>11, <2>1, <2>3 DEF Kept
    <2> QED
      BY <1>3, <2>2, <2>3
  <1> QED
    BY <1>14, <1>15, <1>16, <1>17, <1>18 DEF Coins

\* A last save is given up: what its player took from the corpse is nobody's.
LEMMA CoinsGiveUp == ASSUME Life, Life', Coins, NEW p \in Players, GiveUp(p) PROVE Coins'
  <1> DEFINE s == snap[p]
  <1>1. /\ Writing(p) /\ s.quit /\ snap' = [snap EXCEPT ![p] = NoSnap]
        /\ mark' = [mark EXCEPT ![p] = 0]
        /\ (forsaken => forsaken') /\ (s.takes > 0 => forsaken')
        /\ UNCHANGED <<takes, purse, dbPurse, dbCorpse, pendingDeath, online, finished, spent, ops>>
    BY DEF GiveUp, Writing, writerVars, dbVars
  <1>2. IF s.death /\ corpse = "unsettled" THEN corpse' = "stranded" /\ pile' = 0
        ELSE corpse' = corpse /\ pile' = pile
    BY DEF GiveUp
  <1>3. snap'[p] = NoSnap /\ mark'[p] = 0
        /\ \A q \in Players \ {p} : snap'[q] = snap[q] /\ mark'[q] = mark[q]
    BY <1>1, CoinTypes
  <1>4. p \notin online /\ Due(p) = s.takes /\ takes[p] = 0 /\ Due(p)' = 0 /\ s.takes \in 0 .. 1
    <2>1. p \notin online /\ Due(p) = s.takes /\ takes[p] = 0
      BY <1>1, DueCases DEF Out, Writing
    <2> QED
      BY <1>1, <1>3, <2>1, SnapsFit, CoinTypes DEF Due, Writing, Committed
  <1>5. \A q \in Players \ {p} : Due(q)' = Due(q)
    BY <1>1, <1>3 DEF Due, Writing, Committed
  <1>6. Stored' = Stored /\ (Ending' = Ending) /\ \A q \in Players : Returned(q)' = Returned(q)
    BY <1>1, <1>2 DEF Stored, Ending, Returned
  <1>7. s.death => p = Owner /\ corpse = "unsettled" /\ ~pendingDeath
    BY <1>4 DEF Life, Death
  <1>8. Purse(p) /\ Pile /\ Kept
    BY DEF Coins
  <1>9. pile' \in 0 .. 1 /\ pile' <= pile
    BY <1>2, CoinTypes
  <1>10. Purse(p)'
    <2>1. dbPurse[p] + Stored <= 1 /\ Stored \in 0 .. 1
      BY <1>8, CoinTypes DEF Purse
    <2>2. pile' + Due(p)' <= 1 /\ Due(p)' \in 0 .. 1 /\ Due(p)' <= Stored'
      <3>1. pile' = 0 \/ pile' = 1
        BY <1>9
      <3> QED
        BY <1>4, <1>6, <2>1, <3>1
    <2>3. dbPurse'[p] + Stored' <= 1 /\ ~(p \in online')
      BY <1>1, <1>4, <1>6, <2>1
    <2>4. ~Out(p)' /\ ~Writing(p)' /\ ~Committed(p)' /\ ~snap'[p].death /\ ~snap'[p].retire
      BY <1>3, SnapsFit DEF Out, Writing, Committed
    <2> QED
      BY <1>4, <2>2, <2>3, <2>4 DEF Purse
  <1>11. ASSUME NEW q \in Players \ {p} PROVE Purse(q)'
    <2>1. Purse(q) /\ Due(q) \in 0 .. 1
      BY DEF Coins, Purse
    <2>2. snap[q].death => pile' = pile
      BY <1>2, <1>7 DEF Life, Death
    <2>3. pile' + Due(q) <= 1
      BY <1>9, <2>1, CoinTypes DEF Purse
    <2> QED
      BY <1>1, <1>3, <1>5, <1>6, <2>1, <2>2, <2>3 DEF Purse, Out, Writing, Committed
  <1>12. ASSUME NEW q \in Players, NEW r \in Players, q # r PROVE Apart(q, r)'
    <2>1. Apart(q, r) /\ Due(q) \in 0 .. 1 /\ Due(r) \in 0 .. 1
      BY <1>12 DEF Coins, Purse
    <2> QED
      BY <1>1, <1>4, <1>5, <2>1 DEF Apart
  <1>13. Pile'
    <2>1. CASE s.death
      <3>1. dbCorpse = -1 /\ corpse' = "stranded" /\ pile' = 0 /\ finished = "no"
        BY <1>1, <1>2, <1>7, <1>8, <2>1 DEF Pile, Writing, Committed, Life, Writer
      <3> QED
        BY <1>1, <1>7, <2>1, <3>1 DEF Pile
    <2>2. CASE ~s.death
      <3>1. corpse' = corpse /\ pile' = pile
        BY <1>2, <2>2
      <3>2. (Committed(Owner) /\ snap[Owner].death)' <=> Committed(Owner) /\ snap[Owner].death
        BY <1>1, <1>3, <2>2, SnapsFit, CorpsesAssumption DEF Committed
      <3> QED
        BY <1>1, <1>8, <3>1, <3>2 DEF Pile
    <2> QED
      BY <2>1, <2>2
  <1>14. Kept'
    <2>1. forsaken => forsaken'
      BY <1>1
    <2>2. DueSome => DueSome' \/ forsaken'
      <3>1. ASSUME NEW q \in Players, Due(q) = 1 PROVE Due(q)' = 1 \/ forsaken'
        <4>1. CASE q = p
          <5>1. s.takes > 0
            BY <1>4, <3>1, <4>1
          <5> QED
            BY <1>1, <5>1
        <4>2. CASE q # p
          BY <1>5, <3>1, <4>2
        <4> QED
          BY <4>1, <4>2
      <3> QED
        BY <3>1 DEF DueSome
    <2>3. corpse' # "stranded" => corpse' = corpse /\ pile' = pile
      BY <1>2
    <2> QED
      BY <1>1, <1>8, <2>1, <2>2, <2>3 DEF Kept
  <1> QED
    BY <1>10, <1>11, <1>12, <1>13, <1>14 DEF Coins

\* The invariant of the coins holds at first.
LEMMA LifeInvInit == Init => LifeInv
  BY TypesInit, DeathInit, WriterInit, MarksInit, CoinsInit DEF LifeInv, Life

\* Every step keeps the invariant of the coins.
LEMMA LifeInvKept == LifeInv /\ Quiet => LifeInv'
  <1> SUFFICES ASSUME LifeInv, Quiet PROVE LifeInv'
    OBVIOUS
  <1>1. Types' /\ Death' /\ Writer' /\ Marks'
    <2>1. Types'
      BY TypesKept DEF LifeInv
    <2>2. Death' /\ Writer'
      BY <2>1, DeathKept, WriterKept DEF LifeInv
    <2> QED
      BY <2>1, <2>2, MarksKept DEF LifeInv
  <1>2. Life /\ Life' /\ Coins
    BY <1>1 DEF LifeInv, Life
  <1>3. CASE UNCHANGED vars \/ Release \/ (\E i \in Items : Rot(i))
               \/ (\E p, q \in Players, i \in Items : Give(p, q, i))
               \/ (\E p \in Players : SaveFails(p) /\ snap' = snap)
    <2>1. UNCHANGED <<snap, takes, purse, pile, dbPurse, dbCorpse, mark, corpse,
                      pendingDeath, online, finished, spent, forsaken>>
      BY <1>3 DEF vars, Release, Rot, Give, SaveFails, worldVars, pendVars, writerVars, dbVars, histVars
    <2>2. Deletes(ops') => Deletes(ops)
      <3>1. CASE \E i \in Items : Rot(i)
        <4>1. PICK i \in Items : Rot(i)
          BY <3>1
        <4>2. {rowId[i]} \in SUBSET (1 .. MaxRow)
          BY <1>2, <4>1 DEF Rot, Life, Types, WorldTypes
        <4>3. ops' = ops \/ ops' = Append(ops, ItemsOp({rowId[i]}))
          BY <4>1 DEF Rot
        <4> QED
          BY <1>2, <4>2, <4>3, ItemsSent DEF Life, Types, DbTypes, Writer
      <3>2. CASE UNCHANGED vars \/ Release \/ (\E p, q \in Players, i \in Items : Give(p, q, i))
               \/ (\E p \in Players : SaveFails(p) /\ snap' = snap)
        BY <3>2 DEF vars, Release, Give, SaveFails, writerVars
      <3> QED
        BY <1>3, <3>1, <3>2
    <2> QED
      BY <1>2, <2>1, <2>2, CoinsStill DEF LifeInv, Life
  <1>4. CASE Die \/ Resurrect \/ Purge \/ DecayBegins \/ TakeDecayed \/ OpDone \/ OpFails \/ Crash
    BY <1>2, <1>4, CoinsDie, CoinsResurrect, CoinsEnd, CoinsTakeDecayed, CoinsOp, CoinsCrash
       DEF LifeInv, Life
  <1>5. ASSUME NEW p \in Players,
               \/ Loot(p) \/ Save(p) \/ Quit(p) \/ Commit(p) \/ ApplyCommit(p)
               \/ (SaveFails(p) /\ snap' # snap) \/ Login(p) \/ GiveUp(p)
        PROVE  LifeInv'
    BY <1>2, <1>5, CoinsLoot, CoinsSave, CoinsCommit, CoinsSaveFails, CoinsApply, CoinsLogin,
       CoinsGiveUp
       DEF LifeInv, Life
  <1> QED
    BY <1>3, <1>4, <1>5 DEF Next, Quiet

\* Where no save left behind is written, the steps are the others.
LEMMA QuietSteps == Types /\ LeftUnwritten /\ LeftUnwritten' /\ [Next]_vars => Quiet
  <1> SUFFICES ASSUME Types, LeftUnwritten, LeftUnwritten', [Next]_vars,
                      NEW p \in Players, LeftCommits(p) \/ LeftApplies(p)
               PROVE  FALSE
    BY DEF Quiet
  <1>1. left \in [Players -> Snaps]
    BY DEF Types, WorldTypes
  <1>2. CASE LeftCommits(p)
    <2>1. PICK new \in [Items -> 0 .. MaxRow] :
             left' = [left EXCEPT ![p].at = "committed", ![p].new = new]
      BY <1>2 DEF LeftCommits
    <2>2. left'[p] = [left[p] EXCEPT !.at = "committed", !.new = new]
      BY <1>1, <2>1
    <2>3. left[p] \in Snaps
      BY <1>1
    <2>4. left'[p].at = "committed"
      BY <2>2, <2>3 DEF Snaps
    <2> QED
      BY <2>4 DEF LeftUnwritten
  <1>3. CASE LeftApplies(p)
    BY <1>3 DEF LeftApplies, LeftUnwritten
  <1> QED
    BY <1>2, <1>3

\* The invariant of the coins holds in every state.
LEMMA LifeInvAlways == Spec /\ []LeftUnwritten => []LifeInv
  <1>1. LifeInv /\ LeftUnwritten /\ LeftUnwritten' /\ [Next]_vars => LifeInv'
    BY QuietSteps, LifeInvKept DEF LifeInv
  <1> QED
    BY <1>1, LifeInvInit, PTL DEF Spec

\* It puts the coins in one place.
LEMMA LifeInvCoinsOnce == LifeInv => CoinsOnce
  <1> SUFFICES ASSUME LifeInv PROVE CoinsOnce
    OBVIOUS
  <1> DEFINE S == {p \in Players : dbPurse[p] > 0}
  <1>1. Life
    BY DEF LifeInv, Life
  <1>2. /\ dbCorpse \in -1 .. 1 /\ Stored \in 0 .. 1
        /\ \A p \in Players : dbPurse[p] \in 0 .. 1 /\ dbPurse[p] + Stored <= 1
    BY <1>1, CoinTypes DEF LifeInv, Coins, Purse
  <1>3. CASE S = {}
    <2>1. Cardinality(S) = 0
      BY <1>3, FS_EmptySet
    <2>2. DbCoins = IF dbCorpse > 0 THEN 1 ELSE 0
      BY <2>1 DEF DbCoins
    <2>3. ~spent /\ ~forsaken => dbCorpse = 1
      BY <1>2, <1>3 DEF LifeInv, Coins, Kept
    <2> QED
      BY <1>2, <2>2, <2>3 DEF CoinsOnce
  <1>4. CASE S # {}
    <2>1. PICK p \in Players : dbPurse[p] = 1
      BY <1>2, <1>4
    <2>2. \A q \in Players : q # p => dbPurse[q] = 0
      <3>1. \A q \in Players : q # p => dbPurse[p] + dbPurse[q] <= 1
        BY DEF LifeInv, Coins, Apart
      <3> QED
        BY <1>2, <2>1, <3>1
    <2>3. S = {p}
      BY <2>1, <2>2
    <2>4. Cardinality(S) = 1
      BY <2>3, FS_Singleton
    <2>5. ~(dbCorpse > 0)
      BY <1>2, <2>1 DEF Stored
    <2>6. DbCoins = 1
      BY <2>4, <2>5 DEF DbCoins
    <2> QED
      BY <2>6 DEF CoinsOnce
  <1> QED
    BY <1>3, <1>4

\* The coins of a character that dies are in one place of the database at all times, its
\* own row, a looter's or the corpse's, for any number of looters, exits, crashes
\* and failed saves, until a decay or a purge takes them or the save of who took them
\* from the corpse is given up (retry_snapshot).  An exit may leave a save of the same
\* death behind (retire_player takes the first free turn): the coins stay in one place
\* as long as that save goes stale, as it does unless the exit's own first write fails.
THEOREM CoinsInOnePlace == Spec /\ []LeftUnwritten => []CoinsOnce
  BY LifeInvAlways, LifeInvCoinsOnce, PTL

-----------------------------------------------------------------------------
(* Items.                                                                  *)

\* Nobody has given the item away.
Untraded(i) == handed[i] = "no"
\* What a snapshot writes about.
Entries(p) == snap[p].held \cup snap[p].inCorpse
HasRow(n, i) == \E r \in rows : r.id = n /\ r.item = i
\* The death is in the database, and the world has not heard of it.
DeathDone == snap[Owner].death /\ Committed(Owner)
\* A looter's save is owed to the corpse, or Owner's gives its rows back.
Looted(p) == mark[p] # 0 \/ (p = Owner /\ retire)
\* The snapshot on its way pays that off.
Clears(p) == snap[p].retire \/ (mark[p] = snap[p].mark /\ ~(p = Owner /\ retire))

\* An item in p's hands has p's row, one that p's snapshot will claim or has just
\* inserted, or one of the corpse that p owes.
InHand(i, p) ==
    /\ p \in online
    /\ rowId[i] # 0 => HasRow(rowId[i], i)
    /\ \A r \in rows : r.item = i /\ r.filed =>
          /\ r.id = rowId[i] /\ Looted(p)
          /\ Out(p) /\ Clears(p) => Writing(p) /\ i \in snap[p].held
    /\ \A r \in rows : r.item = i /\ ~r.filed =>
          /\ r.char = p
          /\ r.id = rowId[i] \/ (Committed(p) /\ snap[p].new[i] = r.id)
          /\ Writing(p) => i \in snap[p].held
    /\ i \in Entries(p) => i \in snap[p].held /\ snap[p].ids[i] = rowId[i]
    /\ Committed(p) /\ i \in snap[p].held => \E r \in rows : r.item = i /\ ~r.filed
    /\ snap[p].new[i] # 0 => rowId[i] = 0
    /\ \A q \in Players : i \in Entries(q) => q = p
\* An item in an unsettled corpse has Owner's row until the death is stored.
InUnsettled(i) ==
    /\ rowId[i] # 0 => HasRow(rowId[i], i)
    /\ \A r \in rows : r.item = i =>
          /\ r.char = Owner /\ r.filed = DeathDone
          /\ rowId[i] # 0 => r.id = rowId[i]
          /\ DeathDone /\ rowId[i] = 0 => r.id = snap[Owner].new[i]
          /\ Writing(Owner) => i \in Entries(Owner)
    /\ DeathDone => \E r \in rows : r.item = i
    /\ snap[Owner].death => i \in snap[Owner].inCorpse
    /\ i \in Entries(Owner) => snap[Owner].ids[i] = rowId[i]
    /\ snap[Owner].new[i] # 0 => rowId[i] = 0
    /\ \A q \in Players : i \in Entries(q) => q = Owner
\* One in a settled corpse has the corpse's row.
InSettled(i) ==
    /\ corpse \in {"settled", "deleting"} /\ rowId[i] # 0
    /\ \A r \in rows : r.item = i => r.filed /\ r.id = rowId[i]
    /\ finished # "Deleted" => HasRow(rowId[i], i)
    /\ \A q \in Players : i \notin Entries(q)
\* One on the floor after decay has none.
InRoom(i) ==
    /\ corpse = "gone" /\ \A r \in rows : r.item # i
    /\ \A q \in Players : i \notin Entries(q)
\* An item out of the world: in a last snapshot, rotted away, or in the rows only.
LastSave(p, i) ==
    /\ snap[p].quit /\ i \in snap[p].held
    /\ \A r \in rows : r.item = i /\ r.filed => Writing(p) /\ r.id = snap[p].ids[i]
    /\ \A r \in rows : r.item = i /\ ~r.filed => r.char = p
    /\ Committed(p) => \E r \in rows : r.item = i
Rotten(i) ==
    /\ corpse = "unsettled" /\ snap[Owner].ids[i] \in removals
    /\ \E r \in rows : r.item = i /\ r.id = snap[Owner].ids[i] /\ r.char = Owner
Outside(i) ==
    /\ rowId[i] = 0
    /\ \A p \in Players : i \in Entries(p) => LastSave(p, i) \/ (p = Owner /\ Rotten(i))
    /\ \A p, q \in Players : i \in Entries(p) /\ i \in Entries(q) => p = q
    /\ \A r \in rows : r.item = i /\ ~r.filed =>
          \/ r.char \notin online /\ (Out(r.char) => i \in snap[r.char].held)
          \/ r.char = Owner /\ corpse = "unsettled" /\ r.id \in removals /\ ~DeathDone
    /\ \A r \in rows : r.item = i /\ r.filed =>
          /\ corpse = "unsettled" => r.id \in removals /\ DeathDone
          /\ corpse = "settled" =>
                \/ missed \/ \E k \in DOMAIN ops : r.id \in ops[k].ids
                \/ \E q \in Players : /\ Writing(q) /\ snap[q].quit /\ mark[q] # 0
                                      /\ i \in snap[q].held
\* The row of an item by where the item is.
ItemOK(i) ==
    /\ place[i] \in Players => InHand(i, place[i])
    /\ place[i] = "corpse" /\ corpse = "unsettled" => InUnsettled(i)
    /\ place[i] = "corpse" /\ corpse # "unsettled" => InSettled(i)
    /\ place[i] = "room" => InRoom(i)
    /\ place[i] = "gone" => Outside(i)

\* An id belongs to one item for ever, wherever it is remembered.
Knows(n, i) ==
    \/ HasRow(n, i) \/ rowId[i] = n
    \/ \E p \in Players : snap[p].ids[i] = n \/ snap[p].new[i] = n
Ids ==
    /\ \A n \in 1 .. MaxRow, i, j \in Items : Knows(n, i) /\ Knows(n, j) => i = j
    /\ \A n \in 1 .. MaxRow, i \in Items : Knows(n, i) => n < nextRow
    /\ \A r, s \in rows : r.id = s.id => r = s
    /\ \A r, s \in rows : r.item = s.item /\ Untraded(r.item) => r = s
\* An id that is to be deleted is no entity's, and will not be.
DeadId(n) ==
    /\ n < nextRow
    /\ \A i \in Items : Untraded(i) => rowId[i] # n /\ \A p \in Players : snap[p].new[i] # n
Dead ==
    /\ \A k \in DOMAIN ops : \A n \in ops[k].ids :
          /\ DeadId(n) /\ \A r \in rows : r.id = n /\ Untraded(r.item) => r.filed
          /\ \A p \in Players, i \in Items : Untraded(i) => snap[p].ids[i] # n
    /\ \A n \in removals :
          /\ DeadId(n)
          /\ \A r \in rows : r.id = n /\ Untraded(r.item) => r.filed = DeathDone /\ r.char = Owner
          /\ \A p \in Players, i \in Items : Untraded(i) /\ snap[p].ids[i] = n => p = Owner
\* What a snapshot holds.
SnapShape(p) ==
    /\ snap[p].death => \A i \in snap[p].held : ~Untraded(i)
    /\ snap[p].held \cap snap[p].inCorpse = {}
    /\ ~snap[p].death => snap[p].inCorpse = {}
    /\ \A i \in Items : snap[p].ids[i] # 0 => i \in Entries(p)
    /\ \A i \in Items : snap[p].new[i] # 0 => i \in Entries(p) /\ Committed(p)
    /\ snap[p].quit => packed[p] = snap[p].held
    /\ snap[p].retire /\ Committed(p) => CorpseRows = {}
\* The pack of a player who is gone, and a corpse without a row.
InPack(p, i) == \E r \in rows : r.item = i /\ r.char = p /\ ~r.filed
PackOK(i) == \A p \in Players \ online : ~Out(p) => (i \in packed[p] <=> InPack(p, i))
Stock ==
    /\ \A i \in Items : Untraded(i) => PackOK(i)
    /\ dbCorpse = -1 => CorpseRows = {}
    /\ pendingDeath => \A i \in Held(Owner) : ~Untraded(i)
    /\ Early => ops = <<>>

\* The invariant of the rows.
AllItems == \A i \in Items : Untraded(i) => ItemOK(i)
AllSnaps == \A p \in Players : SnapShape(p)
RowInv == AllItems /\ Ids /\ Dead /\ AllSnaps /\ Stock

\* Types the row lemmas use.
LEMMA RowTypes ==
    ASSUME Types
    PROVE  /\ snap \in [Players -> Snaps]
           /\ \A r \in rows : /\ r.id \in 1 .. MaxRow /\ r.item \in Items /\ r.char \in Players
                              /\ r.filed \in BOOLEAN
           /\ rows \subseteq [id : 1 .. MaxRow, item : Items, char : Players, filed : BOOLEAN]
           /\ \A i \in Items : /\ rowId[i] \in 0 .. MaxRow
                               /\ place[i] \in Players \cup {"corpse", "room", "gone"}
           /\ \A p \in Players :
                 /\ snap[p].held \subseteq Items /\ snap[p].inCorpse \subseteq Items
                 /\ Entries(p) \subseteq Items /\ packed[p] \subseteq Items
                 /\ snap[p].quit \in BOOLEAN /\ snap[p].death \in BOOLEAN
                 /\ snap[p].retire \in BOOLEAN
                 /\ snap[p].at \in {"none", "writing", "committed"}
                 /\ \A i \in Items : snap[p].ids[i] \in 0 .. MaxRow /\ snap[p].new[i] \in 0 .. MaxRow
           /\ nextRow \in 1 .. MaxRow + 1 /\ removals \subseteq 1 .. MaxRow
           /\ corpse \in {"none", "unsettled", "settled", "deleting", "gone", "stranded"}
           /\ dbCorpse \in -1 .. 1 /\ pendingDeath \in BOOLEAN /\ retire \in BOOLEAN
  <1>1. snap \in [Players -> Snaps] /\ packed \in [Players -> SUBSET Items]
    BY DEF Types, WorldTypes, HistTypes
  <1>2. rows \subseteq [id : 1 .. MaxRow, item : Items, char : Players, filed : BOOLEAN]
    BY DEF Types, DbTypes
  <1>3. \A p \in Players :
                 /\ snap[p].held \subseteq Items /\ snap[p].inCorpse \subseteq Items
                 /\ Entries(p) \subseteq Items
                 /\ snap[p].quit \in BOOLEAN /\ snap[p].death \in BOOLEAN
                 /\ snap[p].retire \in BOOLEAN
                 /\ snap[p].at \in {"none", "writing", "committed"}
    BY <1>1 DEF Snaps, Entries
  <1>4. \A p \in Players : snap[p].ids \in [Items -> 0 .. MaxRow] /\ snap[p].new \in [Items -> 0 .. MaxRow]
    BY <1>1 DEF Snaps
  <1>5. \A p \in Players : packed[p] \subseteq Items
    BY <1>1
  <1>6. \A r \in rows : /\ r.id \in 1 .. MaxRow /\ r.item \in Items /\ r.char \in Players
                        /\ r.filed \in BOOLEAN
    BY <1>2
  <1>7. \A i \in Items : /\ rowId[i] \in 0 .. MaxRow
                         /\ place[i] \in Players \cup {"corpse", "room", "gone"}
    BY DEF Types, WorldTypes
  <1> QED
    BY <1>1, <1>2, <1>3, <1>4, <1>5, <1>6, <1>7 DEF Types, WorldTypes, DbTypes

\* No id is known of two items, no row stands beside another of its id, and none of an
\* untraded item beside another of the item.
LEMMA OneRow ==
    ASSUME Types, Ids
    PROVE  /\ \A r \in rows, s \in rows : r.item = s.item /\ Untraded(r.item) => r = s
           /\ \A r \in rows, i \in Items : Knows(r.id, i) => i = r.item
           /\ \A r \in rows, s \in rows : r.id = s.id => r = s
           /\ \A r \in rows : r.id < nextRow
  <1>1. \A r \in rows : r.id \in 1 .. MaxRow /\ r.item \in Items /\ Knows(r.id, r.item)
    BY RowTypes DEF Knows, HasRow
  <1>2. \A r \in rows, i \in Items : Knows(r.id, i) => i = r.item
    BY <1>1 DEF Ids
  <1>3. \A r \in rows, s \in rows : r.item = s.item /\ Untraded(r.item) => r = s
    BY DEF Ids
  <1>4. \A r \in rows, s \in rows : r.id = s.id => r = s
    BY DEF Ids
  <1>5. \A r \in rows : r.id < nextRow
    BY <1>1 DEF Ids
  <1> QED
    BY <1>2, <1>3, <1>4, <1>5

\* What stands in the database for an untraded item a snapshot has.
LEMMA EntryRows ==
    ASSUME Life, RowInv, NEW p \in Players, NEW i \in Entries(p), Untraded(i),
           NEW r \in rows, r.item = i
    PROVE  /\ ~r.filed => r.char = p
           /\ Writing(p) => r.id = snap[p].ids[i] \/ (r.char = p /\ ~r.filed)
  <1>0. Types /\ Death /\ Ids
    BY DEF Life, RowInv
  <1>1. i \in Items /\ ItemOK(i) /\ r.filed \in BOOLEAN
        /\ place[i] \in Players \cup {"corpse", "room", "gone"}
    BY <1>0, RowTypes DEF RowInv, AllItems
  <1>2. CASE place[i] \in Players
    <2>1. InHand(i, place[i]) /\ place[i] = p
      BY <1>1, <1>2 DEF ItemOK, InHand
    <2> QED
      BY <2>1 DEF InHand
  <1>3. CASE place[i] = "corpse" /\ corpse = "unsettled"
    <2>1. InUnsettled(i) /\ p = Owner
      BY <1>1, <1>3 DEF ItemOK, InUnsettled
    <2>2. r.char = Owner /\ r.filed = DeathDone
      BY <2>1 DEF InUnsettled
    <2>3. Writing(p) => ~DeathDone
      BY <2>1 DEF DeathDone, Writing, Committed
    <2> QED
      BY <2>1, <2>2, <2>3
  <1>4. CASE (place[i] = "corpse" /\ corpse # "unsettled") \/ place[i] = "room"
    BY <1>1, <1>4 DEF ItemOK, InSettled, InRoom
  <1>5. CASE place[i] = "gone"
    <2>1. LastSave(p, i) \/ (p = Owner /\ Rotten(i))
      BY <1>1, <1>5 DEF ItemOK, Outside
    <2>2. CASE LastSave(p, i)
      BY <2>2 DEF LastSave
    <2>3. CASE p = Owner /\ Rotten(i)
      <3>1. PICK s \in rows : s.item = i /\ s.id = snap[Owner].ids[i] /\ s.char = Owner
        BY <2>3 DEF Rotten
      <3>2. s = r
        BY <1>0, <3>1, OneRow
      <3> QED
        BY <2>3, <3>1, <3>2
    <2> QED
      BY <2>1, <2>2, <2>3
  <1> QED
    BY <1>1, <1>2, <1>3, <1>4, <1>5

\* The id of the row of an entry once the save has committed.
IdAfter(p, i) ==
    IF HasRow(snap[p].ids[i], i) THEN snap[p].ids[i] ELSE snap'[p].new[i]
\* The rows of i are p's, or have the id that p's snapshot names.
Claimed(p, i) ==
    \A r \in rows : r.item = i => r.id = snap[p].ids[i] \/ (r.char = p /\ ~r.filed)

\* What a save leaves in CharacterItems: a row for each entry, under its own id or a new
\* one, and no other where it claimed them all; nothing else of the pack; the rows of
\* others, and those filed under the corpse unless the save gives it back.
LEMMA CommitRows ==
    ASSUME Life, Ids, AllSnaps, NEW p \in Players, Commit(p)
    PROVE  /\ \A i \in Entries(p) : /\ Row(i, IdAfter(p, i), p, snap[p]) \in rows'
                                    /\ IdAfter(p, i) \in 1 .. MaxRow /\ IdAfter(p, i) < nextRow'
           /\ \A r \in rows' : r.item \in Entries(p) =>
                 \/ r \in rows /\ ~Claimed(p, r.item)
                 \/ r = Row(r.item, IdAfter(p, r.item), p, snap[p])
           /\ \A r \in rows' : r.item \notin Entries(p) =>
                 r \in rows /\ (r.filed \/ r.char # p) /\ ~(snap[p].retire /\ r.filed)
           /\ \A r \in rows : /\ r.item \notin Entries(p)
                              /\ (r.filed \/ r.char # p) /\ ~(snap[p].retire /\ r.filed)
                 => r \in rows'
           /\ \A i \in Items : snap'[p].new[i] # 0 =>
                 /\ i \in Entries(p) /\ ~HasRow(snap[p].ids[i], i)
                 /\ snap'[p].new[i] >= nextRow /\ snap'[p].new[i] < nextRow'
           /\ \A i, j \in Items : snap'[p].new[i] # 0 /\ snap'[p].new[i] = snap'[p].new[j] => i = j
           /\ \A r, x \in rows' : r.id = x.id => r = x
           /\ \A r \in rows' : ~(snap[p].retire /\ r.filed)
           /\ nextRow' >= nextRow /\ snap[p].at = "writing"
           /\ snap[p].retire => snap[p].inCorpse = {}
  <1> DEFINE s == snap[p]
             N == Inserted(p, s)
             entries == s.held \cup s.inCorpse
             kept == rows \ Dropped(p, s)
             known == {i \in entries : \E r \in kept : r.id = s.ids[i]}
  <1>0. Types /\ Death /\ Marks
    BY DEF Life
  <1>1. PICK new \in [Items -> 0 .. MaxRow] :
          /\ FreshIds(N, new) /\ Written(p, s, new)
          /\ snap' = [snap EXCEPT ![p].at = "committed", ![p].new = new]
          /\ rows' = IF s.retire THEN {r \in SaveInventory(p, s, new) : ~r.filed}
                     ELSE SaveInventory(p, s, new)
    BY DEF Commit, Written
  <1>2. s.at = "writing" /\ nextRow + Cardinality(N) <= MaxRow + 1 /\ nextRow' = nextRow + Cardinality(N)
    BY <1>1 DEF Commit, Written
  <1>3. /\ nextRow' >= nextRow /\ nextRow' \in 1 .. MaxRow + 1 /\ nextRow \in 1 .. MaxRow + 1
        /\ \A i \in N : new[i] \in 1 .. MaxRow /\ new[i] >= nextRow /\ new[i] < nextRow'
        /\ \A i \in Items : i \notin N => new[i] = 0
    BY <1>0, <1>1, <1>2, FreshFit, RowTypes
  <1>4. snap'[p].new = new
    BY <1>0, <1>1, SnapCommits, RowTypes
  <1>5. entries = Entries(p) /\ entries \subseteq Items
    BY <1>0, RowTypes DEF Entries
  <1>7. \A r \in rows, i \in Items : s.ids[i] = r.id => i = r.item
    BY <1>0, OneRow DEF Knows
  <1>8. \A r \in rows : r \in kept <=> \/ r.filed \/ r.char # p
                                       \/ r.item \in Entries(p) /\ r.id = s.ids[r.item]
    <2>1. \A r \in rows : r \in Dropped(p, s) <=> r.char = p /\ ~r.filed /\ \A i \in entries : s.ids[i] # r.id
      BY DEF Dropped, PackRows
    <2> QED
      BY <1>5, <1>7, <2>1
  <1>9. \A i \in Entries(p) : i \in known <=> HasRow(s.ids[i], i)
    <2>1. ASSUME NEW i \in Entries(p), i \in known PROVE HasRow(s.ids[i], i)
      BY <1>5, <1>7, <2>1 DEF HasRow
    <2>2. ASSUME NEW i \in Entries(p), HasRow(s.ids[i], i) PROVE i \in known
      BY <1>5, <1>8, <2>2 DEF HasRow
    <2> QED
      BY <2>1, <2>2
  <1>10. N = entries \ known
    BY DEF Inserted
  <1>11. SaveInventory(p, s, new) =
           (kept \ {r \in kept : \E i \in known : r.id = s.ids[i]})
              \cup {Row(i, s.ids[i], p, s) : i \in known}
              \cup {Row(i, new[i], p, s) : i \in entries \ known}
    BY DEF SaveInventory
  <1>12. \A i \in Entries(p) : IdAfter(p, i) = IF i \in known THEN s.ids[i] ELSE new[i]
    BY <1>4, <1>9 DEF IdAfter
  <1>15. \A r \in kept : r \in rows
    BY DEF kept
  <1>30. known \subseteq entries /\ \A i \in known : \E r \in kept : r.id = s.ids[i]
    BY DEF known
  <1> HIDE DEF N, known, entries, kept
  <1>13. \A i, n : /\ Row(i, n, p, s).item = i /\ Row(i, n, p, s).id = n
                   /\ Row(i, n, p, s).filed = (i \in s.inCorpse)
    BY DEF Row
  <1>14. \A r : r \in SaveInventory(p, s, new) <=>
              \/ r \in kept /\ ~(\E i \in known : r.id = s.ids[i])
              \/ \E i \in Entries(p) : r = Row(i, IdAfter(p, i), p, s)
    BY <1>5, <1>11, <1>12, <1>30
  <1>16. \A r \in kept : (\E i \in known : r.id = s.ids[i]) => r.item \in Entries(p)
    <2>1. ASSUME NEW r \in kept, NEW i \in known, r.id = s.ids[i] PROVE r.item \in Entries(p)
      <3>1. i \in Entries(p) /\ i \in Items
        BY <1>5, <1>30
      <3> QED
        BY <1>7, <1>15, <2>1, <3>1
    <2> QED
      BY <2>1
  <1>17. \A r \in kept : r.item \in Entries(p) /\ Claimed(p, r.item) => \E i \in known : r.id = s.ids[i]
    <2>1. ASSUME NEW r \in kept, r.item \in Entries(p), Claimed(p, r.item)
          PROVE  r.item \in known /\ r.id = s.ids[r.item]
      <3>1. r.id = s.ids[r.item]
        BY <1>8, <1>15, <2>1 DEF Claimed
      <3>2. HasRow(s.ids[r.item], r.item)
        BY <1>15, <3>1 DEF HasRow
      <3> QED
        BY <1>9, <2>1, <3>1, <3>2
    <2> QED
      BY <2>1
  <1>18. s.retire => s.inCorpse = {}
    <2>1. s.retire => ~s.death
      BY <1>0 DEF Marks, Mark, Death
    <2> QED
      BY <2>1 DEF AllSnaps, SnapShape
  <1>19. \A r : r \in rows' <=> r \in SaveInventory(p, s, new) /\ ~(s.retire /\ r.filed)
    BY <1>1
  <1>20. \A i \in Entries(p) : Row(i, IdAfter(p, i), p, s) \in rows'
    <2>1. ASSUME NEW i \in Entries(p) PROVE ~(s.retire /\ Row(i, IdAfter(p, i), p, s).filed)
      BY <1>13, <1>18
    <2>2. ASSUME NEW i \in Entries(p) PROVE Row(i, IdAfter(p, i), p, s) \in SaveInventory(p, s, new)
      BY <1>14
    <2> QED
      BY <1>19, <2>1, <2>2
  <1>21. \A i \in Entries(p) : IdAfter(p, i) \in 1 .. MaxRow /\ IdAfter(p, i) < nextRow'
    <2>1. ASSUME NEW i \in Entries(p), i \in known PROVE s.ids[i] \in 1 .. MaxRow /\ s.ids[i] < nextRow'
      <3>1. PICK r \in rows : r.id = s.ids[i]
        BY <1>15, <1>30, <2>1
      <3>2. r.id \in 1 .. MaxRow /\ r.id < nextRow
        BY <1>0, OneRow, RowTypes
      <3> QED
        BY <1>3, <3>1, <3>2
    <2>2. ASSUME NEW i \in Entries(p), i \notin known PROVE new[i] \in 1 .. MaxRow /\ new[i] < nextRow'
      BY <1>3, <1>5, <1>10, <2>2
    <2> QED
      BY <1>12, <2>1, <2>2
  <1>22. \A r \in rows' : r.item \in Entries(p) =>
            (r \in rows /\ ~Claimed(p, r.item)) \/ r = Row(r.item, IdAfter(p, r.item), p, s)
    <2>1. ASSUME NEW r \in rows', r.item \in Entries(p)
          PROVE  (r \in rows /\ ~Claimed(p, r.item)) \/ r = Row(r.item, IdAfter(p, r.item), p, s)
      <3>1. CASE r \in kept /\ ~(\E i \in known : r.id = s.ids[i])
        BY <1>15, <1>17, <2>1, <3>1
      <3>2. CASE \E i \in Entries(p) : r = Row(i, IdAfter(p, i), p, s)
        BY <1>13, <3>2
      <3> QED
        BY <1>14, <1>19, <3>1, <3>2
    <2> QED
      BY <2>1
  <1>23. \A r \in rows' : r.item \notin Entries(p) =>
                 r \in rows /\ (r.filed \/ r.char # p) /\ ~(s.retire /\ r.filed)
    <2>1. ASSUME NEW r \in rows', r.item \notin Entries(p) PROVE r \in kept
      BY <1>13, <1>14, <1>19, <2>1
    <2> QED
      BY <1>8, <1>15, <1>19, <2>1
  <1>24. \A r \in rows : r.item \notin Entries(p) /\ (r.filed \/ r.char # p) /\ ~(s.retire /\ r.filed)
                 => r \in rows'
    BY <1>8, <1>14, <1>16, <1>19
  <1>25. \A i \in Items : new[i] # 0 =>
                 /\ i \in Entries(p) /\ ~HasRow(s.ids[i], i)
                 /\ new[i] >= nextRow /\ new[i] < nextRow'
    BY <1>3, <1>5, <1>9, <1>10
  <1>26. \A i, j \in Items : new[i] # 0 /\ new[i] = new[j] => i = j
    <2>1. \A i, j \in N : new[i] = new[j] => i = j
      BY <1>1 DEF FreshIds
    <2> QED
      BY <1>3, <2>1
  <1>27. \A i \in Entries(p) : i \notin known =>
            new[i] # 0 /\ new[i] >= nextRow /\ new[i] \in Nat /\ i \in Items
    BY <1>3, <1>5, <1>10
  <1>28. \A r \in kept : r \in rows /\ r.id \in Nat /\ r.id < nextRow /\ nextRow \in Nat
    BY <1>0, <1>3, <1>15, OneRow, RowTypes
  <1>29. ASSUME NEW r \in rows', NEW x \in rows', r.id = x.id PROVE r = x
    <2>1. ASSUME NEW y \in rows'
          PROVE  \/ y \in kept /\ ~(\E i \in known : y.id = s.ids[i])
                 \/ \E i \in Entries(p) : y = Row(i, IdAfter(p, i), p, s)
      BY <1>14, <1>19
    <2>2. ASSUME NEW y \in kept, ~(\E i \in known : y.id = s.ids[i]), NEW i \in Entries(p)
          PROVE  y.id # IdAfter(p, i)
      <3>1. CASE i \in known
        BY <1>12, <2>2, <3>1
      <3>2. CASE i \notin known
        BY <1>12, <1>27, <1>28, <3>2
      <3> QED
        BY <3>1, <3>2
    <2>3. ASSUME NEW i \in Entries(p), NEW j \in Entries(p), IdAfter(p, i) = IdAfter(p, j) PROVE i = j
      <3>1. CASE i \in known /\ j \in known
        <4>1. PICK y \in kept : y.id = s.ids[i]
          BY <1>30, <3>1
        <4>2. i \in Items /\ j \in Items /\ y.id = s.ids[j]
          BY <1>5, <1>12, <2>3, <3>1, <4>1
        <4> QED
          BY <1>7, <1>15, <4>1, <4>2
      <3>2. CASE i \in known /\ j \notin known
        <4>1. PICK y \in kept : y.id = s.ids[i]
          BY <1>30, <3>2
        <4> QED
          BY <1>12, <1>27, <1>28, <2>3, <3>2, <4>1
      <3>3. CASE i \notin known /\ j \in known
        <4>1. PICK y \in kept : y.id = s.ids[j]
          BY <1>30, <3>3
        <4> QED
          BY <1>12, <1>27, <1>28, <2>3, <3>3, <4>1
      <3>4. CASE i \notin known /\ j \notin known
        BY <1>12, <1>26, <1>27, <2>3, <3>4
      <3> QED
        BY <3>1, <3>2, <3>3, <3>4
    <2>4. CASE r \in kept /\ x \in kept
      BY <1>0, <1>15, <1>29, <2>4, OneRow
    <2>5. ASSUME r \in kept, x \notin kept PROVE FALSE
      <3>1. PICK i \in Entries(p) : x = Row(i, IdAfter(p, i), p, s)
        BY <2>1, <2>5
      <3>2. CASE \E j \in Entries(p) : r = Row(j, IdAfter(p, j), p, s)
        <4>1. PICK j \in Entries(p) : r = Row(j, IdAfter(p, j), p, s)
          BY <3>2
        <4>2. i = j
          BY <1>13, <1>29, <2>3, <3>1, <4>1
        <4> QED
          BY <2>5, <3>1, <4>1, <4>2
      <3>3. CASE ~(\E j \in Entries(p) : r = Row(j, IdAfter(p, j), p, s))
        <4>1. ~(\E j \in known : r.id = s.ids[j])
          BY <2>1, <3>3
        <4> QED
          BY <1>13, <1>29, <2>2, <2>5, <3>1, <4>1
      <3> QED
        BY <3>2, <3>3
    <2>6. ASSUME x \in kept, r \notin kept PROVE FALSE
      <3>1. PICK i \in Entries(p) : r = Row(i, IdAfter(p, i), p, s)
        BY <2>1, <2>6
      <3>2. CASE \E j \in Entries(p) : x = Row(j, IdAfter(p, j), p, s)
        <4>1. PICK j \in Entries(p) : x = Row(j, IdAfter(p, j), p, s)
          BY <3>2
        <4>2. i = j
          BY <1>13, <1>29, <2>3, <3>1, <4>1
        <4> QED
          BY <2>6, <3>1, <4>1, <4>2
      <3>3. CASE ~(\E j \in Entries(p) : x = Row(j, IdAfter(p, j), p, s))
        <4>1. ~(\E j \in known : x.id = s.ids[j])
          BY <2>1, <3>3
        <4> QED
          BY <1>13, <1>29, <2>2, <2>6, <3>1, <4>1
      <3> QED
        BY <3>2, <3>3
    <2>7. CASE r \notin kept /\ x \notin kept
      <3>1. PICK i \in Entries(p) : r = Row(i, IdAfter(p, i), p, s)
        BY <2>1, <2>7
      <3>2. PICK j \in Entries(p) : x = Row(j, IdAfter(p, j), p, s)
        BY <2>1, <2>7
      <3>3. i = j
        BY <1>13, <1>29, <2>3, <3>1, <3>2
      <3> QED
        BY <3>1, <3>2, <3>3
    <2> QED
      BY <2>4, <2>5, <2>6, <2>7
  <1> QED
    BY <1>2, <1>3, <1>4, <1>18, <1>19, <1>20, <1>21, <1>22, <1>23, <1>24, <1>25, <1>26, <1>29

\* The rows of an item are what they were.
SameRows(i) == \A r : r.item = i => (r \in rows' <=> r \in rows)

\* An item that a step leaves where it is, with its row and its place in every
\* snapshot, while the corpse moves on and marks are added.
LEMMA ItemFrame ==
    ASSUME NEW i \in Items, Types, Types', ItemOK(i), SameRows(i),
           place'[i] = place[i], rowId'[i] = rowId[i], UNCHANGED <<snap, online>>,
           removals \subseteq removals',
           (corpse' = "unsettled") <=> (corpse = "unsettled"),
           corpse' = "settled" => corpse = "settled" \/ missed',
           corpse = "gone" => corpse' = "gone", corpse' = "stranded" => corpse = "stranded",
           place[i] = "corpse" => /\ corpse' # "gone" /\ corpse' # "none"
                                  /\ finished' # "Deleted" => finished # "Deleted",
           \A p \in Players : Looted(p) => Looted(p)',
           \A p \in Players : Clears(p)' => Clears(p),
           \A q \in Players : snap[q].quit /\ mark[q] # 0 => mark'[q] # 0,
           missed => missed',
           corpse' = "settled" => \A n \in 1 .. MaxRow, k \in DOMAIN ops :
              n \in ops[k].ids => missed' \/ \E l \in DOMAIN ops' : n \in ops'[l].ids
    PROVE  ItemOK(i)'
  <1>1. \A r \in rows : r.id \in 1 .. MaxRow
    BY RowTypes
  <1>2. \A n : HasRow(n, i)' <=> HasRow(n, i)
    BY DEF HasRow, SameRows
  <1>3. /\ \A p : Entries(p)' = Entries(p) /\ Out(p)' = Out(p) /\ Writing(p)' = Writing(p)
               /\ Committed(p)' = Committed(p)
        /\ DeathDone' = DeathDone
    BY DEF Entries, Out, Writing, Committed, DeathDone
  <1>4. corpse' \in {"none", "unsettled", "settled", "deleting", "gone", "stranded"}
    BY DEF Types, WorldTypes
  <1>5. ASSUME NEW p \in Players, InHand(i, p) PROVE InHand(i, p)'
    <2>1. \A r \in rows' : r.item = i => r \in rows
      BY DEF SameRows
    <2>2. \A r \in rows : r.item = i => r \in rows'
      BY DEF SameRows
    <2> QED
      BY <1>2, <1>3, <1>5, <2>1, <2>2 DEF InHand
  <1>6. ASSUME InUnsettled(i) PROVE InUnsettled(i)'
    <2>1. \A r \in rows' : r.item = i => r \in rows
      BY DEF SameRows
    <2>2. \A r \in rows : r.item = i => r \in rows'
      BY DEF SameRows
    <2> QED
      BY <1>2, <1>3, <1>6, <2>1, <2>2 DEF InUnsettled
  <1>7. ASSUME InSettled(i), place[i] = "corpse" PROVE InSettled(i)'
    <2>1. \A r \in rows' : r.item = i => r \in rows
      BY DEF SameRows
    <2>2. corpse' \in {"settled", "deleting"}
      BY <1>4, <1>7 DEF InSettled
    <2> QED
      BY <1>2, <1>3, <1>7, <2>1, <2>2 DEF InSettled
  <1>8. ASSUME InRoom(i) PROVE InRoom(i)'
    BY <1>3, <1>8 DEF InRoom, SameRows
  <1>9. ASSUME Outside(i) PROVE Outside(i)'
    <2>1. \A r \in rows' : r.item = i => r \in rows
      BY DEF SameRows
    <2>2. \A r \in rows : r.item = i => r \in rows'
      BY DEF SameRows
    <2>3. \A p \in Players : LastSave(p, i) => LastSave(p, i)'
      BY <1>3, <2>1, <2>2 DEF LastSave
    <2>4. Rotten(i) => Rotten(i)'
      BY <2>2 DEF Rotten
    <2>5. \A p \in Players : i \in Entries(p)' => LastSave(p, i)' \/ (p = Owner /\ Rotten(i)')
      BY <1>3, <1>9, <2>3, <2>4 DEF Outside
    <2>6. \A p, q \in Players : i \in Entries(p)' /\ i \in Entries(q)' => p = q
      BY <1>3, <1>9 DEF Outside
    <2>7. \A r \in rows' : r.item = i /\ ~r.filed =>
          \/ r.char \notin online' /\ (Out(r.char)' => i \in snap'[r.char].held)
          \/ r.char = Owner /\ corpse' = "unsettled" /\ r.id \in removals' /\ ~DeathDone'
      BY <1>3, <1>9, <2>1 DEF Outside
    <2>8. ASSUME NEW r \in rows', r.item = i, r.filed
          PROVE  /\ corpse' = "unsettled" => r.id \in removals' /\ DeathDone'
                 /\ corpse' = "settled" =>
                       \/ missed' \/ \E k \in DOMAIN ops' : r.id \in ops'[k].ids
                       \/ \E q \in Players : /\ Writing(q)' /\ snap'[q].quit /\ mark'[q] # 0
                                             /\ i \in snap'[q].held
      <3>1. r \in rows /\ r.id \in 1 .. MaxRow
        BY <1>1, <2>1, <2>8
      <3>2. corpse = "unsettled" => r.id \in removals /\ DeathDone
        BY <1>9, <2>8, <3>1 DEF Outside
      <3>3. corpse = "settled" =>
                \/ missed \/ \E k \in DOMAIN ops : r.id \in ops[k].ids
                \/ \E q \in Players : /\ Writing(q) /\ snap[q].quit /\ mark[q] # 0
                                      /\ i \in snap[q].held
        BY <1>9, <2>8, <3>1 DEF Outside
      <3>4. corpse' = "settled" /\ ~missed' => corpse = "settled"
        OBVIOUS
      <3> QED
        BY <1>3, <3>1, <3>2, <3>3, <3>4
    <2> QED
      BY <1>9, <2>5, <2>6, <2>7, <2>8 DEF Outside
  <1> QED
    BY <1>5, <1>6, <1>7, <1>8, <1>9 DEF ItemOK

\* No id becomes known of an item.
LEMMA IdsFrame ==
    ASSUME Types, Ids, rows' \subseteq rows, nextRow' = nextRow,
           \A i \in Items, n \in 1 .. MaxRow : Knows(n, i)' => Knows(n, i), handed' = handed
    PROVE  Ids'
  BY DEF Ids, Untraded

\* Online, Owner is dead exactly while the corpse has not settled.
LEMMA OwnerOnline == Death /\ Types /\ corpse = "unsettled" /\ Owner \in online => pendingDeath
  <1> SUFFICES ASSUME Death, Types, corpse = "unsettled", Owner \in online, ~pendingDeath
               PROVE  FALSE
    OBVIOUS
  <1>1. snap[Owner].death /\ snap[Owner].quit
    BY CorpsesAssumption DEF Death
  <1>2. Out(Owner)
    BY <1>1, SnapsFit, CorpsesAssumption DEF Death, Out
  <1> QED
    BY <1>1, <1>2, CorpsesAssumption DEF Death

\* The invariant of the rows holds at first.
LEMMA RowsInit == Init /\ Life => RowInv
  <1> SUFFICES ASSUME Init, Life PROVE RowInv
    OBVIOUS
  <1>1. PICK stored \in SUBSET Items :
          /\ \E f \in [Items -> 0 .. Cardinality(Items)] :
                /\ \A i \in Items : (f[i] = 0) = (i \notin stored)
                /\ \A i, j \in stored : f[i] = f[j] => i = j
                /\ \A i \in stored : f[i] <= Cardinality(stored)
                /\ rowId = f
                /\ rows = {[id |-> f[i], item |-> i, char |-> Owner, filed |-> FALSE] :
                              i \in stored}
          /\ nextRow = Cardinality(stored) + 1
    BY DEF Init
  <1>2. /\ \A i \in Items : (rowId[i] = 0) <=> (i \notin stored)
        /\ \A i, j \in stored : rowId[i] = rowId[j] => i = j
        /\ \A i \in stored : rowId[i] <= Cardinality(stored)
        /\ rows = {[id |-> rowId[i], item |-> i, char |-> Owner, filed |-> FALSE] : i \in stored}
    BY <1>1
  <1>3. /\ online = Players /\ \A i \in Items : place[i] = Owner
        /\ corpse = "none" /\ pendingDeath = FALSE /\ removals = {} /\ dbCorpse = -1
        /\ \A p \in Players : snap[p] = NoSnap
        /\ ops = <<>>
    BY DEF Init
  <1>4. \A p \in Players : /\ snap[p].at = "none" /\ ~snap[p].quit /\ ~snap[p].death /\ ~snap[p].retire
                           /\ Entries(p) = {} /\ snap[p].held = {} /\ snap[p].inCorpse = {}
                           /\ \A i \in Items : snap[p].ids[i] = 0 /\ snap[p].new[i] = 0
    BY <1>3, SnapsFit DEF Entries, NoIds
  <1>5. \A r \in rows : /\ r.item \in stored /\ r.id = rowId[r.item] /\ r.char = Owner /\ ~r.filed
                        /\ r = [id |-> rowId[r.item], item |-> r.item, char |-> Owner, filed |-> FALSE]
    BY <1>2
  <1>6. \A i \in stored : HasRow(rowId[i], i)
    <2>1. ASSUME NEW i \in stored
          PROVE  \E r \in rows : r.id = rowId[i] /\ r.item = i
      <3> DEFINE row == [id |-> rowId[i], item |-> i, char |-> Owner, filed |-> FALSE]
      <3>1. row \in rows /\ row.id = rowId[i] /\ row.item = i
        BY <1>2
      <3> QED
        BY <3>1
    <2> QED
      BY <2>1 DEF HasRow
  <1>7. Cardinality(stored) \in Nat
    BY CorpsesAssumption, FS_Subset, FS_CardinalityType
  <1>8. AllItems
    <2>1. ASSUME NEW i \in Items, Untraded(i) PROVE InHand(i, Owner)
      BY <1>2, <1>3, <1>4, <1>5, <1>6, CorpsesAssumption DEF InHand, Writing, Committed
    <2> QED
      BY <1>3, <2>1, CorpsesAssumption DEF AllItems, ItemOK
  <1>9. \A n \in 1 .. MaxRow, i \in Items : Knows(n, i) => i \in stored /\ n = rowId[i]
    BY <1>2, <1>4, <1>5 DEF Knows, HasRow
  <1>10. Ids
    <2>1. \A n \in 1 .. MaxRow, i, j \in Items : Knows(n, i) /\ Knows(n, j) => i = j
      BY <1>2, <1>9
    <2>2. \A n \in 1 .. MaxRow, i \in Items : Knows(n, i) => n < nextRow
      <3>1. \A n \in 1 .. MaxRow, i \in Items : Knows(n, i) => n <= Cardinality(stored)
        BY <1>2, <1>9
      <3> QED
        BY <1>1, <1>7, <3>1
    <2>3. \A r, s \in rows : r.item = s.item => r = s
      BY <1>5
    <2>4. ASSUME NEW r \in rows, NEW s \in rows, r.id = s.id PROVE r = s
      <3>1. r.item \in stored /\ s.item \in stored /\ rowId[r.item] = rowId[s.item]
        BY <1>5, <2>4
      <3>2. r.item = s.item
        BY <1>2, <3>1
      <3> QED
        BY <1>5, <3>2
    <2> QED
      BY <2>1, <2>2, <2>3, <2>4 DEF Ids
  <1>11. DOMAIN ops = {}
    BY <1>3
  <1>12. Dead
    BY <1>3, <1>11 DEF Dead
  <1>13. AllSnaps
    BY <1>4 DEF AllSnaps, SnapShape
  <1>14. Stock
    BY <1>3, <1>5 DEF Stock, CorpseRows, PackOK, Early
  <1> QED
    BY <1>8, <1>10, <1>12, <1>13, <1>14 DEF RowInv

\* Nothing about items changes.
LEMMA RowsStill ==
    ASSUME RowInv,
           UNCHANGED <<online, place, rowId, corpse, pendingDeath, retire, mark, removals, snap,
                       ops, finished, rows, nextRow, dbCorpse, packed, missed, handed>>
    PROVE  RowInv'
  <1>1. \A i \in Items : Untraded(i) => ItemOK(i)'
    <2>1. /\ \A p : Entries(p)' = Entries(p) /\ Out(p)' = Out(p) /\ Writing(p)' = Writing(p)
               /\ Committed(p)' = Committed(p) /\ Looted(p)' = Looted(p) /\ Clears(p)' = Clears(p)
          /\ DeathDone' = DeathDone /\ \A n, i : HasRow(n, i)' = HasRow(n, i)
      BY DEF Entries, Out, Writing, Committed, DeathDone, Looted, Clears, HasRow
    <2>2. \A i, p : InHand(i, p)' = InHand(i, p)
      BY <2>1 DEF InHand
    <2>3. \A i : InUnsettled(i)' = InUnsettled(i) /\ InSettled(i)' = InSettled(i) /\ InRoom(i)' = InRoom(i)
      BY <2>1 DEF InUnsettled, InSettled, InRoom
    <2>4. \A i : (\A p : LastSave(p, i)' = LastSave(p, i)) /\ Rotten(i)' = Rotten(i)
      BY <2>1 DEF LastSave, Rotten
    <2>5. \A i : Outside(i)' = Outside(i)
      BY <2>1, <2>4 DEF Outside
    <2> QED
      BY <2>2, <2>3, <2>5 DEF RowInv, AllItems, ItemOK, Untraded
  <1>2. Ids'
    BY DEF RowInv, Ids, Knows, HasRow, Untraded
  <1>3. Dead'
    BY DEF RowInv, Dead, DeadId, DeathDone, Committed, Untraded
  <1>4. AllSnaps'
    BY DEF RowInv, AllSnaps, SnapShape, Entries, Committed, CorpseRows, Untraded
  <1>5. Stock'
    BY DEF RowInv, Stock, Out, PackOK, InPack, CorpseRows, Held, Early, Untraded
  <1> QED
    BY <1>1, <1>2, <1>3, <1>4, <1>5 DEF RowInv, AllItems, Untraded

\* A death puts what Owner held in an unsettled corpse.
LEMMA RowsDie == Life /\ Coins /\ Life' /\ RowInv /\ Die => RowInv'
  <1> SUFFICES ASSUME Life, Coins, Life', RowInv, Die PROVE RowInv'
    OBVIOUS
  <1>0. Types /\ Types' /\ Death /\ Marks /\ Death'
    BY DEF Life
  <1>1. /\ corpse = "none" /\ corpse' = "unsettled" /\ Owner \in online /\ pendingDeath' = TRUE
        /\ place' = [i \in Items |-> IF place[i] = Owner THEN "corpse" ELSE place[i]]
        /\ UNCHANGED <<online, rowId, retire, mark, removals, snap, ops, finished, rows, nextRow,
                       dbCorpse, packed, missed, handed>>
    BY DEF Die, writerVars, dbVars, histVars
  <1>2. ~snap[Owner].death /\ ~DeathDone /\ ~pendingDeath /\ ~retire /\ (\A p \in Players : mark[p] = 0)
        /\ removals = {}
    BY <1>0, <1>1, CorpsesAssumption DEF Death, Marks, Mark, Early, DeathDone
  <1>3. /\ \A p : Entries(p)' = Entries(p) /\ Out(p)' = Out(p) /\ Writing(p)' = Writing(p)
               /\ Committed(p)' = Committed(p) /\ Looted(p)' = Looted(p) /\ Clears(p)' = Clears(p)
        /\ DeathDone' = DeathDone /\ \A n, i : HasRow(n, i)' = HasRow(n, i)
    BY <1>1 DEF Entries, Out, Writing, Committed, DeathDone, Looted, Clears, HasRow
  <1>4. \A r \in rows : r.filed \in BOOLEAN
    BY <1>0, RowTypes
  <1>5. ASSUME NEW i \in Items, Untraded(i), place[i] = Owner PROVE ItemOK(i)'
    <2>1. InHand(i, Owner) /\ place'[i] = "corpse"
      BY <1>1, <1>5, CorpsesAssumption DEF RowInv, AllItems, ItemOK
    <2>2. \A r \in rows : r.item = i => ~r.filed
      BY <1>2, <1>4, <2>1, CorpsesAssumption DEF InHand, Looted
    <2>3. \A r \in rows : r.item = i =>
             /\ r.char = Owner /\ (Writing(Owner) => i \in Entries(Owner))
             /\ rowId[i] # 0 => r.id = rowId[i]
      <3>1. ASSUME NEW r \in rows, r.item = i, rowId[i] # 0, r.id # rowId[i] PROVE FALSE
        <4>1. snap[Owner].new[i] = r.id
          BY <2>1, <2>2, <3>1 DEF InHand
        <4>2. r.id # 0
          BY <1>0, RowTypes
        <4> QED
          BY <2>1, <3>1, <4>1, <4>2 DEF InHand
      <3> QED
        BY <2>1, <2>2, <3>1 DEF InHand, Entries
    <2>4. InUnsettled(i)'
      <3>1. \A r \in rows : r.item = i => r.filed = DeathDone
        BY <1>2, <1>4, <2>2 DEF DeathDone
      <3>2. /\ rowId[i] # 0 => HasRow(rowId[i], i)
            /\ i \in Entries(Owner) => snap[Owner].ids[i] = rowId[i]
            /\ snap[Owner].new[i] # 0 => rowId[i] = 0
            /\ \A q \in Players : i \in Entries(q) => q = Owner
        BY <2>1 DEF InHand
      <3> QED
        BY <1>1, <1>2, <1>3, <2>3, <3>1, <3>2 DEF InUnsettled
    <2> QED
      BY <1>1, <2>1, <2>4, CorpsesAssumption DEF ItemOK
  <1>6. ASSUME NEW i \in Items, Untraded(i), place[i] # Owner PROVE ItemOK(i)'
    <2>1. place'[i] = place[i] /\ ItemOK(i)
      BY <1>1, <1>6 DEF RowInv, AllItems
    <2>2. ASSUME NEW p \in Players, InHand(i, p) PROVE InHand(i, p)'
      BY <1>1, <1>3, <2>2 DEF InHand
    <2>3. place[i] # "corpse" /\ place[i] # "room"
      BY <1>1, <2>1 DEF ItemOK, InSettled, InRoom
    <2>4. ASSUME Outside(i) PROVE Outside(i)'
      <3>1. \A p \in Players : i \in Entries(p) => LastSave(p, i)
        BY <1>1, <2>4 DEF Outside, Rotten
      <3>2. \A p \in Players : LastSave(p, i) => LastSave(p, i)'
        BY <1>1, <1>3 DEF LastSave
      <3>3. \A r \in rows : r.item = i => ~r.filed
        <4>1. dbCorpse = -1
          BY <1>1 DEF Coins, Pile
        <4> QED
          BY <4>1 DEF RowInv, Stock, CorpseRows
      <3> QED
        BY <1>1, <1>3, <2>4, <3>1, <3>2, <3>3 DEF Outside
    <2> QED
      BY <1>0, <1>1, <2>1, <2>2, <2>3, <2>4, RowTypes DEF ItemOK
  <1>7. Ids'
    BY <1>1 DEF RowInv, Ids, Knows, HasRow, Untraded
  <1>8. Dead'
    BY <1>1, <1>3 DEF RowInv, Dead, DeadId, Untraded
  <1>9. AllSnaps'
    BY <1>1, <1>3 DEF RowInv, AllSnaps, SnapShape, CorpseRows, Untraded
  <1>10. Stock'
    <2>1. Held(Owner)' = {}
      BY <1>1, CorpsesAssumption DEF Held
    <2> QED
      BY <1>1, <1>3, <2>1 DEF RowInv, Stock, PackOK, InPack, CorpseRows, Early, Untraded
  <1> QED
    BY <1>1, <1>5, <1>6, <1>7, <1>8, <1>9, <1>10 DEF RowInv, AllItems, Untraded

\* No id dies, and no dead id comes back.
LEMMA DeadFrame ==
    ASSUME Types, Types', Dead, rows' \subseteq rows, nextRow' = nextRow, snap' = snap,
           handed' = handed,
           \A i \in Items : rowId'[i] = rowId[i] \/ rowId'[i] = 0,
           removals' \subseteq removals,
           \A k \in DOMAIN ops' : \A n \in ops'[k].ids :
              n \in 1 .. MaxRow /\ \E j \in DOMAIN ops : n \in ops[j].ids
    PROVE  Dead'
  <1>1. DeathDone' = DeathDone
    BY DEF DeathDone, Committed
  <1>2. \A n \in 1 .. MaxRow : DeadId(n) => DeadId(n)'
    BY DEF DeadId, Untraded
  <1>3. removals \subseteq 1 .. MaxRow
    BY RowTypes
  <1>4. ASSUME NEW k \in DOMAIN ops', NEW n \in ops'[k].ids
        PROVE  /\ DeadId(n)' /\ \A r \in rows' : r.id = n /\ Untraded(r.item) => r.filed
               /\ \A p \in Players, i \in Items : Untraded(i) => snap'[p].ids[i] # n
    <2>1. PICK j \in DOMAIN ops : n \in ops[j].ids
      BY <1>4
    <2>2. /\ DeadId(n) /\ \A r \in rows : r.id = n /\ Untraded(r.item) => r.filed
          /\ \A p \in Players, i \in Items : Untraded(i) => snap[p].ids[i] # n
      BY <2>1 DEF Dead
    <2> QED
      BY <1>2, <1>4, <2>2
  <1>5. ASSUME NEW n \in removals'
        PROVE  /\ DeadId(n)' /\ \A r \in rows' : r.id = n /\ Untraded(r.item) => r.filed = DeathDone' /\ r.char = Owner
               /\ \A p \in Players, i \in Items : Untraded(i) /\ snap'[p].ids[i] = n => p = Owner
    BY <1>1, <1>2, <1>3, <1>5 DEF Dead
  <1> QED
    BY <1>4, <1>5 DEF Dead, Untraded

\* The channel after an operation without item rows.
LEMMA SameIds ==
    ASSUME Types, NEW o \in Ops, o.ids = {}, ops' = Append(ops, o)
    PROVE  /\ \A k \in DOMAIN ops' : \A n \in ops'[k].ids :
                 n \in 1 .. MaxRow /\ \E j \in DOMAIN ops : n \in ops[j].ids
           /\ \A k \in DOMAIN ops : k \in DOMAIN ops' /\ ops'[k] = ops[k]
  <1>1. ops \in Seq(Ops)
    BY DEF Types, DbTypes
  <1>2. /\ DOMAIN ops = 1 .. Len(ops) /\ Len(ops) \in Nat
        /\ DOMAIN ops' = 1 .. Len(ops) + 1
        /\ ops'[Len(ops) + 1] = o
        /\ \A k \in DOMAIN ops : ops'[k] = ops[k]
    BY <1>1, OpsAppended
  <1>3. \A k \in DOMAIN ops : ops[k].ids \subseteq 1 .. MaxRow
    <2>1. \A k \in DOMAIN ops : ops[k] \in Ops
      BY <1>1
    <2> QED
      BY <2>1 DEF Ops
  <1> QED
    BY <1>2, <1>3

\* The ids in the channel as it is.
LEMMA IdsInOps ==
    ASSUME Types
    PROVE  \A k \in DOMAIN ops : \A n \in ops[k].ids :
              n \in 1 .. MaxRow /\ \E j \in DOMAIN ops : n \in ops[j].ids
  <1>1. ops \in Seq(Ops)
    BY DEF Types, DbTypes
  <1>2. \A k \in DOMAIN ops : ops[k] \in Ops
    BY <1>1
  <1> QED
    BY <1>2 DEF Ops

\* The channel after an operation is done.
LEMMA FewerIds ==
    ASSUME Types, ops # <<>>, ops' = Tail(ops)
    PROVE  /\ \A k \in DOMAIN ops' : \A n \in ops'[k].ids :
                 n \in 1 .. MaxRow /\ \E j \in DOMAIN ops : n \in ops[j].ids
           /\ \A k \in DOMAIN ops :
                 k = 1 \/ (k - 1 \in DOMAIN ops' /\ ops'[k - 1] = ops[k])
  <1>1. ops \in Seq(Ops)
    BY DEF Types, DbTypes
  <1>2. /\ DOMAIN ops' = 1 .. Len(ops) - 1 /\ DOMAIN ops = 1 .. Len(ops) /\ Len(ops) \in Nat
        /\ \A k \in DOMAIN ops' : ops'[k] = ops[k + 1]
    BY <1>1
  <1>3. \A k \in DOMAIN ops' : k + 1 \in DOMAIN ops
    BY <1>2
  <1>4. \A k \in DOMAIN ops : k = 1 \/ (k - 1 \in DOMAIN ops' /\ ops'[k - 1] = ops[k])
    BY <1>2
  <1> QED
    BY <1>2, <1>3, <1>4, IdsInOps

\* What a player does with the corpse leaves the snapshots and the rows alone.
LEMMA RowsElsewhere ==
    ASSUME RowInv, Types, Types',
           UNCHANGED <<online, snap, rows, nextRow, dbCorpse, packed, handed>>,
           \A i \in Items : rowId'[i] = rowId[i] \/ rowId'[i] = 0,
           removals' \subseteq removals,
           \A k \in DOMAIN ops' : \A n \in ops'[k].ids :
              n \in 1 .. MaxRow /\ \E j \in DOMAIN ops : n \in ops[j].ids,
           pendingDeath' => pendingDeath, Held(Owner)' \subseteq Held(Owner) \/ ~pendingDeath,
           Early' => ops' = <<>>
    PROVE  Ids' /\ Dead' /\ AllSnaps' /\ Stock'
  <1>1. Ids'
    <2>1. ASSUME NEW i \in Items, NEW n \in 1 .. MaxRow, Knows(n, i)' PROVE Knows(n, i)
      <3>1. rowId'[i] = n => rowId[i] = n
        OBVIOUS
      <3> QED
        BY <2>1, <3>1 DEF Knows, HasRow
    <2> QED
      BY <2>1, IdsFrame DEF RowInv
  <1>2. Dead'
    BY DeadFrame DEF RowInv
  <1>3. AllSnaps'
    BY DEF RowInv, AllSnaps, SnapShape, Entries, Committed, CorpseRows, Untraded
  <1>4. Stock'
    BY DEF RowInv, Stock, Out, PackOK, InPack, CorpseRows, Untraded
  <1> QED
    BY <1>1, <1>2, <1>3, <1>4

\* An item looted keeps its id, and its row stays with the corpse until the looter's
\* save claims it.
LEMMA RowsLoot ==
    ASSUME Life, Coins, Life', RowInv, NEW p \in Players, Loot(p) PROVE RowInv'
  <1>0. Types /\ Types' /\ Death /\ Marks /\ Writer
    BY DEF Life
  <1>1. PICK S \in SUBSET Contents :
          place' = [i \in Items |-> IF i \in S THEN p ELSE place[i]]
    BY DEF Loot
  <1>2. /\ p \in online /\ corpse = "settled" /\ corpse' = "settled"
        /\ UNCHANGED <<online, rowId, pendingDeath, retire, removals, snap, ops, finished,
                       rows, nextRow, dbCorpse, packed, missed, handed>>
        /\ mark' = [mark EXCEPT ![p] = nextSeq]
    BY DEF Loot, writerVars, dbVars, histVars
  <1>3. nextSeq \in Nat /\ nextSeq # 0 /\ mark \in [Players -> 0 .. MaxSeq]
        /\ snap \in [Players -> Snaps]
    BY <1>0, CorpsesAssumption DEF Types, WorldTypes
  <1>4. mark'[p] = nextSeq /\ \A q \in Players \ {p} : mark'[q] = mark[q]
    BY <1>2, <1>3
  <1>5. \A q \in Players : ~snap[q].retire /\ snap[q].mark < nextSeq /\ snap[q].mark \in Nat
    <2>1. \A q \in Players : snap[q].mark \in 0 .. MaxSeq
      BY <1>3 DEF Snaps
    <2> QED
      BY <1>0, <1>2, <2>1, CorpsesAssumption DEF Marks, Mark
  <1>6. ~Clears(p)' /\ Looted(p)'
    <2>1. mark'[p] # snap[p].mark
      BY <1>3, <1>4, <1>5
    <2> QED
      BY <1>2, <1>3, <1>4, <1>5, <2>1 DEF Clears, Looted
  <1>7. \A q \in Players : (Looted(q) => Looted(q)') /\ (Clears(q)' => Clears(q))
    BY <1>2, <1>4, <1>6 DEF Clears, Looted
  <1>8. \A q \in Players : mark[q] # 0 => mark'[q] # 0
    BY <1>3, <1>4
  <1>9. ASSUME NEW i \in S, Untraded(i) PROVE ItemOK(i)'
    <2>1. i \in Items /\ place[i] = "corpse" /\ place'[i] = p
      BY <1>1 DEF Contents
    <2>2. InSettled(i) /\ finished = "no"
      BY <1>0, <1>2, <1>9, <2>1 DEF RowInv, AllItems, ItemOK, Writer
    <2>3. HasRow(rowId[i], i)'
      BY <1>2, <2>2 DEF InSettled, HasRow
    <2>4. snap[p].new[i] = 0 /\ \A q \in Players : i \notin Entries(q) /\ i \notin Entries(q)'
      BY <1>2, <2>1, <2>2 DEF InSettled, RowInv, AllSnaps, SnapShape, Entries
    <2>5. i \notin snap[p].held
      BY <2>4 DEF Entries
    <2>6. InHand(i, p)'
      BY <1>2, <1>6, <2>2, <2>3, <2>4, <2>5 DEF InHand, InSettled
    <2> QED
      BY <2>1, <2>6, CorpsesAssumption DEF ItemOK
  <1>10. ASSUME NEW i \in Items, Untraded(i), i \notin S PROVE ItemOK(i)'
    <2>1. place'[i] = place[i] /\ SameRows(i) /\ ItemOK(i)
      BY <1>1, <1>2, <1>10 DEF SameRows, RowInv, AllItems
    <2> QED
      BY <1>0, <1>2, <1>7, <1>8, <2>1, ItemFrame
  <1>11. Held(Owner)' \subseteq Held(Owner) \/ ~pendingDeath
    BY <1>0, <1>2 DEF Death
  <1>12. Ids' /\ Dead' /\ AllSnaps' /\ Stock'
    BY <1>0, <1>2, <1>11, IdsInOps, RowsElsewhere DEF Early
  <1> QED
    BY <1>2, <1>9, <1>10, <1>12 DEF RowInv, AllItems, Untraded

\* So does an item that comes back with its owner.
LEMMA RowsResurrect == Life /\ Coins /\ Life' /\ RowInv /\ Resurrect => RowInv'
  <1> SUFFICES ASSUME Life, Coins, Life', RowInv, Resurrect PROVE RowInv'
    OBVIOUS
  <1>0. Types /\ Types' /\ Death /\ Marks /\ Writer /\ Owner \in Players
    BY CorpsesAssumption DEF Life
  <1>1. CASE corpse # "settled"
    <2>1. UNCHANGED <<online, place, rowId, corpse, pendingDeath, retire, mark, removals, snap,
                       ops, finished, rows, nextRow, dbCorpse, packed, missed, handed>>
      BY <1>1 DEF Resurrect, writerVars, dbVars, histVars
    <2> QED
      BY <2>1, RowsStill
  <1>2. CASE corpse = "settled"
    <2>1. /\ Owner \in online /\ corpse' = "gone" /\ retire' = TRUE
          /\ place' = [i \in Items |-> IF place[i] = "corpse" THEN Owner ELSE place[i]]
          /\ UNCHANGED <<online, rowId, pendingDeath, mark, removals, snap, ops, finished,
                         rows, nextRow, dbCorpse, packed, missed, handed>>
      BY <1>2 DEF Resurrect, writerVars, dbVars, histVars
    <2>2. \A q \in Players : ~snap[q].retire
      BY <1>0, <1>2 DEF Marks, Mark
    <2>3. ~Clears(Owner)' /\ Looted(Owner)'
      BY <1>0, <2>1, <2>2 DEF Clears, Looted
    <2>4. \A q \in Players : (Looted(q) => Looted(q)') /\ (Clears(q)' => Clears(q))
      BY <2>1, <2>2, <2>3 DEF Clears, Looted
    <2>5. ASSUME NEW i \in Items, Untraded(i), place[i] = "corpse" PROVE ItemOK(i)'
      <3>1. place'[i] = Owner
        BY <2>1, <2>5
      <3>2. InSettled(i) /\ finished = "no"
        BY <1>0, <1>2, <2>5 DEF RowInv, AllItems, ItemOK, Writer
      <3>3. HasRow(rowId[i], i)'
        BY <2>1, <3>2 DEF InSettled, HasRow
      <3>4. snap[Owner].new[i] = 0 /\ \A q \in Players : i \notin Entries(q) /\ i \notin Entries(q)'
        BY <1>0, <2>1, <3>2 DEF InSettled, RowInv, AllSnaps, SnapShape, Entries
      <3>5. i \notin snap[Owner].held
        BY <1>0, <3>4 DEF Entries
      <3>6. InHand(i, Owner)'
        <4>1. \A r \in rows' : r.item = i => r.filed /\ r.id = rowId'[i]
          BY <2>1, <3>2 DEF InSettled
        <4>2. snap'[Owner].new[i] = 0 /\ i \notin snap'[Owner].held /\ i \notin Entries(Owner)'
          BY <1>0, <2>1, <3>4, <3>5
        <4> QED
          BY <2>1, <2>3, <3>3, <3>4, <4>1, <4>2 DEF InHand
      <3> QED
        BY <3>1, <3>6, CorpsesAssumption DEF ItemOK
    <2>6. ASSUME NEW i \in Items, Untraded(i), place[i] # "corpse" PROVE ItemOK(i)'
      <3>1. place'[i] = place[i] /\ SameRows(i) /\ ItemOK(i)
        BY <2>1, <2>6 DEF SameRows, RowInv, AllItems
      <3> QED
        BY <1>0, <1>2, <2>1, <2>4, <2>6, <3>1, ItemFrame
    <2>7. ~pendingDeath
      BY <1>0, <1>2 DEF Death
    <2>8. Ids' /\ Dead' /\ AllSnaps' /\ Stock'
      BY <1>0, <2>1, <2>7, IdsInOps, RowsElsewhere DEF Early
    <2> QED
      BY <2>1, <2>5, <2>6, <2>8 DEF RowInv, AllItems, Untraded
  <1> QED
    BY <1>1, <1>2

\* A purge sends off the rows of what is left, which are nobody's any more.
LEMMA RowsPurge == Life /\ Coins /\ Life' /\ RowInv /\ Purge => RowInv'
  <1> SUFFICES ASSUME Life, Coins, Life', RowInv, Purge PROVE RowInv'
    OBVIOUS
  <1>0. Types /\ Types' /\ Death /\ Marks /\ Writer /\ Owner \in Players
    BY CorpsesAssumption DEF Life
  <1>1. /\ corpse = "settled" /\ corpse' = "gone"
        /\ place' = [i \in Items |-> IF i \in Contents THEN "gone" ELSE place[i]]
        /\ rowId' = [i \in Items |-> IF i \in Contents THEN 0 ELSE rowId[i]]
        /\ ops' = Append(ops, DeleteOp(FALSE))
        /\ UNCHANGED <<online, pendingDeath, retire, mark, removals, snap, finished,
                       rows, nextRow, dbCorpse, packed, missed, handed>>
    BY DEF Purge, Despawned, pendVars, dbVars
  <1>2. DeleteOp(FALSE) \in Ops /\ DeleteOp(FALSE).ids = {}
    BY DEF DeleteOp, Ops
  <1>3. \A k \in DOMAIN ops' : \A n \in ops'[k].ids :
                 n \in 1 .. MaxRow /\ \E j \in DOMAIN ops : n \in ops[j].ids
    BY <1>0, <1>1, <1>2, SameIds
  <1>4. \A q \in Players : (Looted(q) => Looted(q)') /\ (Clears(q)' => Clears(q))
    BY <1>1 DEF Looted, Clears
  <1>5. ASSUME NEW i \in Items, Untraded(i), place[i] = "corpse" PROVE ItemOK(i)'
    <2>1. place'[i] = "gone" /\ rowId'[i] = 0
      BY <1>1, <1>5 DEF Contents
    <2>2. InSettled(i)
      BY <1>1, <1>5 DEF RowInv, AllItems, ItemOK
    <2>3. \A q \in Players : i \notin Entries(q)'
      BY <1>1, <2>2 DEF InSettled, Entries
    <2>4. Outside(i)'
      BY <1>1, <2>1, <2>2, <2>3 DEF Outside, InSettled
    <2> QED
      BY <2>1, <2>4, CorpsesAssumption DEF ItemOK
  <1>6. ASSUME NEW i \in Items, Untraded(i), place[i] # "corpse" PROVE ItemOK(i)'
    <2>1. place'[i] = place[i] /\ rowId'[i] = rowId[i] /\ SameRows(i) /\ ItemOK(i)
      BY <1>1, <1>6 DEF SameRows, RowInv, AllItems, Contents
    <2> QED
      BY <1>0, <1>1, <1>4, <1>6, <2>1, ItemFrame
  <1>7. ~pendingDeath
    BY <1>0, <1>1 DEF Death
  <1>8. Ids' /\ Dead' /\ AllSnaps' /\ Stock'
    BY <1>0, <1>1, <1>3, <1>7, RowsElsewhere DEF Early
  <1> QED
    BY <1>1, <1>5, <1>6, <1>8 DEF RowInv, AllItems, Untraded

\* The beginning of decay moves nothing.
LEMMA RowsDecayBegins == Life /\ Coins /\ Life' /\ RowInv /\ DecayBegins => RowInv'
  <1> SUFFICES ASSUME Life, Coins, Life', RowInv, DecayBegins PROVE RowInv'
    OBVIOUS
  <1>0. Types /\ Types' /\ Death /\ Marks /\ Writer /\ Owner \in Players
    BY CorpsesAssumption DEF Life
  <1>1. /\ corpse = "settled" /\ corpse' = "deleting"
        /\ ops' = Append(ops, DeleteOp(TRUE))
        /\ UNCHANGED <<online, place, rowId, pendingDeath, retire, mark, removals, snap, finished,
                       rows, nextRow, dbCorpse, packed, missed, handed>>
    BY DEF DecayBegins, pendVars, dbVars
  <1>2. DeleteOp(TRUE) \in Ops /\ DeleteOp(TRUE).ids = {}
    BY DEF DeleteOp, Ops
  <1>3. \A k \in DOMAIN ops' : \A n \in ops'[k].ids :
                 n \in 1 .. MaxRow /\ \E j \in DOMAIN ops : n \in ops[j].ids
    BY <1>0, <1>1, <1>2, SameIds
  <1>4. \A q \in Players : (Looted(q) => Looted(q)') /\ (Clears(q)' => Clears(q))
    BY <1>1 DEF Looted, Clears
  <1>5. ASSUME NEW i \in Items, Untraded(i) PROVE ItemOK(i)'
    <2>1. place'[i] = place[i] /\ rowId'[i] = rowId[i] /\ SameRows(i) /\ ItemOK(i)
      BY <1>1, <1>5 DEF SameRows, RowInv, AllItems
    <2> QED
      BY <1>0, <1>1, <1>4, <2>1, ItemFrame
  <1>7. ~pendingDeath
    BY <1>0, <1>1 DEF Death
  <1>8. Ids' /\ Dead' /\ AllSnaps' /\ Stock'
    BY <1>0, <1>1, <1>3, <1>7, RowsElsewhere DEF Early
  <1> QED
    BY <1>1, <1>5, <1>8 DEF RowInv, AllItems, Untraded

\* Its end leaves items without an id and without a row.
LEMMA RowsTakeDecayed == Life /\ Coins /\ Life' /\ RowInv /\ TakeDecayed => RowInv'
  <1> SUFFICES ASSUME Life, Coins, Life', RowInv, TakeDecayed PROVE RowInv'
    OBVIOUS
  <1>0. Types /\ Types' /\ Death /\ Marks /\ Writer /\ Owner \in Players
    BY CorpsesAssumption DEF Life
  <1>1. /\ finished # "no" /\ finished' = "no" /\ corpse = "deleting"
        /\ UNCHANGED <<online, rowId, pendingDeath, retire, mark, removals, snap, ops,
                       rows, nextRow, dbCorpse, packed, missed, handed>>
    BY <1>0 DEF TakeDecayed, Writer, pendVars, dbVars
  <1>2. \A q \in Players : (Looted(q) => Looted(q)') /\ (Clears(q)' => Clears(q))
    BY <1>1 DEF Looted, Clears
  <1>3. ~pendingDeath
    BY <1>0, <1>1 DEF Death
  <1>4. CASE finished = "Deleted"
    <2>1. /\ corpse' = "gone"
          /\ place' = [i \in Items |-> IF place[i] = "corpse" THEN "room" ELSE place[i]]
      BY <1>4 DEF TakeDecayed
    <2>2. CorpseRows = {}
      BY <1>4 DEF Coins, Pile, RowInv, Stock
    <2>3. ASSUME NEW i \in Items, Untraded(i), place[i] = "corpse" PROVE ItemOK(i)'
      <3>1. place'[i] = "room" /\ InSettled(i)
        BY <1>1, <2>1, <2>3 DEF RowInv, AllItems, ItemOK
      <3>2. InRoom(i)'
        BY <1>1, <2>1, <2>2, <3>1 DEF InRoom, InSettled, CorpseRows, Entries
      <3> QED
        BY <3>1, <3>2, CorpsesAssumption DEF ItemOK
    <2>4. ASSUME NEW i \in Items, Untraded(i), place[i] # "corpse" PROVE ItemOK(i)'
      <3>1. place'[i] = place[i] /\ SameRows(i) /\ ItemOK(i)
        BY <1>1, <2>1, <2>4 DEF SameRows, RowInv, AllItems
      <3> QED
        BY <1>0, <1>1, <1>2, <2>1, <2>4, <3>1, ItemFrame
    <2>5. Ids' /\ Dead' /\ AllSnaps' /\ Stock'
      BY <1>0, <1>1, <1>3, <2>1, IdsInOps, RowsElsewhere DEF Early
    <2> QED
      BY <1>1, <2>3, <2>4, <2>5 DEF RowInv, AllItems, Untraded
  <1>5. CASE finished # "Deleted"
    <2>1. corpse' = "settled" /\ place' = place
      BY <1>5 DEF TakeDecayed
    <2>2. missed /\ missed'
      BY <1>0, <1>1, <1>5 DEF Writer, Types, DbTypes
    <2>4. ASSUME NEW i \in Items, Untraded(i) PROVE ItemOK(i)'
      <3>1. place'[i] = place[i] /\ SameRows(i) /\ ItemOK(i)
        BY <1>1, <2>1, <2>4 DEF SameRows, RowInv, AllItems
      <3>2. \A n \in 1 .. MaxRow, k \in DOMAIN ops :
              n \in ops[k].ids => missed' \/ \E l \in DOMAIN ops' : n \in ops'[l].ids
        BY <1>1
      <3>3. /\ (corpse' = "unsettled") <=> (corpse = "unsettled")
            /\ corpse' = "settled" => corpse = "settled" \/ missed'
            /\ corpse = "gone" => corpse' = "gone"
            /\ corpse' = "stranded" => corpse = "stranded"
            /\ removals \subseteq removals' /\ place'[i] = place[i]
            /\ place[i] = "corpse" => /\ corpse' # "gone" /\ corpse' # "none"
                                      /\ finished' # "Deleted" => finished # "Deleted"
            /\ \A q \in Players : snap[q].quit /\ mark[q] # 0 => mark'[q] # 0
            /\ missed => missed'
            /\ rowId'[i] = rowId[i]
        BY <1>1, <1>5, <2>1, <2>2
      <3>4. UNCHANGED <<snap, online>>
        BY <1>1
      <3> QED
        BY <1>0, <1>2, <3>1, <3>2, <3>3, <3>4, ItemFrame
    <2>5. Ids' /\ Dead' /\ AllSnaps' /\ Stock'
      BY <1>0, <1>1, <1>3, <2>1, IdsInOps, RowsElsewhere DEF Early
    <2> QED
      BY <1>1, <2>4, <2>5 DEF RowInv, AllItems, Untraded
  <1> QED
    BY <1>4, <1>5

\* A deletion that failed leaves rows of nobody behind.
LEMMA RowsOpFails == Life /\ Coins /\ Life' /\ RowInv /\ OpFails => RowInv'
  <1> SUFFICES ASSUME Life, Coins, Life', RowInv, OpFails PROVE RowInv'
    OBVIOUS
  <1>0. Types /\ Types' /\ Death /\ Marks /\ Writer /\ Owner \in Players
    BY CorpsesAssumption DEF Life
  <1>1. /\ ops # <<>> /\ ops' = Tail(ops) /\ missed' = TRUE
        /\ finished' = IF Head(ops).waiting THEN "DeleteFailed" ELSE finished
        /\ UNCHANGED <<online, place, rowId, corpse, pendingDeath, retire, mark, removals, snap,
                       rows, nextRow, dbCorpse, packed, handed>>
    BY DEF OpFails, worldVars, pendVars, dbVars
  <1>2. \A q \in Players : (Looted(q) => Looted(q)') /\ (Clears(q)' => Clears(q))
    BY <1>1 DEF Looted, Clears
  <1>3. finished = "Deleted" => finished' = "Deleted"
    <2>1. ops \in Seq(Ops)
      BY <1>0 DEF Types, DbTypes
    <2>2. Head(ops) = ops[1] /\ 1 \in DOMAIN ops /\ Head(ops) \in Ops
      BY <1>1, <2>1, OpsTaken
    <2>3. Head(ops).waiting => Deletes(ops)
      BY <1>0, <2>2 DEF Writer, ItemsGoUnheard, Deletes, Ops
    <2> QED
      BY <1>0, <1>1, <2>3 DEF Writer
  <1>4. ASSUME NEW i \in Items, Untraded(i) PROVE ItemOK(i)'
    <2>1. SameRows(i) /\ ItemOK(i)
      BY <1>1, <1>4 DEF SameRows, RowInv, AllItems
    <2>2. finished' # "Deleted" => finished # "Deleted"
      BY <1>3
    <2>3. missed'
      BY <1>1
    <2>4. \A n \in 1 .. MaxRow, k \in DOMAIN ops :
              n \in ops[k].ids => missed' \/ \E l \in DOMAIN ops' : n \in ops'[l].ids
      BY <2>3
    <2>5. /\ (corpse' = "unsettled") <=> (corpse = "unsettled")
          /\ corpse' = "settled" => corpse = "settled" \/ missed'
          /\ corpse = "gone" => corpse' = "gone"
          /\ corpse' = "stranded" => corpse = "stranded"
          /\ removals \subseteq removals'
          /\ \A q \in Players : snap[q].quit /\ mark[q] # 0 => mark'[q] # 0
          /\ missed => missed'
          /\ rowId'[i] = rowId[i] /\ place'[i] = place[i]
      BY <1>1, <2>3
    <2>6. place[i] = "corpse" => /\ corpse' # "gone" /\ corpse' # "none"
                                 /\ finished' # "Deleted" => finished # "Deleted"
      <3>1. place[i] = "corpse" => corpse # "gone" /\ corpse # "none"
        BY <2>1 DEF ItemOK, InSettled
      <3> QED
        BY <1>1, <2>2, <3>1
    <2>7. UNCHANGED <<snap, online>>
      BY <1>1
    <2> QED
      BY <1>0, <1>2, <2>1, <2>4, <2>5, <2>6, <2>7, ItemFrame
  <1>5. \A k \in DOMAIN ops' : \A n \in ops'[k].ids :
              n \in 1 .. MaxRow /\ \E j \in DOMAIN ops : n \in ops[j].ids
    BY <1>0, <1>1, FewerIds
  <1>6. Held(Owner)' = Held(Owner)
    BY <1>1 DEF Held
  <1>7. ~Early
    BY <1>1 DEF RowInv, Stock
  <1>8. Ids' /\ Dead' /\ AllSnaps' /\ Stock'
    BY <1>0, <1>1, <1>5, <1>6, <1>7, RowsElsewhere DEF Early
  <1> QED
    BY <1>1, <1>4, <1>8 DEF RowInv, AllItems, Untraded

\* An item that rots away leaves a row that is to be deleted, or one that a last save
\* in flight will give away.
LEMMA RowsRot ==
    ASSUME Life, Coins, Life', RowInv, NEW i \in Items, Rot(i) PROVE RowInv'
  <1>0. Types /\ Types' /\ Death /\ Marks /\ Writer /\ Ids /\ Owner \in Players
    BY CorpsesAssumption DEF Life, RowInv
  <1>a. PICK n0 \in 0 .. MaxRow : n0 = rowId[i]
    BY <1>0, RowTypes
  <1>1. /\ place[i] = "corpse" /\ n0 # 0 /\ n0 \in 1 .. MaxRow
        /\ place' = [j \in Items |-> IF j = i THEN "gone" ELSE place[j]]
        /\ rowId' = [j \in Items |-> IF j = i THEN 0 ELSE rowId[j]]
        /\ removals' = IF corpse = "unsettled" THEN removals \cup {n0} ELSE removals
        /\ ops' = IF corpse = "settled" THEN Append(ops, ItemsOp({n0})) ELSE ops
        /\ UNCHANGED <<online, corpse, pendingDeath, retire, mark, snap, finished,
                       rows, nextRow, dbCorpse, packed, missed, handed>>
    BY <1>0, <1>a, RowTypes DEF Rot, Despawned, dbVars, histVars
  <1>2. Untraded(i) => /\ ItemOK(i) /\ (corpse = "unsettled" => InUnsettled(i))
                       /\ (corpse # "unsettled" => InSettled(i))
    BY <1>1 DEF RowInv, AllItems, ItemOK
  <1>3. \A q \in Players : (Looted(q) => Looted(q)') /\ (Clears(q)' => Clears(q))
    BY <1>1 DEF Looted, Clears
  <1>4. /\ \A q : Entries(q)' = Entries(q) /\ Committed(q)' = Committed(q) /\ Out(q)' = Out(q)
        /\ DeathDone' = DeathDone
    BY <1>1 DEF Entries, Committed, Out, DeathDone
  <1>5. /\ corpse = "settled" => \E k \in DOMAIN ops' : n0 \in ops'[k].ids
        /\ \A k \in DOMAIN ops : k \in DOMAIN ops' /\ ops'[k] = ops[k]
        /\ \A k \in DOMAIN ops' : k \in DOMAIN ops \/ (corpse = "settled" /\ ops'[k].ids = {n0})
    <2>1. ops \in Seq(Ops)
      BY <1>0 DEF Types, DbTypes
    <2>2. ItemsOp({n0}) \in Ops /\ ItemsOp({n0}).ids = {n0}
      BY <1>1 DEF ItemsOp, Ops
    <2>3. corpse = "settled" =>
            /\ DOMAIN ops = 1 .. Len(ops) /\ Len(ops) \in Nat
            /\ DOMAIN ops' = 1 .. Len(ops) + 1
            /\ ops'[Len(ops) + 1] = ItemsOp({n0})
            /\ \A k \in DOMAIN ops : ops'[k] = ops[k]
      BY <1>1, <2>1, <2>2, OpsAppended
    <2>4. CASE corpse = "settled"
      <3>1. Len(ops) + 1 \in DOMAIN ops'
        BY <2>3, <2>4
      <3>2. \A k \in DOMAIN ops' : k \in DOMAIN ops \/ k = Len(ops) + 1
        BY <2>3, <2>4
      <3>3. \A k \in DOMAIN ops : k \in DOMAIN ops'
        BY <2>3, <2>4
      <3>4. ops'[Len(ops) + 1].ids = {n0}
        BY <2>2, <2>3, <2>4
      <3>5. \E k \in DOMAIN ops' : n0 \in ops'[k].ids
        BY <3>1, <3>4
      <3> QED
        BY <2>3, <2>4, <3>2, <3>3, <3>4, <3>5
    <2>5. CASE corpse # "settled"
      BY <1>1, <2>5
    <2> QED
      BY <2>4, <2>5
  <1>6. ASSUME Untraded(i) PROVE ItemOK(i)'
    <2>1. place'[i] = "gone" /\ rowId'[i] = 0
      BY <1>1
    <2>2. CASE corpse = "unsettled"
      <3>1. InUnsettled(i) /\ n0 \in removals'
        BY <1>1, <1>2, <1>6, <2>2
      <3>2. \E r \in rows : r.item = i /\ r.id = n0 /\ r.char = Owner
        BY <1>a, <1>1, <3>1 DEF InUnsettled, HasRow
      <3>3. \A p \in Players : i \in Entries(p)' => p = Owner /\ Rotten(i)'
        <4>1. \A p \in Players : i \in Entries(p)' => p = Owner
          BY <1>4, <3>1 DEF InUnsettled
        <4>2. i \in Entries(Owner)' => snap'[Owner].ids[i] = n0
          BY <1>a, <1>1, <1>4, <3>1 DEF InUnsettled
        <4>3. snap'[Owner].ids[i] = n0 => Rotten(i)'
          BY <1>1, <2>2, <3>1, <3>2 DEF Rotten
        <4> QED
          BY <4>1, <4>2, <4>3
      <3>4. \A r \in rows' : r.item = i => r.char = Owner /\ r.id \in removals' /\ r.filed = DeathDone'
        BY <1>a, <1>1, <1>4, <3>1 DEF InUnsettled
      <3>5. Outside(i)'
        BY <1>1, <2>1, <2>2, <3>3, <3>4 DEF Outside
      <3> QED
        BY <2>1, <3>5, CorpsesAssumption DEF ItemOK
    <2>3. CASE corpse # "unsettled"
      <3>1. InSettled(i)
        BY <1>2, <1>6, <2>3
      <3>2. \A p \in Players : i \notin Entries(p)'
        BY <1>4, <3>1 DEF InSettled
      <3>3. \A r \in rows' : r.item = i => r.filed /\ r.id = n0
        BY <1>a, <1>1, <3>1 DEF InSettled
      <3>4. Outside(i)'
        BY <1>1, <1>5, <2>1, <2>3, <3>2, <3>3 DEF Outside
      <3> QED
        BY <2>1, <3>4, CorpsesAssumption DEF ItemOK
    <2> QED
      BY <2>2, <2>3
  <1>7. ASSUME NEW j \in Items, Untraded(j), j # i PROVE ItemOK(j)'
    <2>1. place'[j] = place[j] /\ rowId'[j] = rowId[j] /\ SameRows(j) /\ ItemOK(j)
          /\ removals \subseteq removals'
      BY <1>1, <1>7 DEF SameRows, RowInv, AllItems
    <2>2. \A n \in 1 .. MaxRow, k \in DOMAIN ops :
              n \in ops[k].ids => missed' \/ \E l \in DOMAIN ops' : n \in ops'[l].ids
      BY <1>5
    <2>3. corpse' = corpse /\ UNCHANGED <<online, mark, snap, finished, missed, handed>>
      BY <1>1
    <2>4. place[j] = "corpse" => corpse # "gone" /\ corpse # "none"
      BY <2>1 DEF ItemOK, InSettled
    <2> QED
      BY <1>0, <1>3, <2>1, <2>2, <2>3, <2>4, ItemFrame
  <1>8. Ids'
    <2>1. ASSUME NEW j \in Items, NEW n \in 1 .. MaxRow, Knows(n, j)' PROVE Knows(n, j)
      <3>1. rowId'[j] = n => rowId[j] = n
        BY <1>1
      <3> QED
        BY <1>1, <2>1, <3>1 DEF Knows, HasRow
    <2> QED
      BY <1>0, <1>1, <2>1, IdsFrame
  <1>9. \A n : DeadId(n) /\ n # 0 => DeadId(n)'
    BY <1>1 DEF DeadId, Untraded
  <1>10. /\ n0 < nextRow /\ \A j \in Items \ {i} : rowId[j] # n0
         /\ \A r \in rows : r.id = n0 => r.item = i
         /\ \A p \in Players, j \in Items : snap[p].ids[j] = n0 \/ snap[p].new[j] = n0 => j = i
    <2>1. Knows(n0, i)
      BY <1>a DEF Knows
    <2>2. \A j \in Items : Knows(n0, j) => j = i
      BY <1>0, <1>1, <2>1 DEF Ids
    <2>3. n0 < nextRow
      BY <1>0, <1>1, <2>1 DEF Ids
    <2>4. \A r \in rows : r.id = n0 => r.item = i
      BY <1>0, <2>2, RowTypes DEF Knows, HasRow
    <2> QED
      BY <2>2, <2>3, <2>4 DEF Knows
  <1>11. Untraded(i) => \A p \in Players : snap[p].new[i] # n0
    <2>1. ASSUME Untraded(i), NEW p \in Players, snap[p].new[i] = n0 PROVE FALSE
      <3>1. i \in Entries(p)
        BY <1>1, <2>1 DEF RowInv, AllSnaps, SnapShape
      <3>2. corpse = "unsettled" /\ p = Owner /\ rowId[i] = 0
        BY <1>1, <1>2, <2>1, <3>1 DEF InSettled, InUnsettled
      <3> QED
        BY <1>1, <1>a, <3>2
    <2> QED
      BY <2>1
  <1>12. DeadId(n0)'
    BY <1>1, <1>10, <1>11 DEF DeadId, Untraded
  <1>13. \A p \in Players, j \in Items : snap[p].ids[j] = n0 => j = i /\ i \in Entries(p)
    <2>1. \A p \in Players : snap[p].ids[i] # 0 => i \in Entries(p)
      BY DEF RowInv, AllSnaps, SnapShape
    <2> QED
      BY <1>1, <1>10, <2>1
  <1>14. Dead'
    <2>1. ASSUME NEW k \in DOMAIN ops', NEW n \in ops'[k].ids
          PROVE  /\ DeadId(n)' /\ \A r \in rows' : r.id = n /\ Untraded(r.item) => r.filed
                 /\ \A p \in Players, j \in Items : Untraded(j) => snap'[p].ids[j] # n
      <3>1. CASE k \in DOMAIN ops
        <4>1. n \in ops[k].ids /\ n \in 1 .. MaxRow
          BY <1>0, <1>5, <2>1, <3>1, IdsInOps
        <4> QED
          BY <1>1, <1>9, <4>1, <3>1 DEF RowInv, Dead
      <3>2. CASE corpse = "settled" /\ n = n0
        BY <1>1, <1>2, <1>10, <1>12, <1>13, <3>2 DEF InSettled
      <3> QED
        BY <1>5, <2>1, <3>1, <3>2
    <2>2. ASSUME NEW n \in removals'
          PROVE  /\ DeadId(n)' /\ \A r \in rows' : r.id = n /\ Untraded(r.item) => r.filed = DeathDone' /\ r.char = Owner
                 /\ \A p \in Players, j \in Items : Untraded(j) /\ snap'[p].ids[j] = n => p = Owner
      <3>1. CASE n \in removals
        <4>1. n # 0
          BY <1>0, <3>1, RowTypes
        <4> QED
          BY <1>1, <1>4, <1>9, <3>1, <4>1 DEF RowInv, Dead
      <3>2. CASE corpse = "unsettled" /\ n = n0
        <4>1. Untraded(i) => InUnsettled(i)
          BY <1>2, <3>2
        <4> QED
          BY <1>1, <1>4, <1>10, <1>12, <1>13, <3>2, <4>1 DEF InUnsettled
      <3> QED
        BY <1>1, <2>2, <3>1, <3>2
    <2>3. \A j : Untraded(j)' = Untraded(j)
      BY <1>1 DEF Untraded
    <2> QED
      BY <2>1, <2>2, <2>3 DEF Dead
  <1>15. AllSnaps'
    BY <1>1 DEF RowInv, AllSnaps, SnapShape, Entries, Committed, CorpseRows, Untraded
  <1>16. Stock'
    <2>1. Held(Owner)' \subseteq Held(Owner)
      BY <1>0, <1>1, CorpsesAssumption DEF Held
    <2>2. Early => corpse # "settled"
      BY DEF Early
    <2> QED
      BY <1>1, <1>4, <2>1, <2>2 DEF RowInv, Stock, PackOK, InPack, CorpseRows, Early, Untraded
  <1> QED
    BY <1>1, <1>6, <1>7, <1>8, <1>14, <1>15, <1>16 DEF RowInv, AllItems, Untraded

\* A snapshot is taken of p, who may leave with it.
LEMMA RowsSnapped ==
    ASSUME Life, Life', RowInv, NEW p \in Players, NEW quit \in BOOLEAN, p \in online, ~Committed(p),
           snap' = [snap EXCEPT ![p] = SnapshotOf(p, quit)],
           online' = IF quit THEN online \ {p} ELSE online,
           packed' = IF quit THEN [packed EXCEPT ![p] = Held(p)] ELSE packed,
           \A i \in Items : place'[i] = IF quit /\ place[i] = p THEN "gone" ELSE place[i],
           \A i \in Items : rowId'[i] = IF quit /\ place[i] = p THEN 0 ELSE rowId[i],
           ~quit \/ p # Owner => retire' = retire, pendingDeath' => pendingDeath,
           UNCHANGED <<corpse, mark, removals, ops, finished, rows, nextRow, dbCorpse, missed, handed>>
    PROVE  RowInv'
  <1> DEFINE death == p = Owner /\ pendingDeath
  <1>0. /\ Types /\ Types' /\ Death /\ Death' /\ Marks /\ Writer /\ Ids /\ Owner \in Players
        /\ snap \in [Players -> Snaps]
    BY RowTypes, CorpsesAssumption DEF Life, RowInv
  <1>1. \A q \in Players \ {p} : snap'[q] = snap[q]
    BY <1>0 DEF Death
  <1>2. snap'[p] = SnapshotOf(p, quit)
    BY <1>0
  <1>3. /\ snap'[p].at = "writing" /\ snap'[p].quit = quit /\ snap'[p].held = Held(p)
        /\ snap'[p].inCorpse = (IF death THEN Contents ELSE {})
        /\ snap'[p].death = death
        /\ \A i \in Items : snap'[p].ids[i] = IF place[i] = p \/ (death /\ place[i] = "corpse")
                                              THEN rowId[i] ELSE 0
        /\ \A i \in Items : snap'[p].new[i] = 0
        /\ snap'[p].retire = (p = Owner /\ retire /\ ~PendingLoot(Owner))
    BY <1>0, <1>2, SnapshotFits DEF NoIds, Types
  <1>4. ~snap[p].quit
    BY <1>0, SnapsFit DEF Death
  <1>5. /\ ~Committed(p) /\ Out(p)' /\ Writing(p)' /\ ~Committed(p)'
        /\ \A q \in Players \ {p} : /\ Out(q)' = Out(q) /\ Writing(q)' = Writing(q)
                                    /\ Committed(q)' = Committed(q) /\ Entries(q)' = Entries(q)
    BY <1>1, <1>3, <1>4 DEF Out, Writing, Committed, Entries
  <1>6. death => (\A i \in Held(p) : ~Untraded(i)) /\ corpse = "unsettled"
    BY <1>0 DEF RowInv, Stock, Death
  <1>7. \A i \in Items : i \in Entries(p)' <=> place[i] = p \/ (death /\ place[i] = "corpse")
    BY <1>3 DEF Entries, Held, Contents
  <1>8. DeathDone' = DeathDone /\ (p = Owner => ~DeathDone)
    BY <1>1, <1>4, <1>5, <1>0 DEF DeathDone
  <1>9. p = Owner /\ corpse = "unsettled" => death
    BY <1>0, OwnerOnline
  <1>10. \A n, i : HasRow(n, i)' = HasRow(n, i)
    BY DEF HasRow
  <1>11. \A q \in Players \ {p} : Looted(q)' = Looted(q) /\ Clears(q)' = Clears(q)
    BY <1>1 DEF Looted, Clears
  <1> HIDE DEF death
  <1>u. \A i : Untraded(i)' = Untraded(i)
    BY DEF Untraded
  <1>12. ASSUME NEW i \in Items, Untraded(i), place[i] = p, ~quit PROVE ItemOK(i)'
    <2>1. InHand(i, p) /\ place'[i] = p /\ rowId'[i] = rowId[i] /\ online' = online
      BY <1>12 DEF RowInv, AllItems, ItemOK
    <2>2. retire' = retire /\ Looted(p)' = Looted(p)
      BY <1>12 DEF Looted
    <2>3. i \in snap'[p].held /\ snap'[p].ids[i] = rowId[i] /\ snap'[p].new[i] = 0
      BY <1>3, <1>12 DEF Held
    <2>4. \A q \in Players : i \in Entries(q)' => q = p
      BY <1>5, <2>1 DEF InHand
    <2>5. \A r \in rows' : r.item = i /\ r.filed =>
             r.id = rowId'[i] /\ Looted(p)' /\ Writing(p)' /\ i \in snap'[p].held
      BY <1>5, <2>1, <2>2, <2>3 DEF InHand
    <2>6. \A r \in rows' : r.item = i /\ ~r.filed => r.char = p /\ r.id = rowId'[i]
      BY <1>5, <2>1 DEF InHand
    <2>7. rowId'[i] # 0 => HasRow(rowId[i], i)'
      BY <1>10, <2>1 DEF InHand
    <2>8. InHand(i, p)'
      BY <1>5, <2>1, <2>3, <2>4, <2>5, <2>6, <2>7 DEF InHand
    <2> QED
      BY <2>1, <2>8, CorpsesAssumption DEF ItemOK
  <1>13. ASSUME NEW i \in Items, Untraded(i), place[i] = p, quit PROVE ItemOK(i)'
    <2>1. InHand(i, p) /\ place'[i] = "gone" /\ rowId'[i] = 0 /\ p \notin online'
      BY <1>13 DEF RowInv, AllItems, ItemOK
    <2>2. i \in snap'[p].held /\ snap'[p].ids[i] = rowId[i]
      BY <1>3, <1>13 DEF Held
    <2>3. \A q \in Players : i \in Entries(q)' => q = p
      BY <1>5, <2>1 DEF InHand
    <2>4. \A r \in rows' : r.item = i /\ r.filed => r.id = snap'[p].ids[i] /\ Looted(p)
      BY <2>1, <2>2 DEF InHand
    <2>5. \A r \in rows' : r.item = i /\ ~r.filed => r.char = p
      BY <2>1 DEF InHand
    <2>6. snap'[p].quit
      BY <1>3, <1>13
    <2>7. LastSave(p, i)'
      BY <1>5, <2>2, <2>4, <2>5, <2>6 DEF LastSave
    <2>8. Looted(p) => corpse # "unsettled" /\ (corpse = "settled" => mark[p] # 0)
      BY <1>0 DEF Looted, Marks, Mark, Early
    <2>9. \A r \in rows' : r.item = i /\ r.filed =>
          /\ corpse' # "unsettled"
          /\ corpse' = "settled" => Writing(p)' /\ snap'[p].quit /\ mark'[p] # 0 /\ i \in snap'[p].held
      BY <1>5, <2>2, <2>4, <2>6, <2>8
    <2>10. Outside(i)'
      BY <2>1, <2>2, <2>3, <2>5, <2>7, <2>9 DEF Outside
    <2> QED
      BY <2>1, <2>10, CorpsesAssumption DEF ItemOK
  <1>14. ASSUME NEW i \in Items, Untraded(i), place[i] # p PROVE ItemOK(i)'
    <2>1. place'[i] = place[i] /\ rowId'[i] = rowId[i] /\ ItemOK(i)
      BY <1>14 DEF RowInv, AllItems
    <2>2. i \in Entries(p)' => death /\ place[i] = "corpse"
      BY <1>7, <1>14
    <2>3. ASSUME NEW q \in Players, place[i] = q PROVE InHand(i, q)'
      <3>1. q # p /\ InHand(i, q) /\ i \notin Entries(p)'
        BY <1>14, <2>1, <2>2, <2>3, CorpsesAssumption DEF ItemOK
      <3>2. q \in online' /\ snap'[q] = snap[q]
        BY <1>1, <3>1 DEF InHand
      <3>3. \A x \in Players : i \in Entries(x)' => x = q
        BY <1>5, <3>1 DEF InHand
      <3> QED
        BY <1>5, <1>10, <1>11, <2>1, <3>1, <3>2, <3>3 DEF InHand
    <2>4. ASSUME place[i] = "corpse", corpse = "unsettled" PROVE InUnsettled(i)'
      <3>1. InUnsettled(i)
        BY <2>1, <2>4 DEF ItemOK
      <3>2. CASE p = Owner
        <4>1. death /\ i \in Entries(p)' /\ i \in snap'[p].inCorpse /\ snap'[p].ids[i] = rowId[i]
              /\ snap'[p].new[i] = 0
          BY <1>3, <1>7, <1>9, <2>4, <3>2 DEF Contents
        <4>2. \A q \in Players : i \in Entries(q)' => q = Owner
          BY <1>5, <3>1, <3>2 DEF InUnsettled
        <4> QED
          BY <1>8, <1>10, <2>1, <3>1, <3>2, <4>1, <4>2 DEF InUnsettled
      <3>3. CASE p # Owner
        <4>1. snap'[Owner] = snap[Owner] /\ i \notin Entries(p)'
          BY <1>0, <1>1, <2>2, <3>3 DEF death
        <4>2. \A q \in Players : i \in Entries(q)' => q = Owner
          BY <1>5, <3>1, <4>1 DEF InUnsettled
        <4> QED
          BY <1>0, <1>5, <1>8, <1>10, <2>1, <3>1, <3>3, <4>1, <4>2 DEF InUnsettled
      <3> QED
        BY <3>2, <3>3
    <2>5. ASSUME place[i] = "corpse", corpse # "unsettled" PROVE InSettled(i)'
      <3>1. InSettled(i) /\ i \notin Entries(p)'
        BY <1>6, <2>1, <2>2, <2>5 DEF ItemOK
      <3> QED
        BY <1>5, <1>10, <2>1, <3>1 DEF InSettled
    <2>6. ASSUME place[i] = "room" PROVE InRoom(i)'
      <3>1. InRoom(i) /\ i \notin Entries(p)'
        BY <2>1, <2>2, <2>6 DEF ItemOK
      <3> QED
        BY <1>5, <3>1 DEF InRoom
    <2>7. ASSUME place[i] = "gone" PROVE Outside(i)'
      <3>1. Outside(i) /\ i \notin Entries(p)'
        BY <2>1, <2>2, <2>7 DEF ItemOK
      <3>2. ASSUME NEW q \in Players, i \in Entries(q)' PROVE LastSave(q, i)' \/ (q = Owner /\ Rotten(i)')
        <4>1. q # p /\ i \in Entries(q) /\ snap'[q] = snap[q]
          BY <1>1, <1>5, <3>1, <3>2
        <4>2. LastSave(q, i) \/ (q = Owner /\ Rotten(i))
          BY <3>1, <4>1 DEF Outside
        <4> QED
          BY <1>5, <4>1, <4>2 DEF LastSave, Rotten
      <3>3. \A q, x \in Players : i \in Entries(q)' /\ i \in Entries(x)' => q = x
        BY <1>5, <3>1 DEF Outside
      <3>4. ASSUME NEW r \in rows', r.item = i, ~r.filed
            PROVE  \/ r.char \notin online' /\ (Out(r.char)' => i \in snap'[r.char].held)
                   \/ r.char = Owner /\ corpse' = "unsettled" /\ r.id \in removals' /\ ~DeathDone'
        <4>1. \/ r.char \notin online /\ (Out(r.char) => i \in snap[r.char].held)
              \/ r.char = Owner /\ corpse = "unsettled" /\ r.id \in removals /\ ~DeathDone
          BY <3>1, <3>4 DEF Outside
        <4>2. r.char \in Players /\ online' \subseteq online
          BY <1>0, <3>4, RowTypes
        <4>3. r.char \notin online => r.char # p
          OBVIOUS
        <4> QED
          BY <1>1, <1>5, <1>8, <4>1, <4>2, <4>3
      <3>5. ASSUME NEW r \in rows', r.item = i, r.filed
            PROVE  /\ corpse' = "unsettled" => r.id \in removals' /\ DeathDone'
                   /\ corpse' = "settled" =>
                       \/ missed' \/ \E k \in DOMAIN ops' : r.id \in ops'[k].ids
                       \/ \E q \in Players : /\ Writing(q)' /\ snap'[q].quit /\ mark'[q] # 0
                                             /\ i \in snap'[q].held
        <4>1. /\ corpse = "unsettled" => r.id \in removals /\ DeathDone
              /\ corpse = "settled" =>
                       \/ missed \/ \E k \in DOMAIN ops : r.id \in ops[k].ids
                       \/ \E q \in Players : /\ Writing(q) /\ snap[q].quit /\ mark[q] # 0
                                             /\ i \in snap[q].held
          BY <3>1, <3>5 DEF Outside
        <4>2. ASSUME NEW q \in Players, Writing(q), snap[q].quit, mark[q] # 0, i \in snap[q].held
              PROVE  Writing(q)' /\ snap'[q].quit /\ mark'[q] # 0 /\ i \in snap'[q].held
          BY <1>1, <1>4, <1>5, <4>2
        <4> QED
          BY <1>8, <4>1, <4>2
      <3> QED
        BY <2>1, <3>1, <3>2, <3>3, <3>4, <3>5 DEF Outside
    <2> QED
      BY <2>1, <2>3, <2>4, <2>5, <2>6, <2>7 DEF ItemOK
  <1>15. Ids'
    <2>1. ASSUME NEW i \in Items, NEW n \in 1 .. MaxRow, Knows(n, i)' PROVE Knows(n, i)
      <3>1. rowId'[i] = n => rowId[i] = n
        OBVIOUS
      <3>2. ASSUME NEW q \in Players, snap'[q].ids[i] = n \/ snap'[q].new[i] = n
            PROVE  Knows(n, i)
        <4>1. CASE q = p
          BY <1>3, <3>2, <4>1 DEF Knows
        <4>2. CASE q # p
          BY <1>1, <3>2, <4>2 DEF Knows
        <4> QED
          BY <4>1, <4>2
      <3> QED
        BY <1>10, <2>1, <3>1, <3>2 DEF Knows
    <2> QED
      BY <1>0, <2>1, IdsFrame
  <1>16. Dead'
    <2>1. \A n \in 1 .. MaxRow : DeadId(n) => DeadId(n)'
      <3>1. ASSUME NEW n \in 1 .. MaxRow, DeadId(n) PROVE DeadId(n)'
        <4>1. \A i \in Items : Untraded(i) => rowId'[i] # n
          BY <3>1 DEF DeadId
        <4>2. \A q \in Players, i \in Items : Untraded(i) => snap'[q].new[i] # n
          BY <1>1, <1>3, <3>1 DEF DeadId
        <4> QED
          BY <1>u, <3>1, <4>1, <4>2 DEF DeadId
      <3> QED
        BY <3>1
    <2>2. \A n \in 1 .. MaxRow, i \in Items : Untraded(i) /\ DeadId(n) => snap'[p].ids[i] # n
      BY <1>3 DEF DeadId
    <2>3. ASSUME NEW k \in DOMAIN ops', NEW n \in ops'[k].ids
          PROVE  /\ DeadId(n)' /\ \A r \in rows' : r.id = n /\ Untraded(r.item) => r.filed
                 /\ \A q \in Players, i \in Items : Untraded(i) => snap'[q].ids[i] # n
      <3>1. n \in 1 .. MaxRow
        BY <1>0, <2>3, IdsInOps
      <3>2. /\ DeadId(n) /\ \A r \in rows : r.id = n /\ Untraded(r.item) => r.filed
            /\ \A q \in Players, i \in Items : Untraded(i) => snap[q].ids[i] # n
        BY <2>3 DEF RowInv, Dead
      <3> QED
        BY <1>1, <2>1, <2>2, <3>1, <3>2
    <2>4. ASSUME NEW n \in removals'
          PROVE  /\ DeadId(n)' /\ \A r \in rows' : r.id = n /\ Untraded(r.item) => r.filed = DeathDone' /\ r.char = Owner
                 /\ \A q \in Players, i \in Items : Untraded(i) /\ snap'[q].ids[i] = n => q = Owner
      <3>1. n \in 1 .. MaxRow
        BY <1>0, <2>4, RowTypes
      <3>2. /\ DeadId(n) /\ \A r \in rows : r.id = n /\ Untraded(r.item) => r.filed = DeathDone /\ r.char = Owner
            /\ \A q \in Players, i \in Items : Untraded(i) /\ snap[q].ids[i] = n => q = Owner
        BY <2>4 DEF RowInv, Dead
      <3> QED
        BY <1>1, <1>8, <2>1, <2>2, <3>1, <3>2
    <2> QED
      BY <1>u, <2>3, <2>4 DEF Dead
  <1>17. AllSnaps'
    <2>1. SnapShape(p)'
      <3>1. quit => packed'[p] = Held(p)
        BY <1>0 DEF Types, HistTypes
      <3>2. Held(p) \cap Contents = {}
        BY CorpsesAssumption DEF Held, Contents
      <3> QED
        BY <1>3, <1>5, <1>6, <1>7, <1>u, <3>1, <3>2 DEF SnapShape
    <2>2. ASSUME NEW q \in Players, q # p PROVE SnapShape(q)'
      <3>1. packed'[q] = packed[q]
        BY <1>0, <2>2 DEF Types, HistTypes
      <3> QED
        BY <1>1, <1>5, <1>u, <2>2, <3>1 DEF RowInv, AllSnaps, SnapShape, CorpseRows
    <2> QED
      BY <2>1, <2>2 DEF AllSnaps
  <1>18. Stock'
    <2>1. ASSUME NEW i \in Items, Untraded(i), NEW q \in Players, q \notin online', ~Out(q)'
          PROVE  i \in packed'[q] <=> InPack(q, i)'
      <3>1. q # p /\ q \notin online /\ ~Out(q)
        BY <1>5, <2>1
      <3>2. packed'[q] = packed[q] /\ InPack(q, i)' = InPack(q, i)
        BY <1>0, <3>1 DEF Types, HistTypes, InPack
      <3> QED
        BY <2>1, <3>1, <3>2 DEF RowInv, Stock, PackOK
    <2>2. Held(Owner)' \subseteq Held(Owner)
      BY <1>0, CorpsesAssumption DEF Held
    <2>3. \A i \in Items : Untraded(i)' => PackOK(i)'
      BY <1>u, <2>1 DEF PackOK
    <2> QED
      BY <1>u, <2>2, <2>3 DEF RowInv, Stock, CorpseRows, Early
  <1> QED
    BY <1>12, <1>13, <1>14, <1>15, <1>16, <1>17, <1>18, <1>u DEF RowInv, AllItems

\* A snapshot names the rows of what it holds.
LEMMA RowsSave ==
    ASSUME Life, Coins, Life', RowInv, NEW p \in Players, Save(p) PROVE RowInv'
  <1>1. p \in online /\ ~Committed(p) /\ snap' = [snap EXCEPT ![p] = SnapshotOf(p, FALSE)]
    BY DEF Save, Unsettled, Committed
  <1>2. UNCHANGED <<online, place, rowId, packed, retire, pendingDeath, corpse, mark, removals, ops,
                    finished, rows, nextRow, dbCorpse, missed, handed>>
    BY DEF Save, worldVars, pendVars, writerVars, dbVars, histVars
  <1> QED
    BY <1>1, <1>2, RowsSnapped

\* A last snapshot does too, and what it holds leaves the world.
LEMMA RowsQuit ==
    ASSUME Life, Coins, Life', RowInv, NEW p \in Players, Quit(p) PROVE RowInv'
  <1>1. p \in online /\ ~Committed(p) /\ snap' = [snap EXCEPT ![p] = SnapshotOf(p, TRUE)]
    BY DEF Quit, Committed
  <1>2. /\ online' = online \ {p} /\ packed' = [packed EXCEPT ![p] = Held(p)]
        /\ \A i \in Items : place'[i] = IF place[i] = p THEN "gone" ELSE place[i]
        /\ \A i \in Items : rowId'[i] = IF place[i] = p THEN 0 ELSE rowId[i]
        /\ p # Owner => retire' = retire
        /\ pendingDeath' => pendingDeath
        /\ UNCHANGED <<corpse, mark, removals, ops, finished, rows, nextRow, dbCorpse, missed, handed>>
    BY DEF Quit, Despawned, Held, writerVars, dbVars
  <1> QED
    BY <1>1, <1>2, RowsSnapped

\* A committed save owns the rows of what it held, under the ids of the snapshot or
\* under new ones.
LEMMA RowsCommit ==
    ASSUME Life, Coins, Life', RowInv, NEW p \in Players, Commit(p) PROVE RowInv'
  <1> DEFINE s == snap[p]
  <1>0. /\ Types /\ Types' /\ Death /\ Marks /\ Writer /\ Ids /\ Owner \in Players
        /\ snap \in [Players -> Snaps]
    BY RowTypes, CorpsesAssumption DEF Life, RowInv
  <1>1. PICK new \in [Items -> 0 .. MaxRow] :
          snap' = [snap EXCEPT ![p].at = "committed", ![p].new = new]
    BY DEF Commit
  <1>2. /\ s.at = "writing"
        /\ UNCHANGED <<online, place, rowId, corpse, pendingDeath, retire, mark, removals,
                       ops, finished, packed, missed, handed>>
    BY DEF Commit, worldVars, pendVars, writerVars, histVars
  <1>3. /\ \A q \in Players \ {p} : snap'[q] = snap[q]
        /\ snap'[p].at = "committed" /\ snap'[p].new = new
        /\ snap'[p].quit = s.quit /\ snap'[p].held = s.held /\ snap'[p].inCorpse = s.inCorpse
        /\ snap'[p].ids = s.ids /\ snap'[p].death = s.death /\ snap'[p].retire = s.retire
        /\ snap'[p].mark = s.mark
    BY <1>0, <1>1, SnapCommits
  <1>4. /\ \A i \in Entries(p) : /\ Row(i, IdAfter(p, i), p, s) \in rows'
                                 /\ IdAfter(p, i) \in 1 .. MaxRow /\ IdAfter(p, i) < nextRow'
        /\ \A r \in rows' : r.item \in Entries(p) =>
              \/ r \in rows /\ ~Claimed(p, r.item)
              \/ r = Row(r.item, IdAfter(p, r.item), p, s)
        /\ \A r \in rows' : r.item \notin Entries(p) =>
                 r \in rows /\ (r.filed \/ r.char # p) /\ ~(s.retire /\ r.filed)
        /\ \A r \in rows : /\ r.item \notin Entries(p)
                           /\ (r.filed \/ r.char # p) /\ ~(s.retire /\ r.filed)
                 => r \in rows'
        /\ \A i \in Items : new[i] # 0 =>
                 /\ i \in Entries(p) /\ ~HasRow(s.ids[i], i)
                 /\ new[i] >= nextRow /\ new[i] < nextRow'
        /\ \A i, j \in Items : new[i] # 0 /\ new[i] = new[j] => i = j
        /\ nextRow' >= nextRow
        /\ \A r, x \in rows' : r.id = x.id => r = x
        /\ \A r \in rows' : ~(s.retire /\ r.filed)
        /\ s.retire => s.inCorpse = {}
    BY <1>3, CommitRows DEF RowInv
  <1>5. /\ ~Committed(p) /\ Writing(p) /\ Out(p) /\ ~Writing(p)' /\ Committed(p)' /\ Out(p)'
        /\ Entries(p)' = Entries(p)
        /\ \A q \in Players \ {p} : /\ Out(q)' = Out(q) /\ Writing(q)' = Writing(q)
                                    /\ Committed(q)' = Committed(q) /\ Entries(q)' = Entries(q)
    BY <1>2, <1>3 DEF Out, Writing, Committed, Entries
  <1>6. \A q \in Players : Entries(q)' = Entries(q) /\ Looted(q)' = Looted(q) /\ Clears(q)' = Clears(q)
    <2>1. \A q \in Players : snap'[q].retire = snap[q].retire /\ snap'[q].mark = snap[q].mark
      BY <1>3
    <2> QED
      BY <1>2, <1>5, <2>1 DEF Looted, Clears
  <1>7. /\ s.death \in BOOLEAN /\ s.quit \in BOOLEAN /\ s.retire \in BOOLEAN
        /\ s.death => p = Owner /\ \A i \in s.held : ~Untraded(i)
        /\ s.held \cap s.inCorpse = {}
        /\ ~s.death => s.inCorpse = {}
        /\ s.retire => p = Owner /\ corpse = "gone" /\ ~PendingLoot(Owner)
        /\ s.quit => p \notin online
    BY <1>0, <1>5, RowTypes DEF Death, Marks, Mark, RowInv, AllSnaps, SnapShape
  <1>8. /\ p = Owner => ~DeathDone /\ DeathDone' = s.death
        /\ p # Owner => DeathDone' = DeathDone
    BY <1>0, <1>3, <1>5, <1>7 DEF DeathDone
  <1>9. \A i, n : /\ Row(i, n, p, s).item = i /\ Row(i, n, p, s).id = n
                  /\ Row(i, n, p, s).filed = (i \in s.inCorpse) /\ Row(i, n, p, s).char = p
    BY DEF Row
  <1>10. \A i \in Entries(p) : IdAfter(p, i) = IF HasRow(s.ids[i], i) THEN s.ids[i] ELSE new[i]
    BY <1>3 DEF IdAfter
  <1>e. \A r \in rows' : r.item \in Entries(p) /\ Untraded(r.item) =>
            r = Row(r.item, IdAfter(p, r.item), p, s)
    <2>1. \A i \in Entries(p) : Untraded(i) => Claimed(p, i)
      BY <1>5, EntryRows DEF Claimed
    <2> QED
      BY <1>4, <2>1
  <1>u. \A i : Untraded(i)' = Untraded(i)
    BY <1>2 DEF Untraded
  <1> HIDE DEF s
  <1>11. ASSUME NEW i \in Items, Untraded(i), i \in Entries(p)
         PROVE  /\ \A r \in rows' : r.item = i => /\ r.char = p /\ r.filed = (i \in s.inCorpse)
                                                  /\ r.id = IdAfter(p, i)
                /\ \A n : n = IdAfter(p, i) => HasRow(n, i)'
                /\ \E r \in rows' : /\ r.item = i /\ r.char = p /\ r.filed = (i \in s.inCorpse)
                                    /\ r.id = IdAfter(p, i)
                /\ HasRow(s.ids[i], i) => IdAfter(p, i) = s.ids[i] /\ new[i] = 0
                /\ ~HasRow(s.ids[i], i) => IdAfter(p, i) = new[i]
                /\ i \in s.held <=> i \notin s.inCorpse
                /\ i \in s.inCorpse <=> s.death
    <2>1. \A r \in rows' : r.item = i => /\ r.char = p /\ r.filed = (i \in s.inCorpse)
                                         /\ r.id = IdAfter(p, i)
      BY <1>9, <1>11, <1>e
    <2>2. PICK r \in rows' : r = Row(i, IdAfter(p, i), p, s)
      BY <1>4, <1>11
    <2>3. r.item = i
      BY <1>9, <2>2
    <2>4. \E x \in rows' : /\ x.item = i /\ x.char = p /\ x.filed = (i \in s.inCorpse)
                           /\ x.id = IdAfter(p, i)
      BY <2>1, <2>3
    <2>5. \A n : n = IdAfter(p, i) => HasRow(n, i)'
      BY <2>4 DEF HasRow
    <2>6. i \in s.held \/ i \in s.inCorpse
      BY <1>11 DEF Entries, s
    <2>7. (i \in s.held <=> i \notin s.inCorpse) /\ (i \in s.inCorpse <=> s.death)
      BY <1>7, <1>11, <2>6
    <2>8. (HasRow(s.ids[i], i) => IdAfter(p, i) = s.ids[i] /\ new[i] = 0)
          /\ (~HasRow(s.ids[i], i) => IdAfter(p, i) = new[i])
      BY <1>4, <1>10, <1>11
    <2> QED
      BY <2>1, <2>4, <2>5, <2>7, <2>8
  \* Items of the snapshot.
  <1>12. ASSUME NEW i \in Items, Untraded(i), i \in Entries(p), NEW x \in Players, place[i] = x
         PROVE  InHand(i, x)'
    <2>1. x = p /\ InHand(i, p) /\ ItemOK(i)
      BY <1>12 DEF RowInv, AllItems, ItemOK, InHand
    <2>2. i \in s.held /\ s.ids[i] = rowId[i] /\ i \notin s.inCorpse
      BY <1>11, <1>12, <2>1 DEF InHand, s
    <2>3. rowId[i] # 0 => HasRow(rowId[i], i) /\ IdAfter(p, i) = rowId[i] /\ new[i] = 0
      BY <1>11, <1>12, <2>1, <2>2 DEF InHand
    <2>4. rowId[i] # 0 => HasRow(rowId[i], i)'
      BY <1>2, <1>11, <1>12, <2>3
    <2>5. \A r \in rows' : r.item = i =>
             /\ ~r.filed /\ r.char = p
             /\ r.id = rowId'[i] \/ (Committed(p)' /\ snap'[p].new[i] = r.id)
      BY <1>2, <1>3, <1>5, <1>11, <1>12, <2>2, <2>3
    <2>6. \E r \in rows' : r.item = i /\ ~r.filed
      <3>1. PICK r \in rows' : r.item = i
        BY <1>11, <1>12
      <3> QED
        BY <2>5, <3>1
    <2>7. snap'[p].new[i] # 0 => rowId'[i] = 0
      BY <1>2, <1>3, <2>3
    <2>8. /\ snap'[p].held = s.held /\ snap'[p].ids[i] = rowId'[i]
          /\ \A q \in Players : i \in Entries(q)' => q = p
          /\ p \in online'
      BY <1>2, <1>3, <1>6, <2>1, <2>2 DEF InHand
    <2>9. InHand(i, p)'
      BY <1>2, <1>5, <2>2, <2>4, <2>5, <2>6, <2>7, <2>8 DEF InHand
    <2> QED
      BY <2>1, <2>9
  <1>13. ASSUME NEW i \in Items, Untraded(i), i \in Entries(p), place[i] = "corpse", corpse = "unsettled"
         PROVE  InUnsettled(i)'
    <2>1. p = Owner /\ InUnsettled(i)
      BY <1>13 DEF RowInv, AllItems, ItemOK, InUnsettled
    <2>2. s.ids[i] = rowId[i] /\ (s.death => i \in s.inCorpse)
      BY <1>11, <1>13, <2>1 DEF InUnsettled, s
    <2>3. rowId[i] # 0 => HasRow(rowId[i], i) /\ IdAfter(p, i) = rowId[i] /\ new[i] = 0
      BY <1>11, <1>13, <2>1, <2>2 DEF InUnsettled
    <2>4. rowId[i] # 0 => HasRow(rowId[i], i)'
      BY <1>2, <1>11, <1>13, <2>3
    <2>5. rowId[i] = 0 => IdAfter(p, i) = new[i]
      <3>1. ~HasRow(0, i)
        BY <1>0, RowTypes DEF HasRow
      <3> QED
        BY <1>11, <1>13, <2>2, <3>1
    <2>6. \A r \in rows' : r.item = i =>
             /\ r.char = Owner /\ r.filed = DeathDone'
             /\ rowId'[i] # 0 => r.id = rowId'[i]
             /\ rowId'[i] = 0 => r.id = snap'[Owner].new[i]
      <3>1. \A r \in rows' : r.item = i => r.filed = DeathDone'
        BY <1>7, <1>8, <1>11, <1>13, <2>1
      <3> QED
        BY <1>2, <1>3, <1>11, <1>13, <2>1, <2>3, <2>5, <3>1
    <2>7. \E r \in rows' : r.item = i
      BY <1>11, <1>13
    <2>8. /\ snap'[Owner].death => i \in snap'[Owner].inCorpse
          /\ snap'[Owner].ids[i] = rowId'[i]
          /\ snap'[Owner].new[i] # 0 => rowId'[i] = 0
          /\ \A q \in Players : i \in Entries(q)' => q = Owner
          /\ ~Writing(Owner)'
      BY <1>2, <1>3, <1>5, <1>6, <2>1, <2>2, <2>3 DEF InUnsettled
    <2> QED
      BY <1>2, <2>4, <2>6, <2>7, <2>8 DEF InUnsettled
  <1>14. ASSUME NEW i \in Items, Untraded(i), i \in Entries(p), place[i] = "gone" PROVE Outside(i)'
    <2>1. Outside(i) /\ (LastSave(p, i) \/ (p = Owner /\ Rotten(i)))
      BY <1>14 DEF RowInv, AllItems, ItemOK, Outside
    <2>2. rowId'[i] = 0 /\ \A q, x \in Players : i \in Entries(q)' /\ i \in Entries(x)' => q = x
      BY <1>2, <1>6, <2>1 DEF Outside
    <2>3. CASE LastSave(p, i)
      <3>1. s.quit /\ i \in s.held /\ i \notin s.inCorpse
        BY <1>11, <1>14, <2>3 DEF LastSave, s
      <3>2. /\ \A r \in rows' : r.item = i => ~r.filed /\ r.char = p
            /\ \E r \in rows' : r.item = i
        BY <1>11, <1>14, <3>1
      <3>3. LastSave(p, i)'
        BY <1>3, <3>1, <3>2 DEF LastSave
      <3>4. p \notin online' /\ i \in snap'[p].held
        BY <1>2, <1>3, <1>7, <3>1
      <3> QED
        BY <1>6, <1>14, <2>2, <3>2, <3>3, <3>4 DEF Outside
    <2>4. CASE p = Owner /\ Rotten(i)
      <3>1. /\ corpse = "unsettled" /\ s.ids[i] \in removals /\ HasRow(s.ids[i], i)
        BY <2>4 DEF Rotten, HasRow, s
      <3>2. IdAfter(p, i) = s.ids[i]
        BY <1>11, <1>14, <3>1
      <3>3. Rotten(i)'
        <4>1. \E r \in rows' : r.item = i /\ r.id = s.ids[i] /\ r.char = p
          BY <1>11, <1>14, <3>2
        <4> QED
          BY <1>2, <1>3, <2>4, <3>1, <4>1 DEF Rotten
      <3>4. \A r \in rows' : r.item = i =>
              r.char = Owner /\ r.id \in removals' /\ r.filed = DeathDone'
        <4>1. \A r \in rows' : r.item = i => r.filed = DeathDone'
          BY <1>7, <1>8, <1>11, <1>14, <2>4
        <4> QED
          BY <1>2, <1>11, <1>14, <2>4, <3>1, <3>2, <4>1
      <3>5. corpse' = "unsettled"
        BY <1>2, <3>1
      <3> QED
        BY <1>6, <1>14, <2>2, <2>4, <3>3, <3>4, <3>5 DEF Outside
    <2> QED
      BY <2>1, <2>3, <2>4
  <1>15. ASSUME NEW i \in Items, Untraded(i), i \in Entries(p) PROVE ItemOK(i)'
    <2>1. ItemOK(i)
      BY <1>15 DEF RowInv, AllItems
    <2>2. place[i] # "room" /\ ~(place[i] = "corpse" /\ corpse # "unsettled")
      BY <1>15, <2>1 DEF ItemOK, InRoom, InSettled
    <2> QED
      BY <1>2, <1>12, <1>13, <1>14, <1>15, <2>2, CorpsesAssumption DEF ItemOK
  \* The others.
  <1>16. ASSUME NEW i \in Items, Untraded(i), i \notin Entries(p), NEW x \in Players, place[i] = x
         PROVE  InHand(i, x)'
    <2>1. InHand(i, x)
      BY <1>16, CorpsesAssumption DEF RowInv, AllItems, ItemOK
    <2>2. i \notin s.held /\ new[i] = 0
      BY <1>4, <1>16 DEF Entries, s
    <2>3. \A r \in rows : r.item = i => r.filed \/ r.char # p
      <3>1. ASSUME NEW r \in rows, r.item = i, ~r.filed, r.char = p PROVE FALSE
        <4>1. x = p
          BY <2>1, <3>1 DEF InHand
        <4> QED
          BY <1>5, <2>1, <2>2, <3>1, <4>1 DEF InHand, s
      <3> QED
        BY <3>1
    <2>4. \A r \in rows : r.item = i => ~(s.retire /\ r.filed)
      <3>1. ASSUME NEW r \in rows, r.item = i, s.retire, r.filed PROVE FALSE
        <4>1. p = Owner /\ Looted(x)
          BY <1>7, <2>1, <3>1 DEF InHand
        <4>2. CASE x = p
          <5>1. Clears(p)
            BY <3>1 DEF Clears, s
          <5> QED
            BY <1>5, <2>1, <2>2, <3>1, <4>2, <5>1 DEF InHand, s
        <4>3. CASE x # p
          BY <1>7, <3>1, <4>1, <4>3 DEF Looted, PendingLoot
        <4> QED
          BY <4>2, <4>3
      <3> QED
        BY <3>1
    <2>5. \A r : r.item = i => (r \in rows' <=> r \in rows)
      BY <1>4, <1>16, <2>3, <2>4
    <2>6. rowId[i] # 0 => HasRow(rowId[i], i)'
      BY <1>2, <2>1, <2>5 DEF InHand, HasRow
    <2>7. \A r \in rows' : r.item = i /\ r.filed =>
            /\ r.id = rowId'[i] /\ Looted(x)'
            /\ Out(x)' /\ Clears(x)' => Writing(x)' /\ i \in snap'[x].held
      <3>1. ASSUME NEW r \in rows', r.item = i, r.filed
            PROVE  /\ r.id = rowId'[i] /\ Looted(x)'
                   /\ Out(x)' /\ Clears(x)' => Writing(x)' /\ i \in snap'[x].held
        <4>1. r \in rows /\ r.id = rowId[i] /\ Looted(x)
              /\ (Out(x) /\ Clears(x) => Writing(x) /\ i \in snap[x].held)
          BY <2>1, <2>5, <3>1 DEF InHand
        <4>2. CASE x = p
          BY <1>2, <1>5, <1>6, <2>2, <4>1, <4>2 DEF s
        <4>3. CASE x # p
          BY <1>2, <1>3, <1>5, <1>6, <4>1, <4>3
        <4> QED
          BY <4>2, <4>3
      <3> QED
        BY <3>1
    <2>8. \A r \in rows' : r.item = i /\ ~r.filed =>
            /\ r.char = x /\ r.char # p
            /\ r.id = rowId'[i] \/ (Committed(x)' /\ snap'[x].new[i] = r.id)
            /\ Writing(x)' => i \in snap'[x].held
      BY <1>2, <1>3, <1>5, <2>1, <2>3, <2>5 DEF InHand
    <2>9. /\ x \in online'
          /\ i \in Entries(x)' => i \in snap'[x].held /\ snap'[x].ids[i] = rowId'[i]
          /\ snap'[x].new[i] # 0 => rowId'[i] = 0
          /\ \A q \in Players : i \in Entries(q)' => q = x
      <3>1. CASE x = p
        BY <1>2, <1>3, <1>6, <1>16, <2>1, <2>2, <3>1 DEF InHand
      <3>2. CASE x # p
        BY <1>2, <1>3, <1>6, <2>1, <3>2 DEF InHand
      <3> QED
        BY <3>1, <3>2
    <2>10. Committed(x)' /\ i \in snap'[x].held => \E r \in rows' : r.item = i /\ ~r.filed
      <3>1. CASE x = p
        BY <1>3, <2>2, <3>1
      <3>2. CASE x # p
        BY <1>3, <1>5, <2>1, <2>5, <3>2 DEF InHand
      <3> QED
        BY <3>1, <3>2
    <2> QED
      BY <1>2, <2>6, <2>7, <2>8, <2>9, <2>10 DEF InHand
  <1>17. ASSUME NEW i \in Items, Untraded(i), i \notin Entries(p), place[i] = "corpse", corpse = "unsettled"
         PROVE  InUnsettled(i)'
    <2>1. InUnsettled(i)
      BY <1>17 DEF RowInv, AllItems, ItemOK
    <2>2. new[i] = 0 /\ i \notin s.inCorpse
      BY <1>4, <1>17 DEF Entries, s
    <2>3. CASE p = Owner
      <3>1. \A r \in rows : r.item # i
        BY <1>5, <1>17, <2>1, <2>3 DEF InUnsettled
      <3>2. \A r \in rows' : r.item # i
        BY <1>4, <1>17, <3>1
      <3>3. rowId[i] = 0
        BY <2>1, <3>1 DEF InUnsettled, HasRow
      <3>4. ~s.death
        BY <2>1, <2>2, <2>3 DEF InUnsettled, s
      <3> QED
        BY <1>2, <1>3, <1>6, <1>8, <1>17, <2>1, <2>2, <2>3, <3>2, <3>3, <3>4 DEF InUnsettled
    <2>4. CASE p # Owner
      <3>1. \A r : r.item = i => (r \in rows' <=> r \in rows)
        BY <1>4, <1>7, <1>17, <2>1, <2>4 DEF InUnsettled
      <3>2. \A n : HasRow(n, i)' = HasRow(n, i)
        BY <3>1 DEF HasRow
      <3>3. snap'[Owner] = snap[Owner] /\ Writing(Owner)' = Writing(Owner)
        BY <1>0, <1>3, <1>5, <2>4
      <3>4. \A r \in rows' : r.item = i => r \in rows
        BY <3>1
      <3>5. \A r \in rows : r.item = i => r \in rows'
        BY <3>1
      <3> QED
        BY <1>0, <1>2, <1>6, <1>8, <2>1, <2>4, <3>2, <3>3, <3>4, <3>5 DEF InUnsettled
    <2> QED
      BY <2>3, <2>4
  <1>18. ASSUME NEW i \in Items, Untraded(i), place[i] = "corpse", corpse # "unsettled" PROVE InSettled(i)'
    <2>1. InSettled(i) /\ i \notin Entries(p) /\ ~s.retire
      BY <1>7, <1>18 DEF RowInv, AllItems, ItemOK, InSettled
    <2>2. \A r : r.item = i => (r \in rows' <=> r \in rows)
      BY <1>4, <2>1 DEF InSettled
    <2>3. \A n : HasRow(n, i)' = HasRow(n, i)
      BY <2>2 DEF HasRow
    <2>4. \A r \in rows' : r.item = i => r \in rows
      BY <2>2
    <2> QED
      BY <1>2, <1>6, <2>1, <2>3, <2>4 DEF InSettled
  <1>19. ASSUME NEW i \in Items, Untraded(i), place[i] = "room" PROVE InRoom(i)'
    <2>1. InRoom(i) /\ i \notin Entries(p)
      BY <1>19 DEF RowInv, AllItems, ItemOK, InRoom
    <2> QED
      BY <1>2, <1>4, <1>6, <2>1 DEF InRoom
  <1>20. ASSUME NEW i \in Items, Untraded(i), i \notin Entries(p), place[i] = "gone" PROVE Outside(i)'
    <2>1. Outside(i)
      BY <1>20 DEF RowInv, AllItems, ItemOK
    <2>2. \A r \in rows' : r.item = i =>
             r \in rows /\ (r.filed \/ r.char # p) /\ r.char \in Players
      BY <1>0, <1>4, <1>20, RowTypes
    <2>3. ASSUME NEW q \in Players, i \in Entries(q)' PROVE LastSave(q, i)' \/ (q = Owner /\ Rotten(i)')
      <3>1. q # p /\ i \in Entries(q) /\ snap'[q] = snap[q]
        BY <1>3, <1>6, <1>20, <2>3
      <3>2. CASE LastSave(q, i)
        <4>1. ASSUME Committed(q) PROVE \E r \in rows' : r.item = i
          <5>1. PICK r \in rows : r.item = i
            BY <3>2, <4>1 DEF LastSave
          <5>2. ~r.filed /\ r.char = q
            BY <3>2, <4>1, <5>1 DEF LastSave, Committed, Writing
          <5>3. r \in rows'
            BY <1>4, <1>20, <3>1, <5>1, <5>2
          <5> QED
            BY <5>1, <5>3
        <4>2. LastSave(q, i)'
          BY <1>5, <2>2, <3>1, <3>2, <4>1 DEF LastSave
        <4> QED
          BY <4>2
      <3>3. CASE q = Owner /\ Rotten(i)
        <4>1. PICK r \in rows : r.item = i /\ r.id = snap[Owner].ids[i] /\ r.char = Owner
          BY <3>3 DEF Rotten
        <4>2. r \in rows'
          BY <1>4, <1>7, <1>20, <3>1, <3>3, <4>1
        <4>3. Rotten(i)'
          BY <1>2, <3>1, <3>3, <4>1, <4>2 DEF Rotten
        <4> QED
          BY <3>3, <4>3
      <3> QED
        BY <2>1, <3>1, <3>2, <3>3 DEF Outside
    <2>4. rowId'[i] = 0 /\ \A q, x \in Players : i \in Entries(q)' /\ i \in Entries(x)' => q = x
      BY <1>2, <1>6, <2>1 DEF Outside
    <2>5. ASSUME NEW r \in rows', r.item = i, ~r.filed
          PROVE  \/ r.char \notin online' /\ (Out(r.char)' => i \in snap'[r.char].held)
                 \/ r.char = Owner /\ corpse' = "unsettled" /\ r.id \in removals' /\ ~DeathDone'
      <3>1. r \in rows /\ r.char \in Players \ {p}
        BY <2>2, <2>5
      <3>2. \/ r.char \notin online /\ (Out(r.char) => i \in snap[r.char].held)
            \/ r.char = Owner /\ corpse = "unsettled" /\ r.id \in removals /\ ~DeathDone
        BY <2>1, <2>5, <3>1 DEF Outside
      <3> QED
        BY <1>2, <1>3, <1>5, <1>8, <3>1, <3>2
    <2>6. ASSUME NEW r \in rows', r.item = i, r.filed
          PROVE  /\ corpse' = "unsettled" => r.id \in removals' /\ DeathDone'
                 /\ corpse' = "settled" =>
                       \/ missed' \/ \E k \in DOMAIN ops' : r.id \in ops'[k].ids
                       \/ \E q \in Players : /\ Writing(q)' /\ snap'[q].quit /\ mark'[q] # 0
                                             /\ i \in snap'[q].held
      <3>1. /\ corpse = "unsettled" => r.id \in removals /\ DeathDone
            /\ corpse = "settled" =>
                   \/ missed \/ \E k \in DOMAIN ops : r.id \in ops[k].ids
                   \/ \E q \in Players : /\ Writing(q) /\ snap[q].quit /\ mark[q] # 0
                                         /\ i \in snap[q].held
        BY <2>1, <2>2, <2>6 DEF Outside
      <3>2. ASSUME NEW q \in Players, Writing(q), snap[q].quit, mark[q] # 0, i \in snap[q].held
            PROVE  Writing(q)' /\ snap'[q].quit /\ mark'[q] # 0 /\ i \in snap'[q].held
        <4>1. q # p
          BY <1>20, <3>2 DEF Entries
        <4> QED
          BY <1>2, <1>3, <1>5, <3>2, <4>1
      <3> QED
        BY <1>2, <1>8, <3>1, <3>2
    <2> QED
      BY <2>3, <2>4, <2>5, <2>6 DEF Outside
  <1>21. ASSUME NEW i \in Items, Untraded(i), i \notin Entries(p) PROVE ItemOK(i)'
    BY <1>2, <1>16, <1>17, <1>18, <1>19, <1>20, <1>21, CorpsesAssumption DEF ItemOK
  <1>r. \A r \in rows' : /\ r.id \in 1 .. MaxRow /\ r.item \in Items /\ r.char \in Players
                          /\ r.filed \in BOOLEAN
    <2>1. rows' \subseteq [id : 1 .. MaxRow, item : Items, char : Players, filed : BOOLEAN]
      BY <1>0 DEF Types, DbTypes
    <2> QED
      BY <2>1
  <1>22. \A n \in 1 .. MaxRow, i \in Items :
            Knows(n, i)' => Knows(n, i) \/ (n = new[i] /\ n >= nextRow /\ n < nextRow')
    <2>1. ASSUME NEW n \in 1 .. MaxRow, NEW i \in Items, Knows(n, i)', ~Knows(n, i)
          PROVE  n = new[i]
      <3>1. \A q \in Players : snap'[q].ids[i] # n
        BY <1>3, <2>1 DEF Knows, s
      <3>2. rowId'[i] # n
        BY <1>2, <2>1 DEF Knows
      <3>3. CASE \E q \in Players : snap'[q].new[i] = n
        <4>1. \A q \in Players \ {p} : snap'[q].new[i] # n
          BY <1>3, <2>1 DEF Knows
        <4> QED
          BY <1>3, <3>3, <4>1
      <3>4. CASE HasRow(n, i)'
        <4>1. PICK r \in rows' : r.id = n /\ r.item = i
          BY <3>4 DEF HasRow
        <4>2. i \in Entries(p)
          BY <1>4, <2>1, <4>1 DEF Knows, HasRow
        <4>3. n = IdAfter(p, i)
          <5>1. r \notin rows
            BY <2>1, <4>1 DEF Knows, HasRow
          <5> QED
            BY <1>4, <1>9, <4>1, <4>2, <5>1
        <4>4. ~HasRow(s.ids[i], i)
          BY <1>10, <2>1, <4>2, <4>3 DEF Knows
        <4> QED
          BY <1>10, <4>2, <4>3, <4>4
      <3> QED
        BY <2>1, <3>1, <3>2, <3>3, <3>4 DEF Knows
    <2>2. \A n \in 1 .. MaxRow, i \in Items : n = new[i] => n >= nextRow /\ n < nextRow'
      BY <1>4
    <2> QED
      BY <2>1, <2>2
  <1>23. nextRow \in Nat /\ nextRow' \in Nat /\ nextRow <= nextRow'
    BY <1>0, <1>4, RowTypes DEF Types, DbTypes
  <1>24. Ids'
    <2>1. \A n \in 1 .. MaxRow, i \in Items : Knows(n, i) => n < nextRow
      BY <1>0 DEF Ids
    <2>2. \A n \in 1 .. MaxRow, i, j \in Items : Knows(n, i)' /\ Knows(n, j)' => i = j
      <3>1. ASSUME NEW n \in 1 .. MaxRow, NEW i \in Items, NEW j \in Items, Knows(n, i)', Knows(n, j)'
            PROVE  i = j
        <4>1. CASE n < nextRow
          <5>1. Knows(n, i) /\ Knows(n, j)
            BY <1>22, <1>23, <3>1, <4>1
          <5> QED
            BY <1>0, <5>1 DEF Ids
        <4>2. CASE ~(n < nextRow)
          <5>1. n = new[i] /\ n = new[j] /\ new[i] # 0
            BY <1>22, <2>1, <3>1, <4>2
          <5>2. \A a, b \in Items : new[a] # 0 /\ new[a] = new[b] => a = b
            BY <1>4
          <5> QED
            BY <5>1, <5>2
        <4> QED
          BY <4>1, <4>2
      <3> QED
        BY <3>1
    <2>3. \A n \in 1 .. MaxRow, i \in Items : Knows(n, i)' => n < nextRow'
      <3>1. ASSUME NEW n \in 1 .. MaxRow, NEW i \in Items, Knows(n, i)' PROVE n < nextRow'
        <4>1. n < nextRow \/ n < nextRow'
          BY <1>22, <2>1, <3>1
        <4> QED
          BY <1>23, <4>1
      <3> QED
        BY <3>1
    <2>4. ASSUME NEW r \in rows', NEW x \in rows', r.item = x.item, Untraded(r.item) PROVE r = x
      <3>1. CASE r.item \in Entries(p)
        <4>1. r = Row(r.item, IdAfter(p, r.item), p, s) /\ x = Row(x.item, IdAfter(p, x.item), p, s)
          BY <1>e, <2>4, <3>1
        <4> QED
          BY <2>4, <4>1
      <3>2. CASE r.item \notin Entries(p)
        BY <1>0, <1>4, <2>4, <3>2, OneRow
      <3> QED
        BY <3>1, <3>2
    <2> QED
      BY <1>4, <1>u, <2>2, <2>3, <2>4 DEF Ids
  <1>25. \A n \in 1 .. MaxRow : DeadId(n) => DeadId(n)'
    <2>1. ASSUME NEW n \in 1 .. MaxRow, DeadId(n) PROVE DeadId(n)'
      <3>1. n < nextRow /\ n < nextRow'
        BY <1>23, <2>1 DEF DeadId
      <3>2. \A i \in Items : Untraded(i) => rowId'[i] # n
        BY <1>2, <2>1 DEF DeadId
      <3>3. \A i \in Items : new[i] # n
        <4>1. \A i \in Items : new[i] = n => n >= nextRow
          BY <1>4
        <4> QED
          BY <1>23, <3>1, <4>1
      <3>4. \A q \in Players, i \in Items : Untraded(i) => snap'[q].new[i] # n
        <4>1. ASSUME NEW q \in Players, NEW i \in Items, Untraded(i) PROVE snap'[q].new[i] # n
          <5>1. CASE q = p
            BY <1>3, <3>3, <5>1
          <5>2. CASE q # p
            BY <1>3, <2>1, <4>1, <5>2 DEF DeadId
          <5> QED
            BY <5>1, <5>2
        <4> QED
          BY <4>1
      <3> QED
        BY <1>u, <3>1, <3>2, <3>4 DEF DeadId
    <2> QED
      BY <2>1
  <1>26. \A q \in Players, i \in Items : snap'[q].ids[i] = snap[q].ids[i]
    BY <1>3 DEF s
  <1>27. \A n \in 1 .. MaxRow, r \in rows' :
            DeadId(n) /\ r.id = n /\ Untraded(r.item) /\ r.item \in Entries(p) => s.ids[r.item] = n
    <2>1. ASSUME NEW n \in 1 .. MaxRow, NEW r \in rows', DeadId(n), r.id = n, Untraded(r.item),
                 r.item \in Entries(p), s.ids[r.item] # n
          PROVE  FALSE
      <3>1. r.item \in Items
        BY <1>0, <2>1, RowTypes
      <3>2. n = new[r.item]
        BY <1>11, <2>1, <3>1
      <3>3. n >= nextRow
        BY <1>4, <2>1, <3>1, <3>2
      <3> QED
        BY <1>23, <2>1, <3>3 DEF DeadId
    <2> QED
      BY <2>1
  <1>28. Dead'
    <2>1. ASSUME NEW k \in DOMAIN ops', NEW n \in ops'[k].ids
          PROVE  /\ DeadId(n)' /\ \A r \in rows' : r.id = n /\ Untraded(r.item) => r.filed
                 /\ \A q \in Players, i \in Items : Untraded(i) => snap'[q].ids[i] # n
      <3>1. n \in 1 .. MaxRow
        BY <1>0, <1>2, <2>1, IdsInOps
      <3>2. /\ DeadId(n) /\ \A r \in rows : r.id = n /\ Untraded(r.item) => r.filed
            /\ \A q \in Players, i \in Items : Untraded(i) => snap[q].ids[i] # n
        BY <1>2, <2>1 DEF RowInv, Dead
      <3>3. \A r \in rows' : r.id = n /\ Untraded(r.item) =>
               r.item \notin Entries(p) /\ r.item \in Items
        BY <1>r, <1>27, <3>1, <3>2 DEF s
      <3> QED
        BY <1>4, <1>25, <1>26, <3>1, <3>2, <3>3
    <2>2. ASSUME NEW n \in removals'
          PROVE  /\ DeadId(n)' /\ \A r \in rows' : r.id = n /\ Untraded(r.item) => r.filed = DeathDone' /\ r.char = Owner
                 /\ \A q \in Players, i \in Items : Untraded(i) /\ snap'[q].ids[i] = n => q = Owner
      <3>1. n \in 1 .. MaxRow /\ n \in removals
        BY <1>0, <1>2, <2>2, RowTypes
      <3>2. /\ DeadId(n) /\ \A r \in rows : r.id = n /\ Untraded(r.item) => r.filed = DeathDone /\ r.char = Owner
            /\ \A q \in Players, i \in Items : Untraded(i) /\ snap[q].ids[i] = n => q = Owner
        BY <3>1 DEF RowInv, Dead
      <3>3. ASSUME NEW r \in rows', r.id = n, Untraded(r.item) PROVE r.filed = DeathDone' /\ r.char = Owner
        <4>0. r.item \in Items /\ r.char \in Players /\ r.filed \in BOOLEAN
          BY <1>r
        <4>1. CASE r.item \in Entries(p)
          <5>1. p = Owner
            BY <1>27, <3>1, <3>2, <3>3, <4>0, <4>1 DEF s
          <5> QED
            BY <1>7, <1>8, <1>11, <3>3, <4>0, <4>1, <5>1
        <4>2. CASE r.item \notin Entries(p)
          <5>1. r \in rows /\ (r.filed \/ r.char # p)
            BY <1>4, <4>2
          <5>2. r.filed = DeathDone /\ r.char = Owner
            BY <3>2, <3>3, <5>1
          <5>3. p # Owner
            BY <1>8, <5>1, <5>2
          <5> QED
            BY <1>8, <5>2, <5>3
        <4> QED
          BY <4>1, <4>2
      <3> QED
        BY <1>25, <1>26, <3>1, <3>2, <3>3
    <2> QED
      BY <1>u, <2>1, <2>2 DEF Dead
  <1>29. \A r \in rows' : r.filed => ~s.retire /\ (r \in rows \/ (s.death /\ p = Owner))
    <2>1. ASSUME NEW r \in rows', r.filed PROVE ~s.retire /\ (r \in rows \/ (s.death /\ p = Owner))
      <3>0. r.item \in Items
        BY <1>r
      <3>1. CASE r.item \in Entries(p)
        BY <1>4, <1>7, <1>9, <2>1, <3>1
      <3>2. CASE r.item \notin Entries(p)
        BY <1>4, <2>1, <3>2
      <3> QED
        BY <3>1, <3>2
    <2> QED
      BY <2>1
  <1>30. AllSnaps'
    <2>1. SnapShape(p)'
      <3>1. SnapShape(p)
        BY DEF RowInv, AllSnaps
      <3>2. s.retire => CorpseRows' = {}
        BY <1>29 DEF CorpseRows
      <3>3. \A i \in Items : new[i] # 0 => i \in Entries(p)
        BY <1>4
      <3> QED
        BY <1>2, <1>3, <1>5, <1>u, <3>1, <3>2, <3>3 DEF SnapShape, s
    <2>2. ASSUME NEW q \in Players, q # p PROVE SnapShape(q)'
      <3>1. SnapShape(q)
        BY DEF RowInv, AllSnaps
      <3>2. snap[q].retire => q = Owner
        BY <1>0 DEF Marks, Mark
      <3>3. snap[q].retire /\ CorpseRows = {} => CorpseRows' = {}
        BY <1>29, <2>2, <3>2 DEF CorpseRows
      <3> QED
        BY <1>2, <1>3, <1>5, <1>u, <2>2, <3>1, <3>3 DEF SnapShape
    <2> QED
      BY <2>1, <2>2 DEF AllSnaps
  <1>31. Stock'
    <2>1. ASSUME NEW i \in Items, Untraded(i), NEW q \in Players, q \notin online', ~Out(q)'
          PROVE  i \in packed'[q] <=> InPack(q, i)'
      <3>1. q # p /\ q \notin online /\ ~Out(q)
        BY <1>2, <1>5, <2>1
      <3>2. ASSUME NEW r \in rows, r.item = i, r.char = q, ~r.filed PROVE r \in rows'
        <4>1. i \notin Entries(p)
          BY <2>1, <3>1, <3>2, EntryRows
        <4> QED
          BY <1>4, <3>1, <3>2, <4>1
      <3>3. ASSUME NEW r \in rows', r.item = i, r.char = q, ~r.filed PROVE r \in rows
        BY <1>4, <1>11, <2>1, <3>1, <3>3
      <3>4. InPack(q, i)' = InPack(q, i)
        BY <3>2, <3>3 DEF InPack
      <3>5. i \in packed[q] <=> InPack(q, i)
        BY <2>1, <3>1 DEF RowInv, Stock, PackOK
      <3> QED
        BY <1>2, <3>4, <3>5
    <2>2. dbCorpse' = -1 => CorpseRows' = {}
      <3>1. dbCorpse' = IF s.retire THEN -1
                        ELSE IF (IF s.death THEN s.pile ELSE dbCorpse) < 0
                             THEN (IF s.death THEN s.pile ELSE dbCorpse)
                             ELSE CoinsLeft((IF s.death THEN s.pile ELSE dbCorpse), s.takes)
        BY DEF Commit, Written, s
      <3>2. s.pile \in 0 .. 1 /\ s.takes \in 0 .. 1 /\ dbCorpse \in -1 .. 1
        BY CoinTypes DEF s
      <3>3. dbCorpse' = -1 => s.retire \/ (~s.death /\ dbCorpse = -1)
        BY <3>1, <3>2 DEF CoinsLeft
      <3>4. s.retire => CorpseRows' = {}
        BY <1>29 DEF CorpseRows
      <3>5. ~s.death /\ dbCorpse = -1 => CorpseRows' = {}
        BY <1>29 DEF CorpseRows, RowInv, Stock
      <3> QED
        BY <3>3, <3>4, <3>5
    <2>3. (pendingDeath' => \A i \in Held(Owner)' : ~Untraded(i)) /\ (Early' => ops' = <<>>)
      BY <1>2 DEF RowInv, Stock, Held, Early
    <2>4. \A i \in Items : Untraded(i) => PackOK(i)'
      BY <2>1 DEF PackOK
    <2> QED
      BY <1>u, <2>2, <2>3, <2>4 DEF Stock
  <1>32. AllItems'
    BY <1>15, <1>21, <1>u DEF AllItems
  <1> QED
    BY <1>24, <1>28, <1>30, <1>31, <1>32 DEF RowInv

\* A save that fails changes no row; a last one comes again.
LEMMA RowsSaveFails ==
    ASSUME Life, Coins, Life', RowInv, NEW p \in Players, SaveFails(p), snap' # snap PROVE RowInv'
  <1>0. /\ Types /\ Types' /\ Death /\ Marks /\ Writer /\ Ids /\ Owner \in Players
        /\ snap \in [Players -> Snaps]
    BY RowTypes, CorpsesAssumption DEF Life, RowInv
  <1>1. /\ snap[p].at = "writing" /\ ~snap[p].quit /\ snap' = [snap EXCEPT ![p] = NoSnap]
        /\ UNCHANGED <<online, place, rowId, corpse, pendingDeath, retire, mark, removals, ops,
                       finished, rows, nextRow, dbCorpse, packed, missed, handed>>
    BY DEF SaveFails, worldVars, pendVars, writerVars, dbVars, histVars
  <1>u. \A i : Untraded(i)' = Untraded(i)
    BY <1>1 DEF Untraded
  <1>2. snap'[p] = NoSnap /\ \A q \in Players \ {p} : snap'[q] = snap[q]
    BY <1>0, <1>1
  <1>3. /\ snap'[p].at = "none" /\ ~snap'[p].death /\ ~snap'[p].quit /\ Entries(p)' = {}
        /\ ~snap'[p].retire /\ snap'[p].held = {} /\ snap'[p].inCorpse = {}
        /\ \A i \in Items : snap'[p].ids[i] = 0 /\ snap'[p].new[i] = 0
    BY <1>2, SnapsFit DEF Entries, NoIds
  <1>4. /\ Writing(p) /\ ~Committed(p) /\ ~Out(p)' /\ ~Writing(p)' /\ ~Committed(p)'
        /\ \A q \in Players \ {p} : /\ Out(q)' = Out(q) /\ Writing(q)' = Writing(q)
                                    /\ Committed(q)' = Committed(q) /\ Entries(q)' = Entries(q)
    BY <1>1, <1>2, <1>3 DEF Out, Writing, Committed, Entries
  <1>5. p \in online
    BY <1>0, <1>1, <1>4 DEF Death, Out
  <1>6. DeathDone' = DeathDone /\ (p = Owner => ~DeathDone)
    BY <1>0, <1>2, <1>3, <1>4 DEF DeathDone
  <1>7. \A n, i : HasRow(n, i)' = HasRow(n, i)
    BY <1>1 DEF HasRow
  <1>8. /\ \A q \in Players : Looted(q)' = Looted(q)
        /\ \A q \in Players \ {p} : Clears(q)' = Clears(q)
    BY <1>1, <1>2 DEF Looted, Clears
  <1>9. ASSUME NEW i \in Items, Untraded(i) PROVE ItemOK(i)'
    <2>1. ItemOK(i)
      BY <1>9 DEF RowInv, AllItems
    <2>2. ASSUME NEW q \in Players, place[i] = q PROVE InHand(i, q)'
      <3>1. InHand(i, q)
        BY <2>1, <2>2, CorpsesAssumption DEF ItemOK
      <3>2. \A x \in Players : i \in Entries(x)' => x = q
        BY <1>3, <1>4, <3>1 DEF InHand
      <3>3. CASE q = p
        BY <1>1, <1>3, <1>4, <1>7, <1>8, <3>1, <3>2, <3>3 DEF InHand
      <3>4. CASE q # p
        BY <1>1, <1>2, <1>4, <1>7, <1>8, <3>1, <3>2, <3>4 DEF InHand
      <3> QED
        BY <3>3, <3>4
    <2>3. ASSUME place[i] = "corpse", corpse = "unsettled" PROVE InUnsettled(i)'
      <3>1. InUnsettled(i)
        BY <2>1, <2>3 DEF ItemOK
      <3>2. \A x \in Players : i \in Entries(x)' => x = Owner
        BY <1>3, <1>4, <3>1 DEF InUnsettled
      <3>3. CASE p = Owner
        BY <1>1, <1>3, <1>4, <1>6, <1>7, <3>1, <3>2, <3>3 DEF InUnsettled
      <3>4. CASE p # Owner
        <4>1. snap'[Owner] = snap[Owner] /\ Writing(Owner)' = Writing(Owner)
              /\ Entries(Owner)' = Entries(Owner)
          BY <1>0, <1>2, <1>4, <3>4
        <4> QED
          BY <1>1, <1>6, <1>7, <3>1, <3>2, <4>1 DEF InUnsettled
      <3> QED
        BY <3>3, <3>4
    <2>4. ASSUME place[i] = "corpse", corpse # "unsettled" PROVE InSettled(i)'
      BY <1>1, <1>3, <1>4, <1>7, <2>1, <2>4 DEF ItemOK, InSettled
    <2>5. ASSUME place[i] = "room" PROVE InRoom(i)'
      BY <1>1, <1>3, <1>4, <2>1, <2>5 DEF ItemOK, InRoom
    <2>6. ASSUME place[i] = "gone" PROVE Outside(i)'
      <3>1. Outside(i)
        BY <2>1, <2>6 DEF ItemOK
      <3>2. ASSUME NEW q \in Players, i \in Entries(q)' PROVE LastSave(q, i)' \/ (q = Owner /\ Rotten(i)')
        <4>1. q # p /\ i \in Entries(q) /\ snap'[q] = snap[q]
          BY <1>2, <1>3, <1>4, <3>2
        <4>2. LastSave(q, i) \/ (q = Owner /\ Rotten(i))
          BY <3>1, <4>1 DEF Outside
        <4> QED
          BY <1>1, <1>4, <4>1, <4>2 DEF LastSave, Rotten
      <3>3. \A q, x \in Players : i \in Entries(q)' /\ i \in Entries(x)' => q = x
        BY <1>3, <1>4, <3>1 DEF Outside
      <3>4. ASSUME NEW r \in rows', r.item = i, ~r.filed
            PROVE  \/ r.char \notin online' /\ (Out(r.char)' => i \in snap'[r.char].held)
                   \/ r.char = Owner /\ corpse' = "unsettled" /\ r.id \in removals' /\ ~DeathDone'
        <4>1. \/ r.char \notin online /\ (Out(r.char) => i \in snap[r.char].held)
              \/ r.char = Owner /\ corpse = "unsettled" /\ r.id \in removals /\ ~DeathDone
          BY <1>1, <3>1, <3>4 DEF Outside
        <4>2. r.char \in Players
          BY <1>0, <1>1, <3>4, RowTypes
        <4> QED
          BY <1>1, <1>2, <1>4, <1>5, <1>6, <4>1, <4>2
      <3>5. ASSUME NEW r \in rows', r.item = i, r.filed
            PROVE  /\ corpse' = "unsettled" => r.id \in removals' /\ DeathDone'
                   /\ corpse' = "settled" =>
                       \/ missed' \/ \E k \in DOMAIN ops' : r.id \in ops'[k].ids
                       \/ \E q \in Players : /\ Writing(q)' /\ snap'[q].quit /\ mark'[q] # 0
                                             /\ i \in snap'[q].held
        <4>1. /\ corpse = "unsettled" => r.id \in removals /\ DeathDone
              /\ corpse = "settled" =>
                       \/ missed \/ \E k \in DOMAIN ops : r.id \in ops[k].ids
                       \/ \E q \in Players : /\ Writing(q) /\ snap[q].quit /\ mark[q] # 0
                                             /\ i \in snap[q].held
          BY <1>1, <3>1, <3>5 DEF Outside
        <4>2. ASSUME NEW q \in Players, Writing(q), snap[q].quit, mark[q] # 0, i \in snap[q].held
              PROVE  Writing(q)' /\ snap'[q].quit /\ mark'[q] # 0 /\ i \in snap'[q].held
          BY <1>1, <1>2, <1>4, <4>2
        <4> QED
          BY <1>1, <1>6, <4>1, <4>2
      <3> QED
        BY <1>1, <3>1, <3>2, <3>3, <3>4, <3>5 DEF Outside
    <2> QED
      BY <1>1, <2>2, <2>3, <2>4, <2>5, <2>6 DEF ItemOK
  <1>10. \A q \in Players, i \in Items :
            /\ snap'[q].ids[i] = snap[q].ids[i] \/ snap'[q].ids[i] = 0
            /\ snap'[q].new[i] = snap[q].new[i] \/ snap'[q].new[i] = 0
    BY <1>2, <1>3
  <1>11. Ids'
    <2>1. ASSUME NEW i \in Items, NEW n \in 1 .. MaxRow, Knows(n, i)' PROVE Knows(n, i)
      BY <1>1, <1>7, <1>10, <2>1 DEF Knows
    <2> QED
      BY <1>0, <1>1, <2>1, IdsFrame
  <1>12. Dead'
    <2>1. \A n \in 1 .. MaxRow : DeadId(n) => DeadId(n)'
      BY <1>1, <1>10, <1>u DEF DeadId
    <2>2. ASSUME NEW k \in DOMAIN ops', NEW n \in ops'[k].ids
          PROVE  /\ DeadId(n)' /\ \A r \in rows' : r.id = n /\ Untraded(r.item) => r.filed
                 /\ \A q \in Players, i \in Items : Untraded(i) => snap'[q].ids[i] # n
      <3>1. n \in 1 .. MaxRow
        BY <1>0, <1>1, <2>2, IdsInOps
      <3>2. /\ DeadId(n) /\ \A r \in rows : r.id = n /\ Untraded(r.item) => r.filed
            /\ \A q \in Players, i \in Items : Untraded(i) => snap[q].ids[i] # n
        BY <1>1, <2>2 DEF RowInv, Dead
      <3>3. n # 0
        BY <3>1
      <3> QED
        BY <1>1, <1>10, <2>1, <3>1, <3>2, <3>3
    <2>3. ASSUME NEW n \in removals'
          PROVE  /\ DeadId(n)' /\ \A r \in rows' : r.id = n /\ Untraded(r.item) => r.filed = DeathDone' /\ r.char = Owner
                 /\ \A q \in Players, i \in Items : Untraded(i) /\ snap'[q].ids[i] = n => q = Owner
      <3>1. n \in 1 .. MaxRow /\ n # 0
        BY <1>0, <1>1, <2>3, RowTypes
      <3>2. /\ DeadId(n) /\ \A r \in rows : r.id = n /\ Untraded(r.item) => r.filed = DeathDone /\ r.char = Owner
            /\ \A q \in Players, i \in Items : Untraded(i) /\ snap[q].ids[i] = n => q = Owner
        BY <1>1, <2>3 DEF RowInv, Dead
      <3> QED
        BY <1>1, <1>6, <1>10, <2>1, <3>1, <3>2
    <2> QED
      BY <1>u, <2>2, <2>3 DEF Dead
  <1>13. AllSnaps'
    <2>1. ASSUME NEW q \in Players PROVE SnapShape(q)'
      <3>1. SnapShape(q)
        BY DEF RowInv, AllSnaps
      <3>2. CASE q = p
        BY <1>3, <3>2 DEF SnapShape
      <3>3. CASE q # p
        BY <1>1, <1>2, <1>4, <1>u, <3>1, <3>3 DEF SnapShape, CorpseRows
      <3> QED
        BY <3>2, <3>3
    <2> QED
      BY <2>1 DEF AllSnaps
  <1>14. Stock'
    <2>1. \A q \in Players \ online : Out(q)' = Out(q)
      BY <1>4, <1>5
    <2> QED
      BY <1>1, <1>u, <2>1 DEF RowInv, Stock, PackOK, InPack, CorpseRows, Held, Early
  <1> QED
    BY <1>9, <1>11, <1>12, <1>13, <1>14, <1>u DEF RowInv, AllItems

\* A last save given up leaves the rows to those who had them.
LEMMA RowsGiveUp ==
    ASSUME Life, Coins, Life', RowInv, NEW p \in Players, GiveUp(p) PROVE RowInv'
  <1> DEFINE dying == snap[p].death /\ corpse = "unsettled"
  <1>0. /\ Types /\ Types' /\ Death /\ Marks /\ Writer /\ Ids /\ Owner \in Players
        /\ snap \in [Players -> Snaps]
    BY RowTypes, CorpsesAssumption DEF Life, RowInv
  <1>1. /\ snap[p].at = "writing" /\ snap[p].quit /\ snap' = [snap EXCEPT ![p] = NoSnap]
        /\ missed' = TRUE /\ mark' = [mark EXCEPT ![p] = 0]
        /\ packed' = [packed EXCEPT ![p] = {r.item : r \in PackRows(p)}]
        /\ handed' = [i \in Items |-> IF handed[i] = "calm" THEN "busy" ELSE handed[i]]
        /\ UNCHANGED <<online, pendingDeath, retire, ops, finished, rows, nextRow, dbCorpse>>
    BY DEF GiveUp, writerVars, dbVars
  <1>2. snap'[p] = NoSnap /\ \A q \in Players \ {p} : snap'[q] = snap[q] /\ packed'[q] = packed[q]
                                                      /\ mark'[q] = mark[q]
    BY <1>0, <1>1 DEF Types, HistTypes, WorldTypes
  <1>3. /\ snap'[p].at = "none" /\ ~snap'[p].death /\ ~snap'[p].quit /\ Entries(p)' = {}
        /\ ~snap'[p].retire /\ snap'[p].held = {} /\ snap'[p].inCorpse = {}
        /\ \A i \in Items : snap'[p].ids[i] = 0 /\ snap'[p].new[i] = 0
    BY <1>2, SnapsFit DEF Entries, NoIds
  <1>4. /\ Writing(p) /\ ~Committed(p) /\ ~Out(p)' /\ ~Writing(p)' /\ ~Committed(p)'
        /\ \A q \in Players \ {p} : /\ Out(q)' = Out(q) /\ Writing(q)' = Writing(q)
                                    /\ Committed(q)' = Committed(q) /\ Entries(q)' = Entries(q)
    BY <1>1, <1>2, <1>3 DEF Out, Writing, Committed, Entries
  <1>5. p \notin online
    BY <1>0, <1>1, <1>4 DEF Death, Out
  <1>6. DeathDone' = DeathDone /\ (p = Owner => ~DeathDone)
    BY <1>0, <1>2, <1>3, <1>4 DEF DeathDone
  <1>7. \A n, i : HasRow(n, i)' = HasRow(n, i)
    BY <1>1 DEF HasRow
  <1>8. \A q \in Players \ {p} : Looted(q)' = Looted(q) /\ Clears(q)' = Clears(q)
    BY <1>1, <1>2 DEF Looted, Clears
  <1>u. \A i \in Items : Untraded(i)' = Untraded(i)
    BY <1>1 DEF Untraded
  <1>a. dying => /\ corpse' = "stranded" /\ removals' = {} /\ p = Owner
                 /\ \A i \in Items : /\ place'[i] = IF place[i] = "corpse" THEN "gone" ELSE place[i]
                                     /\ rowId'[i] = IF place[i] = "corpse" THEN 0 ELSE rowId[i]
    BY <1>0 DEF GiveUp, Despawned, Contents, Death
  <1>b. ~dying => UNCHANGED <<corpse, place, rowId, removals>> /\ (corpse = "unsettled" => p # Owner)
    <2>1. pendingDeath => p # Owner
      BY <1>0, <1>5 DEF Death
    <2> QED
      BY <1>0, <2>1 DEF GiveUp, Death
  <1> HIDE DEF dying
  <1>9. ASSUME NEW i \in Items, Untraded(i) PROVE ItemOK(i)'
    <2>1. ItemOK(i)
      BY <1>9 DEF RowInv, AllItems
    <2>2. ASSUME NEW q \in Players, place[i] = q PROVE place'[i] = q /\ InHand(i, q)'
      <3>1. InHand(i, q) /\ q # p /\ q # "corpse"
        BY <1>5, <2>1, <2>2, CorpsesAssumption DEF ItemOK, InHand
      <3>2. \A x \in Players : i \in Entries(x)' => x = q
        BY <1>3, <1>4, <3>1 DEF InHand
      <3>3. place'[i] = place[i] /\ rowId'[i] = rowId[i]
        BY <1>a, <1>b, <2>2, <3>1
      <3> QED
        BY <1>1, <1>2, <1>4, <1>7, <1>8, <2>2, <3>1, <3>2, <3>3 DEF InHand
    <2>3. ASSUME place[i] = "corpse", corpse = "unsettled", ~dying PROVE InUnsettled(i)'
      <3>1. InUnsettled(i)
        BY <2>1, <2>3 DEF ItemOK
      <3>2. \A x \in Players : i \in Entries(x)' => x = Owner
        BY <1>3, <1>4, <3>1 DEF InUnsettled
      <3>3. p # Owner
        BY <1>b, <2>3
      <3>4. snap'[Owner] = snap[Owner] /\ Writing(Owner)' = Writing(Owner)
            /\ Entries(Owner)' = Entries(Owner)
        BY <1>0, <1>2, <1>4, <3>3
      <3> QED
        BY <1>1, <1>6, <1>7, <1>b, <2>3, <3>1, <3>2, <3>4 DEF InUnsettled
    <2>4. ASSUME place[i] = "corpse", dying PROVE Outside(i)'
      <3>1. InUnsettled(i) /\ p = Owner /\ rowId'[i] = 0 /\ corpse' = "stranded"
        BY <1>a, <2>1, <2>4 DEF ItemOK, dying
      <3>2. \A x \in Players : i \notin Entries(x)'
        BY <1>3, <1>4, <3>1 DEF InUnsettled
      <3>3. \A r \in rows' : r.item = i => r.char = Owner /\ r.filed = FALSE
        BY <1>1, <1>6, <3>1 DEF InUnsettled
      <3> QED
        BY <1>1, <1>4, <1>5, <3>1, <3>2, <3>3 DEF Outside
    <2>5. ASSUME place[i] = "corpse", corpse # "unsettled" PROVE InSettled(i)'
      <3>1. UNCHANGED <<corpse, place, rowId>>
        BY <1>b, <2>5 DEF dying
      <3> QED
        BY <1>1, <1>3, <1>4, <1>7, <2>1, <2>5, <3>1 DEF ItemOK, InSettled
    <2>6. ASSUME place[i] = "room" PROVE InRoom(i)'
      <3>1. InRoom(i)
        BY <2>1, <2>6 DEF ItemOK
      <3>2. corpse' = corpse
        BY <1>b, <3>1 DEF dying, InRoom
      <3> QED
        BY <1>1, <1>3, <1>4, <3>1, <3>2 DEF InRoom
    <2>7. ASSUME place[i] = "gone" PROVE Outside(i)' /\ place'[i] = "gone"
      <3>1. Outside(i) /\ place'[i] = "gone" /\ rowId'[i] = 0
        BY <1>a, <1>b, <2>1, <2>7 DEF ItemOK, Outside
      <3>2. ASSUME NEW q \in Players, i \in Entries(q)' PROVE LastSave(q, i)' \/ (q = Owner /\ Rotten(i)')
        <4>1. q # p /\ i \in Entries(q) /\ snap'[q] = snap[q]
          BY <1>2, <1>3, <1>4, <3>2
        <4>2. LastSave(q, i) \/ (q = Owner /\ Rotten(i))
          BY <3>1, <4>1 DEF Outside
        <4>3. q = Owner => ~dying
          BY <1>a, <4>1
        <4> QED
          BY <1>1, <1>4, <1>b, <4>1, <4>2, <4>3 DEF LastSave, Rotten
      <3>3. \A q, x \in Players : i \in Entries(q)' /\ i \in Entries(x)' => q = x
        BY <1>3, <1>4, <3>1 DEF Outside
      <3>4. ASSUME NEW r \in rows', r.item = i, ~r.filed
            PROVE  \/ r.char \notin online' /\ (Out(r.char)' => i \in snap'[r.char].held)
                   \/ r.char = Owner /\ corpse' = "unsettled" /\ r.id \in removals' /\ ~DeathDone'
        <4>1. \/ r.char \notin online /\ (Out(r.char) => i \in snap[r.char].held)
              \/ r.char = Owner /\ corpse = "unsettled" /\ r.id \in removals /\ ~DeathDone
          BY <1>1, <3>1, <3>4 DEF Outside
        <4>2. r.char \in Players
          BY <1>0, <1>1, <3>4, RowTypes
        <4>3. CASE r.char = p
          BY <1>1, <1>4, <1>5, <4>3
        <4>4. CASE r.char # p
          <5>1. r.char = Owner => ~dying
            BY <1>a, <4>4
          <5> QED
            BY <1>1, <1>2, <1>4, <1>6, <1>b, <4>1, <4>2, <4>4, <5>1
        <4> QED
          BY <4>3, <4>4
      <3>5. ASSUME NEW r \in rows', r.item = i, r.filed, corpse' = "unsettled"
            PROVE  r.id \in removals' /\ DeathDone'
        <4>1. ~dying /\ UNCHANGED <<corpse, removals>>
          BY <1>a, <1>b, <3>5
        <4> QED
          BY <1>1, <1>6, <3>1, <3>5, <4>1 DEF Outside
      <3> QED
        BY <1>1, <3>1, <3>2, <3>3, <3>4, <3>5 DEF Outside
    <2>8. place[i] \in Players \cup {"corpse", "room", "gone"}
      BY <1>0, RowTypes
    <2>9. ASSUME place[i] \in Players PROVE ItemOK(i)'
      BY <2>2, <2>9, CorpsesAssumption DEF ItemOK
    <2>10. ASSUME place[i] \notin Players, dying PROVE ItemOK(i)'
      <3>1. place'[i] = IF place[i] = "corpse" THEN "gone" ELSE place[i]
        BY <1>a, <2>10
      <3> QED
        BY <2>4, <2>6, <2>7, <2>8, <2>10, <3>1, CorpsesAssumption DEF ItemOK
    <2>11. ASSUME place[i] \notin Players, ~dying PROVE ItemOK(i)'
      BY <1>b, <2>3, <2>5, <2>6, <2>7, <2>8, <2>11, CorpsesAssumption DEF ItemOK
    <2> QED
      BY <2>9, <2>10, <2>11
  <1>10. \A q \in Players, i \in Items :
            /\ snap'[q].ids[i] = snap[q].ids[i] \/ snap'[q].ids[i] = 0
            /\ snap'[q].new[i] = snap[q].new[i] \/ snap'[q].new[i] = 0
    BY <1>2, <1>3
  <1>c. \A i \in Items : rowId'[i] = rowId[i] \/ rowId'[i] = 0
    BY <1>a, <1>b
  <1>11. Ids'
    <2>1. ASSUME NEW i \in Items, NEW n \in 1 .. MaxRow, Knows(n, i)' PROVE Knows(n, i)
      BY <1>7, <1>10, <1>c, <2>1 DEF Knows
    <2>2. \A r \in rows : r.item \in Items
      BY <1>0, RowTypes
    <2>3. \A r, s \in rows : r.item = s.item /\ Untraded(r.item)' => r = s
      BY <1>0, <1>u, <2>2 DEF Ids
    <2> QED
      BY <1>0, <1>1, <2>1, <2>3 DEF Ids
  <1>12. Dead'
    <2>1. \A n \in 1 .. MaxRow : DeadId(n) => DeadId(n)'
      <3>1. ASSUME NEW n \in 1 .. MaxRow, DeadId(n) PROVE DeadId(n)'
        <4>1. n # 0 /\ n < nextRow'
          BY <1>1, <3>1 DEF DeadId
        <4> QED
          BY <1>10, <1>c, <1>u, <3>1, <4>1 DEF DeadId
      <3> QED
        BY <3>1
    <2>2. \A r \in rows : r.item \in Items
      BY <1>0, RowTypes
    <2>3. ASSUME NEW k \in DOMAIN ops', NEW n \in ops'[k].ids
          PROVE  /\ DeadId(n)' /\ \A r \in rows' : r.id = n /\ Untraded(r.item)' => r.filed
                 /\ \A q \in Players, i \in Items : Untraded(i) => snap'[q].ids[i] # n
      <3>1. n \in 1 .. MaxRow /\ n # 0
        BY <1>0, <1>1, <2>3, IdsInOps
      <3>2. /\ DeadId(n) /\ \A r \in rows : r.id = n /\ Untraded(r.item) => r.filed
            /\ \A q \in Players, i \in Items : Untraded(i) => snap[q].ids[i] # n
        BY <1>1, <2>3 DEF RowInv, Dead
      <3> QED
        BY <1>1, <1>10, <1>u, <2>1, <2>2, <3>1, <3>2
    <2>4. ASSUME NEW n \in removals'
          PROVE  /\ DeadId(n)' /\ \A r \in rows' : r.id = n /\ Untraded(r.item)' => r.filed = DeathDone' /\ r.char = Owner
                 /\ \A q \in Players, i \in Items : Untraded(i) /\ snap'[q].ids[i] = n => q = Owner
      <3>1. n \in removals
        BY <1>a, <1>b, <2>4
      <3>2. n \in 1 .. MaxRow /\ n # 0
        BY <1>0, <3>1, RowTypes
      <3>3. /\ DeadId(n) /\ \A r \in rows : r.id = n /\ Untraded(r.item) => r.filed = DeathDone /\ r.char = Owner
            /\ \A q \in Players, i \in Items : Untraded(i) /\ snap[q].ids[i] = n => q = Owner
        BY <3>1 DEF RowInv, Dead
      <3> QED
        BY <1>1, <1>6, <1>10, <1>u, <2>1, <2>2, <3>2, <3>3
    <2> QED
      BY <1>u, <2>3, <2>4 DEF Dead
  <1>13. AllSnaps'
    <2>1. ASSUME NEW q \in Players PROVE SnapShape(q)'
      <3>1. SnapShape(q) /\ \A i \in snap[q].held : i \in Items
        BY <1>0, RowTypes DEF RowInv, AllSnaps
      <3>2. CASE q = p
        BY <1>3, <3>2 DEF SnapShape
      <3>3. CASE q # p
        BY <1>1, <1>2, <1>4, <1>u, <3>1, <3>3 DEF SnapShape, CorpseRows
      <3> QED
        BY <3>2, <3>3
    <2> QED
      BY <2>1 DEF AllSnaps
  <1>14. Stock'
    <2>1. ASSUME NEW i \in Items, Untraded(i), NEW q \in Players, q \notin online', ~Out(q)'
          PROVE  i \in packed'[q] <=> InPack(q, i)'
      <3>1. CASE q = p
        <4>1. packed'[p] = {r.item : r \in PackRows(p)}
          BY <1>0, <1>1 DEF Types, HistTypes
        <4>2. i \in packed'[p] <=> \E r \in PackRows(p) : r.item = i
          BY <4>1
        <4> QED
          BY <1>1, <3>1, <4>2 DEF InPack, PackRows
      <3>2. CASE q # p
        <4>1. q \notin online /\ ~Out(q) /\ packed'[q] = packed[q] /\ InPack(q, i)' = InPack(q, i)
          BY <1>1, <1>2, <1>4, <2>1, <3>2 DEF InPack
        <4> QED
          BY <2>1, <4>1 DEF RowInv, Stock, PackOK
      <3> QED
        BY <3>1, <3>2
    <2>2. Held(Owner)' = Held(Owner)
      <3>1. \A i \in Items : place'[i] = Owner <=> place[i] = Owner
        BY <1>a, <1>b, CorpsesAssumption
      <3> QED
        BY <3>1 DEF Held
    <2>3. \A i \in Items : Untraded(i)' => PackOK(i)'
      BY <1>u, <2>1 DEF PackOK
    <2>4. Early' => Early
      BY <1>a, <1>b DEF Early, dying
    <2>5. \A i \in Held(Owner) : i \in Items
      BY DEF Held
    <2>6. (dbCorpse' = -1 => CorpseRows' = {}) /\ (Early' => ops' = <<>>)
      BY <1>1, <2>4 DEF RowInv, Stock, CorpseRows
    <2>7. pendingDeath' => \A i \in Held(Owner)' : ~Untraded(i)'
      BY <1>1, <1>u, <2>2, <2>5 DEF RowInv, Stock
    <2> QED
      BY <2>3, <2>6, <2>7 DEF Stock
  <1> QED
    BY <1>9, <1>11, <1>12, <1>13, <1>14, <1>u DEF RowInv, AllItems

\* The fold of a committed save gives the items their new ids.
LEMMA RowsApply ==
    ASSUME Life, Coins, Life', RowInv, NEW p \in Players, ApplyCommit(p) PROVE RowInv'
  <1> DEFINE s == snap[p]
             settles == s.death /\ corpse = "unsettled"
  <1>0. /\ Types /\ Types' /\ Death /\ Marks /\ Writer /\ Ids /\ Owner \in Players
        /\ snap \in [Players -> Snaps]
    BY RowTypes, CorpsesAssumption DEF Life, RowInv
  <1>1. /\ s.at = "committed" /\ snap' = [snap EXCEPT ![p] = NoSnap]
        /\ \A i \in Items : rowId'[i] = IF i \in Stamped(p, s) THEN s.new[i] ELSE rowId[i]
        /\ corpse' = IF settles THEN "settled" ELSE corpse
        /\ ops' = IF settles /\ removals # {} THEN Append(ops, ItemsOp(removals)) ELSE ops
        /\ removals' = IF settles THEN {} ELSE removals
        /\ pendingDeath' = (pendingDeath /\ ~s.death)
        /\ retire' = (retire /\ ~s.retire)
        /\ mark' = [mark EXCEPT ![p] = MarkAfter(p, s)]
        /\ UNCHANGED <<online, place, finished, rows, nextRow, dbCorpse, packed, missed, handed>>
    BY DEF ApplyCommit, FoldedIn, dbVars, histVars
  <1>u. \A i : Untraded(i)' = Untraded(i)
    BY <1>1 DEF Untraded
  <1>2. snap'[p] = NoSnap /\ \A q \in Players \ {p} : snap'[q] = snap[q]
    BY <1>0, <1>1
  <1>3. /\ snap'[p].at = "none" /\ ~snap'[p].death /\ ~snap'[p].quit /\ Entries(p)' = {}
        /\ ~snap'[p].retire /\ snap'[p].held = {} /\ snap'[p].inCorpse = {}
        /\ \A i \in Items : snap'[p].ids[i] = 0 /\ snap'[p].new[i] = 0
    BY <1>2, SnapsFit DEF Entries, NoIds
  <1>4. /\ Committed(p) /\ Out(p) /\ ~Writing(p) /\ ~Out(p)' /\ ~Writing(p)' /\ ~Committed(p)'
        /\ \A q \in Players \ {p} : /\ Out(q)' = Out(q) /\ Writing(q)' = Writing(q)
                                    /\ Committed(q)' = Committed(q) /\ Entries(q)' = Entries(q)
    BY <1>1, <1>2, <1>3 DEF Out, Writing, Committed, Entries
  <1>5. /\ s.death => p = Owner /\ DeathDone /\ corpse = "unsettled" /\ settles
        /\ s.death => \A i \in s.held : ~Untraded(i)
        /\ s.quit = (p \notin online)
        /\ s.retire => p = Owner
        /\ s.death \in BOOLEAN /\ s.retire \in BOOLEAN
    BY <1>0, <1>4, RowTypes DEF Death, DeathDone, Marks, Mark, RowInv, AllSnaps, SnapShape
  <1>6. /\ ~DeathDone' \/ p # Owner
        /\ p # Owner => DeathDone' = DeathDone
        /\ p = Owner => DeathDone = s.death
        /\ ~settles => DeathDone' = DeathDone
    <2>1. p = Owner => DeathDone = s.death /\ ~DeathDone'
      BY <1>0, <1>3, <1>4, <1>5 DEF DeathDone
    <2>2. p # Owner => DeathDone' = DeathDone
      BY <1>0, <1>2, <1>4 DEF DeathDone
    <2>3. ~settles => ~s.death
      BY <1>5
    <2> QED
      BY <1>5, <2>1, <2>2, <2>3 DEF DeathDone
  <1>7. \A n, i : HasRow(n, i)' = HasRow(n, i)
    BY <1>1 DEF HasRow
  <1>8. /\ mark'[p] = MarkAfter(p, s) /\ \A q \in Players \ {p} : mark'[q] = mark[q]
    BY <1>0, <1>1 DEF Types, WorldTypes
  <1>9. \A q \in Players \ {p} : Looted(q)' = Looted(q) /\ Clears(q)' = Clears(q)
    <2>1. \A q \in Players \ {p} : (q = Owner /\ retire') <=> (q = Owner /\ retire)
      BY <1>1, <1>5
    <2> QED
      BY <1>2, <1>8, <2>1 DEF Looted, Clears
  <1>10. \A i \in Items : i \in Stamped(p, s) <=>
            /\ s.new[i] # 0 /\ rowId[i] = s.ids[i]
            /\ place[i] = p \/ (s.death /\ place[i] = "corpse")
    BY DEF Stamped
  <1>11. \A i \in Items : s.new[i] # 0 => i \in Entries(p)
    BY DEF RowInv, AllSnaps, SnapShape
  <1>12. /\ ~settles => UNCHANGED <<corpse, removals, ops>>
         /\ settles => corpse' = "settled" /\ removals' = {}
    BY <1>1
  <1>13. /\ \A k \in DOMAIN ops : k \in DOMAIN ops' /\ ops'[k] = ops[k]
         /\ \A k \in DOMAIN ops' : k \in DOMAIN ops \/ (settles /\ ops'[k].ids = removals)
         /\ settles /\ removals # {} => \E k \in DOMAIN ops' : ops'[k].ids = removals
    <2>1. CASE settles /\ removals # {}
      <3>1. ops \in Seq(Ops) /\ removals \subseteq 1 .. MaxRow
        BY <1>0, RowTypes DEF Types, DbTypes
      <3>2. ItemsOp(removals) \in Ops /\ ItemsOp(removals).ids = removals
        BY <3>1 DEF ItemsOp, Ops
      <3>3. /\ DOMAIN ops = 1 .. Len(ops) /\ Len(ops) \in Nat
            /\ DOMAIN ops' = 1 .. Len(ops) + 1
            /\ ops'[Len(ops) + 1] = ItemsOp(removals)
            /\ \A k \in DOMAIN ops : ops'[k] = ops[k]
        BY <1>1, <2>1, <3>1, <3>2, OpsAppended
      <3>4. Len(ops) + 1 \in DOMAIN ops'
        BY <3>3
      <3>5. \A k \in DOMAIN ops' : k \in DOMAIN ops \/ k = Len(ops) + 1
        BY <3>3
      <3>6. \A k \in DOMAIN ops : k \in DOMAIN ops'
        BY <3>3
      <3> QED
        BY <2>1, <3>2, <3>3, <3>4, <3>5, <3>6
    <2>2. CASE ~(settles /\ removals # {})
      BY <1>1, <2>2
    <2> QED
      BY <2>1, <2>2
  <1> HIDE DEF s, settles
  <1>14. ASSUME NEW i \in Items, Untraded(i), NEW q \in Players, place[i] = q PROVE InHand(i, q)'
    <2>1. InHand(i, q)
      BY <1>14, CorpsesAssumption DEF RowInv, AllItems, ItemOK
    <2>2. \A x \in Players : i \in Entries(x)' => x = q
      BY <1>3, <1>4, <2>1 DEF InHand
    <2>3. CASE q # p
      <3>1. rowId'[i] = rowId[i]
        BY <1>1, <1>10, <1>14, <2>3, CorpsesAssumption
      <3>2. snap'[q] = snap[q] /\ q \in online'
        BY <1>1, <1>2, <2>1, <2>3 DEF InHand
      <3> QED
        BY <1>1, <1>4, <1>7, <1>9, <2>1, <2>2, <2>3, <3>1, <3>2 DEF InHand
    <2>4. CASE q = p
      <3>1. s.new[i] # 0 => rowId[i] = 0 /\ s.ids[i] = rowId[i] /\ i \in s.held
        BY <1>11, <2>1, <2>4 DEF InHand, s
      <3>2. rowId'[i] = IF s.new[i] # 0 THEN s.new[i] ELSE rowId[i]
        BY <1>1, <1>10, <1>14, <2>4, <3>1
      <3>3. \A r \in rows : r.item = i /\ ~r.filed => r.char = p /\ r.id = rowId'[i]
        <4>1. ASSUME NEW r \in rows, r.item = i, ~r.filed PROVE r.char = p /\ r.id = rowId'[i]
          <5>1. r.char = p /\ (r.id = rowId[i] \/ s.new[i] = r.id) /\ r.id # 0
            BY <1>0, <2>1, <2>4, <4>1, RowTypes DEF InHand, s
          <5> QED
            BY <3>1, <3>2, <5>1
        <4> QED
          BY <4>1
      <3>4. rowId'[i] # 0 => \E r \in rows : r.id = rowId'[i] /\ r.item = i
        <4>1. CASE s.new[i] # 0
          <5>1. PICK r \in rows : r.item = i /\ ~r.filed
            BY <1>4, <2>1, <2>4, <3>1, <4>1 DEF InHand, s
          <5> QED
            BY <3>3, <5>1
        <4>2. CASE s.new[i] = 0
          BY <2>1, <3>2, <4>2 DEF InHand, HasRow
        <4> QED
          BY <4>1, <4>2
      <3>5. \A r \in rows : r.item = i /\ r.filed => r.id = rowId'[i] /\ Looted(p)'
        <4>1. ASSUME NEW r \in rows, r.item = i, r.filed PROVE r.id = rowId'[i] /\ Looted(p)'
          <5>1. r.id = rowId[i] /\ r.id # 0 /\ Looted(p) /\ ~Clears(p)
            BY <1>0, <1>4, <2>1, <2>4, <4>1, RowTypes DEF InHand
          <5>2. r.id = rowId'[i]
            BY <3>1, <3>2, <5>1
          <5>3. ~s.retire
            BY <5>1 DEF Clears, s
          <5>4. retire' = retire
            BY <1>0, <1>1, <5>3 DEF Types, WorldTypes
          <5>5. CASE p = Owner /\ retire
            BY <5>2, <5>4, <5>5 DEF Looted
          <5>6. CASE ~(p = Owner /\ retire)
            <6>1. mark[p] # s.mark /\ mark[p] # 0
              BY <5>1, <5>6 DEF Clears, Looted, s
            <6>2. mark'[p] = mark[p]
              BY <1>8, <6>1 DEF MarkAfter
            <6> QED
              BY <5>2, <6>1, <6>2 DEF Looted
          <5> QED
            BY <5>5, <5>6
        <4> QED
          BY <4>1
      <3>6. rowId[i]' # 0 => HasRow(rowId[i], i)'
        BY <1>1, <3>4 DEF HasRow
      <3>7. p \in online'
        BY <1>1, <2>1, <2>4 DEF InHand
      <3> QED
        BY <1>1, <1>3, <1>4, <2>2, <2>4, <3>3, <3>5, <3>6, <3>7 DEF InHand
    <2> QED
      BY <2>3, <2>4
  <1>15. ASSUME NEW i \in Items, Untraded(i), place[i] = "corpse", corpse = "unsettled", settles
         PROVE  InSettled(i)'
    <2>1. InUnsettled(i) /\ p = Owner /\ s.death /\ DeathDone
      BY <1>5, <1>15 DEF RowInv, AllItems, ItemOK, settles
    <2>2. i \in Entries(Owner) /\ s.ids[i] = rowId[i] /\ (s.new[i] # 0 => rowId[i] = 0)
      BY <2>1 DEF InUnsettled, Entries, s
    <2>3. rowId'[i] = IF s.new[i] # 0 THEN s.new[i] ELSE rowId[i]
      BY <1>1, <1>10, <1>15, <2>1, <2>2
    <2>4. PICK r \in rows : r.item = i
      BY <2>1 DEF InUnsettled
    <2>5. \A x \in rows : x.item = i => x.filed /\ x.id = rowId'[i] /\ x.id # 0
      <3>1. ASSUME NEW x \in rows, x.item = i PROVE x.filed /\ x.id = rowId'[i] /\ x.id # 0
        <4>1. x.filed /\ x.id # 0 /\ (rowId[i] # 0 => x.id = rowId[i])
              /\ (rowId[i] = 0 => x.id = s.new[i])
          <5>1. x.id # 0
            BY <1>0, RowTypes
          <5>2. x.filed
            BY <2>1, <3>1 DEF InUnsettled
          <5>3. (rowId[i] # 0 => x.id = rowId[i]) /\ (rowId[i] = 0 => x.id = s.new[i])
            BY <2>1, <3>1 DEF InUnsettled, s
          <5> QED
            BY <5>1, <5>2, <5>3
        <4> QED
          BY <2>2, <2>3, <4>1
      <3> QED
        BY <3>1
    <2>6. rowId'[i] # 0 /\ \E x \in rows : x.id = rowId'[i] /\ x.item = i
      BY <2>4, <2>5
    <2>7. HasRow(rowId[i], i)'
      BY <1>1, <2>6 DEF HasRow
    <2>8. \A q \in Players : i \notin Entries(q)'
      BY <1>3, <1>4, <2>1 DEF InUnsettled
    <2> QED
      BY <1>1, <1>12, <1>15, <2>5, <2>6, <2>7, <2>8 DEF InSettled
  <1>16. ASSUME NEW i \in Items, Untraded(i), place[i] = "corpse", corpse = "unsettled", ~settles
         PROVE  InUnsettled(i)'
    <2>1. InUnsettled(i) /\ ~s.death
      BY <1>5, <1>16 DEF RowInv, AllItems, ItemOK
    <2>2. rowId'[i] = rowId[i]
      BY <1>1, <1>0, <1>10, <1>16, <2>1, CorpsesAssumption
    <2>3. \A x \in Players : i \in Entries(x)' => x = Owner
      BY <1>3, <1>4, <2>1 DEF InUnsettled
    <2>4. CASE p = Owner
      BY <1>1, <1>3, <1>4, <1>6, <1>7, <1>16, <2>1, <2>2, <2>3, <2>4 DEF InUnsettled
    <2>5. CASE p # Owner
      <3>1. snap'[Owner] = snap[Owner] /\ Writing(Owner)' = Writing(Owner)
              /\ Entries(Owner)' = Entries(Owner)
        BY <1>0, <1>2, <1>4, <2>5
      <3> QED
        BY <1>1, <1>6, <1>7, <1>16, <2>1, <2>2, <2>3, <3>1 DEF InUnsettled
    <2> QED
      BY <2>4, <2>5
  <1>17. ASSUME NEW i \in Items, Untraded(i), place[i] = "corpse", corpse # "unsettled" PROVE InSettled(i)'
    <2>1. InSettled(i) /\ ~settles /\ i \notin Entries(p)
      BY <1>17 DEF RowInv, AllItems, ItemOK, settles, InSettled
    <2>2. rowId'[i] = rowId[i]
      BY <1>1, <1>10, <1>11, <2>1
    <2> QED
      BY <1>1, <1>3, <1>4, <1>7, <1>12, <2>1, <2>2 DEF InSettled
  <1>18. ASSUME NEW i \in Items, Untraded(i), place[i] = "room" PROVE InRoom(i)'
    <2>1. InRoom(i) /\ ~settles
      BY <1>18 DEF RowInv, AllItems, ItemOK, settles, InRoom
    <2> QED
      BY <1>1, <1>3, <1>4, <1>12, <2>1 DEF InRoom
  <1>19. ASSUME NEW i \in Items, Untraded(i), place[i] = "gone" PROVE Outside(i)'
    <2>1. Outside(i)
      BY <1>19 DEF RowInv, AllItems, ItemOK
    <2>2. rowId'[i] = 0
      BY <1>0, <1>1, <1>10, <1>19, <2>1, CorpsesAssumption DEF Outside
    <2>3. \A q, x \in Players : i \in Entries(q)' /\ i \in Entries(x)' => q = x
      BY <1>3, <1>4, <2>1 DEF Outside
    <2>4. ASSUME NEW q \in Players, i \in Entries(q)' PROVE LastSave(q, i)' \/ (q = Owner /\ Rotten(i)')
      <3>1. q # p /\ i \in Entries(q) /\ snap'[q] = snap[q]
        BY <1>2, <1>3, <1>4, <2>4
      <3>2. LastSave(q, i) \/ (q = Owner /\ Rotten(i))
        BY <2>1, <3>1 DEF Outside
      <3>3. q = Owner => ~settles
        BY <1>5, <3>1 DEF settles
      <3>4. LastSave(q, i) => LastSave(q, i)'
        BY <1>1, <1>4, <3>1 DEF LastSave
      <3>5. q = Owner /\ Rotten(i) => Rotten(i)'
        BY <1>1, <1>12, <3>1, <3>3 DEF Rotten
      <3> QED
        BY <3>2, <3>4, <3>5
    <2>5. ASSUME NEW r \in rows', r.item = i, ~r.filed
          PROVE  \/ r.char \notin online' /\ (Out(r.char)' => i \in snap'[r.char].held)
                 \/ r.char = Owner /\ corpse' = "unsettled" /\ r.id \in removals' /\ ~DeathDone'
      <3>1. \/ r.char \notin online /\ (Out(r.char) => i \in snap[r.char].held)
            \/ r.char = Owner /\ corpse = "unsettled" /\ r.id \in removals /\ ~DeathDone
        BY <1>1, <2>1, <2>5 DEF Outside
      <3>2. r.char \in Players
        BY <1>0, <1>1, <2>5, RowTypes
      <3>3. CASE r.char \notin online /\ (Out(r.char) => i \in snap[r.char].held)
        BY <1>1, <1>2, <1>4, <3>2, <3>3
      <3>4. CASE r.char = Owner /\ corpse = "unsettled" /\ r.id \in removals /\ ~DeathDone
        <4>1. ~settles
          BY <1>5, <3>4 DEF settles
        <4> QED
          BY <1>6, <1>12, <3>4, <4>1
      <3> QED
        BY <3>1, <3>3, <3>4
    <2>6. ASSUME NEW r \in rows', r.item = i, r.filed
          PROVE  /\ corpse' = "unsettled" => r.id \in removals' /\ DeathDone'
                 /\ corpse' = "settled" =>
                     \/ missed' \/ \E k \in DOMAIN ops' : r.id \in ops'[k].ids
                     \/ \E q \in Players : /\ Writing(q)' /\ snap'[q].quit /\ mark'[q] # 0
                                           /\ i \in snap'[q].held
      <3>1. /\ corpse = "unsettled" => r.id \in removals /\ DeathDone
            /\ corpse = "settled" =>
                     \/ missed \/ \E k \in DOMAIN ops : r.id \in ops[k].ids
                     \/ \E q \in Players : /\ Writing(q) /\ snap[q].quit /\ mark[q] # 0
                                           /\ i \in snap[q].held
        BY <1>1, <2>1, <2>6 DEF Outside
      <3>2. CASE settles
        <4>1. r.id \in removals
          BY <3>1, <3>2 DEF settles
        <4> QED
          BY <1>12, <1>13, <3>2, <4>1
      <3>3. CASE ~settles
        <4>1. ASSUME NEW q \in Players, Writing(q), snap[q].quit, mark[q] # 0, i \in snap[q].held
              PROVE  Writing(q)' /\ snap'[q].quit /\ mark'[q] # 0 /\ i \in snap'[q].held
          BY <1>2, <1>4, <1>8, <4>1
        <4>2. corpse' = corpse /\ removals' = removals /\ ops' = ops /\ missed' = missed
              /\ DeathDone' = DeathDone
          BY <1>1, <1>6, <1>12, <3>3
        <4> QED
          BY <3>1, <4>1, <4>2
      <3> QED
        BY <3>2, <3>3
    <2> QED
      BY <2>2, <2>3, <2>4, <2>5, <2>6 DEF Outside
  <1>20. AllItems'
    <2>1. ASSUME NEW i \in Items, Untraded(i) PROVE ItemOK(i)'
      <3>1. settles => corpse = "unsettled"
        BY DEF settles
      <3> QED
        BY <1>1, <1>12, <1>14, <1>15, <1>16, <1>17, <1>18, <1>19, <2>1, <3>1 DEF ItemOK
    <2> QED
      BY <1>u, <2>1 DEF AllItems
  <1>21. \A q \in Players, i \in Items :
            /\ snap'[q].ids[i] = snap[q].ids[i] \/ snap'[q].ids[i] = 0
            /\ snap'[q].new[i] = snap[q].new[i] \/ snap'[q].new[i] = 0
    BY <1>2, <1>3
  <1>22. Ids'
    <2>1. ASSUME NEW i \in Items, NEW n \in 1 .. MaxRow, Knows(n, i)' PROVE Knows(n, i)
      <3>1. rowId'[i] = rowId[i] \/ rowId'[i] = snap[p].new[i]
        BY <1>1 DEF s
      <3> QED
        BY <1>7, <1>21, <2>1, <3>1 DEF Knows
    <2> QED
      BY <1>0, <1>1, <2>1, IdsFrame
  <1>23. Dead'
    <2>1. \A n \in 1 .. MaxRow : DeadId(n) => DeadId(n)'
      BY <1>1, <1>21, <1>u DEF DeadId, s
    <2>2. ASSUME NEW k \in DOMAIN ops', NEW n \in ops'[k].ids
          PROVE  /\ DeadId(n)' /\ \A r \in rows' : r.id = n /\ Untraded(r.item) => r.filed
                 /\ \A q \in Players, i \in Items : Untraded(i) => snap'[q].ids[i] # n
      <3>1. CASE k \in DOMAIN ops
        <4>1. n \in 1 .. MaxRow /\ n # 0 /\ ops'[k] = ops[k]
          BY <1>0, <1>13, <2>2, <3>1, IdsInOps
        <4>2. /\ DeadId(n) /\ \A r \in rows : r.id = n /\ Untraded(r.item) => r.filed
              /\ \A q \in Players, i \in Items : Untraded(i) => snap[q].ids[i] # n
          BY <2>2, <3>1, <4>1 DEF RowInv, Dead
        <4> QED
          BY <1>1, <1>21, <2>1, <4>1, <4>2
      <3>2. CASE settles /\ n \in removals
        <4>1. n \in 1 .. MaxRow /\ n # 0 /\ p = Owner /\ DeathDone
          BY <1>0, <1>5, <3>2, RowTypes DEF settles
        <4>2. /\ DeadId(n) /\ \A r \in rows : r.id = n /\ Untraded(r.item) => r.filed = DeathDone /\ r.char = Owner
              /\ \A q \in Players, i \in Items : Untraded(i) /\ snap[q].ids[i] = n => q = Owner
          BY <3>2 DEF RowInv, Dead
        <4>3. \A q \in Players, i \in Items : Untraded(i) => snap'[q].ids[i] # n
          BY <1>2, <1>3, <4>1, <4>2
        <4> QED
          BY <1>1, <2>1, <4>1, <4>2, <4>3
      <3> QED
        BY <1>13, <2>2, <3>1, <3>2
    <2>3. ASSUME NEW n \in removals'
          PROVE  /\ DeadId(n)' /\ \A r \in rows' : r.id = n /\ Untraded(r.item) => r.filed = DeathDone' /\ r.char = Owner
                 /\ \A q \in Players, i \in Items : Untraded(i) /\ snap'[q].ids[i] = n => q = Owner
      <3>1. ~settles /\ n \in removals /\ n \in 1 .. MaxRow /\ n # 0
        BY <1>0, <1>12, <2>3, RowTypes
      <3>2. /\ DeadId(n) /\ \A r \in rows : r.id = n /\ Untraded(r.item) => r.filed = DeathDone /\ r.char = Owner
            /\ \A q \in Players, i \in Items : Untraded(i) /\ snap[q].ids[i] = n => q = Owner
        BY <3>1 DEF RowInv, Dead
      <3> QED
        BY <1>1, <1>6, <1>21, <2>1, <3>1, <3>2
    <2> QED
      BY <1>u, <2>2, <2>3 DEF Dead
  <1>24. AllSnaps'
    <2>1. ASSUME NEW q \in Players PROVE SnapShape(q)'
      <3>1. SnapShape(q)
        BY DEF RowInv, AllSnaps
      <3>2. CASE q = p
        BY <1>3, <3>2 DEF SnapShape
      <3>3. CASE q # p
        BY <1>1, <1>2, <1>4, <1>u, <3>1, <3>3 DEF SnapShape, CorpseRows
      <3> QED
        BY <3>2, <3>3
    <2> QED
      BY <2>1 DEF AllSnaps
  <1>25. ASSUME NEW i \in Items, Untraded(i), p \notin online PROVE i \in packed[p] <=> InPack(p, i)
    <2>0. ItemOK(i)
      BY <1>25 DEF RowInv, AllItems
    <2>1. s.quit /\ packed[p] = s.held /\ s.held \subseteq Items
      BY <1>0, <1>5, <1>25, RowTypes DEF RowInv, AllSnaps, SnapShape, s
    <2>2. p = Owner /\ corpse = "unsettled" => DeathDone /\ s.death
      BY <1>0, <1>4, <1>5, <1>25 DEF Death, s
    <2>3. ASSUME i \in s.held PROVE InPack(p, i)
      <3>1. i \in Entries(p)
        BY <2>3 DEF Entries, s
      <3>2. place[i] \notin Players
        BY <1>25, <2>0, <3>1 DEF ItemOK, InHand
      <3>3. ~(p = Owner /\ corpse = "unsettled")
        BY <1>5, <1>25, <2>2, <2>3
      <3>4. place[i] # "corpse" /\ place[i] # "room"
        BY <2>0, <3>1, <3>3 DEF ItemOK, InUnsettled, InSettled, InRoom
      <3>5. place[i] = "gone"
        BY <1>0, <3>2, <3>4, RowTypes
      <3>6. LastSave(p, i)
        BY <2>0, <3>1, <3>3, <3>5 DEF ItemOK, Outside, Rotten
      <3>7. PICK r \in rows : r.item = i
        BY <1>4, <3>6 DEF LastSave
      <3>8. ~r.filed /\ r.char = p
        BY <1>4, <3>6, <3>7 DEF LastSave
      <3> QED
        BY <3>7, <3>8 DEF InPack
    <2>4. ASSUME NEW r \in rows, r.item = i, r.char = p, ~r.filed PROVE i \in s.held
      <3>1. place[i] \notin Players
        BY <1>25, <2>0, <2>4 DEF ItemOK, InHand
      <3>2. ~(place[i] = "corpse" /\ corpse = "unsettled")
        BY <2>0, <2>2, <2>4 DEF ItemOK, InUnsettled
      <3>3. place[i] # "corpse" /\ place[i] # "room"
        BY <2>0, <2>4, <3>2 DEF ItemOK, InSettled, InRoom
      <3>4. Outside(i)
        BY <1>0, <2>0, <3>1, <3>3, RowTypes DEF ItemOK
      <3> QED
        BY <1>4, <2>2, <2>4, <3>4 DEF Outside, s
    <2> QED
      BY <2>1, <2>3, <2>4 DEF InPack
  <1>26. Stock'
    <2>1. ASSUME NEW i \in Items, Untraded(i), NEW q \in Players, q \notin online', ~Out(q)'
          PROVE  i \in packed'[q] <=> InPack(q, i)'
      <3>1. InPack(q, i)' = InPack(q, i) /\ packed' = packed /\ q \notin online
        BY <1>1, <2>1 DEF InPack
      <3>2. CASE q = p
        BY <1>25, <2>1, <3>1, <3>2
      <3>3. CASE q # p
        BY <1>4, <2>1, <3>1, <3>3 DEF RowInv, Stock, PackOK
      <3> QED
        BY <3>2, <3>3
    <2>2. Early' => ops' = <<>>
      BY <1>12 DEF RowInv, Stock, Early
    <2>3. \A i \in Items : Untraded(i) => PackOK(i)'
      BY <2>1 DEF PackOK
    <2> QED
      BY <1>1, <1>u, <2>2, <2>3 DEF RowInv, Stock, CorpseRows, Held
  <1> QED
    BY <1>20, <1>22, <1>23, <1>24, <1>26 DEF RowInv

\* A login builds the pack from its rows, and each item has its row's id.
LEMMA RowsLogin ==
    ASSUME Life, Coins, Life', RowInv, NEW p \in Players, Login(p) PROVE RowInv'
  <1> DEFINE Mine(i) == {r \in PackRows(p) : r.item = i}
  <1>0. /\ Types /\ Types' /\ Death /\ Marks /\ Writer /\ Ids /\ Owner \in Players
        /\ snap \in [Players -> Snaps]
    BY RowTypes, CorpsesAssumption DEF Life, RowInv
  <1>1. /\ p \notin online /\ ~Out(p) /\ online' = online \cup {p}
        /\ \A i \in Items : place'[i] = IF Mine(i) # {} THEN p ELSE place[i]
        /\ \A i \in Items : rowId'[i] = IF Mine(i) # {} THEN (CHOOSE r \in Mine(i) : TRUE).id
                                        ELSE rowId[i]
        /\ UNCHANGED <<corpse, pendingDeath, retire, mark, removals, snap, ops,
                       finished, rows, nextRow, dbCorpse, packed, missed, handed>>
    BY DEF Login, Unsettled, Out, pendVars, writerVars, dbVars, histVars
  <1>u. \A i : Untraded(i)' = Untraded(i)
    BY <1>1 DEF Untraded
  <1>2. \A i \in Items : Mine(i) # {} =>
           \E r \in rows : /\ r.item = i /\ r.char = p /\ ~r.filed /\ rowId'[i] = r.id
                           /\ Untraded(i) => \A x \in rows : x.item = i => x = r
    <2>1. ASSUME NEW i \in Items, Mine(i) # {}
          PROVE \E r \in rows : /\ r.item = i /\ r.char = p /\ ~r.filed /\ rowId'[i] = r.id
                                /\ Untraded(i) => \A x \in rows : x.item = i => x = r
      <3> DEFINE r == CHOOSE r \in Mine(i) : TRUE
      <3>1. r \in Mine(i)
        BY <2>1
      <3>2. r \in rows /\ r.item = i /\ r.char = p /\ ~r.filed
        BY <3>1 DEF PackRows
      <3>3. Untraded(i) => \A x \in rows : x.item = i => x = r
        BY <1>0, <3>2, OneRow
      <3>4. rowId'[i] = r.id
        BY <1>1, <2>1
      <3> QED
        BY <3>2, <3>3, <3>4
    <2> QED
      BY <2>1
  <1>3. \A i \in Items : Mine(i) = {} => \A r \in rows : r.item = i => r.filed \/ r.char # p
    BY DEF PackRows
  <1> HIDE DEF Mine
  <1>4. /\ snap[p] = NoSnap /\ (p = Owner => corpse # "unsettled")
        /\ Entries(p) = {} /\ (\A i \in Items : snap[p].new[i] = 0) /\ snap[p].held = {}
    <2>1. snap[p] = NoSnap
      BY <1>0, <1>1 DEF Death
    <2>2. ~snap[p].death
      BY <2>1, SnapsFit
    <2>3. p = Owner => corpse # "unsettled"
      BY <1>0, <1>1, <2>2 DEF Death
    <2> QED
      BY <2>1, <2>3, SnapsFit DEF Entries, NoIds
  <1>5. /\ \A q : Entries(q)' = Entries(q) /\ Out(q)' = Out(q) /\ Writing(q)' = Writing(q)
               /\ Committed(q)' = Committed(q) /\ Looted(q)' = Looted(q) /\ Clears(q)' = Clears(q)
        /\ DeathDone' = DeathDone /\ \A n, i : HasRow(n, i)' = HasRow(n, i)
    BY <1>1 DEF Entries, Out, Writing, Committed, DeathDone, Looted, Clears, HasRow
  <1>6. ASSUME NEW i \in Items, Untraded(i), Mine(i) # {} PROVE place[i] = "gone" /\ ItemOK(i)'
    <2>1. PICK r \in rows : /\ r.item = i /\ r.char = p /\ ~r.filed /\ rowId'[i] = r.id
                            /\ Untraded(i) => \A x \in rows : x.item = i => x = r
      BY <1>2, <1>6
    <2>2. ItemOK(i)
      BY <1>6 DEF RowInv, AllItems
    <2>3. place[i] \notin Players
      BY <1>6, <1>1, <2>1, <2>2 DEF ItemOK, InHand
    <2>4. ~(place[i] = "corpse" /\ corpse = "unsettled")
      BY <1>6, <1>4, <2>1, <2>2 DEF ItemOK, InUnsettled
    <2>5. place[i] # "corpse" /\ place[i] # "room"
      BY <1>6, <2>1, <2>2, <2>4 DEF ItemOK, InSettled, InRoom
    <2>6. place[i] = "gone" /\ Outside(i)
      BY <1>0, <2>2, <2>3, <2>5, RowTypes DEF ItemOK
    <2>7. ASSUME NEW q \in Players, i \in Entries(q) PROVE FALSE
      <3>1. q # p
        BY <1>4, <2>7
      <3>2. LastSave(q, i) \/ (q = Owner /\ Rotten(i))
        BY <2>6, <2>7 DEF Outside
      <3>3. ~LastSave(q, i)
        BY <1>6, <2>1, <3>1 DEF LastSave
      <3>4. ~(q = Owner /\ Rotten(i))
        BY <1>6, <2>1, <3>1 DEF Rotten
      <3> QED
        BY <3>2, <3>3, <3>4
    <2>8. place'[i] = p /\ p \in online'
      BY <1>1, <1>6
    <2>9. \E x \in rows : x.id = rowId'[i] /\ x.item = i
      BY <2>1
    <2>10. HasRow(rowId[i], i)'
      BY <1>1, <2>9 DEF HasRow
    <2>11. InHand(i, p)'
      <3>1. \A x \in rows' : x.item = i => ~x.filed /\ x.char = p /\ x.id = rowId'[i]
        BY <1>1, <1>6, <2>1
      <3>2. /\ \A q \in Players : i \notin Entries(q)'
            /\ snap'[p].new[i] = 0 /\ i \notin snap'[p].held /\ ~Writing(p)'
        BY <1>1, <1>4, <1>5, <2>7 DEF Out, Writing
      <3> QED
        BY <2>8, <2>10, <3>1, <3>2 DEF InHand
    <2> QED
      BY <2>6, <2>8, <2>11, CorpsesAssumption DEF ItemOK
  <1>7. ASSUME NEW i \in Items, Untraded(i), Mine(i) = {} PROVE ItemOK(i)'
    <2>1. place'[i] = place[i] /\ rowId'[i] = rowId[i] /\ ItemOK(i)
      BY <1>1, <1>7 DEF RowInv, AllItems
    <2>2. ASSUME NEW q \in Players, InHand(i, q) PROVE InHand(i, q)'
      BY <1>1, <1>5, <2>1, <2>2 DEF InHand
    <2>3. InUnsettled(i) => InUnsettled(i)'
      BY <1>1, <1>5, <2>1 DEF InUnsettled
    <2>4. (InSettled(i) => InSettled(i)') /\ (InRoom(i) => InRoom(i)')
      BY <1>1, <1>5, <2>1 DEF InSettled, InRoom
    <2>5. ASSUME Outside(i) PROVE Outside(i)'
      <3>1. \A q \in Players : (LastSave(q, i) => LastSave(q, i)') /\ (Rotten(i) => Rotten(i)')
        BY <1>1, <1>5 DEF LastSave, Rotten
      <3>2. \A r \in rows : r.item = i /\ ~r.filed => r.char # p
        BY <1>3, <1>7
      <3> QED
        BY <1>1, <1>5, <2>1, <2>5, <3>1, <3>2 DEF Outside
    <2> QED
      BY <1>1, <2>1, <2>2, <2>3, <2>4, <2>5 DEF ItemOK
  <1>8. Ids'
    <2>1. ASSUME NEW i \in Items, NEW n \in 1 .. MaxRow, Knows(n, i)' PROVE Knows(n, i)
      <3>1. rowId'[i] = n => rowId[i] = n \/ HasRow(n, i)
        BY <1>1, <1>2 DEF HasRow
      <3> QED
        BY <1>1, <1>5, <2>1, <3>1 DEF Knows
    <2> QED
      BY <1>0, <1>1, <2>1, IdsFrame
  <1>9. Dead'
    <2>1. ASSUME NEW n, DeadId(n),
                 \A r \in rows : r.id = n /\ Untraded(r.item) /\ ~r.filed => r.char # p
          PROVE  DeadId(n)'
      <3>1. \A i \in Items : Untraded(i) => rowId'[i] # n
        BY <1>1, <1>2, <2>1 DEF DeadId
      <3> QED
        BY <1>1, <1>u, <2>1, <3>1 DEF DeadId
    <2>2. ASSUME NEW k \in DOMAIN ops', NEW n \in ops'[k].ids
          PROVE  /\ DeadId(n)' /\ \A r \in rows' : r.id = n /\ Untraded(r.item) => r.filed
                 /\ \A q \in Players, i \in Items : Untraded(i) => snap'[q].ids[i] # n
      BY <1>1, <2>1, <2>2 DEF RowInv, Dead
    <2>3. ASSUME NEW n \in removals'
          PROVE  /\ DeadId(n)' /\ \A r \in rows' : r.id = n /\ Untraded(r.item) => r.filed = DeathDone' /\ r.char = Owner
                 /\ \A q \in Players, i \in Items : Untraded(i) /\ snap'[q].ids[i] = n => q = Owner
      <3>1. p # Owner
        BY <1>0, <1>1, <1>4, <2>3 DEF Death
      <3>2. /\ DeadId(n) /\ \A r \in rows : r.id = n /\ Untraded(r.item) => r.filed = DeathDone /\ r.char = Owner
            /\ \A q \in Players, i \in Items : Untraded(i) /\ snap[q].ids[i] = n => q = Owner
        BY <1>1, <2>3 DEF RowInv, Dead
      <3>3. DeadId(n)'
        BY <2>1, <3>1, <3>2
      <3> QED
        BY <1>1, <1>5, <3>2, <3>3
    <2> QED
      BY <1>u, <2>2, <2>3 DEF Dead
  <1>10. AllSnaps'
    BY <1>1, <1>5, <1>u DEF RowInv, AllSnaps, SnapShape, CorpseRows
  <1>11. Stock'
    <2>1. pendingDeath => Held(Owner)' \subseteq Held(Owner)
      <3>1. pendingDeath => p # Owner
        BY <1>0, <1>1 DEF Death
      <3> QED
        BY <1>1, <3>1 DEF Held
    <2> QED
      BY <1>1, <1>5, <1>u, <2>1 DEF RowInv, Stock, PackOK, InPack, CorpseRows, Early
  <1> QED
    BY <1>6, <1>7, <1>8, <1>9, <1>10, <1>11, <1>u DEF RowInv, AllItems

\* A crash leaves the rows, each of one item and in one place.
LEMMA RowsCrash == Life /\ Coins /\ Life' /\ RowInv /\ Crash => RowInv'
  <1> SUFFICES ASSUME Life, Coins, Life', RowInv, Crash PROVE RowInv'
    OBVIOUS
  <1> DEFINE Mine(i) == {r \in CorpseRows : r.item = i}
  <1>0. Types /\ Types' /\ Ids /\ dbCorpse \in -1 .. 1
    BY RowTypes DEF Life, RowInv
  <1>1. /\ online' = {} /\ removals' = {} /\ ops' = <<>> /\ finished' = "no" /\ pendingDeath' = FALSE
        /\ \A i \in Items : place'[i] = IF Mine(i) # {} THEN "corpse" ELSE "gone"
        /\ \A i \in Items : rowId'[i] = IF Mine(i) # {} THEN (CHOOSE r \in Mine(i) : TRUE).id ELSE 0
        /\ corpse' = IF dbCorpse < 0 THEN "none" ELSE "settled"
        /\ snap' = [q \in Players |-> NoSnap]
        /\ packed' = [q \in Players |-> {r.item : r \in PackRows(q)}]
        /\ UNCHANGED <<rows, nextRow, dbCorpse, missed, handed>>
    BY DEF Crash, dbVars
  <1>u. \A i : Untraded(i)' = Untraded(i)
    BY <1>1 DEF Untraded
  <1>2. \A q \in Players : snap'[q] = NoSnap
    BY <1>1
  <1>3. \A q \in Players :
           /\ snap'[q].at = "none" /\ ~snap'[q].death /\ ~snap'[q].quit /\ Entries(q)' = {}
           /\ ~snap'[q].retire /\ snap'[q].held = {} /\ snap'[q].inCorpse = {}
           /\ \A i \in Items : snap'[q].ids[i] = 0 /\ snap'[q].new[i] = 0
           /\ ~Out(q)' /\ ~Committed(q)'
    BY <1>2, SnapsFit DEF Entries, NoIds, Out, Committed
  <1>4. \A i \in Items : Mine(i) # {} =>
           \E r \in rows : /\ r.item = i /\ r.filed /\ rowId'[i] = r.id
                           /\ Untraded(i) => \A x \in rows : x.item = i => x = r
    <2>1. ASSUME NEW i \in Items, Mine(i) # {}
          PROVE \E r \in rows : /\ r.item = i /\ r.filed /\ rowId'[i] = r.id
                                /\ Untraded(i) => \A x \in rows : x.item = i => x = r
      <3> DEFINE r == CHOOSE r \in Mine(i) : TRUE
      <3>1. r \in Mine(i)
        BY <2>1
      <3>2. r \in rows /\ r.item = i /\ r.filed
        BY <3>1 DEF CorpseRows
      <3>3. Untraded(i) => \A x \in rows : x.item = i => x = r
        BY <1>0, <3>2, OneRow
      <3>4. rowId'[i] = r.id
        BY <1>1, <2>1
      <3> QED
        BY <3>2, <3>3, <3>4
    <2> QED
      BY <2>1
  <1>5. \A i \in Items : Mine(i) = {} => \A r \in rows : r.item = i => ~r.filed
    BY DEF CorpseRows
  <1>6. \A i \in Items : Mine(i) # {} => dbCorpse # -1
    BY DEF RowInv, Stock
  <1> HIDE DEF Mine
  <1>7. ASSUME NEW i \in Items, Untraded(i), Mine(i) # {} PROVE ItemOK(i)'
    <2>1. PICK r \in rows : /\ r.item = i /\ r.filed /\ rowId'[i] = r.id
                            /\ Untraded(i) => \A x \in rows : x.item = i => x = r
      BY <1>4, <1>7
    <2>2. place'[i] = "corpse" /\ corpse' = "settled"
      BY <1>0, <1>1, <1>6, <1>7
    <2>3. r.id # 0
      BY <1>0, <2>1, RowTypes
    <2>4. HasRow(rowId[i], i)'
      BY <1>1, <2>1 DEF HasRow
    <2>5. InSettled(i)'
      BY <1>1, <1>3, <1>7, <2>1, <2>2, <2>3, <2>4 DEF InSettled
    <2> QED
      BY <2>2, <2>5, CorpsesAssumption DEF ItemOK
  <1>8. ASSUME NEW i \in Items, Untraded(i), Mine(i) = {} PROVE ItemOK(i)'
    <2>1. place'[i] = "gone" /\ rowId'[i] = 0
      BY <1>1, <1>8
    <2>2. \A r \in rows' : r.item = i => ~r.filed /\ r.char \in Players
      BY <1>0, <1>1, <1>5, <1>8, RowTypes
    <2>3. Outside(i)'
      BY <1>1, <1>3, <2>1, <2>2 DEF Outside
    <2> QED
      BY <2>1, <2>3, CorpsesAssumption DEF ItemOK
  <1>9. Ids'
    <2>1. ASSUME NEW i \in Items, NEW n \in 1 .. MaxRow, Knows(n, i)' PROVE Knows(n, i)
      <3>1. rowId'[i] = n => HasRow(n, i)
        BY <1>1, <1>4 DEF HasRow
      <3>2. HasRow(n, i)' = HasRow(n, i)
        BY <1>1 DEF HasRow
      <3> QED
        BY <1>3, <2>1, <3>1, <3>2 DEF Knows
    <2> QED
      BY <1>0, <1>1, <2>1, IdsFrame
  <1>10. Dead'
    <2>1. DOMAIN ops' = {}
      BY <1>1
    <2> QED
      BY <1>1, <2>1 DEF Dead
  <1>11. AllSnaps'
    BY <1>3 DEF AllSnaps, SnapShape
  <1>12. Stock'
    <2>1. \A q \in Players : {r.item : r \in PackRows(q)}' = packed'[q]
      BY <1>1 DEF PackRows
    <2>2. CorpseRows' = CorpseRows
      BY <1>1 DEF CorpseRows
    <2>3. \A i \in Items : PackOK(i)'
      BY <1>1, <2>1 DEF PackOK, InPack, PackRows
    <2> QED
      BY <1>1, <1>u, <2>2, <2>3 DEF RowInv, Stock
  <1> QED
    BY <1>7, <1>8, <1>9, <1>10, <1>11, <1>12, <1>u DEF RowInv, AllItems

\* A deletion that is done took rows that no entity holds the id of.
LEMMA RowsOpDone == Life /\ Coins /\ Life' /\ RowInv /\ OpDone => RowInv'
  <1> SUFFICES ASSUME Life, Coins, Life', RowInv, OpDone PROVE RowInv'
    OBVIOUS
  <1> DEFINE o == Head(ops)
  <1>0. Types /\ Types' /\ Death /\ Marks /\ Writer /\ Ids /\ Owner \in Players
    BY CorpsesAssumption DEF Life, RowInv
  <1>1. /\ ops # <<>> /\ ops' = Tail(ops)
        /\ UNCHANGED <<online, place, rowId, corpse, pendingDeath, retire, mark, removals, snap,
                       nextRow, packed, missed, handed>>
    BY DEF OpDone, worldVars, pendVars, histVars
  <1>u. \A i : Untraded(i)' = Untraded(i)
    BY <1>1 DEF Untraded
  <1>2. /\ o.op = "Delete" => /\ rows' = {r \in rows : ~r.filed}
                              /\ finished' = IF o.waiting THEN "Deleted" ELSE finished
        /\ o.op # "Delete" => /\ rows' = {r \in rows : ~(r.filed /\ r.id \in o.ids)}
                              /\ dbCorpse' = dbCorpse /\ finished' = finished
    BY DEF OpDone
  <1>3. /\ ops \in Seq(Ops) /\ o = ops[1] /\ 1 \in DOMAIN ops /\ o \in Ops
    <2>1. ops \in Seq(Ops)
      BY <1>0 DEF Types, DbTypes
    <2> QED
      BY <1>1, <2>1, OpsTaken
  <1>4. ~Early
    BY <1>1 DEF RowInv, Stock
  <1>5. /\ rows' \subseteq rows
        /\ \A r \in rows : ~r.filed => r \in rows'
        /\ \A r \in rows : r \notin rows' =>
              r.filed /\ (o.op = "Delete" \/ (r.id \in o.ids /\ o.op # "Delete"))
    BY <1>2
  <1>6. o.op = "Delete" =>
           /\ Ending /\ ~retire /\ finished = "no" /\ \A q \in Players : mark[q] = 0
           /\ corpse \in {"deleting", "gone"}
           /\ corpse = "deleting" => finished' = "Deleted"
    <2>1. OneDelete(ops) /\ ItemsGoUnheard(ops)
      BY <1>0 DEF Writer
    <2>2. o.op = "Delete" => Deletes(ops) /\ (\A w : Waits(ops, w) => o.waiting = w)
      BY <1>1, <1>3, <2>1, OpTaken
    <2>3. o.op = "Delete" => Ending /\ ~retire /\ finished = "no" /\ (\A q \in Players : mark[q] = 0)
                             /\ corpse \in {"deleting", "gone"}
      BY <1>0, <2>2 DEF Ending, Writer, Marks, Mark
    <2>4. o.op = "Delete" /\ corpse = "deleting" => o.waiting
      BY <1>0, <2>2 DEF Writer
    <2> QED
      BY <1>2, <2>3, <2>4
  <1>7. \A n \in o.ids : DeadId(n)
    BY <1>3 DEF RowInv, Dead
  <1>8. \A k \in DOMAIN ops : k = 1 \/ (k - 1 \in DOMAIN ops' /\ ops'[k - 1] = ops[k])
    BY <1>0, <1>1, FewerIds
  <1>9. \A k \in DOMAIN ops' : \A n \in ops'[k].ids :
                 n \in 1 .. MaxRow /\ \E j \in DOMAIN ops : n \in ops[j].ids
    BY <1>0, <1>1, FewerIds
  <1>10. finished = "Deleted" => finished' = "Deleted"
    BY <1>2, <1>6
  <1> HIDE DEF o
  <1>11. ASSUME NEW i \in Items, Untraded(i), place[i] # "gone",
                ~(place[i] = "corpse" /\ o.op = "Delete")
         PROVE  ItemOK(i)'
    <2>1. ItemOK(i)
      BY <1>11 DEF RowInv, AllItems
    <2>2. ASSUME NEW r \in rows, r.item = i, r \notin rows' PROVE FALSE
      <3>1. r.filed /\ (o.op = "Delete" \/ r.id \in o.ids)
        BY <1>5, <2>2
      <3>2. r.id \in o.ids => r.id # rowId[i]
        BY <1>7, <1>11 DEF DeadId
      <3>3. CASE place[i] \in Players
        <4>1. r.id = rowId[i] /\ Looted(place[i])
          BY <2>1, <2>2, <3>1, <3>3 DEF ItemOK, InHand
        <4> QED
          BY <1>6, <3>1, <3>2, <3>3, <4>1 DEF Looted
      <3>4. CASE place[i] = "corpse"
        <4>1. InSettled(i)
          BY <1>4, <2>1, <3>4 DEF ItemOK, Early
        <4> QED
          BY <1>11, <2>2, <3>1, <3>2, <3>4, <4>1 DEF InSettled
      <3>5. CASE place[i] = "room"
        BY <2>1, <2>2, <3>5 DEF ItemOK, InRoom
      <3> QED
        BY <1>0, <1>11, <3>3, <3>4, <3>5, RowTypes
    <2>5. \A q \in Players : (Looted(q) => Looted(q)') /\ (Clears(q)' => Clears(q))
      BY <1>1 DEF Looted, Clears
    <2>7. ASSUME NEW q \in Players, InHand(i, q) PROVE InHand(i, q)'
      <3>1. \A r \in rows' : r \in rows
        BY <1>5
      <3>2. \A r \in rows : r.item = i => r \in rows'
        BY <2>2
      <3> QED
        BY <1>1, <2>5, <2>7, <3>1, <3>2
           DEF InHand, HasRow, Out, Writing, Committed, Entries, Looted, Clears
    <2>8. InSettled(i) => InSettled(i)'
      <3>1. \A r \in rows' : r \in rows
        BY <1>5
      <3>2. \A r \in rows : r.item = i => r \in rows'
        BY <2>2
      <3> QED
        BY <1>1, <1>10, <3>1, <3>2 DEF InSettled, HasRow, Entries
    <2>9. InRoom(i) => InRoom(i)'
      BY <1>1, <1>5 DEF InRoom, Entries
    <2> QED
      BY <1>1, <1>4, <1>11, <2>1, <2>7, <2>8, <2>9, CorpsesAssumption DEF ItemOK, Early
  <1>12. ASSUME NEW i \in Items, Untraded(i), place[i] = "corpse", o.op = "Delete" PROVE ItemOK(i)'
    <2>1. InSettled(i) /\ finished' = "Deleted"
      BY <1>4, <1>6, <1>12 DEF RowInv, AllItems, ItemOK, Early, InSettled
    <2>2. InSettled(i)'
      BY <1>1, <1>5, <2>1 DEF InSettled, Entries
    <2> QED
      BY <1>1, <1>4, <1>12, <2>2, CorpsesAssumption DEF ItemOK, Early
  <1>13. ASSUME NEW i \in Items, Untraded(i), place[i] = "gone" PROVE ItemOK(i)'
    <2>1. Outside(i)
      BY <1>13 DEF RowInv, AllItems, ItemOK
    <2>2. /\ \A q : Entries(q)' = Entries(q) /\ Out(q)' = Out(q) /\ Writing(q)' = Writing(q)
                    /\ Committed(q)' = Committed(q)
          /\ DeathDone' = DeathDone
      BY <1>1 DEF Entries, Out, Writing, Committed, DeathDone
    <2>3. ASSUME NEW q \in Players, i \in Entries(q) PROVE LastSave(q, i)'
      <3>1. LastSave(q, i)
        BY <1>4, <2>1, <2>3 DEF Outside, Rotten, Early
      <3>2. Committed(q) => \E r \in rows' : r.item = i
        BY <1>5, <3>1 DEF LastSave, Committed, Writing
      <3>3. \A r \in rows' : r \in rows
        BY <1>5
      <3> QED
        BY <1>1, <2>2, <3>1, <3>2, <3>3 DEF LastSave
    <2>4. ASSUME NEW r \in rows', r.item = i, r.filed
          PROVE  /\ corpse' # "unsettled"
                 /\ corpse' = "settled" =>
                       \/ missed' \/ \E k \in DOMAIN ops' : r.id \in ops'[k].ids
                       \/ \E q \in Players : /\ Writing(q)' /\ snap'[q].quit /\ mark'[q] # 0
                                             /\ i \in snap'[q].held
      <3>1. r \in rows /\ corpse # "unsettled"
        BY <1>4, <1>5, <2>4 DEF Early
      <3>2. o.op # "Delete" /\ r.id \notin o.ids
        BY <1>2, <2>4
      <3>3. corpse = "settled" =>
                       \/ missed \/ \E k \in DOMAIN ops : r.id \in ops[k].ids
                       \/ \E q \in Players : /\ Writing(q) /\ snap[q].quit /\ mark[q] # 0
                                             /\ i \in snap[q].held
        BY <2>1, <2>4, <3>1 DEF Outside
      <3>4. ASSUME NEW k \in DOMAIN ops, r.id \in ops[k].ids
            PROVE  \E l \in DOMAIN ops' : r.id \in ops'[l].ids
        <4>1. k # 1
          BY <1>3, <3>2, <3>4 DEF o
        <4> QED
          BY <1>8, <3>4, <4>1
      <3> QED
        BY <1>1, <2>2, <3>1, <3>3, <3>4
    <2>5. ASSUME NEW r \in rows', r.item = i, ~r.filed
          PROVE  r.char \notin online' /\ (Out(r.char)' => i \in snap'[r.char].held)
      BY <1>1, <1>4, <1>5, <2>1, <2>2, <2>5 DEF Outside, Early
    <2>6. Outside(i)'
      BY <1>1, <2>1, <2>2, <2>3, <2>4, <2>5 DEF Outside
    <2> QED
      BY <1>1, <1>13, <2>6, CorpsesAssumption DEF ItemOK
  <1>14. Ids'
    BY <1>0, <1>1, <1>5, IdsFrame DEF Knows, HasRow
  <1>15. Dead'
    BY <1>0, <1>1, <1>5, <1>9, DeadFrame DEF RowInv
  <1>16. CorpseRows' \subseteq CorpseRows /\ (o.op = "Delete" => CorpseRows' = {})
         /\ \A q : PackRows(q)' = PackRows(q)
    BY <1>2, <1>5 DEF CorpseRows, PackRows
  <1>17. AllSnaps'
    BY <1>1, <1>16, <1>u DEF RowInv, AllSnaps, SnapShape, Entries, Committed
  <1>18. Stock'
    <2>1. \A q, i : InPack(q, i)' = InPack(q, i)
      BY <1>5 DEF InPack
    <2> QED
      BY <1>1, <1>2, <1>4, <1>16, <1>u, <2>1 DEF RowInv, Stock, PackOK, Out, Held, Early
  <1> QED
    BY <1>11, <1>12, <1>13, <1>14, <1>15, <1>17, <1>18, <1>u DEF RowInv, AllItems

\* A hand-over is of an item that no longer counts, and changes nothing else.
LEMMA RowsGive ==
    ASSUME Life, Coins, Life', RowInv, NEW p \in Players, NEW q \in Players, NEW i \in Items,
           Give(p, q, i)
    PROVE  RowInv'
  <1>0. Types /\ Types'
    BY DEF Life
  <1>1. /\ place' = [place EXCEPT ![i] = q] /\ ~Untraded(i)'
        /\ \A j \in Items : j # i => handed'[j] = handed[j] /\ place'[j] = place[j]
        /\ UNCHANGED <<online, rowId, corpse, pendingDeath, retire, mark, removals, snap, ops,
                       finished, rows, nextRow, dbCorpse, packed, missed>>
    BY <1>0 DEF Give, pendVars, writerVars, dbVars, Untraded, Types, WorldTypes, HistTypes
  <1>2. \A j \in Items : Untraded(j)' => Untraded(j) /\ place'[j] = place[j] /\ rowId'[j] = rowId[j]
    BY <1>1 DEF Untraded
  <1>3. AllItems'
    <2>1. \A o \in Players : (Looted(o) => Looted(o)') /\ (Clears(o)' => Clears(o))
      BY <1>1 DEF Looted, Clears
    <2>2. ASSUME NEW j \in Items, Untraded(j)' PROVE ItemOK(j)'
      <3>1. place'[j] = place[j] /\ rowId'[j] = rowId[j] /\ SameRows(j) /\ ItemOK(j)
        BY <1>1, <1>2, <2>2 DEF SameRows, RowInv, AllItems
      <3>2. place[j] = "corpse" => corpse # "gone" /\ corpse # "none"
        BY <3>1 DEF ItemOK, InSettled
      <3> QED
        BY <1>0, <1>1, <2>1, <3>1, <3>2, ItemFrame
    <2> QED
      BY <2>2 DEF AllItems
  <1>4. \A r \in rows : r.item \in Items
    BY <1>0, RowTypes
  <1>5. Ids'
    BY <1>1, <1>2, <1>4 DEF RowInv, Ids, Knows, HasRow
  <1>6. Dead'
    BY <1>1, <1>2, <1>4 DEF RowInv, Dead, DeadId, DeathDone, Committed
  <1>7. AllSnaps'
    <2>1. ASSUME NEW o \in Players PROVE SnapShape(o)'
      <3>1. SnapShape(o) /\ snap[o].held \subseteq Items
        BY <1>0, RowTypes DEF RowInv, AllSnaps
      <3> QED
        BY <1>1, <1>2, <3>1 DEF SnapShape, Entries, Committed, CorpseRows
    <2> QED
      BY <2>1 DEF AllSnaps
  <1>8. Stock'
    <2>1. \A j \in Items : PackOK(j)' = PackOK(j)
      BY <1>1 DEF PackOK, InPack, Out
    <2>2. \A j \in Held(Owner)' : ~Untraded(j)' \/ j \in Held(Owner)
      BY <1>2 DEF Held
    <2> QED
      BY <1>1, <1>2, <2>1, <2>2 DEF RowInv, Stock, CorpseRows, Early, Held
  <1> QED
    BY <1>3, <1>5, <1>6, <1>7, <1>8 DEF RowInv

\* Every step keeps the invariant of the rows.
LEMMA RowsKept ==
    ASSUME LifeInv, LifeInv', RowInv, Quiet PROVE RowInv'
  <1>0. Life /\ Coins /\ Life'
    BY DEF LifeInv, Life
  <1>1. CASE UNCHANGED vars
    BY <1>1, RowsStill DEF vars, worldVars, pendVars, writerVars, dbVars, histVars
  <1>2. CASE Release
    BY <1>2, RowsStill DEF Release, pendVars, writerVars, dbVars, histVars
  <1>3. CASE Die \/ Resurrect \/ Purge \/ DecayBegins \/ TakeDecayed
    BY <1>0, <1>3, RowsDie, RowsResurrect, RowsPurge, RowsDecayBegins, RowsTakeDecayed
  <1>4. CASE OpDone \/ OpFails \/ Crash
    BY <1>0, <1>4, RowsOpDone, RowsOpFails, RowsCrash
  <1>5. ASSUME NEW i \in Items, Rot(i) PROVE RowInv'
    BY <1>0, <1>5, RowsRot
  <1>6. ASSUME NEW p \in Players, Loot(p) \/ Save(p) \/ Quit(p) PROVE RowInv'
    BY <1>0, <1>6, RowsLoot, RowsSave, RowsQuit
  <1>7. ASSUME NEW p \in Players, Commit(p) \/ (SaveFails(p) /\ snap' # snap) PROVE RowInv'
    BY <1>0, <1>7, RowsCommit, RowsSaveFails
  <1>10. ASSUME NEW p \in Players, SaveFails(p), snap' = snap PROVE RowInv'
    BY <1>10, RowsStill DEF SaveFails, worldVars, pendVars, writerVars, dbVars, histVars
  <1>11. ASSUME NEW p \in Players, GiveUp(p) PROVE RowInv'
    BY <1>0, <1>11, RowsGiveUp
  <1>8. ASSUME NEW p \in Players, ApplyCommit(p) \/ Login(p) PROVE RowInv'
    BY <1>0, <1>8, RowsApply, RowsLogin
  <1>9. ASSUME NEW p \in Players, NEW q \in Players, NEW i \in Items, Give(p, q, i) PROVE RowInv'
    BY <1>0, <1>9, RowsGive
  <1> QED
    BY <1>1, <1>2, <1>3, <1>4, <1>5, <1>6, <1>7, <1>8, <1>9, <1>10, <1>11 DEF Next, Quiet

\* The invariant of the rows holds in every state.
LEMMA RowInvAlways == Spec /\ []LeftUnwritten => []RowInv
  <1>1. Init => RowInv
    BY LifeInvInit, RowsInit DEF LifeInv, Life
  <1>2. LifeInv /\ LifeInv' /\ LeftUnwritten /\ LeftUnwritten' /\ RowInv /\ [Next]_vars => RowInv'
    BY QuietSteps, RowsKept DEF LifeInv
  <1> QED
    BY <1>1, <1>2, LifeInvAlways, PTL DEF Spec

-----------------------------------------------------------------------------
(* Items that have changed hands, but not during a save of the giver.       *)

\* Whose row it is may still change it.
Open(r) == r.char \in online \/ Writing(r.char)
\* The row that a departed player's last save left, of an item that is nowhere else.
AtRest(i, r) ==
    /\ r.char \notin online /\ ~Writing(r.char)
    /\ Committed(r.char) => i \in snap[r.char].held
    /\ \A q \in Players : i \in Entries(q) => q = r.char
\* The row of i is what p's committed save made it, and its id is yet to be stamped.
ToStamp(p, i) == Committed(p) /\ i \in Entries(p)

\* An item in p's snapshot is in no other one, and its row is one that the save claims
\* or has written.
EntryOK(i, p) ==
    /\ \A q \in Players : i \in Entries(q) => q = p
    /\ place[i] \in Players => place[i] = p /\ snap[p].ids[i] = rowId[i] /\ i \in snap[p].held
    /\ place[i] = "corpse" => corpse = "unsettled" /\ p = Owner /\ snap[p].ids[i] = rowId[i]
    /\ place[i] # "room"
    /\ Writing(p) => Claimed(p, i)
    /\ Committed(p) => \A r \in rows : r.item = i =>
          /\ r.char = p /\ r.filed = (i \in snap[p].inCorpse)
          /\ r.id = IF snap[p].new[i] = 0 THEN snap[p].ids[i] ELSE snap[p].new[i]
    /\ Committed(p) /\ i \in snap[p].held => \E r \in rows : r.item = i
\* The row of one in p's hands may still be another's, under the id p will name.
HandOK(i, p) ==
    /\ p \in online
    /\ \A r \in rows : r.item = i => r.id = rowId[i] \/ ToStamp(p, i)
UnsettledOK(i) ==
    /\ \A r \in rows : r.item = i =>
          r.id = rowId[i] \/ ToStamp(Owner, i) \/ (r.char = Owner /\ ~r.filed)
    /\ snap[Owner].death => i \in snap[Owner].inCorpse
SettledOK(i) ==
    /\ corpse \in {"settled", "deleting"}
    /\ \A r \in rows : r.item = i => r.filed /\ r.id = rowId[i]
\* The row of an item, whoever gave it to whom between saves.
CalmOK(i) ==
    /\ \A r, s \in rows : r.item = i /\ s.item = i => r = s
    /\ \A p \in Players : i \in Entries(p) => EntryOK(i, p)
    /\ \A r \in rows : r.item = i /\ ~r.filed => Open(r) \/ (place[i] = "gone" /\ AtRest(i, r))
    /\ place[i] \in Players => HandOK(i, place[i])
    /\ place[i] = "corpse" /\ corpse = "unsettled" => UnsettledOK(i)
    /\ place[i] = "corpse" /\ corpse # "unsettled" => SettledOK(i)
    /\ place[i] = "room" => corpse = "gone" /\ \A r \in rows : r.item # i
    /\ PackOK(i)
AllCalm == \A i \in Items : handed[i] # "busy" => CalmOK(i)

\* An item that a step leaves alone.
LEMMA CalmFrame ==
    ASSUME NEW i \in Items, CalmOK(i), SameRows(i), UNCHANGED <<online, snap, packed>>,
           place'[i] = place[i], rowId'[i] = rowId[i],
           place[i] = "corpse" => /\ (corpse' = "unsettled") <=> (corpse = "unsettled")
                                  /\ corpse' # "unsettled" => corpse' \in {"settled", "deleting"},
           place[i] = "room" => corpse' = "gone"
    PROVE  CalmOK(i)'
  <1>1. /\ \A p : Entries(p)' = Entries(p) /\ Out(p)' = Out(p) /\ Writing(p)' = Writing(p)
               /\ Committed(p)' = Committed(p) /\ ToStamp(p, i)' = ToStamp(p, i)
        /\ \A r : Open(r)' = Open(r) /\ AtRest(i, r)' = AtRest(i, r)
    BY DEF Entries, Out, Writing, Committed, ToStamp, Open, AtRest
  <1>2. (\A r \in rows' : r.item = i => r \in rows) /\ (\A r \in rows : r.item = i => r \in rows')
    BY DEF SameRows
  <1>3. \A p \in Players : Claimed(p, i) => Claimed(p, i)'
    BY <1>2 DEF Claimed
  <1>4. ASSUME NEW p \in Players, EntryOK(i, p) PROVE EntryOK(i, p)'
    BY <1>1, <1>2, <1>3, <1>4 DEF EntryOK
  <1>5. ASSUME NEW p \in Players, HandOK(i, p) PROVE HandOK(i, p)'
    BY <1>1, <1>2, <1>5 DEF HandOK
  <1>6. UnsettledOK(i) => UnsettledOK(i)'
    BY <1>1, <1>2 DEF UnsettledOK
  <1>7. place[i] = "corpse" /\ corpse' # "unsettled" /\ SettledOK(i) => SettledOK(i)'
    BY <1>1, <1>2 DEF SettledOK
  <1>8. PackOK(i)'
    <2>1. \A p : InPack(p, i)' = InPack(p, i)
      BY <1>2 DEF InPack
    <2> QED
      BY <1>1, <2>1 DEF CalmOK, PackOK
  <1> QED
    BY <1>1, <1>2, <1>4, <1>5, <1>6, <1>7, <1>8 DEF CalmOK

\* At first every item is Owner's, under the id of its row.
LEMMA CalmInit == Init /\ Life => AllCalm
  <1> SUFFICES ASSUME Init, Life, NEW i \in Items PROVE CalmOK(i)
    BY DEF AllCalm
  <1>1. /\ online = Players /\ place[i] = Owner /\ \A p \in Players : snap[p] = NoSnap
    BY DEF Init
  <1>2. \A p \in Players : Entries(p) = {}
    BY <1>1, SnapsFit DEF Entries
  <1>3. PICK stored \in SUBSET Items :
          \E f \in [Items -> 0 .. Cardinality(Items)] :
                /\ \A k \in Items : (f[k] = 0) = (k \notin stored)
                /\ \A k, j \in stored : f[k] = f[j] => k = j
                /\ \A k \in stored : f[k] <= Cardinality(stored)
                /\ rowId = f
                /\ rows = {[id |-> f[k], item |-> k, char |-> Owner, filed |-> FALSE] :
                              k \in stored}
    BY DEF Init
  <1>4. \A r \in rows : /\ r.id = rowId[r.item] /\ r.char = Owner
                        /\ r = [id |-> rowId[r.item], item |-> r.item, char |-> Owner, filed |-> FALSE]
    BY <1>3
  <1>5. HandOK(i, Owner) /\ \A r \in rows : Open(r)
    BY <1>1, <1>4, CorpsesAssumption DEF HandOK, Open
  <1>6. PackOK(i)
    BY <1>1 DEF PackOK
  <1> QED
    BY <1>1, <1>2, <1>4, <1>5, <1>6, CorpsesAssumption DEF CalmOK

\* The corpse takes the item and what is known of it.
LEMMA CalmDie ==
    ASSUME Life, Die, NEW i \in Items, CalmOK(i) PROVE CalmOK(i)'
  <1>0. Types /\ Death /\ Owner \in Players
    BY CorpsesAssumption DEF Life
  <1>1. /\ corpse = "none" /\ corpse' = "unsettled" /\ Owner \in online
        /\ place' = [j \in Items |-> IF place[j] = Owner THEN "corpse" ELSE place[j]]
        /\ UNCHANGED <<online, rowId, snap, rows, packed>>
    BY DEF Die, dbVars, histVars
  <1>2. ~snap[Owner].death /\ SameRows(i)
    BY <1>0, <1>1 DEF Death, SameRows
  <1>3. CASE place[i] # Owner
    <2>1. place'[i] = place[i]
      BY <1>1, <1>3
    <2>2. place[i] # "corpse" /\ place[i] # "room"
      BY <1>1 DEF CalmOK, SettledOK
    <2> QED
      BY <1>1, <1>2, <2>1, <2>2, CalmFrame
  <1>4. CASE place[i] = Owner
    <2>1. place'[i] = "corpse" /\ HandOK(i, Owner)
      BY <1>0, <1>1, <1>4 DEF CalmOK
    <2>2. /\ \A p : Entries(p)' = Entries(p) /\ Out(p)' = Out(p) /\ Writing(p)' = Writing(p)
                 /\ Committed(p)' = Committed(p) /\ ToStamp(p, i)' = ToStamp(p, i)
                 /\ InPack(p, i)' = InPack(p, i) /\ Claimed(p, i)' = Claimed(p, i)
          /\ \A r : Open(r)' = Open(r)
      BY <1>1 DEF Entries, Out, Writing, Committed, ToStamp, InPack, Claimed, Open
    <2>3. UnsettledOK(i)'
      BY <1>1, <1>2, <2>1, <2>2 DEF HandOK, UnsettledOK
    <2>4. ASSUME NEW p \in Players, i \in Entries(p) PROVE EntryOK(i, p)'
      <3>1. EntryOK(i, p) /\ p = Owner /\ snap[p].ids[i] = rowId[i]
        BY <1>0, <1>4, <2>4 DEF CalmOK, EntryOK
      <3> QED
        BY <1>0, <1>1, <2>1, <2>2, <3>1, CorpsesAssumption DEF EntryOK
    <2>5. \A r \in rows : r.item = i /\ ~r.filed => Open(r)
      BY <1>0, <1>4, CorpsesAssumption DEF CalmOK
    <2>6. PackOK(i)'
      BY <1>1, <2>2 DEF CalmOK, PackOK
    <2> QED
      BY <1>1, <2>1, <2>2, <2>3, <2>4, <2>5, <2>6, CorpsesAssumption DEF CalmOK
  <1> QED
    BY <1>3, <1>4

\* An item in a corpse that has settled is in no snapshot, and its row is the corpse's.
LEMMA CalmSettled ==
    ASSUME NEW i \in Items, CalmOK(i), place[i] = "corpse", corpse # "unsettled"
    PROVE  /\ \A q \in Players : i \notin Entries(q)
           /\ \A r \in rows : r.item = i => r.filed /\ r.id = rowId[i]
           /\ corpse \in {"settled", "deleting"}
  <1>1. \A q \in Players : i \in Entries(q) => EntryOK(i, q)
    BY DEF CalmOK
  <1>2. \A q \in Players : i \notin Entries(q)
    BY <1>1 DEF EntryOK
  <1> QED
    BY <1>2 DEF CalmOK, SettledOK

\* It leaves that corpse for someone's hands, for the room when its row is deleted, or
\* for good.
LEMMA CalmLeaves ==
    ASSUME NEW i \in Items, CalmOK(i), place[i] = "corpse", corpse # "unsettled", SameRows(i),
           UNCHANGED <<online, snap, packed>>,
           \/ place'[i] \in online /\ online \subseteq Players /\ rowId'[i] = rowId[i]
           \/ place'[i] = "room" /\ corpse' = "gone" /\ CorpseRows = {}
           \/ place'[i] = "gone"
    PROVE  CalmOK(i)'
  <1>1. /\ \A q \in Players : i \notin Entries(q)
        /\ \A r \in rows : r.item = i => r.filed /\ r.id = rowId[i]
    BY CalmSettled
  <1>2. (\A r \in rows' : r.item = i => r \in rows) /\ (\A r \in rows : r.item = i => r \in rows')
    BY DEF SameRows
  <1>3. \A q \in Players : i \notin Entries(q)'
    BY <1>1 DEF Entries
  <1>4. PackOK(i)'
    <2>1. \A p : InPack(p, i)' = InPack(p, i) /\ Out(p)' = Out(p)
      BY <1>2 DEF InPack, Out
    <2> QED
      BY <2>1 DEF CalmOK, PackOK
  <1>5. \A r, x \in rows' : r.item = i /\ x.item = i => r = x
    BY <1>2 DEF CalmOK
  <1>6. place'[i] \in online /\ rowId'[i] = rowId[i] => HandOK(i, place[i])'
    BY <1>1, <1>2 DEF HandOK
  <1>7. CorpseRows = {} => \A r \in rows' : r.item # i
    BY <1>1, <1>2 DEF CorpseRows
  <1> QED
    BY <1>1, <1>2, <1>3, <1>4, <1>5, <1>6, <1>7, CorpsesAssumption DEF CalmOK

\* Steps that touch neither the items nor their rows.
LEMMA CalmStill ==
    ASSUME NEW i \in Items, CalmOK(i),
           \/ Release \/ DecayBegins \/ OpFails \/ UNCHANGED vars
           \/ \E p \in Players : SaveFails(p) /\ snap' = snap
    PROVE  CalmOK(i)'
  <1>1. UNCHANGED <<online, snap, packed, place, rowId, rows>>
    BY DEF Release, DecayBegins, OpFails, SaveFails, vars, worldVars, pendVars, dbVars, histVars
  <1>2. corpse' = corpse \/ (corpse = "settled" /\ corpse' = "deleting")
    BY DEF Release, DecayBegins, OpFails, SaveFails, vars, worldVars, dbVars, histVars
  <1>3. place[i] = "room" => corpse = "gone"
    BY DEF CalmOK
  <1>4. place[i] = "corpse" /\ corpse # "unsettled" => corpse \in {"settled", "deleting"}
    BY DEF CalmOK, SettledOK
  <1> QED
    BY <1>1, <1>2, <1>3, <1>4, CalmFrame DEF SameRows

\* Loot goes to a player who is there, and so does what the dead get back.
LEMMA CalmTaken ==
    ASSUME Life, NEW i \in Items, CalmOK(i), NEW p \in Players, Loot(p) \/ (p = Owner /\ Resurrect)
    PROVE  CalmOK(i)'
  <1>1. /\ UNCHANGED <<online, snap, packed, rowId, rows>> /\ SameRows(i)
        /\ p \in online /\ online \subseteq Players
    BY DEF Loot, Resurrect, dbVars, histVars, SameRows, Life, Types, WorldTypes
  <1>2. /\ place'[i] = place[i] \/ (place[i] = "corpse" /\ place'[i] = p /\ corpse = "settled")
        /\ corpse' = corpse \/ (corpse = "settled" /\ corpse' = "gone" /\ place'[i] # "corpse")
    BY CorpsesAssumption DEF Loot, Resurrect, Contents
  <1>3. place[i] = "room" => corpse = "gone"
    BY DEF CalmOK
  <1>4. place[i] = "corpse" /\ corpse # "unsettled" => corpse \in {"settled", "deleting"}
    BY DEF CalmOK, SettledOK
  <1>5. CASE place'[i] = place[i]
    BY <1>1, <1>2, <1>3, <1>4, <1>5, CalmFrame
  <1>6. CASE place'[i] # place[i]
    BY <1>1, <1>2, <1>6, CalmLeaves
  <1> QED
    BY <1>5, <1>6

\* Nothing is on its way of what goes with a purged corpse.
LEMMA CalmPurge ==
    ASSUME Life, NEW i \in Items, CalmOK(i), Purge PROVE CalmOK(i)'
  <1>1. /\ UNCHANGED <<online, snap, packed, rows>> /\ SameRows(i)
        /\ corpse = "settled" /\ corpse' = "gone"
    BY DEF Purge, dbVars, SameRows
  <1>2. /\ place[i] = "corpse" => place'[i] = "gone"
        /\ place[i] # "corpse" => place'[i] = place[i] /\ rowId'[i] = rowId[i]
    BY DEF Purge, Despawned, Contents
  <1>3. CASE place[i] = "corpse"
    BY <1>1, <1>2, <1>3, CalmLeaves
  <1>4. CASE place[i] # "corpse"
    BY <1>1, <1>2, <1>4, CalmFrame
  <1> QED
    BY <1>3, <1>4

\* What falls to the room has no row: the writer has deleted the corpse's.
LEMMA CalmTakeDecayed ==
    ASSUME Life, Coins, RowInv, NEW i \in Items, CalmOK(i), TakeDecayed PROVE CalmOK(i)'
  <1>1. /\ UNCHANGED <<online, snap, packed, rowId, rows>> /\ SameRows(i)
        /\ corpse = "deleting"
    BY DEF TakeDecayed, dbVars, SameRows, Life, Writer
  <1>2. place[i] # "room"
    BY <1>1 DEF CalmOK
  <1>3. CASE finished = "Deleted"
    <2>1. CorpseRows = {}
      BY <1>3 DEF Coins, Pile, RowInv, Stock
    <2>2. corpse' = "gone" /\ place'[i] = IF place[i] = "corpse" THEN "room" ELSE place[i]
      BY <1>3 DEF TakeDecayed
    <2>3. CASE place[i] = "corpse"
      BY <1>1, <2>1, <2>2, <2>3, CalmLeaves
    <2>4. CASE place[i] # "corpse"
      BY <1>1, <1>2, <2>2, <2>4, CalmFrame
    <2> QED
      BY <2>3, <2>4
  <1>4. CASE finished # "Deleted"
    <2>1. corpse' = "settled" /\ place' = place
      BY <1>4 DEF TakeDecayed
    <2> QED
      BY <1>1, <1>2, <2>1, CalmFrame
  <1> QED
    BY <1>3, <1>4

\* What falls apart in the corpse leaves its row to whoever has it open.
LEMMA CalmRot ==
    ASSUME NEW i \in Items, CalmOK(i), NEW j \in Items, Rot(j) PROVE CalmOK(i)'
  <1>1. /\ UNCHANGED <<online, corpse, snap, packed, rows>> /\ SameRows(i)
        /\ place[j] = "corpse"
    BY DEF Rot, dbVars, histVars, SameRows
  <1>2. /\ place'[i] = IF i = j THEN "gone" ELSE place[i]
        /\ rowId'[i] = IF i = j THEN 0 ELSE rowId[i]
    BY DEF Rot, Despawned
  <1>3. CASE i # j
    <2>1. place[i] = "room" => corpse = "gone"
      BY DEF CalmOK
    <2>2. place[i] = "corpse" /\ corpse # "unsettled" => corpse \in {"settled", "deleting"}
      BY DEF CalmOK, SettledOK
    <2> QED
      BY <1>1, <1>2, <1>3, <2>1, <2>2, CalmFrame
  <1>4. CASE i = j /\ corpse # "unsettled"
    BY <1>1, <1>2, <1>4, CalmLeaves
  <1>5. CASE i = j /\ corpse = "unsettled"
    <2>1. /\ \A p : Entries(p)' = Entries(p) /\ Out(p)' = Out(p) /\ Writing(p)' = Writing(p)
                    /\ Committed(p)' = Committed(p) /\ InPack(p, i)' = InPack(p, i)
                    /\ Claimed(p, i)' = Claimed(p, i)
          /\ \A r : Open(r)' = Open(r)
      BY <1>1 DEF Entries, Out, Writing, Committed, InPack, Claimed, Open
    <2>2. ASSUME NEW p \in Players, i \in Entries(p) PROVE EntryOK(i, p)'
      <3>1. EntryOK(i, p)
        BY <2>2 DEF CalmOK
      <3> QED
        BY <1>1, <1>2, <1>5, <2>1, <3>1, CorpsesAssumption DEF EntryOK
    <2>3. \A r \in rows : r.item = i /\ ~r.filed => Open(r)
      BY <1>1, <1>5 DEF CalmOK
    <2>4. PackOK(i)'
      BY <1>1, <2>1 DEF CalmOK, PackOK
    <2> QED
      BY <1>1, <1>2, <1>5, <2>1, <2>2, <2>3, <2>4, CorpsesAssumption DEF CalmOK
  <1> QED
    BY <1>3, <1>4, <1>5

\* The corpse's writer deletes rows that are filed under the corpse.
LEMMA CalmOpDone ==
    ASSUME Life, RowInv, NEW i \in Items, CalmOK(i), OpDone PROVE CalmOK(i)'
  <1>1. /\ UNCHANGED <<online, place, rowId, corpse, snap, packed>>
        /\ \A r \in rows' : r \in rows
        /\ \A r \in rows : ~r.filed => r \in rows'
    BY DEF OpDone, worldVars, histVars
  <1>2. /\ \A p : Entries(p)' = Entries(p) /\ Out(p)' = Out(p) /\ Writing(p)' = Writing(p)
                  /\ Committed(p)' = Committed(p) /\ ToStamp(p, i)' = ToStamp(p, i)
                  /\ InPack(p, i)' = InPack(p, i)
                  /\ (Claimed(p, i) => Claimed(p, i)')
        /\ \A r : Open(r)' = Open(r) /\ AtRest(i, r)' = AtRest(i, r)
    <2>1. \A p : Entries(p)' = Entries(p) /\ Out(p)' = Out(p) /\ Writing(p)' = Writing(p)
                  /\ Committed(p)' = Committed(p)
      BY <1>1 DEF Entries, Out, Writing, Committed
    <2>2. \A p : InPack(p, i)' = InPack(p, i)
      BY <1>1 DEF InPack
    <2>3. \A p : Claimed(p, i) => Claimed(p, i)'
      BY <1>1 DEF Claimed
    <2> QED
      BY <1>1, <2>1, <2>2, <2>3 DEF ToStamp, Open, AtRest
  <1>3. ASSUME NEW p \in Players, i \in Entries(p) PROVE EntryOK(i, p)'
    <2>1. EntryOK(i, p)
      BY <1>3 DEF CalmOK
    <2>2. i \in snap[p].held => i \notin snap[p].inCorpse
      BY DEF RowInv, AllSnaps, SnapShape
    <2>3. Committed(p) /\ i \in snap[p].held => \E r \in rows : r.item = i /\ ~r.filed
      BY <2>1, <2>2 DEF EntryOK
    <2> QED
      BY <1>1, <1>2, <2>1, <2>3 DEF EntryOK
  <1>4. place[i] \in Players => HandOK(i, place[i])'
    BY <1>1, <1>2 DEF CalmOK, HandOK
  <1>5. UnsettledOK(i) => UnsettledOK(i)'
    BY <1>1, <1>2 DEF UnsettledOK
  <1>6. SettledOK(i) => SettledOK(i)'
    BY <1>1 DEF SettledOK
  <1>7. PackOK(i)'
    BY <1>1, <1>2 DEF CalmOK, PackOK
  <1> QED
    BY <1>1, <1>2, <1>3, <1>4, <1>5, <1>6, <1>7 DEF CalmOK

\* After a crash the corpse has what its rows say, and the rest is in the rows only.
LEMMA CalmCrash ==
    ASSUME Life, RowInv, NEW i \in Items, CalmOK(i), Crash PROVE CalmOK(i)'
  <1> DEFINE In == {r \in CorpseRows : r.item = i}
  <1>1. /\ online' = {} /\ rows' = rows
        /\ place'[i] = IF In # {} THEN "corpse" ELSE "gone"
        /\ rowId'[i] = IF In # {} THEN (CHOOSE r \in In : TRUE).id ELSE 0
        /\ corpse' = IF dbCorpse < 0 THEN "none" ELSE "settled"
        /\ \A p \in Players : snap'[p] = NoSnap /\ packed'[p] = {r.item : r \in PackRows(p)}
    BY DEF Crash, dbVars
  <1>2. \A p \in Players : Entries(p)' = {} /\ ~Writing(p)' /\ ~Committed(p)'
    BY <1>1, SnapsFit DEF Entries, Writing, Committed
  <1>3. \A r, s \in rows : r.item = i /\ s.item = i => r = s
    BY DEF CalmOK
  <1>4. \A r \in rows : r.item = i /\ ~r.filed => In = {} /\ AtRest(i, r)'
    <2> SUFFICES ASSUME NEW r \in rows, r.item = i, ~r.filed PROVE In = {} /\ AtRest(i, r)'
      OBVIOUS
    <2>1. r.char \in Players
      BY RowTypes DEF Life
    <2>2. In = {}
      BY <1>3 DEF CorpseRows
    <2> QED
      BY <1>1, <1>2, <2>1, <2>2 DEF AtRest
  <1>5. In # {} => SettledOK(i)'
    <2> SUFFICES ASSUME In # {} PROVE SettledOK(i)'
      OBVIOUS
    <2>1. PICK r \in In : r = CHOOSE x \in In : TRUE
      OBVIOUS
    <2>2. r \in rows /\ r.filed /\ r.item = i /\ rowId'[i] = r.id
      BY <1>1, <2>1 DEF CorpseRows
    <2>3. ~(dbCorpse < 0)
      BY <2>2, RowTypes DEF RowInv, Stock, CorpseRows, Life
    <2> QED
      BY <1>1, <1>3, <2>2, <2>3 DEF SettledOK
  <1>6. PackOK(i)'
    BY <1>1 DEF PackOK, InPack, PackRows
  <1>7. corpse' # "unsettled" /\ place'[i] \in {"corpse", "gone"} /\ (place'[i] = "corpse" => In # {})
    BY <1>1
  <1>8. \A p \in Players : i \notin Entries(p)'
    BY <1>2
  <1>9. \A r \in rows : r.item = i /\ ~r.filed => place'[i] = "gone" /\ AtRest(i, r)'
    BY <1>1, <1>4
  <1> HIDE DEF In
  <1> QED
    BY <1>1, <1>3, <1>5, <1>6, <1>7, <1>8, <1>9, CorpsesAssumption DEF CalmOK

\* A save puts an item in a snapshot with the id it has, and no save of another does.
LEMMA CalmSnapped ==
    ASSUME Life, RowInv, NEW p \in Players, NEW quit \in BOOLEAN, p \in online, ~Committed(p),
           snap' = [snap EXCEPT ![p] = SnapshotOf(p, quit)],
           online' = IF quit THEN online \ {p} ELSE online,
           packed' = IF quit THEN [packed EXCEPT ![p] = Held(p)] ELSE packed,
           \A i \in Items : place'[i] = IF quit /\ place[i] = p THEN "gone" ELSE place[i],
           \A i \in Items : rowId'[i] = IF quit /\ place[i] = p THEN 0 ELSE rowId[i],
           UNCHANGED <<corpse, rows>>, NEW i \in Items, CalmOK(i)
    PROVE  CalmOK(i)'
  <1> DEFINE death == p = Owner /\ pendingDeath
  <1>0. /\ Types /\ Death /\ Owner \in Players /\ snap \in [Players -> Snaps]
    BY RowTypes, CorpsesAssumption DEF Life
  <1>1. \A q \in Players \ {p} : snap'[q] = snap[q]
    BY <1>0 DEF Death
  <1>2. snap'[p] = SnapshotOf(p, quit)
    BY <1>0
  <1>3. /\ snap'[p].at = "writing" /\ snap'[p].held = Held(p)
        /\ snap'[p].inCorpse = (IF death THEN Contents ELSE {})
        /\ place[i] = p \/ (death /\ place[i] = "corpse") => snap'[p].ids[i] = rowId[i]
    BY <1>0, <1>2, SnapshotFits DEF Types
  <1>5. /\ ~Committed(p) /\ Out(p)' /\ Writing(p)' /\ ~Committed(p)'
        /\ \A q \in Players \ {p} :
              /\ Out(q)' = Out(q) /\ Writing(q)' = Writing(q)
              /\ Committed(q)' = Committed(q) /\ Entries(q)' = Entries(q)
    BY <1>1, <1>3 DEF Out, Writing, Committed, Entries
  <1>6. death => corpse = "unsettled"
    BY <1>0 DEF Death
  <1>7. i \in Entries(p)' <=> place[i] = p \/ (death /\ place[i] = "corpse")
    BY <1>3 DEF Entries, Held, Contents
  <1>8. p = Owner /\ corpse = "unsettled" => death
    BY <1>0, OwnerOnline
  <1>9. /\ place'[i] = IF quit /\ place[i] = p THEN "gone" ELSE place[i]
        /\ rowId'[i] = IF quit /\ place[i] = p THEN 0 ELSE rowId[i]
        /\ \A q \in Players \ {p} : q \in online' <=> q \in online
    OBVIOUS
  <1> HIDE DEF death
  <1>10. ASSUME NEW q \in Players, i \in Entries(q), q # p PROVE i \notin Entries(p)'
    <2>1. EntryOK(i, q)
      BY <1>10 DEF CalmOK
    <2> QED
      BY <1>7, <1>10, <2>1 DEF EntryOK, death
  <1>11. ASSUME NEW q \in Players, i \in Entries(q), q # p PROVE EntryOK(i, q)'
    <2>1. EntryOK(i, q) /\ i \notin Entries(p)'
      BY <1>10, <1>11 DEF CalmOK
    <2>2. Claimed(q, i) => Claimed(q, i)'
      BY <1>1, <1>11 DEF Claimed
    <2>3. place[i] # p
      BY <1>11, <2>1 DEF EntryOK
    <2> QED
      BY <1>1, <1>5, <1>9, <1>11, <2>1, <2>2, <2>3 DEF EntryOK
  <1>12. ASSUME i \in Entries(p)' PROVE EntryOK(i, p)'
    <2>1. \A q \in Players : i \in Entries(q)' => q = p
      BY <1>5, <1>10, <1>12
    <2>2. snap'[p].ids[i] = rowId[i]
      BY <1>3, <1>7, <1>12
    <2>3. CASE place[i] = p
      <3>1. \A r \in rows : r.item = i => r.id = rowId[i]
        BY <1>5, <2>3 DEF CalmOK, HandOK, ToStamp
      <3>2. Claimed(p, i)' /\ i \in snap'[p].held
        BY <1>3, <2>2, <2>3, <3>1 DEF Claimed, Held
      <3> QED
        BY <1>5, <1>9, <2>1, <2>2, <2>3, <3>2, CorpsesAssumption DEF EntryOK
    <2>4. CASE death /\ place[i] = "corpse"
      <3>1. UnsettledOK(i) /\ p = Owner
        BY <1>6, <2>4 DEF CalmOK, death
      <3>2. Claimed(p, i)'
        BY <1>5, <2>2, <3>1 DEF Claimed, UnsettledOK, ToStamp
      <3> QED
        BY <1>5, <1>6, <1>9, <2>1, <2>2, <2>4, <3>1, <3>2, CorpsesAssumption DEF EntryOK
    <2> QED
      BY <1>7, <1>12, <2>3, <2>4
  <1>13. ASSUME NEW r \in rows, r.item = i, ~r.filed
         PROVE  Open(r)' \/ (place'[i] = "gone" /\ AtRest(i, r)')
    <2>1. r.char \in Players
      BY <1>0, RowTypes
    <2>2. CASE r.char = p
      BY <1>5, <2>2 DEF Open
    <2>3. CASE r.char # p /\ Open(r)
      BY <1>5, <1>9, <2>1, <2>3 DEF Open
    <2>4. CASE r.char # p /\ ~Open(r)
      <3>1. place[i] = "gone" /\ AtRest(i, r) /\ place'[i] = "gone"
        BY <1>9, <1>13, <2>4 DEF CalmOK
      <3>2. i \notin Entries(p)'
        BY <1>7, <3>1, CorpsesAssumption
      <3> QED
        BY <1>1, <1>5, <1>9, <2>1, <2>4, <3>1, <3>2 DEF AtRest
    <2> QED
      BY <2>2, <2>3, <2>4
  <1>14. ASSUME place'[i] \in Players PROVE HandOK(i, place[i])'
    <2>1. place'[i] = place[i] /\ rowId'[i] = rowId[i] /\ HandOK(i, place[i])
      BY <1>9, <1>14, CorpsesAssumption DEF CalmOK
    <2>2. place[i] \in online' /\ (ToStamp(place[i], i) => ToStamp(place[i], i)')
      BY <1>5, <1>9, <1>14, <2>1, CorpsesAssumption DEF HandOK, ToStamp
    <2> QED
      BY <2>1, <2>2 DEF HandOK
  <1>15. ASSUME place[i] = "corpse", corpse = "unsettled" PROVE UnsettledOK(i)'
    <2>1. UnsettledOK(i) /\ place'[i] = "corpse" /\ rowId'[i] = rowId[i]
      BY <1>9, <1>15, CorpsesAssumption DEF CalmOK
    <2>2. ToStamp(Owner, i) => ToStamp(Owner, i)'
      BY <1>0, <1>5 DEF ToStamp
    <2>3. snap'[Owner].death => i \in snap'[Owner].inCorpse
      BY <1>0, <1>1, <1>3, <1>8, <1>15, <2>1 DEF UnsettledOK, Contents
    <2> QED
      BY <2>1, <2>2, <2>3 DEF UnsettledOK
  <1>16. place[i] = "corpse" /\ corpse # "unsettled" => SettledOK(i)'
    BY <1>9, CorpsesAssumption DEF CalmOK, SettledOK
  <1>17. PackOK(i)'
    <2> SUFFICES ASSUME NEW q \in Players, q \notin online', ~Out(q)'
                 PROVE  i \in packed'[q] <=> InPack(q, i)'
      BY DEF PackOK
    <2>1. q # p /\ q \notin online /\ ~Out(q)
      BY <1>5, <1>9
    <2>2. packed'[q] = packed[q] /\ InPack(q, i)' = InPack(q, i)
      BY <1>0, <2>1 DEF Types, HistTypes, InPack
    <2> QED
      BY <2>1, <2>2 DEF CalmOK, PackOK
  <1>18. \A q \in Players : i \in Entries(q)' => EntryOK(i, q)'
    BY <1>5, <1>11, <1>12
  <1>19. place'[i] = "corpse" => place[i] = "corpse"
    BY <1>9
  <1>20. place'[i] = "room" => place[i] = "room"
    BY <1>9
  <1> QED
    BY <1>9, <1>13, <1>14, <1>15, <1>16, <1>17, <1>18, <1>19, <1>20 DEF CalmOK

LEMMA CalmSave ==
    ASSUME Life, RowInv, NEW p \in Players, Save(p) \/ Quit(p), NEW i \in Items, CalmOK(i)
    PROVE  CalmOK(i)'
  <1>1. CASE Save(p)
    <2>1. p \in online /\ ~Committed(p) /\ snap' = [snap EXCEPT ![p] = SnapshotOf(p, FALSE)]
      BY <1>1 DEF Save, Unsettled, Committed
    <2>2. UNCHANGED <<online, place, rowId, packed, corpse, rows>>
      BY <1>1 DEF Save, worldVars, dbVars, histVars
    <2> QED
      BY <2>1, <2>2, CalmSnapped
  <1>2. CASE Quit(p)
    <2>1. p \in online /\ ~Committed(p) /\ snap' = [snap EXCEPT ![p] = SnapshotOf(p, TRUE)]
      BY <1>2 DEF Quit, Committed
    <2>2. /\ online' = online \ {p} /\ packed' = [packed EXCEPT ![p] = Held(p)]
          /\ \A j \in Items : place'[j] = IF place[j] = p THEN "gone" ELSE place[j]
          /\ \A j \in Items : rowId'[j] = IF place[j] = p THEN 0 ELSE rowId[j]
          /\ UNCHANGED <<corpse, rows>>
      BY <1>2 DEF Quit, Despawned, Held, dbVars
    <2> QED
      BY <2>1, <2>2, CalmSnapped
  <1> QED
    BY <1>1, <1>2

\* A failed save is as if it had not been: the player is still there.
LEMMA CalmSaveFails ==
    ASSUME Life, NEW p \in Players, SaveFails(p), snap' # snap, NEW i \in Items, CalmOK(i)
    PROVE CalmOK(i)'
  <1>0. /\ Types /\ Death /\ Owner \in Players /\ snap \in [Players -> Snaps]
    BY RowTypes, CorpsesAssumption DEF Life
  <1>1. /\ Writing(p) /\ ~snap[p].quit /\ snap'[p] = NoSnap
        /\ \A q \in Players \ {p} : snap'[q] = snap[q]
        /\ UNCHANGED <<online, place, rowId, corpse, packed, rows>>
    BY <1>0 DEF SaveFails, Writing, worldVars, dbVars, histVars
  <1>2. p \in online /\ ~Committed(p)
    BY <1>0, <1>1 DEF Death, Out, Writing, Committed
  <1>3. /\ Entries(p)' = {} /\ ~Committed(p)'
        /\ \A q \in Players \ {p} :
              /\ Out(q)' = Out(q) /\ Writing(q)' = Writing(q)
              /\ Committed(q)' = Committed(q) /\ Entries(q)' = Entries(q)
    BY <1>1, SnapsFit DEF Out, Writing, Committed, Entries
  <1>4. ASSUME NEW q \in Players, i \in Entries(q)' PROVE EntryOK(i, q)'
    <2>1. q # p /\ EntryOK(i, q)
      BY <1>3, <1>4 DEF CalmOK
    <2>2. Claimed(q, i) => Claimed(q, i)'
      BY <1>1, <2>1 DEF Claimed
    <2> QED
      BY <1>1, <1>3, <2>1, <2>2 DEF EntryOK
  <1>5. ASSUME NEW r \in rows, r.item = i, ~r.filed
        PROVE  Open(r)' \/ (place[i] = "gone" /\ AtRest(i, r)')
    <2>1. r.char \in Players
      BY <1>0, RowTypes
    <2>2. CASE r.char = p
      BY <1>1, <1>2, <2>2 DEF Open
    <2>3. CASE r.char # p /\ Open(r)
      BY <1>1, <1>3, <2>1, <2>3 DEF Open
    <2>4. CASE r.char # p /\ ~Open(r)
      <3>1. place[i] = "gone" /\ AtRest(i, r)
        BY <1>5, <2>4 DEF CalmOK
      <3> QED
        BY <1>1, <1>3, <2>1, <2>4, <3>1 DEF AtRest
    <2> QED
      BY <2>2, <2>3, <2>4
  <1>6. \A q \in Players : ToStamp(q, i) => ToStamp(q, i)'
    BY <1>2, <1>3 DEF ToStamp
  <1>7. place[i] \in Players => HandOK(i, place[i])'
    BY <1>1, <1>6 DEF CalmOK, HandOK
  <1>8. UnsettledOK(i) => UnsettledOK(i)'
    <2>1. snap'[Owner].death => snap[Owner].death /\ snap'[Owner].inCorpse = snap[Owner].inCorpse
      BY <1>0, <1>1, SnapsFit
    <2> QED
      BY <1>0, <1>1, <1>6, <2>1 DEF UnsettledOK
  <1>9. SettledOK(i) => SettledOK(i)'
    BY <1>1 DEF SettledOK
  <1>10. PackOK(i)'
    <2> SUFFICES ASSUME NEW q \in Players, q \notin online, ~Out(q)'
                 PROVE  i \in packed[q] <=> InPack(q, i)'
      BY <1>1 DEF PackOK
    <2>1. ~Out(q) /\ InPack(q, i)' = InPack(q, i)
      BY <1>1, <1>2, <1>3 DEF InPack
    <2> QED
      BY <2>1 DEF CalmOK, PackOK
  <1> QED
    BY <1>1, <1>4, <1>5, <1>7, <1>8, <1>9, <1>10 DEF CalmOK

\* A last save given up: what was in it is in the rows only.
LEMMA CalmGiveUp ==
    ASSUME Life, RowInv, RowInv', NEW p \in Players, GiveUp(p), NEW i \in Items, CalmOK(i),
           handed'[i] # "busy"
    PROVE  CalmOK(i)'
  <1>0. /\ Types /\ Death /\ Ids /\ Owner \in Players /\ snap \in [Players -> Snaps]
    BY RowTypes, CorpsesAssumption DEF Life, RowInv
  <1>u. Untraded(i) /\ Untraded(i)'
    BY <1>0 DEF GiveUp, Untraded, Types, HistTypes
  <1>1. /\ Writing(p) /\ snap[p].quit /\ snap'[p] = NoSnap
        /\ \A q \in Players \ {p} : snap'[q] = snap[q]
        /\ UNCHANGED <<online, rows>>
    BY <1>0 DEF GiveUp, Writing, dbVars
  <1>2. p \notin online /\ ~Committed(p)
    BY <1>0, <1>1 DEF Death, Out, Writing, Committed
  <1>3. /\ Entries(p)' = {} /\ ~Committed(p)' /\ ~Writing(p)'
        /\ \A q \in Players \ {p} :
              /\ Out(q)' = Out(q) /\ Writing(q)' = Writing(q)
              /\ Committed(q)' = Committed(q) /\ Entries(q)' = Entries(q)
    BY <1>1, SnapsFit DEF Out, Writing, Committed, Entries
  <1>4. \/ /\ p = Owner /\ corpse = "unsettled" /\ corpse' = "stranded"
           /\ place'[i] = IF place[i] = "corpse" THEN "gone" ELSE place[i]
           /\ place[i] # "corpse" => rowId'[i] = rowId[i]
        \/ /\ UNCHANGED <<corpse, place, rowId>> /\ (corpse = "unsettled" => p # Owner)
    <2>1. pendingDeath => p # Owner
      BY <1>0, <1>2 DEF Death
    <2> QED
      BY <1>0, <2>1 DEF GiveUp, Despawned, Contents, Death
  <1>5. ItemOK(i) /\ place[i] \in Players \cup {"corpse", "room", "gone"}
    BY <1>0, <1>u, RowTypes DEF RowInv, AllItems
  <1>6. ASSUME NEW q \in Players, i \in Entries(q)' PROVE EntryOK(i, q)'
    <2>1. q # p /\ EntryOK(i, q) /\ i \in Entries(q)
      BY <1>3, <1>6 DEF CalmOK
    <2>2. Claimed(q, i) => Claimed(q, i)'
      BY <1>1, <2>1 DEF Claimed
    <2>3. \A x \in Players : i \in Entries(x)' => x = q
      BY <1>3, <2>1 DEF EntryOK
    <2>4. UNCHANGED <<corpse, place, rowId>> \/ (place[i] # "corpse" /\ place'[i] = place[i] /\ rowId'[i] = rowId[i])
      BY <1>4, <2>1 DEF EntryOK
    <2> QED
      BY <1>1, <1>3, <2>1, <2>2, <2>3, <2>4 DEF EntryOK
  <1>7. ASSUME NEW r \in rows, r.item = i, ~r.filed
        PROVE  Open(r)' \/ (place'[i] = "gone" /\ AtRest(i, r)')
    <2>1. r.char \in Players
      BY <1>0, RowTypes
    <2>2. CASE r.char = p
      <3>1. place'[i] = "gone"
        <4>1. place[i] \notin Players
          BY <1>2, <1>5, <1>7, <2>2 DEF ItemOK, InHand
        <4>2. place[i] # "room"
          BY <1>5, <1>7 DEF ItemOK, InRoom
        <4>3. place[i] = "corpse" => corpse = "unsettled" /\ p = Owner
          BY <1>5, <1>7, <2>2 DEF ItemOK, InSettled, InUnsettled
        <4> QED
          BY <1>4, <1>5, <4>1, <4>2, <4>3
      <3>2. ASSUME NEW q \in Players, i \in Entries(q) PROVE q = p
        <4>1. place[i] \notin Players
          BY <1>2, <1>5, <1>7, <2>2 DEF ItemOK, InHand
        <4>2. CASE place[i] = "corpse"
          BY <1>5, <1>7, <2>2, <3>2, <4>2 DEF ItemOK, InSettled, InUnsettled
        <4>3. CASE place[i] = "room"
          BY <1>5, <1>7, <4>3 DEF ItemOK, InRoom
        <4>4. CASE place[i] = "gone"
          <5>1. LastSave(q, i) \/ (q = Owner /\ Rotten(i))
            BY <1>5, <3>2, <4>4 DEF ItemOK, Outside
          <5>2. CASE LastSave(q, i)
            BY <1>7, <2>2, <5>2 DEF LastSave
          <5>3. CASE q = Owner /\ Rotten(i)
            <6>1. PICK x \in rows : x.item = i /\ x.char = Owner
              BY <5>3 DEF Rotten
            <6>2. x = r
              BY <1>7, <6>1 DEF CalmOK
            <6> QED
              BY <2>2, <5>3, <6>1, <6>2
          <5> QED
            BY <5>1, <5>2, <5>3
        <4> QED
          BY <1>5, <4>1, <4>2, <4>3, <4>4
      <3>3. AtRest(i, r)'
        BY <1>1, <1>2, <1>3, <2>2, <3>2 DEF AtRest
      <3> QED
        BY <3>1, <3>3
    <2>3. CASE r.char # p /\ Open(r)
      BY <1>1, <1>3, <2>1, <2>3 DEF Open
    <2>4. CASE r.char # p /\ ~Open(r)
      <3>1. place[i] = "gone" /\ AtRest(i, r)
        BY <1>7, <2>4 DEF CalmOK
      <3>2. place'[i] = "gone"
        BY <1>4, <3>1
      <3> QED
        BY <1>1, <1>3, <2>1, <2>4, <3>1, <3>2 DEF AtRest
    <2> QED
      BY <2>2, <2>3, <2>4
  <1>8. \A q \in Players : ToStamp(q, i) => ToStamp(q, i)'
    BY <1>2, <1>3 DEF ToStamp
  <1>9. place'[i] \in Players => HandOK(i, place[i])'
    <2> SUFFICES ASSUME place'[i] \in Players PROVE HandOK(i, place[i])'
      OBVIOUS
    <2>1. place'[i] = place[i] /\ rowId'[i] = rowId[i]
      BY <1>4, CorpsesAssumption
    <2>2. HandOK(i, place[i])
      BY <2>1 DEF CalmOK
    <2> QED
      BY <1>1, <1>8, <2>1, <2>2 DEF HandOK
  <1>10. place'[i] = "corpse" => UNCHANGED <<corpse, place, rowId>> /\ (corpse = "unsettled" => p # Owner)
    BY <1>4
  <1>11. place'[i] = "corpse" /\ corpse' = "unsettled" => UnsettledOK(i)'
    <2> SUFFICES ASSUME place'[i] = "corpse", corpse' = "unsettled" PROVE UnsettledOK(i)'
      OBVIOUS
    <2>1. UNCHANGED <<corpse, place, rowId>> /\ snap'[Owner] = snap[Owner] /\ UnsettledOK(i)
      BY <1>0, <1>1, <1>10 DEF CalmOK
    <2> QED
      BY <1>0, <1>1, <1>8, <2>1 DEF UnsettledOK
  <1>12. place'[i] = "corpse" /\ corpse' # "unsettled" => SettledOK(i)'
    BY <1>1, <1>10 DEF CalmOK, SettledOK
  <1>13. place'[i] = "room" => corpse' = "gone" /\ \A r \in rows : r.item # i
    BY <1>4 DEF CalmOK
  <1>14. PackOK(i)'
    BY <1>u DEF RowInv, Stock
  <1>15. \A r, x \in rows : r.item = i /\ x.item = i => r = x
    BY DEF CalmOK
  <1> QED
    BY <1>1, <1>6, <1>7, <1>9, <1>11, <1>12, <1>13, <1>14, <1>15 DEF CalmOK

\* Who comes in finds what is at rest under their name, with its row.
LEMMA CalmLogin ==
    ASSUME Life, NEW p \in Players, Login(p), NEW i \in Items, CalmOK(i) PROVE CalmOK(i)'
  <1> DEFINE mine == {r \in PackRows(p) : r.item = i}
  <1>0. Types /\ Death
    BY DEF Life
  <1>1. /\ p \notin online /\ ~Out(p) /\ online' = online \cup {p}
        /\ place'[i] = IF mine # {} THEN p ELSE place[i]
        /\ rowId'[i] = IF mine # {} THEN (CHOOSE r \in mine : TRUE).id ELSE rowId[i]
        /\ UNCHANGED <<corpse, snap, packed, rows>>
    BY DEF Login, Out, Unsettled, dbVars, histVars
  <1>2. snap[p] = NoSnap /\ ~Writing(p) /\ Entries(p) = {}
    BY <1>0, <1>1, SnapsFit DEF Death, Writing, Entries
  <1>3. /\ \A q : /\ Entries(q)' = Entries(q) /\ Out(q)' = Out(q) /\ Writing(q)' = Writing(q)
                  /\ Committed(q)' = Committed(q) /\ ToStamp(q, i)' = ToStamp(q, i)
                  /\ InPack(q, i)' = InPack(q, i) /\ Claimed(q, i)' = Claimed(q, i)
        /\ \A r : Open(r) => Open(r)'
    BY <1>1 DEF Entries, Out, Writing, Committed, ToStamp, InPack, Claimed, Open
  <1>4. PackOK(i)'
    BY <1>1, <1>3 DEF CalmOK, PackOK
  <1>5. CASE mine = {}
    <2>1. place'[i] = place[i] /\ rowId'[i] = rowId[i]
      BY <1>1, <1>5
    <2>2. ASSUME NEW q \in Players, i \in Entries(q) PROVE EntryOK(i, q)'
      <3>1. EntryOK(i, q)
        BY <2>2 DEF CalmOK
      <3> QED
        BY <1>1, <1>3, <2>1, <3>1 DEF EntryOK
    <2>3. \A r \in rows : r.item = i /\ ~r.filed => r.char # p
      BY <1>5 DEF PackRows
    <2>4. \A r \in rows : r.item = i /\ ~r.filed /\ AtRest(i, r) => AtRest(i, r)'
      BY <1>1, <1>3, <2>3 DEF AtRest
    <2>5. place[i] \in Players => HandOK(i, place[i])'
      BY <1>1, <1>3, <2>1 DEF CalmOK, HandOK
    <2>6. UnsettledOK(i) => UnsettledOK(i)'
      BY <1>1, <1>3, <2>1 DEF UnsettledOK
    <2>7. SettledOK(i) => SettledOK(i)'
      BY <1>1, <2>1 DEF SettledOK
    <2> QED
      BY <1>1, <1>3, <1>4, <2>1, <2>2, <2>4, <2>5, <2>6, <2>7 DEF CalmOK
  <1>6. CASE mine # {}
    <2>1. PICK r \in mine : r = CHOOSE x \in mine : TRUE
      BY <1>6
    <2>2. r \in rows /\ r.item = i /\ r.char = p /\ ~r.filed /\ rowId'[i] = r.id /\ place'[i] = p
      BY <1>1, <1>6, <2>1 DEF PackRows
    <2>3. \A x \in rows : x.item = i => x = r
      BY <2>2 DEF CalmOK
    <2>4. AtRest(i, r)
      BY <1>1, <1>2, <2>2 DEF CalmOK, Open
    <2>5. \A q \in Players : i \notin Entries(q)'
      BY <1>2, <1>3, <2>2, <2>4 DEF AtRest
    <2>6. HandOK(i, p)'
      BY <1>1, <2>2, <2>3 DEF HandOK
    <2>7. Open(r)'
      BY <1>1, <2>2 DEF Open
    <2> HIDE DEF mine
    <2> QED
      BY <1>1, <1>4, <2>2, <2>3, <2>5, <2>6, <2>7, CorpsesAssumption DEF CalmOK
  <1> QED
    BY <1>5, <1>6

\* A player in the world with no save on its way gives the item to another one.
LEMMA CalmGive ==
    ASSUME Life, NEW p \in Players, NEW q \in Players, NEW i \in Items, Give(p, q, i),
           NEW j \in Items, CalmOK(j), handed'[j] # "busy"
    PROVE  CalmOK(j)'
  <1>1. /\ UNCHANGED <<online, rowId, corpse, snap, packed, rows>> /\ SameRows(j)
        /\ q \in online /\ place[i] = p
        /\ place'[j] = IF j = i THEN q ELSE place[j]
    BY DEF Give, dbVars, SameRows, Life, Types, WorldTypes
  <1>2. CASE j # i
    <2>1. place[j] = "room" => corpse = "gone"
      BY DEF CalmOK
    <2>2. place[j] = "corpse" /\ corpse # "unsettled" => corpse \in {"settled", "deleting"}
      BY DEF CalmOK, SettledOK
    <2> QED
      BY <1>1, <1>2, <2>1, <2>2, CalmFrame
  <1>3. CASE j = i
    <2>1. ~Out(p)
      BY <1>3 DEF Give, Unsettled, Out, Life, Types, HistTypes
    <2>2. Entries(p) = {} /\ ~Committed(p)
      BY <2>1, SnapsFit DEF Life, Death, Entries, Out, Committed
    <2>3. \A x \in Players : i \notin Entries(x)
      BY <1>1, <1>3, <2>2 DEF CalmOK, EntryOK
    <2>4. \A r \in rows : r.item = i => r.id = rowId[i]
      BY <1>1, <1>3, <2>2 DEF CalmOK, HandOK, ToStamp
    <2>5. HandOK(i, q)' /\ place'[i] = q
      BY <1>1, <1>3, <2>4 DEF HandOK
    <2>6. \A r \in rows : r.item = i /\ ~r.filed => Open(r)
      BY <1>1, <1>3, CorpsesAssumption DEF CalmOK
    <2>7. \A r : Open(r)' = Open(r)
      BY <1>1 DEF Open, Writing
    <2>8. \A x \in Players : i \notin Entries(x)'
      BY <1>1, <2>3 DEF Entries
    <2>9. PackOK(i)'
      <3>1. \A x : InPack(x, i)' = InPack(x, i) /\ Out(x)' = Out(x)
        BY <1>1 DEF InPack, Out
      <3> QED
        BY <1>1, <1>3, <3>1 DEF CalmOK, PackOK
    <2> QED
      BY <1>1, <1>3, <2>5, <2>6, <2>7, <2>8, <2>9, CorpsesAssumption DEF CalmOK
  <1> QED
    BY <1>2, <1>3

\* A committed save leaves one row of each item it names, and takes none of another's.
LEMMA CalmCommit ==
    ASSUME Life, RowInv, NEW p \in Players, Commit(p), NEW i \in Items, CalmOK(i) PROVE CalmOK(i)'
  <1> DEFINE s == snap[p]
  <1>0. /\ Types /\ Death /\ Ids /\ AllSnaps /\ Owner \in Players /\ snap \in [Players -> Snaps]
    BY RowTypes, CorpsesAssumption DEF Life, RowInv
  <1>1. PICK new \in [Items -> 0 .. MaxRow] :
           snap' = [snap EXCEPT ![p].at = "committed", ![p].new = new]
    BY DEF Commit
  <1>2. /\ \A q \in Players \ {p} : snap'[q] = snap[q]
        /\ snap'[p].at = "committed" /\ snap'[p].held = s.held
        /\ snap'[p].inCorpse = s.inCorpse /\ snap'[p].ids = s.ids /\ snap'[p].death = s.death
    BY <1>0, <1>1, SnapCommits
  <1>3. Writing(p) /\ ~Committed(p) /\ UNCHANGED <<online, place, rowId, corpse, packed>>
    BY DEF Commit, Writing, Committed, worldVars, histVars
  <1>4. /\ \A q \in Players : Entries(q)' = Entries(q)
        /\ ~Writing(p)' /\ Committed(p)' /\ Out(p)'
        /\ \A q \in Players \ {p} : /\ Out(q)' = Out(q) /\ Writing(q)' = Writing(q)
                                    /\ Committed(q)' = Committed(q)
    BY <1>2 DEF Entries, Writing, Committed, Out
  <1>5. CASE i \in Entries(p)
    <2>1. EntryOK(i, p) /\ Claimed(p, i)
      BY <1>3, <1>5 DEF CalmOK, EntryOK
    <2>2. PICK R \in rows' : R = Row(i, IdAfter(p, i), p, s)
      BY <1>0, <1>5, CommitRows
    <2>3. /\ R.item = i /\ R.char = p /\ R.filed = (i \in s.inCorpse)
          /\ R.id = IF snap'[p].new[i] = 0 THEN s.ids[i] ELSE snap'[p].new[i]
      <3>1. IdAfter(p, i) \in 1 .. MaxRow /\ (snap'[p].new[i] # 0 => ~HasRow(s.ids[i], i))
        BY <1>0, <1>5, CommitRows
      <3>2. IdAfter(p, i) # 0
        BY <3>1
      <3> QED
        BY <2>2, <3>1, <3>2 DEF Row, IdAfter
    <2>4. \A r \in rows' : r.item = i => r = R
      BY <1>0, <1>5, <2>1, <2>2, CommitRows
    <2>5. ToStamp(p, i)'
      BY <1>4, <1>5 DEF ToStamp
    <2>6. \A q \in Players : i \in Entries(q) => q = p
      BY <2>1 DEF EntryOK
    <2>7. EntryOK(i, p)'
      BY <1>2, <1>3, <1>4, <2>1, <2>2, <2>3, <2>4, <2>6 DEF EntryOK
    <2>8. ~R.filed => Open(R)' \/ (place[i] = "gone" /\ AtRest(i, R)')
      <3> SUFFICES ASSUME ~R.filed, p \notin online PROVE place[i] = "gone" /\ AtRest(i, R)'
        BY <1>3, <2>3 DEF Open
      <3>1. i \in s.held
        BY <1>5, <2>3 DEF Entries
      <3>2. place[i] \notin Players
        BY <2>1 DEF CalmOK, HandOK, EntryOK
      <3>3. place[i] # "corpse"
        <4> SUFFICES ASSUME place[i] = "corpse" PROVE FALSE
          OBVIOUS
        <4>1. p = Owner /\ corpse = "unsettled"
          BY <2>1 DEF EntryOK
        <4>2. s.death
          BY <1>0, <4>1 DEF Death
        <4>3. i \in s.inCorpse
          BY <4>1, <4>2 DEF CalmOK, UnsettledOK
        <4> QED
          BY <2>3, <4>3
      <3>4. place[i] = "gone"
        BY <1>0, <2>1, <3>2, <3>3, RowTypes DEF EntryOK
      <3> QED
        BY <1>2, <1>3, <1>4, <2>3, <2>6, <3>1, <3>4 DEF AtRest
    <2>9. ASSUME place[i] \in Players PROVE HandOK(i, place[i])'
      <3>1. place[i] = p /\ HandOK(i, p)
        BY <2>1, <2>9 DEF EntryOK, CalmOK
      <3> QED
        BY <1>3, <2>5, <3>1 DEF HandOK
    <2>10. ASSUME place[i] = "corpse" PROVE corpse = "unsettled" /\ UnsettledOK(i)'
      <3>1. p = Owner /\ corpse = "unsettled" /\ UnsettledOK(i)
        BY <2>1, <2>10 DEF EntryOK, CalmOK
      <3> QED
        BY <1>2, <2>5, <3>1 DEF UnsettledOK
    <2>11. PackOK(i)'
      <3> SUFFICES ASSUME NEW q \in Players, q \notin online, ~Out(q)'
                   PROVE  i \in packed[q] <=> InPack(q, i)'
        BY <1>3 DEF PackOK
      <3>1. q # p /\ ~Out(q)
        BY <1>4
      <3>2. ~InPack(q, i)'
        BY <2>3, <2>4, <3>1 DEF InPack
      <3>3. ~InPack(q, i)
        <4> SUFFICES ASSUME NEW r \in rows, r.item = i, r.char = q, ~r.filed PROVE FALSE
          BY DEF InPack
        <4>1. AtRest(i, r)
          BY <3>1 DEF CalmOK, Open, Writing, Out
        <4> QED
          BY <1>5, <3>1, <4>1 DEF AtRest
      <3> QED
        BY <3>1, <3>2, <3>3 DEF CalmOK, PackOK
    <2>12. place[i] # "room"
      BY <2>1 DEF EntryOK
    <2>13. \A q \in Players : i \in Entries(q)' => EntryOK(i, q)'
      BY <1>4, <2>6, <2>7
    <2>14. \A r \in rows' : r.item = i /\ ~r.filed =>
              Open(r)' \/ (place[i] = "gone" /\ AtRest(i, r)')
      BY <2>4, <2>8
    <2>15. \A r, x \in rows' : r.item = i /\ x.item = i => r = x
      BY <2>4
    <2> QED
      BY <1>3, <2>9, <2>10, <2>11, <2>12, <2>13, <2>14, <2>15 DEF CalmOK
  <1>6. CASE i \notin Entries(p)
    <2>1. /\ \A r \in rows' : r.item = i => r \in rows /\ (r.filed \/ r.char # p)
          /\ \A r \in rows : r.item = i /\ ~r.filed /\ r.char # p => r \in rows'
      <3>1. \A r \in rows' : r.item = i => r \in rows /\ (r.filed \/ r.char # p)
        BY <1>0, <1>6, CommitRows
      <3>2. \A r \in rows : r.item = i /\ ~r.filed /\ r.char # p => r \in rows'
        BY <1>0, <1>6, CommitRows
      <3> QED
        BY <3>1, <3>2
    <2>2. ASSUME NEW q \in Players, i \in Entries(q) PROVE EntryOK(i, q)'
      <3>1. EntryOK(i, q) /\ q # p
        BY <1>6, <2>2 DEF CalmOK
      <3>2. Claimed(q, i) => Claimed(q, i)'
        BY <1>2, <2>1, <3>1 DEF Claimed
      <3>3. i \in snap[q].held => i \notin snap[q].inCorpse
        BY <1>0 DEF AllSnaps, SnapShape
      <3>4. Committed(q) /\ i \in snap[q].held => \E r \in rows' : r.item = i
        BY <2>1, <3>1, <3>3 DEF EntryOK
      <3> QED
        BY <1>2, <1>3, <1>4, <2>1, <3>1, <3>2, <3>4 DEF EntryOK
    <2>3. ASSUME NEW r \in rows', r.item = i, ~r.filed
          PROVE  Open(r)' \/ (place[i] = "gone" /\ AtRest(i, r)')
      <3>1. r \in rows /\ r.char \in Players \ {p}
        BY <1>0, <2>1, <2>3, RowTypes
      <3>2. Open(r) => Open(r)'
        BY <1>3, <1>4, <3>1 DEF Open
      <3>3. AtRest(i, r) => AtRest(i, r)'
        BY <1>2, <1>3, <1>4, <3>1 DEF AtRest
      <3> QED
        BY <2>3, <3>1, <3>2, <3>3 DEF CalmOK
    <2>4. \A q \in Players : ToStamp(q, i) => ToStamp(q, i)'
      BY <1>4, <1>6 DEF ToStamp
    <2>5. place[i] \in Players => HandOK(i, place[i])'
      BY <1>3, <2>1, <2>4 DEF CalmOK, HandOK
    <2>6. UnsettledOK(i) => UnsettledOK(i)'
      <3>1. snap'[Owner].death = snap[Owner].death /\ snap'[Owner].inCorpse = snap[Owner].inCorpse
        BY <1>0, <1>2
      <3> QED
        BY <1>0, <1>3, <2>1, <2>4, <3>1 DEF UnsettledOK
    <2>7. SettledOK(i) => SettledOK(i)'
      BY <1>3, <2>1 DEF SettledOK
    <2>8. PackOK(i)'
      <3> SUFFICES ASSUME NEW q \in Players, q \notin online, ~Out(q)'
                   PROVE  i \in packed[q] <=> InPack(q, i)'
        BY <1>3 DEF PackOK
      <3>1. q # p /\ ~Out(q)
        BY <1>4
      <3>2. InPack(q, i)' <=> InPack(q, i)
        BY <2>1, <3>1 DEF InPack
      <3> QED
        BY <3>1, <3>2 DEF CalmOK, PackOK
    <2>9. \A r, x \in rows' : r.item = i /\ x.item = i => r = x
      BY <2>1 DEF CalmOK
    <2>10. \A q \in Players : i \in Entries(q)' => EntryOK(i, q)'
      BY <1>4, <2>2
    <2>11. place[i] = "room" => corpse = "gone" /\ \A r \in rows' : r.item # i
      BY <2>1 DEF CalmOK
    <2> QED
      BY <1>3, <2>3, <2>5, <2>6, <2>7, <2>8, <2>9, <2>10, <2>11 DEF CalmOK
  <1> QED
    BY <1>5, <1>6

\* The ids of a committed save reach what is still there, and its corpse settles.
LEMMA CalmApply ==
    ASSUME Life, RowInv, NEW p \in Players, ApplyCommit(p), NEW i \in Items, CalmOK(i)
    PROVE  CalmOK(i)'
  <1> DEFINE s == snap[p]
             settles == s.death /\ corpse = "unsettled"
  <1>0. /\ Types /\ Death /\ AllSnaps /\ Owner \in Players /\ snap \in [Players -> Snaps]
    BY RowTypes, CorpsesAssumption DEF Life, RowInv
  <1>1. /\ Committed(p) /\ snap'[p] = NoSnap
        /\ \A q \in Players \ {p} : snap'[q] = snap[q]
        /\ UNCHANGED <<online, place, packed, rows>>
        /\ corpse' = IF settles THEN "settled" ELSE corpse
    BY <1>0 DEF ApplyCommit, FoldedIn, Committed, dbVars, histVars
  <1>2. rowId'[i] = IF s.new[i] # 0 /\ rowId[i] = s.ids[i]
                       /\ (place[i] = p \/ (s.death /\ place[i] = "corpse"))
                    THEN s.new[i] ELSE rowId[i]
    BY DEF ApplyCommit, FoldedIn, Stamped
  <1>3. /\ Entries(p)' = {} /\ ~Committed(p)' /\ ~Writing(p)' /\ ~Writing(p)
        /\ \A q \in Players \ {p} :
              /\ Out(q)' = Out(q) /\ Writing(q)' = Writing(q)
              /\ Committed(q)' = Committed(q) /\ Entries(q)' = Entries(q)
    BY <1>1, SnapsFit DEF Out, Writing, Committed, Entries
  <1>4. /\ s.death => p = Owner
        /\ p \notin online => packed[p] = s.held
        /\ i \in s.held => i \notin s.inCorpse
        /\ i \in s.inCorpse => s.death
        /\ s.new[i] # 0 => i \in Entries(p)
    <2>1. SnapShape(p)
      BY <1>0 DEF AllSnaps
    <2>2. p \notin online => s.quit
      BY <1>0, <1>1 DEF Death, Out, Committed
    <2> QED
      BY <1>0, <2>1, <2>2 DEF SnapShape, Death
  <1> HIDE DEF settles
  <1>5. \A r \in rows : Open(r)' = Open(r)
    <2> SUFFICES ASSUME NEW r \in rows PROVE Open(r)' = Open(r)
      OBVIOUS
    <2>1. r.char \in Players
      BY <1>0, RowTypes
    <2> QED
      BY <1>1, <1>3, <2>1 DEF Open
  <1>6. \A r \in rows : AtRest(i, r) => AtRest(i, r)'
    <2> SUFFICES ASSUME NEW r \in rows, AtRest(i, r) PROVE AtRest(i, r)'
      OBVIOUS
    <2>1. r.char \in Players
      BY <1>0, RowTypes
    <2> QED
      BY <1>1, <1>3, <2>1 DEF AtRest
  <1>7. CASE i \in Entries(p)
    <2>1. EntryOK(i, p)
      BY <1>7 DEF CalmOK
    <2>2. \A r \in rows : r.item = i =>
             /\ r.char = p /\ r.filed = (i \in s.inCorpse)
             /\ r.id = IF s.new[i] = 0 THEN s.ids[i] ELSE s.new[i]
      BY <1>1, <2>1 DEF EntryOK
    <2>3. \A q \in Players : i \notin Entries(q)'
      BY <1>3, <2>1 DEF EntryOK
    <2>4. ASSUME place[i] \in Players PROVE HandOK(i, place[i])'
      <3>1. place[i] = p /\ s.ids[i] = rowId[i] /\ p \in online
        BY <2>1, <2>4 DEF EntryOK, CalmOK, HandOK
      <3> QED
        BY <1>1, <1>2, <2>2, <3>1 DEF HandOK
    <2>5. ASSUME place[i] = "corpse"
          PROVE  /\ corpse = "unsettled" /\ p = Owner
                 /\ s.death => SettledOK(i)'
                 /\ ~s.death => UnsettledOK(i)'
      <3>1. corpse = "unsettled" /\ p = Owner /\ s.ids[i] = rowId[i] /\ UnsettledOK(i)
        BY <2>1, <2>5 DEF EntryOK, CalmOK
      <3>2. ASSUME s.death PROVE SettledOK(i)'
        <4>1. i \in s.inCorpse /\ corpse' = "settled"
          BY <1>1, <3>1, <3>2 DEF UnsettledOK, settles
        <4>2. rowId'[i] = IF s.new[i] = 0 THEN s.ids[i] ELSE s.new[i]
          BY <1>2, <2>5, <3>1, <3>2
        <4> QED
          BY <1>1, <2>2, <4>1, <4>2 DEF SettledOK
      <3>3. ASSUME ~s.death PROVE UnsettledOK(i)'
        <4>1. \A r \in rows : r.item = i => r.char = Owner /\ ~r.filed
          BY <1>4, <2>2, <3>1, <3>3
        <4>2. ~snap'[Owner].death
          BY <1>1, <3>1, SnapsFit
        <4> QED
          BY <1>1, <4>1, <4>2 DEF UnsettledOK
      <3> QED
        BY <3>1, <3>2, <3>3
    <2>6. PackOK(i)'
      <3> SUFFICES ASSUME NEW q \in Players, q \notin online, ~Out(q)'
                   PROVE  i \in packed[q] <=> InPack(q, i)'
        BY <1>1 DEF PackOK
      <3>1. InPack(q, i)' = InPack(q, i)
        BY <1>1 DEF InPack
      <3>2. CASE q # p
        BY <1>3, <3>1, <3>2 DEF CalmOK, PackOK
      <3>3. CASE q = p
        <4>1. i \in s.held => InPack(p, i)
          BY <1>1, <1>4, <2>1, <2>2 DEF InPack, EntryOK
        <4>2. i \notin s.held => ~InPack(p, i)
          BY <1>7, <2>2 DEF InPack, Entries
        <4> QED
          BY <1>4, <3>1, <3>3, <4>1, <4>2
      <3> QED
        BY <3>2, <3>3
    <2>7. place[i] # "room"
      BY <2>1 DEF EntryOK
    <2>8. place[i] = "corpse" => corpse' = IF s.death THEN "settled" ELSE "unsettled"
      BY <1>1, <2>5 DEF settles
    <2> QED
      BY <1>1, <1>5, <1>6, <2>3, <2>4, <2>5, <2>6, <2>7, <2>8 DEF CalmOK
  <1>8. CASE i \notin Entries(p)
    <2>1. rowId'[i] = rowId[i]
      BY <1>2, <1>4, <1>8
    <2>2. place[i] = "corpse" => corpse' = corpse
      <3> SUFFICES ASSUME place[i] = "corpse", settles PROVE FALSE
        BY <1>1
      <3>1. UnsettledOK(i) /\ p = Owner /\ s.death
        BY <1>4 DEF CalmOK, settles
      <3> QED
        BY <1>8, <3>1 DEF UnsettledOK, Entries
    <2>3. ASSUME NEW q \in Players, i \in Entries(q)' PROVE EntryOK(i, q)'
      <3>1. q # p /\ EntryOK(i, q)
        BY <1>3, <2>3 DEF CalmOK
      <3>2. Claimed(q, i) => Claimed(q, i)'
        BY <1>1, <3>1 DEF Claimed
      <3> QED
        BY <1>1, <1>3, <2>1, <2>2, <3>1, <3>2 DEF EntryOK
    <2>4. \A q \in Players : ToStamp(q, i) => ToStamp(q, i)'
      BY <1>3, <1>8 DEF ToStamp
    <2>5. place[i] \in Players => HandOK(i, place[i])'
      BY <1>1, <2>1, <2>4 DEF CalmOK, HandOK
    <2>6. UnsettledOK(i) => UnsettledOK(i)'
      <3>1. snap'[Owner].death => snap[Owner].death /\ snap'[Owner].inCorpse = snap[Owner].inCorpse
        BY <1>0, <1>1, SnapsFit
      <3> QED
        BY <1>0, <1>1, <2>1, <2>4, <3>1 DEF UnsettledOK
    <2>7. corpse' = corpse /\ SettledOK(i) => SettledOK(i)'
      BY <1>1, <2>1 DEF SettledOK
    <2>8. PackOK(i)'
      <3> SUFFICES ASSUME NEW q \in Players, q \notin online, ~Out(q)'
                   PROVE  i \in packed[q] <=> InPack(q, i)'
        BY <1>1 DEF PackOK
      <3>1. InPack(q, i)' = InPack(q, i)
        BY <1>1 DEF InPack
      <3>2. CASE q # p
        BY <1>3, <3>1, <3>2 DEF CalmOK, PackOK
      <3>3. CASE q = p
        <4>1. i \notin s.held
          BY <1>8 DEF Entries
        <4>2. ~InPack(p, i)
          <5> SUFFICES ASSUME NEW r \in rows, r.item = i, r.char = p, ~r.filed PROVE FALSE
            BY DEF InPack
          <5>1. AtRest(i, r)
            BY <1>3, <3>3 DEF CalmOK, Open
          <5> QED
            BY <1>1, <4>1, <5>1 DEF AtRest
        <4> QED
          BY <1>4, <3>1, <3>3, <4>1, <4>2
      <3> QED
        BY <3>2, <3>3
    <2>9. place[i] = "room" => corpse' = "gone"
      BY <1>1 DEF CalmOK, settles
    <2> QED
      BY <1>1, <1>5, <1>6, <2>1, <2>2, <2>3, <2>5, <2>6, <2>7, <2>8, <2>9 DEF CalmOK
  <1> QED
    BY <1>7, <1>8

\* Every step keeps each calm item calm.
LEMMA CalmKept ==
    ASSUME LifeInv, RowInv, RowInv', AllCalm, Quiet PROVE AllCalm'
  <1> SUFFICES ASSUME NEW i \in Items, handed'[i] # "busy" PROVE CalmOK(i)'
    BY DEF AllCalm
  <1>0. Life /\ Coins
    BY DEF LifeInv, Life
  <1>1. CalmOK(i)
    <2>1. CASE handed' = handed
      BY <2>1 DEF AllCalm
    <2>2. ASSUME NEW p \in Players, NEW q \in Players, NEW j \in Items, Give(p, q, j)
          PROVE  CalmOK(i)
      <3>1. handed[i] # "busy"
        BY <1>0, <2>2 DEF Give, Life, Types, HistTypes
      <3> QED
        BY <3>1 DEF AllCalm
    <2>3. ASSUME NEW p \in Players, GiveUp(p) PROVE CalmOK(i)
      <3>1. handed[i] # "busy"
        BY <1>0, <2>3 DEF GiveUp, Life, Types, HistTypes
      <3> QED
        BY <3>1 DEF AllCalm
    <2>4. \/ handed' = handed \/ (\E p, q \in Players, j \in Items : Give(p, q, j))
          \/ \E p \in Players : GiveUp(p)
      BY DEF Quiet, Next, Die, Release, Resurrect, Purge, DecayBegins, TakeDecayed, OpDone, OpFails,
             Crash, Rot, Loot, Save, Quit, Commit, SaveFails, ApplyCommit, FoldedIn, Login, vars, histVars
    <2> QED
      BY <2>1, <2>2, <2>3, <2>4
  <1>2. CASE \/ UNCHANGED vars \/ Release \/ DecayBegins \/ OpFails
             \/ \E p \in Players : SaveFails(p) /\ snap' = snap
    BY <1>1, <1>2, CalmStill
  <1>3. CASE Die \/ Purge \/ TakeDecayed \/ OpDone \/ Crash
    BY <1>0, <1>1, <1>3, CalmDie, CalmPurge, CalmTakeDecayed, CalmOpDone, CalmCrash
  <1>4. CASE Resurrect
    BY <1>0, <1>1, <1>4, CalmTaken, CorpsesAssumption
  <1>5. ASSUME NEW j \in Items, Rot(j) PROVE CalmOK(i)'
    BY <1>1, <1>5, CalmRot
  <1>6. ASSUME NEW p \in Players, Loot(p) \/ Save(p) \/ Quit(p) PROVE CalmOK(i)'
    BY <1>0, <1>1, <1>6, CalmTaken, CalmSave
  <1>7. ASSUME NEW p \in Players, Commit(p) \/ (SaveFails(p) /\ snap' # snap) PROVE CalmOK(i)'
    BY <1>0, <1>1, <1>7, CalmCommit, CalmSaveFails
  <1>10. ASSUME NEW p \in Players, GiveUp(p) PROVE CalmOK(i)'
    BY <1>0, <1>1, <1>10, CalmGiveUp
  <1>8. ASSUME NEW p \in Players, ApplyCommit(p) \/ Login(p) PROVE CalmOK(i)'
    BY <1>0, <1>1, <1>8, CalmApply, CalmLogin
  <1>9. ASSUME NEW p \in Players, NEW q \in Players, NEW j \in Items, Give(p, q, j)
        PROVE  CalmOK(i)'
    BY <1>0, <1>1, <1>9, CalmGive
  <1> QED
    BY <1>2, <1>3, <1>4, <1>5, <1>6, <1>7, <1>8, <1>9, <1>10 DEF Next, Quiet

\* The rows of calm items are in order in every state.
LEMMA CalmAlways == Spec /\ []LeftUnwritten => []AllCalm
  <1>1. Init => AllCalm
    BY LifeInvInit, CalmInit DEF LifeInv, Life
  <1>2. LifeInv /\ RowInv /\ RowInv' /\ LeftUnwritten /\ LeftUnwritten' /\ AllCalm
          /\ [Next]_vars => AllCalm'
    BY QuietSteps, CalmKept DEF LifeInv
  <1> QED
    BY <1>1, <1>2, LifeInvAlways, RowInvAlways, PTL DEF Spec

-----------------------------------------------------------------------------
(* What they say together.                                                 *)

\* Every id has its row, and every item one row at most.
LEMMA ItemsHaveTheirRows == LifeInv /\ RowInv /\ AllCalm => ItemRows
  <1> SUFFICES ASSUME LifeInv, RowInv, AllCalm PROVE ItemRows
    OBVIOUS
  <1>0. Types /\ Marks /\ Writer
    BY DEF LifeInv
  <1>4. \A p \in Players : left[p].at \in {"none", "writing", "committed", "folded"}
    <2>1. left \in [Players -> Snaps]
      BY <1>0 DEF Types, WorldTypes
    <2> QED
      BY <2>1 DEF Snaps
  <1>1. TypeOK
    BY <1>0, <1>4 DEF TypeOK, Types, WorldTypes, DbTypes, Marks, Mark, Out, Unsettled
  <1>2. ASSUME NEW r \in rows, NEW x \in rows, r.item = x.item, handed[r.item] # "busy"
        PROVE  r = x
    <2>1. r.item \in Items
      BY <1>0, RowTypes
    <2> QED
      BY <1>2, <2>1 DEF AllCalm, CalmOK
  <1>3. ASSUME NEW i \in Items, rowId[i] # 0, handed[i] = "no",
               place[i] \in Players \/ (place[i] = "corpse" /\ corpse # "deleting")
        PROVE  \E r \in rows : r.id = rowId[i] /\ r.item = i
    <2>1. ItemOK(i)
      BY <1>3 DEF RowInv, AllItems, Untraded
    <2>2. HasRow(rowId[i], i)
      BY <1>0, <1>3, <2>1 DEF ItemOK, InHand, InUnsettled, InSettled, Writer
    <2> QED
      BY <2>2 DEF HasRow
  <1> QED
    BY <1>1, <1>2, <1>3 DEF ItemRows

\* A departed player has the rows of what they left with, and nothing else.
LEMMA DepartedKeepPacks ==
    LifeInv /\ AllCalm /\ (\A i \in Items : handed[i] # "busy") => QuitKeepsPack
  <1> SUFFICES ASSUME LifeInv, AllCalm, \A i \in Items : handed[i] # "busy",
                      NEW p \in Players \ online, ~Unsettled(p)
               PROVE  /\ {r.item : r \in PackRows(p)} = packed[p]
                      /\ \A i \in packed[p] : place[i] = "gone"
    BY DEF QuitKeepsPack
  <1>0. Types /\ ~Out(p) /\ packed[p] \subseteq Items
    BY RowTypes DEF LifeInv, Unsettled, Out
  <1>1. \A i \in Items : CalmOK(i)
    BY DEF AllCalm
  <1>2. \A i \in Items : i \in packed[p] <=> InPack(p, i)
    BY <1>0, <1>1 DEF CalmOK, PackOK
  <1>3. \A r \in PackRows(p) : r.item \in Items /\ InPack(p, r.item)
    BY <1>0, RowTypes DEF PackRows, InPack
  <1>4. \A i \in Items : InPack(p, i) => \E r \in PackRows(p) : r.item = i
    BY DEF PackRows, InPack
  <1>5. ASSUME NEW i \in packed[p] PROVE place[i] = "gone"
    <2>1. PICK r \in rows : r.item = i /\ r.char = p /\ ~r.filed
      BY <1>0, <1>2 DEF InPack
    <2>2. ~Open(r)
      BY <1>0, <2>1 DEF Open, Out, Writing
    <2> QED
      BY <1>0, <1>1, <2>1, <2>2 DEF CalmOK
  <1> QED
    BY <1>0, <1>2, <1>3, <1>4, <1>5

\* It keeps the rows of a settled corpse to what is in it and what its looters owe.
LEMMA RowInvCorpseMatches == LifeInv /\ RowInv => CorpseMatchesRows
  <1> SUFFICES ASSUME LifeInv, RowInv, corpse = "settled", ops = <<>>, ~missed,
                      NEW r \in CorpseRows, Untraded(r.item)
               PROVE  place[r.item] = "corpse" \/ PendingLoot("nobody")
    BY DEF CorpseMatchesRows, Untraded
  <1>0. Types /\ Marks /\ DOMAIN ops = {}
    BY DEF LifeInv
  <1>1. /\ r \in rows /\ r.filed /\ r.item \in Items /\ ItemOK(r.item)
        /\ place[r.item] \in Players \cup {"corpse", "room", "gone"}
    BY <1>0, RowTypes DEF RowInv, AllItems, CorpseRows
  <1>2. ~retire
    BY <1>0 DEF Marks
  <1>3. \A q \in Players : mark[q] # 0 => PendingLoot("nobody")
    BY CorpsesAssumption DEF PendingLoot
  <1>4. CASE place[r.item] \in Players
    BY <1>1, <1>2, <1>3, <1>4 DEF ItemOK, InHand, Looted
  <1>5. CASE place[r.item] = "room"
    BY <1>1, <1>5 DEF ItemOK, InRoom
  <1>6. CASE place[r.item] = "gone"
    BY <1>0, <1>1, <1>3, <1>6 DEF ItemOK, Outside
  <1> QED
    BY <1>1, <1>4, <1>5, <1>6

\* An item that nobody has given away and that carries a row id has that row, and no item
\* has two rows, unless it changed hands during a save of the giver (PersistedItemId
\* against CharacterItems), whatever saves, deaths, loots, decays, gifts, failures and
\* crashes come together, last saves given up included, as long as no save that an exit
\* left behind is written.
THEOREM EveryIdHasItsRow == Spec /\ []LeftUnwritten => []ItemRows
  BY LifeInvAlways, RowInvAlways, CalmAlways, ItemsHaveTheirRows, PTL

\* A player who left and whose last save is done has the rows of the pack they left with
\* and no others (write_snapshot of a departing player), gifts between saves included;
\* if that save has been given up, of what its rows were before.  No save that an exit
\* left behind is written.
\* With a gift during a save of the giver it is false, see the run StaleHandover.
THEOREM PacksKept ==
    Spec /\ []LeftUnwritten => []((\A i \in Items : handed[i] # "busy") => QuitKeepsPack)
  BY LifeInvAlways, CalmAlways, DepartedKeepPacks, PTL

\* With the corpse settled and no deletion on its way or failed, a row filed under it is
\* of an item in it or of one that has been handed on, or a looter's save is due
\* (settle_corpse, CorpseLootLedger), as long as no last save has been given up and no
\* save that an exit left behind is written.
THEOREM CorpseHasItsRows == Spec /\ []LeftUnwritten => []CorpseMatchesRows
  BY LifeInvAlways, RowInvAlways, RowInvCorpseMatches, PTL

=============================================================================
