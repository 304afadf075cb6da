------------------------------ MODULE Corpses ------------------------------
(***************************************************************************)
(* The item rows of characters and of one player corpse.                   *)
(*                                                                         *)
(* A dead player's pack and purse move into a corpse; from then on the     *)
(* same rows of CharacterItems belong to the owner, to the corpse or to a  *)
(* looter, and several writers change them: the saves of each character    *)
(* (write_snapshot, one transaction), and the one task that applies corpse *)
(* deletes in order (CorpseDb).  A save is a snapshot that is committed    *)
(* later and folded back into the world later still; looting, resurrection,*)
(* decay and purge happen in between.                                      *)
(*                                                                         *)
(* Of the save protocol only its result is kept (module SaveOrder):        *)
(* snapshots of a character are written one at a time.  An exit does not   *)
(* wait for a background save that has yet to get the turn; that one is    *)
(* stale when the exit's own has been written, and comes before it when    *)
(* the first write of the exit's own has failed.  A failed last save is    *)
(* tried again with the same snapshot, and at last given up.               *)
(***************************************************************************)
EXTENDS Integers, FiniteSets, Sequences

CONSTANTS
    Players,    \* characters
    Owner,      \* the one who dies
    Items,      \* what they carry
    Scenes,     \* [features: which of fail, crash, decay, purge, rot, give happen,
                \*  quits: bound on exits and crashes]
    MaxRow,     \* bound: CharacterItems ids handed out
    MaxSeq      \* bound: loot marks made

ASSUME CorpsesAssumption ==
    /\ Owner \in Players /\ IsFiniteSet(Players) /\ IsFiniteSet(Items)
    /\ Players \cap {"corpse", "room", "gone", "nobody"} = {}    \* names of other things
    /\ MaxRow \in Nat /\ MaxSeq \in Nat /\ Cardinality(Items) <= MaxRow
    /\ \A sc \in Scenes : sc.quits \in Nat

VARIABLES
    online,     \* players with an entity in the world
    place,      \* Located of each item: a player, "corpse", "room", "gone"
    rowId,      \* PersistedItemId of each item entity, 0 for none
    purse,      \* Wealth of each player; the coins there are belong to Owner first
    pile,       \* CoinPile of the corpse
    corpse,     \* "none", "unsettled", "settled", "deleting" (DecayDeleting), "gone",
                \* "stranded": unsettled, and no save left to settle it
    ghost,      \* the Ghost component of Owner
    pendingDeath,   \* PendingDeath of Owner
    retire,     \* Owner's PendingCorpseRetire holds the corpse
    takes,      \* PendingCorpseCoinTakes of each player
    mark,       \* CorpseLootLedger: sequence number of each looter's mark, 0 for none
    nextSeq,    \* CorpseLootLedger::next_seq
    removals,   \* UnsettledCorpseRemovals: row ids
    snap,       \* each player's snapshot on its way to the database
    left,       \* and the one before it that an exit did not wait for
    ops,        \* the CorpseDb channel
    finished,   \* CorpseDb::finished
    rows,       \* CharacterItems: [id, item, char, filed], filed under the corpse
    nextRow,    \* its id sequence
    dbPurse,    \* Characters.wealth
    dbGhost,    \* Characters.position of Owner is GHOST
    dbCorpse,   \* PlayerCorpses.coins of the corpse row, -1 without a row
    packed,     \* history: what each player held at the last exit, or has in the
                \* rows when that is lost
    quits,      \* history: exits and crashes
    spent,      \* history: coins went with a decayed or purged corpse
    forsaken,   \* history: coins were taken from the corpse by a save given up
    missed,     \* history: a delete has failed, or a last save was given up
    handed,     \* history: items given to another, "busy" when a save of the
                \* giver was out or one of theirs is lost, "calm" otherwise
    twice,      \* history: a death has been inserted by two saves
    scene       \* member of Scenes

worldVars == <<online, place, rowId, purse, pile, corpse, ghost>>
pendVars  == <<pendingDeath, retire, takes, mark, nextSeq, removals>>
dbVars    == <<rows, nextRow, dbPurse, dbGhost, dbCorpse>>
writerVars == <<ops, finished>>
histVars  == <<packed, quits, spent, forsaken, missed, handed, twice, scene>>
vars == <<worldVars, pendVars, snap, left, writerVars, dbVars, histVars>>

NoIds == [i \in Items |-> 0]
NoSnap == [at |-> "none", quit |-> FALSE, held |-> {}, inCorpse |-> {}, ids |-> NoIds,
           purse |-> 0, ghost |-> FALSE, death |-> FALSE, pile |-> 0, takes |-> 0,
           mark |-> 0, retire |-> FALSE, new |-> NoIds]

Held(p) == {i \in Items : place[i] = p}
Contents == {i \in Items : place[i] = "corpse"}
Unsettled(p) == snap[p].at # "none"             \* has_unsettled_saves
\* The rows of p's pack, and of the corpse.
PackRows(p) == {r \in rows : r.char = p /\ ~r.filed}
CorpseRows == {r \in rows : r.filed}

\* The coins the database knows of.
DbCoins ==
    Cardinality({p \in Players : dbPurse[p] > 0}) + (IF dbCorpse > 0 THEN 1 ELSE 0)

\* has_pending_loot.  A mark of a departed looter counts while their last save
\* is on its way; one whose save has been given up on is the sweep's.
PendingLoot(except) == \E p \in Players \ {except} : mark[p] # 0

Init ==
    \* Owner comes in with every item, some of them just bought: no row yet.
    \E stored \in SUBSET Items :
        /\ \E f \in [Items -> 0 .. Cardinality(Items)] :
              /\ \A i \in Items : (f[i] = 0) = (i \notin stored)
              /\ \A i, j \in stored : f[i] = f[j] => i = j
              /\ \A i \in stored : f[i] <= Cardinality(stored)
              /\ rowId = f
              /\ rows = {[id |-> f[i], item |-> i, char |-> Owner, filed |-> FALSE] :
                            i \in stored}
        /\ nextRow = Cardinality(stored) + 1
        /\ online = Players
        /\ place = [i \in Items |-> Owner]
        /\ purse = [p \in Players |-> IF p = Owner THEN 1 ELSE 0]
        /\ pile = 0 /\ corpse = "none" /\ ghost = FALSE
        /\ pendingDeath = FALSE /\ retire = FALSE
        /\ takes = [p \in Players |-> 0] /\ mark = [p \in Players |-> 0]
        /\ nextSeq = 1 /\ removals = {}
        /\ snap = [p \in Players |-> NoSnap] /\ left = snap
        /\ ops = <<>> /\ finished = "no"
        /\ dbPurse = purse /\ dbGhost = FALSE /\ dbCorpse = -1
        /\ packed = [p \in Players |-> {}] /\ quits = 0 /\ spent = FALSE
        /\ forsaken = FALSE /\ twice = FALSE
        /\ missed = FALSE /\ handed = [i \in Items |-> "no"] /\ scene \in Scenes

-----------------------------------------------------------------------------
(* The world: death, looting, return of the dead, and the end of a corpse. *)

\* handle_death of a player: pack and purse go into a corpse that is not in
\* the database yet.
Die ==
    /\ Owner \in online /\ ~ghost /\ corpse = "none"
    /\ place' = [i \in Items |-> IF place[i] = Owner THEN "corpse" ELSE place[i]]
    /\ pile' = purse[Owner]
    /\ purse' = [purse EXCEPT ![Owner] = 0]
    /\ corpse' = "unsettled" /\ ghost' = TRUE /\ pendingDeath' = TRUE
    /\ UNCHANGED <<online, rowId, retire, takes, mark, nextSeq, removals, snap, left,
                   writerVars, dbVars, histVars>>

\* get_from_container on a player corpse by its owner, or with their consent:
\* some of the items, and the coins with "get all".  Refused until the death
\* has committed and once the corpse is being deleted.
Loot(p) ==
    /\ p \in online /\ corpse = "settled" /\ nextSeq <= MaxSeq
    /\ \E S \in SUBSET Contents, c \in {0, pile} :
          /\ S # {} \/ c > 0
          /\ place' = [i \in Items |-> IF i \in S THEN p ELSE place[i]]
          /\ purse' = [purse EXCEPT ![p] = @ + c]
          /\ pile' = pile - c
          /\ takes' = [takes EXCEPT ![p] = @ + c]
    /\ mark' = [mark EXCEPT ![p] = nextSeq] /\ nextSeq' = nextSeq + 1
    /\ UNCHANGED <<online, rowId, corpse, ghost, pendingDeath, retire, removals, snap, left,
                   writerVars, dbVars, histVars>>

\* cmd_release: the spirit leaves without its gear, once the death is stored.
Release ==
    /\ Owner \in online /\ ghost /\ ~pendingDeath
    /\ ghost' = FALSE
    /\ UNCHANGED <<online, place, rowId, purse, pile, corpse, pendVars, snap, left,
                   writerVars, dbVars, histVars>>

\* The resurrection spell with hand_over: everything back to the owner, the
\* corpse out of the world, its row to go with the owner's next save.  A corpse
\* being deleted is not offered, and an unsettled one makes the spell fail.
Resurrect ==
    /\ Owner \in online /\ ghost /\ corpse # "unsettled"
    /\ ghost' = FALSE
    /\ IF corpse = "settled"
       THEN /\ place' = [i \in Items |-> IF place[i] = "corpse" THEN Owner ELSE place[i]]
            /\ purse' = [purse EXCEPT ![Owner] = @ + pile]
            /\ takes' = [takes EXCEPT ![Owner] = @ + pile]
            /\ pile' = 0 /\ corpse' = "gone" /\ retire' = TRUE
       ELSE UNCHANGED <<place, purse, pile, takes, corpse, retire>>
    /\ UNCHANGED <<online, rowId, pendingDeath, mark, nextSeq, removals, snap, left,
                   writerVars, dbVars, histVars>>

\* The entities of S leave the world.
Despawned(S) ==
    /\ place' = [i \in Items |-> IF i \in S THEN "gone" ELSE place[i]]
    /\ rowId' = [i \in Items |-> IF i \in S THEN 0 ELSE rowId[i]]

DeleteOp(waiting) == [op |-> "Delete", waiting |-> waiting, ids |-> {}]
ItemsOp(ids) == [op |-> "DeleteItems", waiting |-> FALSE, ids |-> ids]

\* purge_player_corpse: the corpse and all in it, once nothing of it is still
\* on its way to the database.  The row goes through the observer's Delete.
Purge ==
    /\ "purge" \in scene.features /\ corpse = "settled" /\ ~PendingLoot("nobody")
    /\ Despawned(Contents)
    /\ corpse' = "gone" /\ pile' = 0 /\ spent' = (spent \/ pile > 0)
    /\ ops' = Append(ops, DeleteOp(FALSE))
    /\ UNCHANGED <<online, purse, ghost, pendVars, snap, left, finished,
                   dbVars, packed, quits, forsaken, missed, handed, twice, scene>>

\* Mutant: the decay does not wait for the looters' saves.
DecayBegins_AnyTime ==
    /\ "decay" \in scene.features /\ corpse = "settled"
    /\ corpse' = "deleting" /\ spent' = (spent \/ pile > 0)
    /\ ops' = Append(ops, DeleteOp(TRUE))
    /\ UNCHANGED <<online, place, rowId, purse, pile, ghost, pendVars, snap, left,
                   finished, dbVars, packed, quits, forsaken, missed, handed, twice, scene>>

\* corpse_decay_tick and begin_decay_delete: the time is up (it never is for a
\* corpse that has not settled: PLAYER_CORPSE_DECAY_SECS is a week).
DecayBegins ==
    /\ "decay" \in scene.features /\ corpse = "settled" /\ ~PendingLoot("nobody")
    /\ corpse' = "deleting" /\ spent' = (spent \/ pile > 0)
    /\ ops' = Append(ops, DeleteOp(TRUE))
    /\ UNCHANGED <<online, place, rowId, purse, pile, ghost, pendVars, snap, left,
                   finished, dbVars, packed, quits, forsaken, missed, handed, twice, scene>>

\* take_decayed with expire_corpse: the rows are gone, what is in the corpse
\* falls to the room.  After a failed delete the corpse is an ordinary one.
TakeDecayed ==
    /\ finished # "no" /\ finished' = "no"
    /\ IF finished = "Deleted"
       THEN /\ corpse' = "gone" /\ pile' = 0 /\ UNCHANGED spent
            /\ place' = [i \in Items |-> IF place[i] = "corpse" THEN "room" ELSE place[i]]
       ELSE corpse' = "settled" /\ spent' = (DbCoins = 0) /\ UNCHANGED <<place, pile>>
    /\ UNCHANGED <<online, rowId, purse, ghost, pendVars, snap, left, ops, dbVars,
                   packed, quits, forsaken, missed, handed, twice, scene>>

\* Mutant: a row in a corpse that has not settled is deleted at once.
Rot_AtOnce(i) ==
    /\ "rot" \in scene.features /\ place[i] = "corpse" /\ rowId[i] # 0
    /\ Despawned({i})
    /\ IF corpse = "deleting" THEN UNCHANGED ops
       ELSE ops' = Append(ops, ItemsOp({rowId[i]}))
    /\ UNCHANGED <<online, purse, pile, corpse, ghost, pendVars, snap, left, finished,
                   dbVars, histVars>>

\* An item with a row falls apart inside the corpse: the PersistedItemId
\* observer deletes its row, or remembers to until the death has committed.
Rot(i) ==
    /\ "rot" \in scene.features /\ place[i] = "corpse" /\ rowId[i] # 0
    /\ Despawned({i})
    /\ removals' = IF corpse = "unsettled" THEN removals \cup {rowId[i]} ELSE removals
    /\ ops' = IF corpse = "settled" THEN Append(ops, ItemsOp({rowId[i]})) ELSE ops
    /\ UNCHANGED <<online, purse, pile, corpse, ghost, pendingDeath, retire,
                   takes, mark, nextSeq, snap, left, finished, dbVars, histVars>>

\* give_one between players: nobody is saved.  (Bound: once for each item.)
Give(p, q, i) ==
    /\ "give" \in scene.features /\ handed[i] = "no"
    /\ p \in online /\ q \in online \ {p} /\ place[i] = p
    /\ place' = [place EXCEPT ![i] = q]
    /\ handed' = [handed EXCEPT ![i] = IF Unsettled(p) THEN "busy" ELSE "calm"]
    /\ UNCHANGED <<online, rowId, purse, pile, corpse, ghost, pendVars, snap, left,
                   writerVars, dbVars, packed, quits, spent, forsaken, missed, twice, scene>>

-----------------------------------------------------------------------------
(* Saves.                                                                  *)

\* snapshot_player: the pack; after a death the corpse and its contents; what
\* this player owes corpses, except a retirement that would take the rows of
\* another looter with it.
SnapshotOf(p, quit) ==
    LET death == p = Owner /\ pendingDeath
    IN  [at |-> "writing", quit |-> quit, held |-> Held(p),
         inCorpse |-> IF death THEN Contents ELSE {},
         ids |-> [i \in Items |-> IF place[i] = p \/ (death /\ place[i] = "corpse")
                                 THEN rowId[i] ELSE 0],
         purse |-> purse[p], ghost |-> p = Owner /\ ghost,
         death |-> death, pile |-> IF death THEN pile ELSE 0, takes |-> takes[p],
         mark |-> mark[p], new |-> NoIds,
         retire |-> p = Owner /\ retire /\ ~PendingLoot(Owner)]

\* Mutant: the snapshot takes the death off the player, who has no other.
Save_TakesDeath(p) ==
    /\ p \in online /\ ~Unsettled(p)
    /\ snap' = [snap EXCEPT ![p] = SnapshotOf(p, FALSE)]
    /\ pendingDeath' = (pendingDeath /\ p # Owner)
    /\ UNCHANGED <<worldVars, retire, takes, mark, nextSeq, removals, left, writerVars,
                   dbVars, histVars>>

\* A save of a character in the world: asked for by save_player_soon, by the
\* save command or due by the autosave interval.
Save(p) ==
    /\ p \in online /\ ~Unsettled(p)
    /\ snap' = [snap EXCEPT ![p] = SnapshotOf(p, FALSE)]
    /\ UNCHANGED <<worldVars, pendVars, left, writerVars, dbVars, histVars>>

\* retire_player with a free turn: what is committed has been folded in, a
\* background save that has yet to get the turn is left behind; the last
\* snapshot, then the entity and all it carries leave.
Quit(p) ==
    /\ p \in online /\ snap[p].at # "committed" /\ quits < scene.quits
    /\ left' = [left EXCEPT ![p] = snap[p]]
    /\ snap' = [snap EXCEPT ![p] = SnapshotOf(p, TRUE)]
    /\ packed' = [packed EXCEPT ![p] = Held(p)]
    /\ quits' = quits + 1
    /\ online' = online \ {p}
    /\ Despawned(Held(p))
    /\ purse' = [purse EXCEPT ![p] = 0]
    /\ takes' = [takes EXCEPT ![p] = 0]
    /\ IF p = Owner THEN pendingDeath' = FALSE /\ retire' = FALSE /\ ghost' = FALSE
                    ELSE UNCHANGED <<pendingDeath, retire, ghost>>
    /\ UNCHANGED <<pile, corpse, mark, nextSeq, removals, writerVars, dbVars, spent,
                   forsaken, missed, handed, twice, scene>>

\* Step 1 of save_inventory_diff: what is no longer carried is deleted.  Rows
\* filed under a corpse are not part of the pack.
Dropped(p, s) ==
    {r \in PackRows(p) : \A i \in s.held \cup s.inCorpse : s.ids[i] # r.id}

\* Mutant: a row taken out of the corpse stays filed under it.
Row_StaysFiled(i, id, p, s) ==
    [id |-> id, item |-> i, char |-> p,
     filed |-> i \in s.inCorpse \/ \E r \in rows : r.id = id /\ r.filed]

\* The row of an entry after the save.
Row(i, id, p, s) == [id |-> id, item |-> i, char |-> p, filed |-> i \in s.inCorpse]

\* Step 2: every entry updates and re-homes its row, or, without one, is
\* inserted under a new id.
SaveInventory(p, s, new) ==
    LET entries == s.held \cup s.inCorpse
        kept == rows \ Dropped(p, s)
        known == {i \in entries : \E r \in kept : r.id = s.ids[i]}
    IN  (kept \ {r \in kept : \E i \in known : r.id = s.ids[i]})
          \cup {Row(i, s.ids[i], p, s) : i \in known}
          \cup {Row(i, new[i], p, s) : i \in entries \ known}

Inserted(p, s) ==
    {i \in s.held \cup s.inCorpse : ~ \E r \in rows \ Dropped(p, s) : r.id = s.ids[i]}

\* The ids of the rows inserted for N.
FreshIds(N, new) ==
    /\ \A i \in Items : (new[i] # 0) = (i \in N)
    /\ \A i \in N : new[i] >= nextRow /\ new[i] < nextRow + Cardinality(N)
    /\ \A i, j \in N : new[i] = new[j] => i = j

\* Mutant: the purse is saved, the corpse not debited.
CoinsLeft_NotDebited(coins, n) == coins
\* GREATEST(coins - n, 0)
CoinsLeft(coins, n) == IF coins > n THEN coins - n ELSE 0

\* write_snapshot commits s: the character with its purse, the corpse of its
\* death, its rows, the coins taken from the corpse, the corpse given back.
Written(p, s, new) ==
    LET N == Inserted(p, s)
        coins == IF s.death THEN s.pile ELSE dbCorpse
        all == SaveInventory(p, s, new)
    IN  /\ nextRow + Cardinality(N) <= MaxRow + 1 /\ FreshIds(N, new)
        /\ rows' = IF s.retire THEN {r \in all : ~r.filed} ELSE all
        /\ nextRow' = nextRow + Cardinality(N)
        /\ dbPurse' = [dbPurse EXCEPT ![p] = s.purse]
        /\ dbGhost' = IF p = Owner THEN s.ghost ELSE dbGhost
        /\ dbCorpse' = IF s.retire THEN -1
                       ELSE IF coins < 0 THEN coins ELSE CoinsLeft(coins, s.takes)

\* A save is written.  One left behind that still waits is stale; one that came
\* first with the same death has inserted its corpse already, and this is the
\* second (the next start's two corpses are not followed).
Commit(p) ==
    /\ snap[p].at = "writing"
    /\ \E new \in [Items -> 0 .. MaxRow] :
          /\ Written(p, snap[p], new)
          /\ snap' = [snap EXCEPT ![p].at = "committed", ![p].new = new]
    /\ left' = IF left[p].at = "writing" THEN [left EXCEPT ![p] = NoSnap] ELSE left
    /\ twice' = (twice \/ (snap[p].death /\ left[p].at # "writing" /\ left[p].death))
    /\ UNCHANGED <<worldVars, pendVars, writerVars, packed, quits, spent, forsaken, missed,
                   handed, scene>>

\* The first write of a last save has failed, and the save left behind, ahead of
\* the retry in the turn's queue, is written.
LeftCommits(p) ==
    /\ "fail" \in scene.features /\ snap[p].at = "writing" /\ left[p].at = "writing"
    /\ \E new \in [Items -> 0 .. MaxRow] :
          /\ Written(p, left[p], new)
          /\ left' = [left EXCEPT ![p].at = "committed", ![p].new = new]
    /\ UNCHANGED <<worldVars, pendVars, snap, writerVars, histVars>>

\* A save in the world, or one left behind, fails and is given up for the next.
SaveFails(p) ==
    /\ "fail" \in scene.features /\ snap[p].at = "writing"
    /\ \/ ~snap[p].quit /\ snap' = [snap EXCEPT ![p] = NoSnap] /\ UNCHANGED left
       \/ left[p].at = "writing" /\ left' = [left EXCEPT ![p] = NoSnap] /\ UNCHANGED snap
    /\ UNCHANGED <<worldVars, pendVars, writerVars, dbVars, histVars>>

\* retry_snapshot: the delays of QUIT_RETRY_BACKOFF are used up, the last save
\* is lost, the marks of its looter with it (after the sweep's grace).  A death
\* that was in it is never stored: nobody can open its corpse, and what is in
\* it has its rows in Owner's pack as before (the copies are not followed).
GiveUp(p) ==
    /\ "fail" \in scene.features /\ snap[p].at = "writing" /\ snap[p].quit
    /\ left[p].at \notin {"writing", "committed"}
    /\ snap' = [snap EXCEPT ![p] = NoSnap] /\ left' = [left EXCEPT ![p] = NoSnap]
    /\ mark' = [mark EXCEPT ![p] = 0]
    /\ IF snap[p].death /\ corpse = "unsettled"
       THEN corpse' = "stranded" /\ pile' = 0 /\ removals' = {} /\ Despawned(Contents)
       ELSE UNCHANGED <<corpse, pile, removals, place, rowId>>
    /\ packed' = [packed EXCEPT ![p] = {r.item : r \in PackRows(p)}]
    /\ forsaken' = (forsaken \/ snap[p].takes > 0)
    /\ missed' = TRUE
    /\ handed' = [i \in Items |-> IF handed[i] = "calm" THEN "busy" ELSE handed[i]]
    /\ UNCHANGED <<online, purse, ghost, pendingDeath, retire, takes, nextSeq, writerVars,
                   dbVars, quits, spent, twice, scene>>

\* Whose id apply_commit stamps: an item still with the player or in the
\* corpse of this death, its id untouched since the snapshot.
Stamped(p, s) ==
    {i \in Items : /\ s.new[i] # 0 /\ rowId[i] = s.ids[i]
                   /\ place[i] = p \/ (s.death /\ place[i] = "corpse")}

\* settle_loot: a take made after the snapshot keeps its mark.
MarkAfter(p, s) == IF mark[p] = s.mark THEN 0 ELSE mark[p]

\* apply_commit: ids stamped, the corpse settled with what fell apart in it
\* meanwhile, and what the commit paid off is no longer owed.
FoldedIn(p, s) ==
    LET settles == s.death /\ corpse = "unsettled"
    IN  /\ rowId' = [i \in Items |-> IF i \in Stamped(p, s) THEN s.new[i] ELSE rowId[i]]
        /\ corpse' = IF settles THEN "settled" ELSE corpse
        /\ ops' = IF settles /\ removals # {} THEN Append(ops, ItemsOp(removals)) ELSE ops
        /\ removals' = IF settles THEN {} ELSE removals
        /\ pendingDeath' = (pendingDeath /\ ~s.death)
        /\ takes' = [takes EXCEPT ![p] = CoinsLeft(@, s.takes)]
        /\ retire' = (retire /\ ~s.retire)
        /\ mark' = [mark EXCEPT ![p] = MarkAfter(p, s)]
        /\ UNCHANGED <<online, place, purse, pile, ghost, nextSeq, finished, dbVars,
                       histVars>>

\* apply_completions, in the order of the commits.
ApplyCommit(p) ==
    /\ snap[p].at = "committed" /\ left[p].at # "committed"
    /\ snap' = [snap EXCEPT ![p] = NoSnap] /\ left' = [left EXCEPT ![p] = NoSnap]
    /\ FoldedIn(p, snap[p])

LeftApplies(p) ==
    /\ left[p].at = "committed"
    /\ left' = [left EXCEPT ![p].at = "folded"] /\ UNCHANGED snap
    /\ FoldedIn(p, left[p])

\* spawn_character and spawn_inventory, once the last save has settled.
Login(p) ==
    LET mine == PackRows(p)
        Loaded(i) == {r \in mine : r.item = i}
    IN  /\ p \notin online /\ ~Unsettled(p)
        /\ online' = online \cup {p}
        /\ place' = [i \in Items |-> IF Loaded(i) # {} THEN p ELSE place[i]]
        /\ rowId' = [i \in Items |-> IF Loaded(i) # {}
                                     THEN (CHOOSE r \in Loaded(i) : TRUE).id ELSE rowId[i]]
        /\ purse' = [purse EXCEPT ![p] = dbPurse[p]]
        /\ ghost' = IF p = Owner THEN dbGhost ELSE ghost
        /\ UNCHANGED <<pile, corpse, pendVars, snap, left, writerVars, dbVars, histVars>>

-----------------------------------------------------------------------------
(* The task that applies corpse deletes, and the end of the process.       *)

\* The writer applies the next operation: the corpse row and, by cascade, all
\* item rows still filed under it; or the rows of destroyed items.
OpDone ==
    LET o == Head(ops)
    IN  /\ ops # <<>> /\ ops' = Tail(ops)
        /\ IF o.op = "Delete"
           THEN /\ rows' = {r \in rows : ~r.filed} /\ dbCorpse' = -1
                /\ finished' = IF o.waiting THEN "Deleted" ELSE finished
           ELSE /\ rows' = {r \in rows : ~(r.filed /\ r.id \in o.ids)}
                /\ UNCHANGED <<dbCorpse, finished>>
        /\ UNCHANGED <<worldVars, pendVars, snap, left, nextRow, dbPurse, dbGhost, histVars>>

\* It fails: only a decaying corpse hears of it.
OpFails ==
    /\ "fail" \in scene.features /\ ops # <<>> /\ ops' = Tail(ops)
    /\ finished' = IF Head(ops).waiting THEN "DeleteFailed" ELSE finished
    /\ missed' = TRUE
    /\ UNCHANGED <<worldVars, pendVars, snap, left, dbVars, packed, quits, spent, forsaken,
                   handed, twice, scene>>

\* The process dies, another loads the world: load_from_db brings back the
\* corpse as the rows have it, everybody is out of the game.
Crash ==
    LET InCorpse(i) == {r \in CorpseRows : r.item = i}
    IN  /\ "crash" \in scene.features /\ ~twice
        /\ quits < scene.quits /\ quits' = quits + 1
        /\ online' = {} /\ purse' = [p \in Players |-> 0] /\ ghost' = FALSE
        /\ place' = [i \in Items |-> IF InCorpse(i) # {} THEN "corpse" ELSE "gone"]
        /\ rowId' = [i \in Items |-> IF InCorpse(i) # {}
                                     THEN (CHOOSE r \in InCorpse(i) : TRUE).id ELSE 0]
        /\ corpse' = IF dbCorpse < 0 THEN "none" ELSE "settled"
        /\ pile' = IF dbCorpse < 0 THEN 0 ELSE dbCorpse
        /\ pendingDeath' = FALSE /\ retire' = FALSE
        /\ takes' = [p \in Players |-> 0] /\ mark' = [p \in Players |-> 0]
        /\ removals' = {} /\ nextSeq' = 1
        /\ snap' = [p \in Players |-> NoSnap] /\ left' = [p \in Players |-> NoSnap]
        /\ ops' = <<>> /\ finished' = "no"
        /\ packed' = [p \in Players |-> {r.item : r \in PackRows(p)}]
        /\ spent' = (DbCoins = 0) /\ forsaken' = FALSE
        /\ UNCHANGED <<dbVars, missed, handed, twice, scene>>

Next ==
    \/ Die \/ Release \/ Resurrect \/ Purge \/ DecayBegins \/ TakeDecayed
    \/ OpDone \/ OpFails \/ Crash
    \/ \E i \in Items : Rot(i)
    \/ \E p \in Players : \/ Loot(p) \/ Save(p) \/ Quit(p) \/ Commit(p) \/ SaveFails(p)
                          \/ GiveUp(p) \/ LeftCommits(p) \/ LeftApplies(p)
                          \/ ApplyCommit(p) \/ Login(p)
                          \/ \E q \in Players, i \in Items : Give(p, q, i)

Fairness ==
    /\ WF_vars(OpDone) /\ WF_vars(TakeDecayed)
    /\ \A p \in Players :
          /\ WF_vars(Save(p)) /\ WF_vars(ApplyCommit(p)) /\ WF_vars(LeftApplies(p))
          \* A last save ends after its retries; others come again and again, and
          \* one of them gets through.
          /\ WF_vars(Commit(p) \/ GiveUp(p)) /\ SF_vars(Commit(p) /\ ~snap[p].quit)

Spec == Init /\ [][Next]_vars /\ Fairness

-----------------------------------------------------------------------------
(* Properties.                                                             *)

\* Every variable has its type, and a looter who is gone and settled holds no
\* mark: forget_looter, and the sweep of the last save's commit.
TypeOK ==
    /\ online \subseteq Players
    /\ place \in [Items -> Players \cup {"corpse", "room", "gone"}]
    /\ rowId \in [Items -> 0 .. MaxRow]
    /\ purse \in [Players -> 0 .. 1] /\ pile \in 0 .. 1
    /\ corpse \in {"none", "unsettled", "settled", "deleting", "gone", "stranded"}
    /\ ghost \in BOOLEAN /\ pendingDeath \in BOOLEAN /\ retire \in BOOLEAN
    /\ takes \in [Players -> 0 .. 1] /\ mark \in [Players -> 0 .. MaxSeq]
    /\ \A p \in Players : ~Unsettled(p) /\ p \notin online => mark[p] = 0
    /\ \A p \in Players : left[p].at \in {"none", "writing", "committed", "folded"}
    /\ rows \subseteq [id : 1 .. MaxRow, item : Items, char : Players, filed : BOOLEAN]
    /\ dbPurse \in [Players -> 0 .. 1] /\ dbCorpse \in -1 .. 1

\* The database's side and the world's agree on every item, whatever the order
\* in which the saves of owner and looters and the corpse's writer commit, fail,
\* are left behind or given up.  No item is stored twice, unless it changed hands
\* during a save (StaleHandover) or its corpse was inserted twice (DeathAndQuit).
\* An item that carries a row id, in somebody's pack or in a corpse that is not
\* being deleted, has that row: no cascade, no stale delete and no save of
\* another player has taken it, so a crash now cannot lose it.  (Given away, it
\* is not safe until the taker's next save.)
ItemRows ==
    /\ TypeOK
    /\ \A r, s \in rows : r.item = s.item /\ handed[r.item] # "busy" => r = s \/ twice
    /\ \A i \in Items :
        /\ rowId[i] # 0 /\ handed[i] = "no"
        /\ place[i] \in Players \/ (place[i] = "corpse" /\ corpse # "deleting")
        => twice \/ \E r \in rows : r.id = rowId[i] /\ r.item = i

\* Who left the game finds exactly what they left with, and nobody else has it;
\* if the last save was given up, what the rows had before.
QuitKeepsPack ==
    \A p \in Players \ online :
        ~Unsettled(p) /\ ~twice => /\ {r.item : r \in PackRows(p)} = packed[p]
                                   /\ \A i \in packed[p] : place[i] = "gone"

\* The coins are in one place of the database, until a decay or a purge (the save
\* of who took them given up, they go with the corpse whatever its end).  Only
\* two saves that both store the death (DeathAndQuit) break it: an exit that
\* leaves such a save behind does not.
CoinsOnce == ~twice => DbCoins <= 1 /\ (~spent /\ ~forsaken => DbCoins = 1)

\* With the corpse settled and its writer idle, its rows are what is in it,
\* but for loot on its way to a looter's save.  (A looter who passes the loot on
\* takes their mark with them at their next save: the row stays filed under the
\* corpse until the holder's save.)
CorpseMatchesRows ==
    corpse = "settled" /\ ops = <<>> /\ ~missed /\ ~twice =>
        \A r \in CorpseRows : \/ place[r.item] = "corpse" \/ PendingLoot("nobody")
                            \/ handed[r.item] # "no"

\* Whatever fails on the way, a death is stored in the end and so is all loot,
\* or the last save that had it has been given up: a corpse never waits for a
\* save that nobody makes, and is never held for a looter for good.
CorpseRests ==
    corpse = "unsettled" \/ PendingLoot("nobody")
        ~> corpse # "unsettled" /\ ~PendingLoot("nobody")
=============================================================================
