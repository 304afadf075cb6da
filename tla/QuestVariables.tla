-------------------------- MODULE QuestVariables --------------------------
(***************************************************************************)
(* The script variables of one character's quest, in their two copies.     *)
(*                                                                         *)
(* Scripts read and write a bag of the QuestVariableCache; a tick drains   *)
(* the bags that were written and a task merges them, key by key, into     *)
(* CharacterQuest.variables.  The same column holds the list of rewards    *)
(* already claimed with qreward, which is written to the row alone.        *)
(***************************************************************************)
EXTENDS Integers, FiniteSets, FiniteSetsExt, Functions, Sequences

CONSTANTS
    Rewards,    \* rewards that are claimed with qreward
    Values,     \* what scripts store
    Flushers,   \* bound: places for flush tasks in flight
    Tomb        \* the None of a bag: delete at the next flush

VARIABLES
    variables,  \* CharacterQuest.variables: some keys and their values
    bag,        \* QuestVariableCache::inner of the quest
    dirty,      \* QuestVariableCache::dirty has the quest
    flush,      \* the flush tasks: [sets, clears, old], NoFlush in a free place
    stale       \* history: keys whose row is not, and will not be, what the cache says

vvars == <<variables, bag, dirty, flush, stale>>

\* The keys of a bag: one a script uses, and CLAIMED_REWARDS_VAR.
Stage == "stage"
Claimed == "claimed_rewards"

None == <<>>
NoFlush == [sets |-> None, clears |-> {}, old |-> TRUE]

ValuesOf(k) == IF k = Claimed THEN SUBSET Rewards ELSE Values

\* f where it is defined, else g (TLC's @@ is opaque to the prover).
Over(f, g) == [k \in DOMAIN f \cup DOMAIN g |-> IF k \in DOMAIN f THEN f[k] ELSE g[k]]
Single(k, v) == [j \in {k} |-> v]

\* Some of the keys, each with a value of its own; a tombstone only in the cache.
IsRow(b) ==
    /\ DOMAIN b \subseteq {Stage, Claimed}
    /\ \A k \in DOMAIN b : b[k] \in ValuesOf(k)
IsBag(b) ==
    /\ DOMAIN b \subseteq {Stage, Claimed}
    /\ \A k \in DOMAIN b : b[k] \in ValuesOf(k) \cup {Tomb}

VariablesTypeOK ==
    /\ IsRow(variables) /\ IsBag(bag)
    /\ dirty \in BOOLEAN
    /\ flush = [f \in Flushers |-> flush[f]]
    /\ \A f \in Flushers : /\ flush[f] = [sets |-> flush[f].sets, clears |-> flush[f].clears,
                                       old |-> flush[f].old]
                         /\ IsRow(flush[f].sets)
                         /\ flush[f].clears \subseteq {Stage, Claimed}
                         /\ flush[f].old \in BOOLEAN
    /\ stale \subseteq {Stage, Claimed}

\* The claim list of the row.
ClaimedRewards == IF Claimed \in DOMAIN variables THEN variables[Claimed] ELSE {}

\* What a reader of key k sees, {} when it is absent or about to be deleted.
Seen(b, k) == {b[j] : j \in {i \in DOMAIN b : i = k /\ b[i] # Tomb}}

-----------------------------------------------------------------------------
\* quest:setvar and quest:clearvar touch the bag alone and mark it.
SetVar ==
    /\ \E v \in Values : bag' = Over(Single(Stage, v), bag)
    /\ dirty' = TRUE
    /\ UNCHANGED <<variables, flush, stale>>

\* Mutant: the key is just dropped.
ClearVar_NoTombstone ==
    /\ bag' = Restrict(bag, DOMAIN bag \ {Stage})
    /\ dirty' = TRUE
    /\ UNCHANGED <<variables, flush, stale>>

ClearVar ==
    /\ bag' = Over(Single(Stage, Tomb), bag)
    /\ dirty' = TRUE
    /\ UNCHANGED <<variables, flush, stale>>

\* The flush tasks once a newer one, or a new run of the quest, has overtaken them.
Overtaken == [f \in Flushers |-> [flush[f] EXCEPT !.old = TRUE]]

FreeFlusher == CHOOSE f \in Flushers : flush[f] = NoFlush

\* A dirty bag is handed to a task whole; its tombstones leave the bag.  Nothing
\* waits for the tasks of earlier ticks.
FlushTick ==
    LET dead == {k \in DOMAIN bag : bag[k] = Tomb}
        live == Restrict(bag, DOMAIN bag \ dead)
    IN /\ dirty
       /\ \E f \in Flushers : flush[f] = NoFlush
       /\ flush' = [Overtaken EXCEPT ![FreeFlusher] =
                      [sets |-> live, clears |-> dead, old |-> FALSE]]
       /\ bag' = live
       /\ dirty' = FALSE
       /\ UNCHANGED <<variables, stale>>

Keys(task) == DOMAIN task.sets \cup task.clears

\* flush_one: the row is looked up and each key written.  Without a row nothing is; a
\* statement that fails loses its key, a lookup that fails all of them, for good: the
\* bag is clean.  What an overtaken task writes is not the newest.
FlushWrites(f, exists, lost) ==
    LET task == flush[f]
        written == IF exists THEN Keys(task) \ lost ELSE {}
        sets == Restrict(task.sets, DOMAIN task.sets \cap written)
        kept == Restrict(variables, DOMAIN variables \ (task.clears \cap written))
    IN /\ task # NoFlush
       /\ flush' = [flush EXCEPT ![f] = NoFlush]
       /\ variables' = Over(sets, kept)
       /\ stale' = IF task.old THEN stale \cup written
                   ELSE (stale \cup Keys(task)) \ written
       /\ UNCHANGED <<bag, dirty>>

\* What the row keeps that the cache no longer knows.
Unknown(vs) == DOMAIN vs \ {Claimed}

\* reset_quest: nothing of the last run is kept, or flushed later; a task that is
\* out already is not called back.
ResetQuest ==
    /\ bag' = None
    /\ dirty' = FALSE
    /\ flush' = Overtaken
    /\ stale' = Unknown(variables')

\* The row begins empty, whatever the cache has.
ClearRow ==
    /\ variables' = None
    /\ stale' = {k \in DOMAIN bag : bag[k] # Tomb}

\* Mutant: the claim list as well.
Hydrate_Claims ==
    /\ bag' = variables
    /\ dirty' = FALSE
    /\ flush' = [f \in Flushers |-> NoFlush]
    /\ stale' = {}
    /\ UNCHANGED variables

\* The boot loads every bag but the claim list.
Hydrate ==
    /\ bag' = Restrict(variables, DOMAIN variables \ {Claimed})
    /\ dirty' = FALSE
    /\ flush' = [f \in Flushers |-> NoFlush]
    /\ stale' = {}
    /\ UNCHANGED variables
=============================================================================
