----------------------------- MODULE MCCorpses -----------------------------
(***************************************************************************)
(* Corpses for TLC: the owner of the corpse, a looter, one item.           *)
(***************************************************************************)
EXTENDS Corpses

CONSTANTS owner, looter, sword

\* A corpse through failures, decay, purge and one exit or crash; items that
\* change hands while both stay in the game.
Graveyard == [features |-> {"crash", "fail", "decay", "purge", "rot"}, quits |-> 1]
Market == [features |-> {"give"}, quits |-> 0]
MCScenes == {Graveyard, Market}

\* A hand-over, and one exit.
HandOver == {[features |-> {"give"}, quits |-> 1]}
=============================================================================
