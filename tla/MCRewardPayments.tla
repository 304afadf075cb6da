------------------------- MODULE MCRewardPayments -------------------------
(***************************************************************************)
(* Small instances of RewardPayments: payers of gold and of an item, a     *)
(* queue with room for one update or two.                                  *)
(***************************************************************************)
EXTENDS RewardPayments

CONSTANTS gold, gold2, item

\* Room for one update: gold and an item compete for it.  Room for all: gold
\* alone, to a shutdown with failing saves; an item alone, to a shutdown.
Contended == [payers |-> {gold, item}, cap |-> 1,
              features |-> {"other", "payfail", "grantfail"}]
Stopping == [payers |-> {gold, gold2}, cap |-> 2, features |-> {"savefail", "shutdown"}]
Ending == [payers |-> {item}, cap |-> 1, features |-> {"grantfail", "shutdown"}]
MCScenes == {Contended, Stopping, Ending}
=============================================================================
