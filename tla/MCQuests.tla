------------------------------ MODULE MCQuests ------------------------------
(***************************************************************************)
(* Quests for TLC.                                                         *)
(***************************************************************************)
EXTENDS Quests

CONSTANTS k, l, c, r1, r2

\* Two of a kind to collect, by a player whose pack, link and server are not
\* steady.
Collector == [pack |-> 0, room |-> 2, phases |-> <<{c}>>, collect |-> {c}, need |-> 2, repeatable |-> FALSE,
              status |-> "active", failing |-> {"lookup", "rows", "record", "release", "pay"},
              features |-> {"items", "relog", "crash"}]
\* Two phases of kills that are taken up, dropped and repeated.
Racer == [pack |-> 0, room |-> 3, phases |-> <<{k}, {l}>>, collect |-> {}, need |-> 1, repeatable |-> TRUE,
          status |-> "none", failing |-> {},
          features |-> {"accept", "abandon", "timeout"}]
\* A kill, then an item that is in the pack already, against the clock.
Finder == [pack |-> 2, room |-> 2, phases |-> <<{k}, {c}>>, collect |-> {c}, need |-> 1, repeatable |-> FALSE,
           status |-> "none", failing |-> {}, features |-> {"accept", "limit"}]
\* Staff complete, reset and assign while the quest is being played.
Staffed == [pack |-> 0, room |-> 2, phases |-> <<{k}>>, collect |-> {}, need |-> 1, repeatable |-> FALSE,
            status |-> "none", failing |-> {},
            features |-> {"accept", "staff"}]
\* A completed quest whose rewards are claimed, scripts that store variables.
Claimant == [pack |-> 0, room |-> 2, phases |-> <<{k}>>, collect |-> {}, need |-> 1, repeatable |-> FALSE,
             status |-> "completed", failing |-> {"flush"},
             features |-> {"claim", "script", "crash"}]
\* Scripts store variables of a quest that is not held yet, given up, taken again.
Scripted == [pack |-> 0, room |-> 1, phases |-> <<{k}>>, collect |-> {}, need |-> 1, repeatable |-> FALSE,
             status |-> "none", failing |-> {"flush"},
             features |-> {"accept", "abandon", "script"}]
MCScenes == {Collector, Racer, Finder, Staffed, Claimant, Scripted}
=============================================================================
