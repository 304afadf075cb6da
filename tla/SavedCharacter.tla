--------------------------- MODULE SavedCharacter ---------------------------
(***************************************************************************)
(* What the save machinery promises about one character, without tasks,    *)
(* turns or generations: the stored state only moves forward and never     *)
(* past what the character has been, and a session starts from the state   *)
(* the previous one ended with, unless that state was given up on loudly.  *)
(***************************************************************************)
EXTENDS Naturals

VARIABLES
    present,    \* the character is in the world
    latest,     \* version of its state, or of the state it left with
    stored,     \* version the database holds
    abandoned   \* the server has logged that `latest` will not be stored

vars == <<present, latest, stored, abandoned>>

Init == present = FALSE /\ latest = 0 /\ stored = 0 /\ abandoned = FALSE

\* A login: nothing may be missing from the database.
Enter ==
    /\ ~present
    /\ stored = latest \/ abandoned
    /\ present' = TRUE /\ latest' = stored /\ abandoned' = FALSE
    /\ UNCHANGED stored

Change ==
    /\ present
    /\ latest' \in Nat /\ latest' > latest
    /\ UNCHANGED <<present, stored, abandoned>>

\* Some save lands: the database catches up, partly or wholly.
Save ==
    /\ stored' \in Nat /\ stored < stored' /\ stored' <= latest
    /\ UNCHANGED <<present, latest, abandoned>>

Leave ==
    /\ present /\ present' = FALSE
    /\ UNCHANGED <<latest, stored, abandoned>>

GiveUp ==
    /\ ~abandoned /\ abandoned' = TRUE
    /\ UNCHANGED <<present, latest, stored>>

\* The process dies, or exits after its last save: what was not stored is lost.
Die ==
    /\ present' = FALSE /\ latest' = stored /\ abandoned' = FALSE
    /\ UNCHANGED stored

Next == Enter \/ Change \/ Save \/ Leave \/ GiveUp \/ Die

Spec == Init /\ [][Next]_vars
=============================================================================
