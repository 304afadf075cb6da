----------------------------- MODULE MCCommands -----------------------------
(***************************************************************************)
(* Small instances of Commands: what the player types.                     *)
(***************************************************************************)
EXTENDS Commands

\* A caster with an alias for two spells, and a quester with an alias that goes
\* on after a quest of two stages, who also writes mail.
Caster == {<<"cast">>, <<"abort">>, <<"look">>, <<"cast", "cast">>, <<"quest", "move">>}
Writer == {<<"mail">>, <<"send">>, <<"discard">>, <<"quit">>, <<"quest", "move">>}
MCScenarios == {Caster, Writer}
=============================================================================
