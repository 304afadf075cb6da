------------------------------ MODULE MCLogins ------------------------------
EXTENDS Logins, TLC

CONSTANTS c1, c2, elda, gorm, kest, newt, ann, bob, cora, k1, k2

\* gorm is a legacy character without an account; bob has no account yet.
MCOwner0 == (elda :> ann) @@ (kest :> cora) @@ (gorm :> NoUser)

\* Two connections for one character; one connection with two codes in turn, and
\* with an account's and a legacy character's code; two creators of one name.
Duel == [conns |-> {c1, c2}, idents |-> {elda}, quota |-> 0]
Codes2 == [conns |-> {c1}, idents |-> {elda, bob}, quota |-> 2]
Approvals == [conns |-> {c1}, idents |-> {gorm, ann}, quota |-> 1]
Creation == [conns |-> {c1, c2}, idents |-> {newt, bob}, quota |-> 0]

MCScenarios == {Duel, Codes2, Approvals, Creation}
=============================================================================
