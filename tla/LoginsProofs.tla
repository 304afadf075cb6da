---------------------------- MODULE LoginsProofs ----------------------------
(***************************************************************************)
(* A character in the game has one body and one connection, for any number *)
(* of connections, characters, accounts and codes.  The dialogue has many  *)
(* branches, but only six things happen to the two maps: the first lemmas  *)
(* sort every action into one of them, the later ones show that each keeps *)
(* the invariant.                                                          *)
(*                                                                         *)
(* The dialogue: a result finds its connection waiting for it, a code is   *)
(* spent on one login of the account that approved it, and a creation      *)
(* leaves whole rows and one starting kit.  A handler answers one          *)
(* connection.  `Turn` says what that may be: a new stage, a new job, or   *)
(* the end of the dialogue; the lemmas show first that each handler takes  *)
(* such a turn, then that a turn keeps the invariant.                      *)
(***************************************************************************)
EXTENDS Logins, FiniteSetTheorems, TLAPS

-----------------------------------------------------------------------------
(* Bodies.                                                                 *)

\* Only opened connections log in or play.
Opened == DOMAIN login \cup DOMAIN playing \subseteq used /\ used \subseteq Conns
BodyInv == OneBody /\ Opened

Stays ==
    /\ DOMAIN login' \subseteq DOMAIN login
    /\ UNCHANGED <<used, playing, body>>
TakesOver ==
    /\ used' = used
    /\ \E c \in DOMAIN login, ch \in DOMAIN body :
         /\ Drop(c)
         /\ playing' = With(Restrict(playing, DOMAIN playing \ {body[ch]}), c, ch)
         /\ body' = [body EXCEPT ![ch] = c]
Spawns ==
    /\ used' = used
    /\ \E c \in DOMAIN login : \E ch :
         /\ ch \notin DOMAIN body /\ Drop(c)
         /\ playing' = With(playing, c, ch) /\ body' = With(body, ch, c)
Enters == TakesOver \/ Spawns
BodyStep ==
    \/ Stays \/ Enters
    \/ \E c \in Conns : OnConnect(c) \/ OnDisconnect(c)
    \/ \E ch \in Names : BodyLeaves(ch)

\* HashMap::remove.
LEMMA Removed ==
    ASSUME NEW f, NEW S
    PROVE  DOMAIN Restrict(f, S) = S /\ \A y \in S : Restrict(f, S)[y] = f[y]
BY DEF Restrict

-----------------------------------------------------------------------------
(* What the actions do to the two maps.                                    *)

\* A prompt for a connection that is logging in.
LEMMA PutStays ==
    ASSUME NEW c \in DOMAIN login, NEW ctx, Put(c, ctx)
    PROVE  DOMAIN login' \subseteq DOMAIN login
BY DEF Put, With

LEMMA DropStays ==
    ASSUME NEW c, Drop(c)
    PROVE  DOMAIN login' \subseteq DOMAIN login
BY Removed DEF Drop

LEMMA CompleteSorts ==
    ASSUME NEW c \in DOMAIN login, NEW ch, NEW user, NEW waited, NEW rest, NEW new,
           CompleteLogin(c, ch, user, waited, rest, new), used' = used
    PROVE  Stays \/ Enters
<1>1. CASE TryTakeover(c, ch)
  BY <1>1 DEF TryTakeover, Enters, TakesOver
<1>2. CASE Park(c, "saves", ch, user, rest) /\ UNCHANGED <<playing, body, kits>>
  BY <1>2, PutStays DEF Park, Stays
<1>3. CASE RefuseLogin(c, new)
  BY <1>3, DropStays DEF RefuseLogin, Stays
<1>4. CASE ch \notin DOMAIN body /\ SpawnPlayer(c, ch, new)
  BY <1>4 DEF SpawnPlayer, Enters, Spawns
<1> QED BY <1>1, <1>2, <1>3, <1>4 DEF CompleteLogin

LEMMA PasswordSorts ==
    ASSUME NEW c \in DOMAIN login, NEW ch, NEW user, NEW rest,
           FinishPassword(c, ch, user, rest), used' = used
    PROVE  Stays \/ Enters
<1>1. CASE TurnedAway(c, rest)
  BY <1>1, PutStays DEF TurnedAway, Reprompt, Stays
<1>2. CASE CompleteLogin(c, ch, user, FALSE, rest, fresh)
  BY <1>2, CompleteSorts
<1>3. CASE /\ Put(c, [Stage(c, "CharSelect", NoName, user) EXCEPT !.list = ListFor(user)])
           /\ UNCHANGED <<playing, body, fresh, kits>>
  BY <1>3, PutStays DEF Stays
<1> QED BY <1>1, <1>2, <1>3 DEF FinishPassword

LEMMA ApprovalSorts ==
    ASSUME NEW c \in DOMAIN login, NEW ch, NEW user, NEW paid, NEW rest, used' = used,
           BeginWebApproval(c, ch, user, paid, rest) \/ BeginDecoyApproval(c, user, rest)
    PROVE  Stays
<1>1. UNCHANGED <<playing, body>>
  BY DEF BeginWebApproval, BeginDecoyApproval, Refresh
<1>2. \E ctx : Put(c, ctx)
  BY DEF BeginWebApproval, BeginDecoyApproval, Reprompt
<1> QED BY <1>1, <1>2, PutStays DEF Stays

LEMMA ResolveSorts ==
    ASSUME NEW c \in DOMAIN login, ResolveWebApproval(c), used' = used
    PROVE  Stays \/ Enters
<1>1. CASE ResolveDecoy(c)
  <2>1. login' = login \/ Reprompt(c)
    BY <1>1 DEF ResolveDecoy
  <2>2. UNCHANGED <<playing, body>>
    BY <1>1 DEF ResolveDecoy, Refresh
  <2> QED BY <2>1, <2>2, PutStays DEF Reprompt, Stays
<1>2. ASSUME NEW k, ResolveOpen(c, k)
      PROVE  Stays
  <2>1. login' = login \/ Reprompt(c)
    BY <1>2 DEF ResolveOpen
  <2>2. UNCHANGED <<playing, body>>
    BY <1>2 DEF ResolveOpen, Refresh
  <2> QED BY <2>1, <2>2, PutStays DEF Reprompt, Stays
<1>3. ASSUME Reprompt(c), Refresh
      PROVE  Stays
  BY <1>3, PutStays DEF Reprompt, Refresh, Stays
<1>4. ASSUME NEW k, ResolveLinked(c, k)
      PROVE  Stays \/ Enters
  BY <1>3, <1>4, PasswordSorts DEF ResolveLinked
<1>5. ASSUME NEW k, ResolveUnlinked(c, k)
      PROVE  Stays \/ Enters
  BY <1>3, <1>5, PasswordSorts DEF ResolveUnlinked
<1> QED BY <1>1, <1>2, <1>4, <1>5 DEF ResolveWebApproval

LEMMA LineSorts ==
    ASSUME NEW c, Line(c)
    PROVE  Stays \/ Enters
<1>1. ASSUME NEW ctx, c \in DOMAIN login, Put(c, ctx), Quiet, Refresh
      PROVE  Stays
  BY <1>1, PutStays DEF Quiet, Refresh, Stays
<1>2. CASE Identifier(c)
  BY <1>2, <1>1 DEF Identifier, Park, At
<1>3. CASE ConfirmCreate(c)
  BY <1>3, <1>1 DEF ConfirmCreate, EmailCode, Park, Reprompt, At
<1>4. CASE MenuLine(c)
  BY <1>4, <1>1 DEF MenuLine, Park
<1>5. CASE Password(c)
  BY <1>5, <1>1, ApprovalSorts DEF Password, Park, Reprompt, At, Quiet
<1>6. CASE WebApproval(c)
  BY <1>6, <1>1, ResolveSorts DEF WebApproval, Reprompt, At, Quiet
<1>7. CASE Swallow(c)
  BY <1>7 DEF Swallow, vars, routerVars, Stays
<1>8. CASE CharSelect(c)
  BY <1>8, CompleteSorts DEF CharSelect, At, Quiet
<1> QED BY <1>2, <1>3, <1>4, <1>5, <1>6, <1>7, <1>8 DEF Line

LEMMA ResultSorts ==
    ASSUME NEW j, OnAuthDone(j)
    PROVE  Stays \/ Enters
<1> DEFINE rest == jobs \ {j}
<1>1. CASE j.conn \notin DOMAIN login
  BY <1>1 DEF OnAuthDone, Quiet, routerVars, Stays
<1>2. CASE j.conn \in DOMAIN login
  <2>1. ASSUME NEW ctx, Put(j.conn, ctx), Refresh
        PROVE  Stays
    BY <1>2, <2>1, PutStays DEF OnAuthDone, Quiet, Refresh, Stays
  <2>2. CASE FinishCharLookup(j, rest)
    BY <2>2, <2>1 DEF FinishCharLookup, Reprompt, Refresh, OnAuthDone, Quiet, Stays
  <2>3. CASE FinishEmailLookup(j, rest)
    BY <1>2, <2>3, <2>1, ApprovalSorts DEF FinishEmailLookup, Reprompt, OnAuthDone, Quiet
  <2>4. CASE FinishCheck(j, rest)
    <3>1. CASE WrongPassword(j.conn, rest)
      BY <3>1, <1>2, PutStays, DropStays DEF WrongPassword, OnAuthDone, Quiet, Stays
    <3> QED BY <1>2, <2>4, <3>1, PasswordSorts DEF FinishCheck, OnAuthDone, Quiet
  <2>5. CASE FinishSaveWait(j, rest)
    <3>1. CASE RefuseLogin(j.conn, fresh)
      BY <3>1, DropStays DEF RefuseLogin, OnAuthDone, Quiet, Stays
    <3> QED BY <1>2, <2>5, <3>1, CompleteSorts DEF FinishSaveWait, OnAuthDone, Quiet
  <2>6. CASE FinishCreation(j, rest)
    BY <1>2, <2>6, <2>1, CompleteSorts DEF FinishCreation, Reprompt, OnAuthDone, Quiet
  <2> QED BY <1>2, <2>2, <2>3, <2>4, <2>5, <2>6 DEF OnAuthDone
<1> QED BY <1>1, <1>2

LEMMA NextSorts ==
    ASSUME [Next]_vars
    PROVE  BodyStep
<1>1. CASE UNCHANGED vars
  BY <1>1 DEF vars, routerVars, Stays, BodyStep
<1>2. ASSUME NEW c \in Conns, OnConnect(c) \/ OnDisconnect(c)
      PROVE  BodyStep
  BY <1>2 DEF BodyStep
<1>3. ASSUME NEW c \in Conns, Line(c)
      PROVE  BodyStep
  BY <1>3, LineSorts DEF BodyStep
<1>4. ASSUME NEW c \in Conns, ClockTicks(c) \/ Poll(c)
      PROVE  Stays
  BY <1>4, PutStays DEF ClockTicks, Poll, At, Quiet, Stays
<1>5. ASSUME NEW j, RunJob(j)
      PROVE  Stays
  BY <1>5 DEF RunJob, Quiet, routerVars, Stays
<1>6. ASSUME NEW j, OnAuthDone(j)
      PROVE  BodyStep
  BY <1>6, ResultSorts DEF BodyStep
<1>7. ASSUME NEW c, NEW k, Wake(c, k)
      PROVE  Stays \/ Enters
  BY <1>7, ResolveSorts DEF Wake, Showing, At, Quiet, Stays
<1>8. ASSUME NEW k, ExpireTask(k)
      PROVE  Stays
  BY <1>8 DEF ExpireTask, Quiet, routerVars, Stays
<1>9. ASSUME NEW ch \in Names, BodyLeaves(ch)
      PROVE  BodyStep
  BY <1>9 DEF BodyStep
<1>10. ASSUME Website
       PROVE  Stays
  BY <1>10 DEF Website, Quiet, routerVars, Stays
<1> QED BY <1>1, <1>2, <1>3, <1>4, <1>5, <1>6, <1>7, <1>8, <1>9, <1>10 DEF Next, BodyStep

-----------------------------------------------------------------------------
(* Each of them keeps the invariant.                                       *)

LEMMA StaysKeeps ==
    ASSUME BodyInv, Stays
    PROVE  BodyInv'
BY DEF BodyInv, OneBody, Opened, Stays

\* The new connection was logging in, so it played nothing; the old one played
\* this body alone.
LEMMA TakeoverKeeps ==
    ASSUME BodyInv, TakesOver
    PROVE  BodyInv'
<1> PICK c \in DOMAIN login, ch \in DOMAIN body :
        /\ Drop(c)
        /\ playing' = With(Restrict(playing, DOMAIN playing \ {body[ch]}), c, ch)
        /\ body' = [body EXCEPT ![ch] = c]
  BY DEF TakesOver
<1> DEFINE kept == Restrict(playing, DOMAIN playing \ {body[ch]})
<1>1. DOMAIN login' = DOMAIN login \ {c} /\ c \notin DOMAIN playing
  BY Removed DEF Drop, BodyInv, OneBody
<1>2. /\ DOMAIN playing' = (DOMAIN playing \ {body[ch]}) \cup {c}
      /\ playing'[c] = ch
      /\ \A d \in DOMAIN playing \ {body[ch]} : d # c /\ playing'[d] = playing[d]
  BY <1>1 DEF With, Restrict
<1>3. DOMAIN body' = DOMAIN body /\ body'[ch] = c
      /\ \A n \in DOMAIN body \ {ch} : body'[n] = body[n]
  OBVIOUS
<1>4. \A d \in DOMAIN playing' : playing'[d] \in DOMAIN body' /\ body'[playing'[d]] = d
  BY <1>2, <1>3 DEF BodyInv, OneBody
<1>5. \A n \in DOMAIN body' :
         body'[n] # NoConn => body'[n] \in DOMAIN playing' /\ playing'[body'[n]] = n
  BY <1>2, <1>3 DEF BodyInv, OneBody
<1>6. DOMAIN login' \cap DOMAIN playing' = {} /\ Opened'
  <2>1. c \in used /\ c \in Conns
    BY DEF BodyInv, Opened
  <2> QED BY <1>1, <1>2, <2>1 DEF BodyInv, OneBody, Opened, TakesOver
<1> QED BY <1>4, <1>5, <1>6 DEF BodyInv, OneBody

LEMMA SpawnKeeps ==
    ASSUME BodyInv, Spawns
    PROVE  BodyInv'
<1> PICK c \in DOMAIN login : \E ch :
        /\ ch \notin DOMAIN body /\ Drop(c)
        /\ playing' = With(playing, c, ch) /\ body' = With(body, ch, c)
  BY DEF Spawns
<1> PICK ch : /\ ch \notin DOMAIN body /\ Drop(c)
              /\ playing' = With(playing, c, ch) /\ body' = With(body, ch, c)
  OBVIOUS
<1>1. DOMAIN login' = DOMAIN login \ {c} /\ c \notin DOMAIN playing
  BY Removed DEF Drop, BodyInv, OneBody
<1>2. /\ DOMAIN playing' = DOMAIN playing \cup {c} /\ playing'[c] = ch
      /\ \A d \in DOMAIN playing : d # c /\ playing'[d] = playing[d]
  BY <1>1 DEF With
<1>3. /\ DOMAIN body' = DOMAIN body \cup {ch} /\ body'[ch] = c
      /\ \A n \in DOMAIN body : n # ch /\ body'[n] = body[n]
  BY DEF With
<1>4. \A d \in DOMAIN playing' : playing'[d] \in DOMAIN body' /\ body'[playing'[d]] = d
  BY <1>2, <1>3 DEF BodyInv, OneBody
<1>5. \A n \in DOMAIN body' :
         body'[n] # NoConn => body'[n] \in DOMAIN playing' /\ playing'[body'[n]] = n
  BY <1>2, <1>3 DEF BodyInv, OneBody
<1>6. DOMAIN login' \cap DOMAIN playing' = {} /\ Opened'
  BY <1>1, <1>2 DEF BodyInv, OneBody, Opened, Spawns
<1> QED BY <1>4, <1>5, <1>6 DEF BodyInv, OneBody

\* A connection id is used once.
LEMMA ConnectKeeps ==
    ASSUME BodyInv, NEW c \in Conns, OnConnect(c)
    PROVE  BodyInv'
<1>1. DOMAIN login' = DOMAIN login \cup {c} /\ c \notin used
  BY DEF OnConnect, With, BodyInv, Opened
<1> QED BY <1>1 DEF OnConnect, BodyInv, OneBody, Opened

\* The body the connection played, and no other, is unbound or leaves.
LEMMA DisconnectKeeps ==
    ASSUME BodyInv, NEW c \in Conns, OnDisconnect(c)
    PROVE  BodyInv'
<1>1. /\ DOMAIN login' = DOMAIN login \ {c}
      /\ DOMAIN playing' = DOMAIN playing \ {c}
      /\ \A d \in DOMAIN playing' : playing'[d] = playing[d]
      /\ used' = used
  BY Removed DEF OnDisconnect, Drop, Quiet
<1>2. CASE c \notin DOMAIN playing
  <2>1. body' = body /\ DOMAIN playing' = DOMAIN playing
    BY <1>1, <1>2 DEF OnDisconnect
  <2> QED BY <1>1, <2>1 DEF BodyInv, OneBody, Opened
<1>3. CASE c \in DOMAIN playing
  <2>1. playing[c] \in DOMAIN body /\ body[playing[c]] = c
    BY <1>3 DEF BodyInv, OneBody
  <2>2. /\ DOMAIN body \ {playing[c]} \subseteq DOMAIN body'
        /\ DOMAIN body' \subseteq DOMAIN body
        /\ \A n \in DOMAIN body' \ {playing[c]} : body'[n] = body[n]
        /\ playing[c] \in DOMAIN body' => body'[playing[c]] = NoConn
    <3>1. CASE body' = [body EXCEPT ![playing[c]] = NoConn]
      BY <3>1
    <3>2. CASE body' = Restrict(body, DOMAIN body \ {playing[c]})
      BY <3>2, Removed
    <3> QED BY <1>3, <3>1, <3>2 DEF OnDisconnect
  <2>3. \A d \in DOMAIN playing' : playing'[d] # playing[c]
    BY <1>1, <2>1 DEF BodyInv, OneBody
  <2>4. \A d \in DOMAIN playing' : playing'[d] \in DOMAIN body' /\ body'[playing'[d]] = d
    BY <1>1, <2>2, <2>3 DEF BodyInv, OneBody
  <2>5. \A n \in DOMAIN body' :
           body'[n] # NoConn => body'[n] \in DOMAIN playing' /\ playing'[body'[n]] = n
    BY <1>1, <2>2 DEF BodyInv, OneBody
  <2> QED BY <1>1, <2>4, <2>5 DEF BodyInv, OneBody, Opened
<1> QED BY <1>2, <1>3

\* Only a body without a connection leaves on its own.
LEMMA LeavesKeeps ==
    ASSUME BodyInv, NEW ch \in Names, BodyLeaves(ch)
    PROVE  BodyInv'
<1>1. /\ DOMAIN body' = DOMAIN body \ {ch}
      /\ \A n \in DOMAIN body' : body'[n] = body[n]
  BY Removed DEF BodyLeaves
<1>2. \A d \in DOMAIN playing : playing[d] # ch
  BY NoneApart DEF BodyLeaves, BodyInv, OneBody, Opened
<1> QED BY <1>1, <1>2 DEF BodyLeaves, Quiet, BodyInv, OneBody, Opened

\* Takeovers, spawns and disconnects in any order leave every playing connection
\* with the one body that listens to it, for any number of each (the maps
\* `login` and `playing` of ConnRouter).
THEOREM OneBodyEach == Spec => []OneBody
<1>1. Init => BodyInv
  BY DEF Init, BodyInv, OneBody, Opened
<1>2. BodyInv /\ [Next]_vars => BodyInv'
  BY NextSorts, StaysKeeps, TakeoverKeeps, SpawnKeeps, ConnectKeeps, DisconnectKeeps, LeavesKeeps
     DEF BodyStep, Enters
<1>3. BodyInv => OneBody
  BY DEF BodyInv
<1> QED BY <1>1, <1>2, <1>3, PTL DEF Spec

-----------------------------------------------------------------------------
(* The invariant.                                                          *)

Accounts == Emails \cup Names

\* The character is known, and belongs to the account if both are given.
Linked(ch, user, own) ==
    /\ ch \in DOMAIN own \cup {NoName}
    /\ ch # NoName /\ user # NoUser => own[ch] = user

Suits(ctx, own) ==
    /\ ctx \in Ctx /\ ctx.list \subseteq DOMAIN own
    /\ ctx.at \in {"AwaitingPassword", "AwaitingWebApproval"} => Linked(ctx.ch, ctx.user, own)
    /\ ctx.at \in {"AwaitingRace", "AwaitingClass", "AwaitingGender", "ReviewStatRoll"} =>
         ctx.ch \in Names

JobRecords ==
    [conn : Conns, kind : {"name", "mail", "password", "saves", "hash"},
     ch : Names \cup {NoName}, user : Accounts \cup {NoUser},
     result : {"none", "ok", "failed", "unknown"}]
JobSuits(j, own) ==
    /\ j \in JobRecords
    /\ j.kind = "name" => j.ch \in Names /\ (j.result = "ok" => Linked(j.ch, j.user, own))
    /\ j.kind = "password" => Linked(j.ch, j.user, own)
    /\ j.kind = "saves" => j.ch \in DOMAIN own
    /\ j.kind = "hash" => j.ch \in Names

RowRecords == [status : {"PENDING", "APPROVED", "DENIED", "EXPIRED", "CONSUMED"},
               by : Accounts \cup {NoUser}]
OwnersOK ==
    /\ DOMAIN owner \subseteq Names
    /\ \A n \in DOMAIN owner : owner[n] \in Accounts \cup {NoUser}
    /\ accounts \subseteq Accounts
CodesOK ==
    /\ DOMAIN codes \subseteq Codes /\ \A k \in DOMAIN codes : codes[k] \in RowRecords
    /\ expiring \subseteq DOMAIN codes
WorldOK ==
    /\ DOMAIN body \subseteq DOMAIN owner /\ fresh \subseteq DOMAIN owner
    /\ \A ch \in DOMAIN body : body[ch] \in Conns \cup {NoConn}
    /\ \A c \in DOMAIN playing : playing[c] \in Names
ConnsOK ==
    /\ scene \in Scenarios /\ used \subseteq scene.conns /\ used \subseteq Conns
    /\ DOMAIN login \subseteq used /\ DOMAIN playing \subseteq used
    /\ wakes \subseteq Conns \X (Codes \cup {NoCode})

StagesOK == \A c \in DOMAIN login : Suits(login[c], owner)
JobsOK == \A j \in jobs : JobSuits(j, owner) /\ j.conn \in used

\* A connection waits exactly while one job of its own is outstanding.
Waiting ==
    /\ \A j \in jobs : j.conn \in DOMAIN login => login[j.conn].at = "Authenticating"
    /\ \A i, j \in jobs : i.conn = j.conn /\ i.conn \in DOMAIN login => i = j
    /\ \A c \in DOMAIN login :
         login[c].at = "Authenticating" => \E j \in jobs : j.conn = c

KitsOK ==
    /\ kits \in [Names -> Nat]
    /\ \A n \in Names \ DOMAIN owner : kits[n] = 0
    /\ DOMAIN Owner0 \subseteq DOMAIN owner
    /\ \A n \in Created : owner[n] # NoUser

DialogueInv ==
    /\ OwnersOK /\ CodesOK /\ WorldOK /\ ConnsOK
    /\ StagesOK /\ JobsOK /\ Waiting
    /\ KitsOK /\ CreatedWhole

-----------------------------------------------------------------------------
(* A turn.                                                                 *)

\* The rows only gain owners.
OwnersKeep ==
    /\ OwnersOK'
    /\ \A n \in DOMAIN owner :
         n \in DOMAIN owner' /\ (owner[n] # NoUser => owner'[n] = owner[n])

\* What is left of the jobs when those of c are done.
Free(c, rest) ==
    /\ rest \subseteq jobs
    /\ \A j \in jobs : j \in rest \/ j.conn = c
    /\ \A j \in rest : j.conn # c

Answers(c, rest) ==
    \E ctx : /\ Suits(ctx, owner') /\ ctx.at # "Authenticating"
             /\ login' = With(login, c, ctx) /\ jobs' = rest
Waits(c, rest) ==
    \E ctx, j : /\ Suits(ctx, owner') /\ ctx.at = "Authenticating"
                /\ JobSuits(j, owner') /\ j.conn = c
                /\ login' = With(login, c, ctx) /\ jobs' = rest \cup {j}
Ends(c, rest) == Drop(c) /\ jobs' = rest

\* `new` is the set of characters whose kit is still to be handed out.
Gifts(new) ==
    /\ kits' \in [Names -> Nat] /\ fresh' \subseteq new
    /\ \A n \in new : n \in fresh' \/ kits'[n] = 1
    /\ \A n \in Names \ new : kits'[n] = kits[n]
    /\ \A n \in fresh' : kits'[n] = 0 /\ n \notin DOMAIN body'

Turn(c, rest, new) ==
    /\ Answers(c, rest) \/ Waits(c, rest) \/ Ends(c, rest)
    /\ WorldOK' /\ Gifts(new)
    /\ DOMAIN playing' \subseteq DOMAIN playing \cup {c}

LEMMA SuitsGrow ==
    ASSUME NEW ctx, Suits(ctx, owner), OwnersKeep
    PROVE  Suits(ctx, owner')
BY DEF Suits, Linked, OwnersKeep

LEMMA JobSuitsGrow ==
    ASSUME NEW j, JobSuits(j, owner), OwnersKeep
    PROVE  JobSuits(j, owner')
BY DEF JobSuits, Linked, OwnersKeep

\* Nothing of the world changes.
LEMMA Unmoved ==
    ASSUME DialogueInv, Refresh, OwnersKeep
    PROVE  WorldOK' /\ Gifts(fresh) /\ DOMAIN playing' = DOMAIN playing
<1>1. WorldOK'
  BY DEF DialogueInv, WorldOK, Refresh, OwnersKeep
<1>2. Gifts(fresh)
  BY DEF DialogueInv, KitsOK, CreatedWhole, Gifts, Refresh
<1> QED BY <1>1, <1>2 DEF Refresh

LEMMA BlankSuits ==
    ASSUME NEW fails \in 0..MaxFails, NEW own
    PROVE  Suits(Blank(fails), own) /\ Blank(fails).at = "AwaitingIdentifier"
BY DEF Suits, Blank, Ctx, StageNames, Menu

LEMMA StageRecord ==
    ASSUME StagesOK, NEW c \in DOMAIN login, NEW at \in StageNames,
           NEW ch \in Names \cup {NoName}, NEW user \in Accounts \cup {NoUser}
    PROVE  LET ctx == Stage(c, at, ch, user) IN
           /\ ctx \in Ctx /\ ctx.at = at /\ ctx.ch = ch /\ ctx.user = user
           /\ ctx.list = {} /\ ctx.fails = login[c].fails
<1>1. login[c].fails \in 0..MaxFails
  BY DEF StagesOK, Suits, Ctx
<1> QED BY <1>1 DEF Stage, Blank, Ctx, Accounts, StageNames, Menu

LEMMA RepromptAnswers ==
    ASSUME StagesOK, NEW c \in DOMAIN login, NEW rest, Reprompt(c), jobs' = rest
    PROVE  Answers(c, rest)
<1>1. login[c].fails \in 0..MaxFails
  BY DEF StagesOK, Suits, Ctx
<1>2. Suits(Blank(login[c].fails), owner') /\ Blank(login[c].fails).at # "Authenticating"
  BY <1>1, BlankSuits
<1> QED BY <1>2 DEF Reprompt, Put, Answers

\* The stages that promise nothing of the character.
LEMMA StageAnswers ==
    ASSUME StagesOK, NEW c \in DOMAIN login, NEW rest, NEW at \in StageNames,
           NEW ch \in Names \cup {NoName}, NEW user \in Accounts \cup {NoUser},
           at # "Authenticating",
           at \in {"AwaitingPassword", "AwaitingWebApproval"} => Linked(ch, user, owner'),
           at \notin {"AwaitingRace", "AwaitingClass", "AwaitingGender", "ReviewStatRoll"},
           Put(c, Stage(c, at, ch, user)), jobs' = rest
    PROVE  Answers(c, rest)
<1>1. Suits(Stage(c, at, ch, user), owner') /\ Stage(c, at, ch, user).at = at
  BY StageRecord DEF Suits
<1> QED BY <1>1 DEF Put, Answers

LEMMA ParkWaits ==
    ASSUME StagesOK, NEW c \in DOMAIN login, NEW rest, NEW kind, NEW ch, NEW user,
           JobSuits(Job(c, kind, ch, user), owner'), Park(c, kind, ch, user, rest)
    PROVE  Waits(c, rest)
<1> DEFINE ctx == Stage(c, "Authenticating", NoName, NoUser)
<1>1. ctx \in Ctx /\ ctx.at = "Authenticating" /\ ctx.list = {}
  BY StageRecord DEF StageNames
<1>2. Suits(ctx, owner')
  BY <1>1 DEF Suits
<1>3. Job(c, kind, ch, user).conn = c
  BY DEF Job
<1> QED BY <1>1, <1>2, <1>3 DEF Park, Put, Waits

-----------------------------------------------------------------------------
(* Each handler takes a turn.                                              *)

LEMMA QuietTurn ==
    ASSUME DialogueInv, OwnersKeep, NEW c, NEW rest, Refresh, Answers(c, rest) \/ Waits(c, rest)
    PROVE  Turn(c, rest, fresh)
BY Unmoved DEF Turn

\* Characters not in the world whose kit is still to come.
Owed(new) ==
    /\ new \subseteq DOMAIN owner'
    /\ \A n \in new : kits[n] = 0 /\ n \notin DOMAIN body

LEMMA CompleteTurn ==
    ASSUME DialogueInv, OwnersKeep, NEW c \in DOMAIN login, NEW ch \in DOMAIN owner',
           NEW user \in Accounts \cup {NoUser}, NEW waited, NEW rest, NEW new, Owed(new),
           CompleteLogin(c, ch, user, waited, rest, new)
    PROVE  Turn(c, rest, new)
<1>1. ch \in Names /\ c \in Conns /\ new \subseteq Names
  BY DEF OwnersKeep, OwnersOK, DialogueInv, ConnsOK, Owed
<1>2. /\ kits \in [Names -> Nat] /\ DOMAIN body \subseteq DOMAIN owner'
      /\ \A n \in DOMAIN body : body[n] \in Conns \cup {NoConn}
      /\ \A d \in DOMAIN playing : playing[d] \in Names
  BY DEF DialogueInv, KitsOK, WorldOK, OwnersKeep
<1>3. ASSUME fresh' = new, kits' = kits, DOMAIN body' \subseteq DOMAIN body
      PROVE  Gifts(new)
  BY <1>1, <1>2, <1>3 DEF Gifts, Owed
<1>4. ASSUME UNCHANGED <<playing, body, kits>>, fresh' = new
      PROVE  WorldOK' /\ Gifts(new) /\ DOMAIN playing' = DOMAIN playing
  BY <1>2, <1>3, <1>4 DEF WorldOK, Owed
<1>5. CASE TryTakeover(c, ch) /\ jobs' = rest /\ fresh' = new /\ kits' = kits
  <2>1. DOMAIN body' = DOMAIN body /\ \A n \in DOMAIN body : body'[n] \in {body[n], c}
    BY <1>5 DEF TryTakeover
  <2>2. /\ DOMAIN playing' \subseteq DOMAIN playing \cup {c}
        /\ \A d \in DOMAIN playing' : playing'[d] \in Names
    BY <1>1, <1>2, <1>5 DEF TryTakeover, With, Restrict
  <2>3. WorldOK'
    BY <1>1, <1>2, <1>5, <2>1, <2>2 DEF WorldOK, Owed
  <2> QED BY <1>3, <1>5, <2>1, <2>2, <2>3 DEF Turn, Ends, TryTakeover
<1>6. CASE /\ Park(c, "saves", ch, user, rest)
           /\ fresh' = new /\ UNCHANGED <<playing, body, kits>>
  <2>1. JobSuits(Job(c, "saves", ch, user), owner')
    BY <1>1 DEF JobSuits, Job, JobRecords
  <2>2. StagesOK
    BY DEF DialogueInv
  <2> QED BY <1>4, <1>6, <2>1, <2>2, ParkWaits DEF Turn
<1>7. CASE jobs' = rest /\ RefuseLogin(c, new)
  BY <1>4, <1>7 DEF Turn, Ends, RefuseLogin
<1>8. CASE ch \notin DOMAIN body /\ jobs' = rest /\ SpawnPlayer(c, ch, new)
  <2>1. DOMAIN body' = DOMAIN body \cup {ch} /\ \A n \in DOMAIN body' : body'[n] \in Conns \cup {NoConn}
    BY <1>1, <1>2, <1>8 DEF SpawnPlayer, With
  <2>2. /\ DOMAIN playing' = DOMAIN playing \cup {c}
        /\ \A d \in DOMAIN playing' : playing'[d] \in Names
    BY <1>1, <1>2, <1>8 DEF SpawnPlayer, With
  <2>3. WorldOK'
    BY <1>2, <1>8, <2>1, <2>2 DEF WorldOK, Owed, SpawnPlayer
  <2>4. Gifts(new)
    <3>1. CASE ch \in new
      <4>1. kits' = [kits EXCEPT ![ch] = kits[ch] + 1] /\ kits[ch] = 0 /\ fresh' = new \ {ch}
        BY <1>8, <3>1 DEF SpawnPlayer, Owed
      <4>2. kits' \in [Names -> Nat] /\ kits'[ch] = 1 /\ \A n \in Names \ {ch} : kits'[n] = kits[n]
        BY <1>1, <1>2, <4>1
      <4> QED BY <1>1, <3>1, <4>1, <4>2, <2>1 DEF Gifts, Owed
    <3>2. CASE ch \notin new
      BY <1>1, <1>2, <1>8, <2>1, <3>2 DEF Gifts, Owed, SpawnPlayer
    <3> QED BY <3>1, <3>2
  <2> QED BY <1>8, <2>2, <2>3, <2>4 DEF Turn, Ends, SpawnPlayer
<1> QED BY <1>5, <1>6, <1>7, <1>8 DEF CompleteLogin

\* The characters fresh so far are owed their kits.
LEMMA FreshOwed ==
    ASSUME DialogueInv, OwnersKeep
    PROVE  Owed(fresh)
BY DEF DialogueInv, WorldOK, CreatedWhole, OwnersKeep, Owed

LEMMA PasswordTurn ==
    ASSUME DialogueInv, OwnersKeep, owner' = owner, NEW c \in DOMAIN login,
           NEW ch \in DOMAIN owner \cup {NoName}, NEW user \in Accounts \cup {NoUser}, NEW rest,
           FinishPassword(c, ch, user, rest)
    PROVE  Turn(c, rest, fresh)
<1>0. StagesOK
  BY DEF DialogueInv
<1>1. CASE TurnedAway(c, rest)
  BY <1>0, <1>1, RepromptAnswers, QuietTurn DEF TurnedAway, Refresh
<1>2. CASE ch # NoName /\ CompleteLogin(c, ch, user, FALSE, rest, fresh)
  BY <1>2, CompleteTurn, FreshOwed
<1>3. CASE /\ Put(c, [Stage(c, "CharSelect", NoName, user) EXCEPT !.list = ListFor(user)])
           /\ jobs' = rest
           /\ UNCHANGED <<playing, body, fresh, kits>>
  <2> DEFINE ctx == [Stage(c, "CharSelect", NoName, user) EXCEPT !.list = ListFor(user)]
  <2>1. ListFor(user) \subseteq DOMAIN owner /\ DOMAIN owner \subseteq Names
    BY DEF ListFor, DialogueInv, OwnersOK
  <2>2. ctx \in Ctx /\ ctx.at = "CharSelect" /\ ctx.list = ListFor(user)
    <3>1. /\ Stage(c, "CharSelect", NoName, user) \in Ctx
          /\ Stage(c, "CharSelect", NoName, user).at = "CharSelect"
      <4>1. "CharSelect" \in StageNames
        BY DEF StageNames
      <4> QED BY <1>0, <4>1, StageRecord
    <3>2. ListFor(user) \in SUBSET Names
      BY <2>1
    <3> HIDE DEF Stage
    <3> QED BY <3>1, <3>2 DEF Ctx
  <2>3. Suits(ctx, owner')
    BY <2>1, <2>2 DEF Suits
  <2>4. Answers(c, rest)
    BY <1>3, <2>2, <2>3 DEF Put, Answers
  <2> QED BY <1>3, <2>4, QuietTurn DEF Refresh
<1> QED BY <1>1, <1>2, <1>3 DEF FinishPassword

\* Rows of login codes change their status or are added.
CodesKeep ==
    /\ DOMAIN codes \subseteq DOMAIN codes' /\ DOMAIN codes' \subseteq Codes
    /\ \A k \in DOMAIN codes' : codes'[k] \in RowRecords

LEMMA SameCodes ==
    ASSUME DialogueInv, codes' = codes
    PROVE  CodesKeep
BY DEF DialogueInv, CodesOK, CodesKeep

LEMMA CloseKeeps ==
    ASSUME DialogueInv, NEW k, Close(k, ExpirePending) \/ Close(k, ExpireUnconsumed)
    PROVE  CodesKeep
<1>1. PICK row \in Moves(codes[k]) :
        codes' \in {[codes EXCEPT ![k] = ExpirePending(row)],
                    [codes EXCEPT ![k] = ExpireUnconsumed(row)], [codes EXCEPT ![k] = row]}
  BY DEF Close
<1>2. DOMAIN codes \subseteq Codes /\ \A i \in DOMAIN codes : codes[i] \in RowRecords
  BY DEF DialogueInv, CodesOK
<1>3. k \in DOMAIN codes => row \in RowRecords
  BY <1>2 DEF Moves, RowRecords, DialogueInv, OwnersOK
<1>4. k \in DOMAIN codes =>
        ExpirePending(row) \in RowRecords /\ ExpireUnconsumed(row) \in RowRecords
  BY <1>3 DEF ExpirePending, ExpireUnconsumed, RowRecords
<1>5. PICK new : codes' = [codes EXCEPT ![k] = new] /\ (k \in DOMAIN codes => new \in RowRecords)
  BY <1>1, <1>3, <1>4
<1> QED BY <1>2, <1>5 DEF CodesKeep

LEMMA ConsumedKeeps ==
    ASSUME DialogueInv, NEW k \in DOMAIN codes, codes' = Consumed(k)
    PROVE  CodesKeep /\ codes'[k].status = "CONSUMED"
<1>1. DOMAIN codes \subseteq Codes /\ \A i \in DOMAIN codes : codes[i] \in RowRecords
  BY DEF DialogueInv, CodesOK
<1>2. PICK new : new = [codes[k] EXCEPT !.status = "CONSUMED"]
  OBVIOUS
<1>3. new \in RowRecords /\ new.status = "CONSUMED"
  BY <1>1, <1>2 DEF RowRecords
<1>4. codes' = [codes EXCEPT ![k] = new]
  BY <1>2 DEF Consumed
<1> QED BY <1>1, <1>3, <1>4 DEF CodesKeep

LEMMA BeginTurn ==
    ASSUME DialogueInv, OwnersKeep, NEW c \in DOMAIN login,
           NEW ch \in DOMAIN owner \cup {NoName}, NEW user \in Accounts \cup {NoUser},
           Linked(ch, user, owner), NEW paid, NEW rest,
           \/ BeginWebApproval(c, ch, user, paid, rest)
           \/ ch = NoName /\ BeginDecoyApproval(c, user, rest)
    PROVE  Turn(c, rest, fresh) /\ CodesKeep
<1>0. StagesOK /\ Refresh /\ jobs' = rest
  BY DEF DialogueInv, BeginWebApproval, BeginDecoyApproval
<1> DEFINE ctx == Stage(c, "AwaitingWebApproval", ch, user)
<1>1. ctx \in Ctx /\ ctx.at = "AwaitingWebApproval" /\ ctx.list = {}
      /\ ctx.ch = ch /\ ctx.user = user
  <2>1. "AwaitingWebApproval" \in StageNames /\ ch \in Names \cup {NoName}
    BY DEF StageNames, DialogueInv, OwnersOK
  <2> QED BY <1>0, <2>1, StageRecord
<1>2. Linked(ch, user, owner')
  BY DEF Linked, OwnersKeep
<1>3. ASSUME NEW k \in Codes
      PROVE  LET shown == [ctx EXCEPT !.code = k, !.poll = TRUE] IN
             Suits(shown, owner') /\ shown.at = "AwaitingWebApproval"
  <2> HIDE DEF ctx
  <2>1. PICK shown : shown = [ctx EXCEPT !.code = k, !.poll = TRUE]
    OBVIOUS
  <2>2. /\ shown \in Ctx /\ shown.at = "AwaitingWebApproval" /\ shown.list = {}
        /\ shown.ch = ch /\ shown.user = user
    BY <1>1, <2>1 DEF Ctx
  <2> QED BY <1>2, <2>1, <2>2 DEF Suits
<1>4. LET shown == [ctx EXCEPT !.poll = TRUE] IN
      Suits(shown, owner') /\ shown.at = "AwaitingWebApproval"
  <2> HIDE DEF ctx
  <2>1. PICK shown : shown = [ctx EXCEPT !.poll = TRUE]
    OBVIOUS
  <2>2. /\ shown \in Ctx /\ shown.at = "AwaitingWebApproval" /\ shown.list = {}
        /\ shown.ch = ch /\ shown.user = user
    BY <1>1, <2>1 DEF Ctx
  <2> QED BY <1>2, <2>1, <2>2 DEF Suits
<1>5. CASE Reprompt(c) /\ codes' = codes
  BY <1>0, <1>5, RepromptAnswers, QuietTurn, SameCodes
<1>6. CASE /\ DOMAIN codes # Codes
           /\ codes' = With(codes, NewCode, [status |-> "PENDING", by |-> NoUser])
           /\ Put(c, [ctx EXCEPT !.code = NewCode, !.poll = TRUE])
  <2>1. NewCode \in Codes
    BY <1>6 DEF NewCode, DialogueInv, CodesOK
  <2>2. CodesKeep
    BY <1>6, <2>1 DEF CodesKeep, With, DialogueInv, CodesOK, RowRecords
  <2>3. Answers(c, rest)
    BY <1>0, <1>3, <1>6, <2>1 DEF Put, Answers
  <2> QED BY <1>0, <2>2, <2>3, QuietTurn
<1>7. CASE Put(c, [ctx EXCEPT !.poll = TRUE]) /\ codes' = codes
  <2>1. Answers(c, rest)
    BY <1>0, <1>4, <1>7 DEF Put, Answers
  <2> QED BY <1>0, <1>7, <2>1, QuietTurn, SameCodes
<1> QED BY <1>5, <1>6, <1>7 DEF BeginWebApproval, BeginDecoyApproval

\* The connection looked at its row and waits on.
Rests == UNCHANGED <<login, jobs>> /\ Refresh

LEMMA ResolveTurn ==
    ASSUME DialogueInv, OwnersKeep, owner' = owner, NEW c \in DOMAIN login,
           login[c].at = "AwaitingWebApproval", ResolveWebApproval(c)
    PROVE  CodesKeep /\ (Rests \/ Turn(c, jobs, fresh))
<1>0. StagesOK
  BY DEF DialogueInv
<1>1. ASSUME Reprompt(c), Refresh, jobs' = jobs
      PROVE  Turn(c, jobs, fresh)
  BY <1>0, <1>1, RepromptAnswers, QuietTurn
<1>2. /\ login[c].ch \in DOMAIN owner \cup {NoName} /\ login[c].user \in Accounts \cup {NoUser}
      /\ Linked(login[c].ch, login[c].user, owner)
  BY <1>0 DEF StagesOK, Suits, Linked, Ctx, Accounts
<1>3. CASE ResolveDecoy(c)
  BY <1>1, <1>3, SameCodes DEF ResolveDecoy, Rests
<1>4. ASSUME NEW k \in DOMAIN codes, ResolveOpen(c, k)
      PROVE  CodesKeep /\ (Rests \/ Turn(c, jobs, fresh))
  BY <1>1, <1>4, SameCodes, CloseKeeps DEF ResolveOpen, Rests
<1>5. ASSUME NEW k \in DOMAIN codes, ResolveLinked(c, k)
      PROVE  CodesKeep /\ Turn(c, jobs, fresh)
  <2>1. CASE Reprompt(c) /\ UNCHANGED <<jobs, codes>> /\ Refresh
    BY <1>1, <2>1, SameCodes
  <2>2. CASE codes' = Consumed(k) /\ FinishPassword(c, login[c].ch, login[c].user, jobs)
    BY <1>2, <2>2, ConsumedKeeps, PasswordTurn
  <2> QED BY <1>5, <2>1, <2>2 DEF ResolveLinked
<1>6. ASSUME NEW k \in DOMAIN codes, ResolveUnlinked(c, k)
      PROVE  CodesKeep /\ Turn(c, jobs, fresh)
  <2>1. CASE /\ Reprompt(c) /\ jobs' = jobs /\ Refresh
             /\ Close(k, ExpireUnconsumed) \/ codes' = Consumed(k)
    BY <1>1, <2>1, CloseKeeps, ConsumedKeeps
  <2>2. CASE /\ codes[k].by = owner[login[c].ch] /\ codes' = Consumed(k)
             /\ FinishPassword(c, login[c].ch, owner[login[c].ch], jobs)
    <3>1. owner[login[c].ch] \in Accounts \cup {NoUser}
      BY <2>2 DEF DialogueInv, CodesOK, RowRecords
    <3> QED BY <1>2, <2>2, <3>1, ConsumedKeeps, PasswordTurn
  <2> QED BY <1>6, <2>1, <2>2 DEF ResolveUnlinked
<1> QED BY <1>3, <1>4, <1>5, <1>6 DEF ResolveWebApproval

\* What a line, a wake or a tick of the clock leaves alone.
Frame == UNCHANGED <<scene, used, expiring, owner, accounts, stray>>

LEMMA FrameKeeps ==
    ASSUME DialogueInv, UNCHANGED <<owner, accounts>>
    PROVE  OwnersKeep
BY DEF DialogueInv, OwnersOK, OwnersKeep

LEMMA IdentifierTurn ==
    ASSUME DialogueInv, OwnersKeep, NEW c, Identifier(c)
    PROVE  Turn(c, jobs, fresh)
<1>0. StagesOK /\ c \in DOMAIN login /\ Refresh
  BY DEF DialogueInv, Identifier, At
<1>1. PICK id \in scene.idents :
        IF id \in Emails
        THEN Put(c, Stage(c, "ConfirmCreate", NoName, id)) /\ jobs' = jobs
        ELSE Park(c, "name", id, NoUser, jobs)
  BY DEF Identifier
<1>2. id \in Emails \cup Names /\ c \in Conns
  BY <1>0, IdentsTyped DEF DialogueInv, ConnsOK
<1>3. CASE id \in Emails
  <2>1. "ConfirmCreate" \in StageNames /\ id \in Accounts \cup {NoUser}
    BY <1>3 DEF StageNames, Accounts
  <2> QED BY <1>0, <1>1, <1>3, <2>1, StageAnswers, QuietTurn
<1>4. CASE id \notin Emails
  <2>1. JobSuits(Job(c, "name", id, NoUser), owner')
    BY <1>2, <1>4 DEF JobSuits, Job, JobRecords
  <2> QED BY <1>0, <1>1, <1>4, <2>1, ParkWaits, QuietTurn
<1> QED BY <1>3, <1>4

LEMMA ConfirmTurn ==
    ASSUME DialogueInv, OwnersKeep, NEW c, ConfirmCreate(c)
    PROVE  Turn(c, jobs, fresh)
<1>0. /\ StagesOK /\ c \in DOMAIN login /\ Refresh /\ c \in Conns
      /\ Suits(login[c], owner) /\ login[c] \in Ctx
  BY DEF DialogueInv, ConfirmCreate, At, StagesOK, ConnsOK, Suits
<1>1. ASSUME Park(c, "mail", NoName, login[c].user, jobs)
      PROVE  Turn(c, jobs, fresh)
  <2>1. JobSuits(Job(c, "mail", NoName, login[c].user), owner')
    BY <1>0 DEF JobSuits, Job, JobRecords, Ctx, Accounts
  <2> QED BY <1>0, <1>1, <2>1, ParkWaits, QuietTurn
<1>2. ASSUME Reprompt(c), jobs' = jobs
      PROVE  Turn(c, jobs, fresh)
  BY <1>0, <1>2, RepromptAnswers, QuietTurn
<1>3. ASSUME Put(c, [login[c] EXCEPT !.at = "AwaitingNewPassword"]), jobs' = jobs
      PROVE  Turn(c, jobs, fresh)
  <2>1. PICK ctx : ctx = [login[c] EXCEPT !.at = "AwaitingNewPassword"]
    OBVIOUS
  <2>2. ctx \in Ctx /\ ctx.at = "AwaitingNewPassword" /\ ctx.list = login[c].list
    BY <1>0, <2>1 DEF Ctx, StageNames, Menu
  <2>3. Suits(ctx, owner')
    BY <1>0, <2>2 DEF Suits, OwnersKeep
  <2> QED BY <1>0, <1>3, <2>1, <2>2, <2>3, QuietTurn DEF Put, Answers
<1> QED BY <1>1, <1>2, <1>3 DEF ConfirmCreate, EmailCode

LEMMA MenuTurn ==
    ASSUME DialogueInv, OwnersKeep, NEW c, MenuLine(c)
    PROVE  Turn(c, jobs, fresh)
<1>0. /\ StagesOK /\ c \in DOMAIN login /\ Refresh /\ c \in Conns
      /\ Suits(login[c], owner) /\ login[c] \in Ctx
  BY DEF DialogueInv, MenuLine, StagesOK, ConnsOK, Suits
<1>1. ASSUME NEW at \in Following(login[c]), Put(c, [login[c] EXCEPT !.at = at]), jobs' = jobs
      PROVE  Turn(c, jobs, fresh)
  <2>1. PICK ctx : ctx = [login[c] EXCEPT !.at = at]
    OBVIOUS
  <2>2. /\ at \in Menu
        /\ at \in {"AwaitingRace", "AwaitingClass", "AwaitingGender", "ReviewStatRoll"} =>
             login[c].ch \in Names
    BY <1>0, <1>1 DEF Following, Menu, Suits, Ctx
  <2>3. ctx \in Ctx /\ ctx.at = at /\ ctx.list = login[c].list /\ ctx.ch = login[c].ch
    BY <1>0, <2>1, <2>2 DEF Ctx, StageNames
  <2>4. Suits(ctx, owner') /\ ctx.at # "Authenticating"
    BY <1>0, <2>2, <2>3 DEF Suits, OwnersKeep, Menu
  <2> QED BY <1>0, <1>1, <2>1, <2>4, QuietTurn DEF Put, Answers
<1>2. ASSUME NEW n \in Names, Put(c, [login[c] EXCEPT !.at = "AwaitingRace", !.ch = n]),
             jobs' = jobs
      PROVE  Turn(c, jobs, fresh)
  <2>1. PICK ctx : ctx = [login[c] EXCEPT !.at = "AwaitingRace", !.ch = n]
    OBVIOUS
  <2>2. ctx \in Ctx /\ ctx.at = "AwaitingRace" /\ ctx.list = login[c].list /\ ctx.ch = n
    BY <1>0, <2>1 DEF Ctx, StageNames, Menu
  <2>3. Suits(ctx, owner')
    BY <1>0, <2>2 DEF Suits, OwnersKeep
  <2> QED BY <1>0, <1>2, <2>1, <2>2, <2>3, QuietTurn DEF Put, Answers
<1>3. ASSUME At(c, "ReviewStatRoll"), Park(c, "hash", login[c].ch, login[c].user, jobs)
      PROVE  Turn(c, jobs, fresh)
  <2>1. JobSuits(Job(c, "hash", login[c].ch, login[c].user), owner')
    BY <1>0, <1>3 DEF JobSuits, Job, JobRecords, Ctx, Accounts, Suits, At
  <2> QED BY <1>0, <1>3, <2>1, ParkWaits, QuietTurn
<1> QED BY <1>1, <1>2, <1>3 DEF MenuLine

LEMMA PasswordLineTurn ==
    ASSUME DialogueInv, OwnersKeep, owner' = owner, NEW c, Password(c)
    PROVE  Turn(c, jobs, fresh) /\ CodesKeep
<1>0. /\ StagesOK /\ c \in DOMAIN login /\ c \in Conns
      /\ Suits(login[c], owner) /\ login[c] \in Ctx /\ Linked(login[c].ch, login[c].user, owner)
  BY DEF DialogueInv, Password, At, StagesOK, ConnsOK, Suits
<1>1. CASE BeginWebApproval(c, login[c].ch, login[c].user, FALSE, jobs)
  <2>1. login[c].ch \in DOMAIN owner \cup {NoName} /\ login[c].user \in Accounts \cup {NoUser}
    BY <1>0 DEF Linked, Ctx, Accounts
  <2> QED BY <1>0, <1>1, <2>1, BeginTurn
<1>2. CASE Park(c, "password", login[c].ch, login[c].user, jobs) /\ Refresh /\ codes' = codes
  <2>1. JobSuits(Job(c, "password", login[c].ch, login[c].user), owner')
    BY <1>0 DEF JobSuits, Job, JobRecords, Ctx, Accounts
  <2> QED BY <1>0, <1>2, <2>1, ParkWaits, QuietTurn, SameCodes
<1>3. CASE Reprompt(c) /\ jobs' = jobs /\ Refresh /\ codes' = codes
  BY <1>0, <1>3, RepromptAnswers, QuietTurn, SameCodes
<1> QED BY <1>1, <1>2, <1>3 DEF Password

LEMMA ApprovalLineTurn ==
    ASSUME DialogueInv, OwnersKeep, owner' = owner, NEW c, WebApproval(c)
    PROVE  (Rests \/ Turn(c, jobs, fresh)) /\ CodesKeep
<1>0. StagesOK /\ c \in DOMAIN login /\ login[c].at = "AwaitingWebApproval"
  BY DEF DialogueInv, WebApproval, At
<1>1. CASE ResolveWebApproval(c)
  BY <1>0, <1>1, ResolveTurn
<1>2. CASE /\ Reprompt(c) /\ jobs' = jobs /\ Refresh
           /\ codes' = codes \/ Close(login[c].code, ExpirePending)
  BY <1>0, <1>2, RepromptAnswers, QuietTurn, SameCodes, CloseKeeps
<1> QED BY <1>1, <1>2 DEF WebApproval

\* A line gets an answer, unless the connection is waiting for a job.
LEMMA LineTurn ==
    ASSUME DialogueInv, NEW c, Line(c)
    PROVE  /\ Frame /\ wakes' = wakes /\ CodesKeep
           /\ \/ Rests
              \/ c \in DOMAIN login /\ login[c].at # "Authenticating" /\ Turn(c, jobs, fresh)
<1>1. CASE Identifier(c)
  BY <1>1, FrameKeeps, IdentifierTurn, SameCodes
     DEF Identifier, At, Frame, Quiet, SameTasks, SameRows
<1>2. CASE ConfirmCreate(c)
  BY <1>2, FrameKeeps, ConfirmTurn, SameCodes
     DEF ConfirmCreate, At, Frame, Quiet, SameTasks, SameRows
<1>3. CASE MenuLine(c)
  BY <1>3, FrameKeeps, MenuTurn, SameCodes
     DEF MenuLine, Menu, Frame, Quiet, SameTasks, SameRows
<1>4. CASE Password(c)
  BY <1>4, FrameKeeps, PasswordLineTurn DEF Password, At, Frame, Quiet, SameTasks, SameRows
<1>5. CASE WebApproval(c)
  BY <1>5, FrameKeeps, ApprovalLineTurn DEF WebApproval, At, Frame, Quiet, SameTasks, SameRows
<1>6. CASE Swallow(c)
  <2>1. UNCHANGED vars
    BY <1>6 DEF Swallow
  <2> QED BY <2>1, SameCodes DEF vars, routerVars, taskVars, rowVars, histVars, Frame, Rests, Refresh
<1>7. CASE CharSelect(c)
  <2>1. /\ Frame /\ wakes' = wakes /\ codes' = codes
        /\ c \in DOMAIN login /\ login[c].at = "CharSelect"
    BY <1>7 DEF CharSelect, At, Frame, Quiet, SameTasks, SameRows
  <2>2. PICK n \in login[c].list : CompleteLogin(c, n, login[c].user, FALSE, jobs, fresh)
    BY <1>7 DEF CharSelect
  <2>3. n \in DOMAIN owner' /\ login[c].user \in Accounts \cup {NoUser}
    BY <2>1 DEF DialogueInv, StagesOK, Suits, Ctx, Accounts, Frame
  <2>4. OwnersKeep
    BY <2>1, FrameKeeps DEF Frame
  <2> QED BY <2>1, <2>2, <2>3, <2>4, CompleteTurn, FreshOwed, SameCodes
<1> QED BY <1>1, <1>2, <1>3, <1>4, <1>5, <1>6, <1>7 DEF Line

\* A creation commits: the character n of the account a.
Makes(n, a) ==
    /\ n \in Names \ DOMAIN owner /\ a \in Accounts \ accounts
    /\ owner' = With(owner, n, a) /\ accounts' = accounts \cup {a}

LEMMA MakesKeeps ==
    ASSUME DialogueInv, NEW n, NEW a, Makes(n, a)
    PROVE  /\ OwnersKeep /\ DOMAIN owner' = DOMAIN owner \cup {n}
           /\ owner'[n] = a /\ \A m \in DOMAIN owner : m # n /\ owner'[m] = owner[m]
BY DEF Makes, With, DialogueInv, OwnersOK, OwnersKeep

\* A result moves its connection, which waits for it.
LEMMA LookupTurn ==
    ASSUME DialogueInv, OwnersKeep, NEW j \in jobs, j.conn \in DOMAIN login,
           \/ FinishCharLookup(j, jobs \ {j}) /\ codes' = codes
           \/ FinishEmailLookup(j, jobs \ {j})
    PROVE  Turn(j.conn, jobs \ {j}, fresh) /\ CodesKeep
<1> DEFINE rest == jobs \ {j}
<1>0. /\ StagesOK /\ JobSuits(j, owner) /\ JobSuits(j, owner')
      /\ login[j.conn].at = "Authenticating"
  BY JobSuitsGrow DEF DialogueInv, JobsOK, Waiting
<1>1. ASSUME Reprompt(j.conn), jobs' = rest, Refresh, codes' = codes
      PROVE  Turn(j.conn, rest, fresh) /\ CodesKeep
  BY <1>0, <1>1, RepromptAnswers, QuietTurn, SameCodes
<1>2. CASE FinishCharLookup(j, rest) /\ codes' = codes
  <2>0. jobs' = rest /\ Refresh /\ j.kind = "name"
    BY <1>2 DEF FinishCharLookup
  <2>1. CASE j.result = "ok" /\ Put(j.conn, Stage(j.conn, "AwaitingPassword", j.ch, j.user))
    <3>1. "AwaitingPassword" \in StageNames /\ Linked(j.ch, j.user, owner')
      BY <1>0, <2>0, <2>1 DEF StageNames, JobSuits
    <3>2. j.ch \in Names \cup {NoName} /\ j.user \in Accounts \cup {NoUser}
      BY <1>0 DEF JobSuits, JobRecords
    <3>3. Answers(j.conn, rest)
      BY <1>0, <2>0, <2>1, <3>1, <3>2, StageAnswers
    <3> QED BY <1>2, <2>0, <3>3, QuietTurn, SameCodes
  <2>2. CASE Put(j.conn, Stage(j.conn, "ConfirmCreate", j.ch, NoUser))
    <3>1. "ConfirmCreate" \in StageNames /\ j.ch \in Names \cup {NoName}
      BY <1>0 DEF StageNames, JobSuits, JobRecords
    <3>2. Answers(j.conn, rest)
      BY <1>0, <2>0, <2>2, <3>1, StageAnswers
    <3> QED BY <1>2, <2>0, <3>2, QuietTurn, SameCodes
  <2> QED BY <1>0, <1>1, <1>2, <2>0, <2>1, <2>2 DEF FinishCharLookup, At
<1>3. CASE FinishEmailLookup(j, rest)
  <2>1. /\ NoName \in DOMAIN owner \cup {NoName} /\ Linked(NoName, j.user, owner)
        /\ j.user \in Accounts \cup {NoUser}
    BY <1>0 DEF Linked, JobSuits, JobRecords
  <2>2. CASE \/ BeginWebApproval(j.conn, NoName, j.user, TRUE, rest)
             \/ BeginDecoyApproval(j.conn, j.user, rest)
    BY <2>1, <2>2, BeginTurn
  <2> QED BY <1>1, <1>3, <2>2 DEF FinishEmailLookup
<1> QED BY <1>2, <1>3

LEMMA CheckTurn ==
    ASSUME DialogueInv, OwnersKeep, owner' = owner, NEW j \in jobs, j.conn \in DOMAIN login,
           FinishCheck(j, jobs \ {j}) \/ FinishSaveWait(j, jobs \ {j})
    PROVE  Turn(j.conn, jobs \ {j}, fresh)
<1> DEFINE rest == jobs \ {j}  c == j.conn
<1>0. /\ StagesOK /\ JobSuits(j, owner)
      /\ j.user \in Accounts \cup {NoUser}
  BY DEF DialogueInv, JobsOK, JobSuits, JobRecords
<1>1. CASE FinishCheck(j, rest)
  <2>1. CASE FinishPassword(c, j.ch, j.user, rest)
    <3>1. j.ch \in DOMAIN owner \cup {NoName}
      BY <1>0, <1>1 DEF FinishCheck, JobSuits, Linked
    <3> QED BY <1>0, <2>1, <3>1, PasswordTurn
  <2>2. CASE WrongPassword(c, rest)
    <3>0. jobs' = rest /\ Refresh
      BY <2>2 DEF WrongPassword, Refresh
    <3>1. CASE Drop(c)
      BY <3>0, <3>1, Unmoved DEF Turn, Ends
    <3>2. CASE Put(c, Blank(login[c].fails + 1)) /\ ~(login[c].fails + 1 >= MaxFails)
      <4>1. login[c].fails \in 0..MaxFails
        BY <1>0 DEF StagesOK, Suits, Ctx
      <4>2. login[c].fails + 1 \in 0..MaxFails
        BY <3>2, <4>1, FailsTyped
      <4>3. Answers(c, rest)
        BY <3>0, <3>2, <4>2, BlankSuits DEF Put, Answers
      <4> QED BY <3>0, <4>3, QuietTurn
    <3> QED BY <2>2, <3>1, <3>2 DEF WrongPassword
  <2> QED BY <1>1, <2>1, <2>2 DEF FinishCheck
<1>2. CASE FinishSaveWait(j, rest)
  <2>1. j.ch \in DOMAIN owner'
    BY <1>0, <1>2 DEF FinishSaveWait, JobSuits
  <2>2. CASE CompleteLogin(c, j.ch, j.user, TRUE, rest, fresh)
    BY <1>0, <2>1, <2>2, CompleteTurn, FreshOwed
  <2>3. CASE RefuseLogin(c, fresh) /\ jobs' = rest
    BY <2>3, Unmoved DEF RefuseLogin, Refresh, Turn, Ends
  <2> QED BY <1>2, <2>2, <2>3 DEF FinishSaveWait
<1> QED BY <1>1, <1>2

LEMMA CreationTurn ==
    ASSUME DialogueInv, NEW j \in jobs, j.conn \in DOMAIN login, FinishCreation(j, jobs \ {j})
    PROVE  \/ /\ UNCHANGED <<owner, accounts, stray>>
              /\ Turn(j.conn, jobs \ {j}, fresh)
           \/ \E n, a : /\ Makes(n, a)
                        /\ \/ stray' = stray \cup {n} /\ Turn(j.conn, jobs \ {j}, fresh)
                           \/ stray' = stray /\ Turn(j.conn, jobs \ {j}, fresh \cup {n})
<1> DEFINE rest == jobs \ {j}
<1>0. StagesOK /\ JobSuits(j, owner) /\ j.ch \in Names /\ j.user \in Accounts \cup {NoUser}
  BY DEF DialogueInv, JobsOK, JobSuits, JobRecords, FinishCreation
<1>1. CASE Reprompt(j.conn) /\ jobs' = rest /\ Refresh /\ RollBack(j)
  BY <1>0, <1>1, FrameKeeps, RepromptAnswers, QuietTurn DEF RollBack
<1>2. CASE /\ AccountOf(j) \notin accounts /\ j.ch \notin DOMAIN owner
           /\ accounts' = accounts \cup {AccountOf(j)}
           /\ owner' = With(owner, j.ch, AccountOf(j))
           /\ \/ /\ stray' = stray \cup {j.ch}
                 /\ Reprompt(j.conn) /\ jobs' = rest /\ Refresh
              \/ /\ stray' = stray
                 /\ CompleteLogin(j.conn, j.ch, AccountOf(j), FALSE, rest, fresh \cup {j.ch})
  <2>1. AccountOf(j) \in Accounts
    BY <1>0 DEF AccountOf, Accounts
  <2>2. Makes(j.ch, AccountOf(j))
    BY <1>0, <1>2, <2>1 DEF Makes
  <2>3. OwnersKeep /\ DOMAIN owner' = DOMAIN owner \cup {j.ch}
    BY <2>2, MakesKeeps
  <2>4. Owed(fresh \cup {j.ch})
    <3>1. \A n \in fresh : n \in DOMAIN owner /\ kits[n] = 0 /\ n \notin DOMAIN body
      BY DEF DialogueInv, CreatedWhole, WorldOK
    <3>2. kits[j.ch] = 0 /\ j.ch \notin DOMAIN body
      BY <1>0, <1>2 DEF DialogueInv, KitsOK, WorldOK
    <3> QED BY <2>3, <3>1, <3>2 DEF Owed
  <2>5. ASSUME Reprompt(j.conn), jobs' = rest, Refresh
        PROVE  Turn(j.conn, rest, fresh)
    BY <1>0, <2>3, <2>5, RepromptAnswers, QuietTurn
  <2>6. ASSUME CompleteLogin(j.conn, j.ch, AccountOf(j), FALSE, rest, fresh \cup {j.ch})
        PROVE  Turn(j.conn, rest, fresh \cup {j.ch})
    BY <2>1, <2>3, <2>4, <2>6, CompleteTurn
  <2> QED BY <1>2, <2>2, <2>5, <2>6
<1> QED BY <1>1, <1>2 DEF FinishCreation

-----------------------------------------------------------------------------
(* A turn keeps the invariant.                                             *)

LEMMA FreeIdle ==
    ASSUME DialogueInv, NEW c \in DOMAIN login, login[c].at # "Authenticating"
    PROVE  Free(c, jobs)
BY DEF DialogueInv, Waiting, Free

LEMMA FreeDone ==
    ASSUME DialogueInv, NEW j \in jobs, j.conn \in DOMAIN login
    PROVE  Free(j.conn, jobs \ {j})
BY DEF DialogueInv, Waiting, Free

LEMMA DialogKeeps ==
    ASSUME DialogueInv, OwnersKeep, used' = used, NEW c \in DOMAIN login, NEW rest, NEW new,
           Free(c, rest), Turn(c, rest, new)
    PROVE  (StagesOK /\ JobsOK /\ Waiting)' /\ DOMAIN login' \subseteq DOMAIN login
<1>0. c \in used
  BY DEF DialogueInv, ConnsOK
<1>1. /\ \A d \in DOMAIN login : Suits(login[d], owner')
      /\ \A j \in jobs : JobSuits(j, owner') /\ j.conn \in used
  BY SuitsGrow, JobSuitsGrow DEF DialogueInv, StagesOK, JobsOK
<1>2. /\ \A j \in jobs : j.conn \in DOMAIN login => login[j.conn].at = "Authenticating"
      /\ \A i, j \in jobs : i.conn = j.conn /\ i.conn \in DOMAIN login => i = j
      /\ \A d \in DOMAIN login :
           login[d].at = "Authenticating" => \E j \in jobs : j.conn = d
  BY DEF DialogueInv, Waiting
<1>3. CASE Answers(c, rest)
  <2> PICK ctx : /\ Suits(ctx, owner') /\ ctx.at # "Authenticating"
                 /\ login' = With(login, c, ctx) /\ jobs' = rest
    BY <1>3 DEF Answers
  <2>1. /\ DOMAIN login' = DOMAIN login /\ login'[c] = ctx
        /\ \A d \in DOMAIN login : d # c => login'[d] = login[d]
    BY DEF With
  <2>2. Waiting'
    BY <1>2, <2>1 DEF Free, Waiting
  <2> QED BY <1>1, <2>1, <2>2 DEF Free, StagesOK, JobsOK
<1>4. CASE Waits(c, rest)
  <2> PICK ctx, k : /\ Suits(ctx, owner') /\ ctx.at = "Authenticating"
                    /\ JobSuits(k, owner') /\ k.conn = c
                    /\ login' = With(login, c, ctx) /\ jobs' = rest \cup {k}
    BY <1>4 DEF Waits
  <2>1. /\ DOMAIN login' = DOMAIN login /\ login'[c] = ctx
        /\ \A d \in DOMAIN login : d # c => login'[d] = login[d]
    BY DEF With
  <2>2. Waiting'
    BY <1>2, <2>1 DEF Free, Waiting
  <2> QED BY <1>0, <1>1, <2>1, <2>2 DEF Free, StagesOK, JobsOK
<1>5. CASE Ends(c, rest)
  <2>1. /\ jobs' = rest /\ DOMAIN login' = DOMAIN login \ {c}
        /\ \A d \in DOMAIN login' : login'[d] = login[d]
    BY <1>5 DEF Ends, Drop, Restrict
  <2>2. Waiting'
    BY <1>2, <2>1 DEF Free, Waiting
  <2> QED BY <1>1, <2>1, <2>2 DEF Free, StagesOK, JobsOK
<1> QED BY <1>3, <1>4, <1>5 DEF Turn

\* The kits, when no character is made and when one is.
LEMMA GiftsKeep ==
    ASSUME DialogueInv, UNCHANGED <<owner, accounts, stray>>, Gifts(fresh)
    PROVE  (KitsOK /\ CreatedWhole)'
<1>1. DOMAIN owner \subseteq Names /\ fresh \subseteq DOMAIN owner
  BY DEF DialogueInv, OwnersOK, WorldOK
<1>2. Created' = Created /\ Created \subseteq Names
  BY <1>1 DEF Created
<1>3. KitsOK'
  BY <1>1, <1>2 DEF DialogueInv, KitsOK, Gifts
<1>4. \A n \in Created : n \in fresh' \cup stray' \/ kits'[n] = 1
  BY <1>2 DEF DialogueInv, CreatedWhole, Gifts
<1>5. accounts' = (Range(Owner0) \ {NoUser}) \cup {owner'[n] : n \in Created'}
  BY <1>2 DEF DialogueInv, CreatedWhole
<1> QED BY <1>2, <1>3, <1>4, <1>5 DEF CreatedWhole, Gifts

LEMMA MakesGifts ==
    ASSUME DialogueInv, NEW n, NEW a, Makes(n, a),
           \/ stray' = stray \cup {n} /\ Gifts(fresh)
           \/ stray' = stray /\ Gifts(fresh \cup {n})
    PROVE  (KitsOK /\ CreatedWhole)'
<1>1. /\ DOMAIN owner \subseteq Names /\ fresh \subseteq DOMAIN owner
      /\ n \in Names \ DOMAIN owner /\ a \in Accounts
  BY DEF DialogueInv, OwnersOK, WorldOK, Makes
<1>2. /\ DOMAIN owner' = DOMAIN owner \cup {n} /\ owner'[n] = a
      /\ \A m \in DOMAIN owner : m # n /\ owner'[m] = owner[m]
  BY MakesKeeps
<1>3. Created' = Created \cup {n} /\ Created \subseteq DOMAIN owner
  BY <1>1, <1>2 DEF Created, DialogueInv, KitsOK
<1>4. KitsOK'
  BY <1>1, <1>2, <1>3, NoneApart DEF DialogueInv, KitsOK, Gifts, Accounts
<1>5. \A m \in Created' : m \in fresh' \cup stray' \/ kits'[m] = 1
  BY <1>1, <1>3 DEF DialogueInv, CreatedWhole, Gifts
<1>6. accounts' = (Range(Owner0) \ {NoUser}) \cup {owner'[m] : m \in Created'}
  <2>1. {owner'[m] : m \in Created'} = {owner[m] : m \in Created} \cup {a}
    BY <1>2, <1>3
  <2> QED BY <2>1 DEF DialogueInv, CreatedWhole, Makes
<1> QED BY <1>4, <1>5, <1>6 DEF CreatedWhole, Gifts

LEMMA CodesHold ==
    ASSUME DialogueInv, CodesKeep, expiring' \subseteq expiring \cup DOMAIN codes
    PROVE  CodesOK'
BY DEF DialogueInv, CodesOK, CodesKeep

LEMMA ConnsHold ==
    ASSUME DialogueInv, UNCHANGED <<scene, used>>, DOMAIN login' \subseteq DOMAIN login,
           DOMAIN playing' \subseteq used, wakes' \subseteq Conns \X (Codes \cup {NoCode})
    PROVE  ConnsOK'
BY DEF DialogueInv, ConnsOK

LEMMA TurnHolds ==
    ASSUME DialogueInv, Frame, wakes' \subseteq Conns \X (Codes \cup {NoCode}), CodesKeep,
           NEW c \in DOMAIN login, NEW rest, Free(c, rest), Turn(c, rest, fresh)
    PROVE  DialogueInv'
<1>1. OwnersKeep /\ used' = used
  BY FrameKeeps DEF Frame
<1>2. (StagesOK /\ JobsOK /\ Waiting)' /\ DOMAIN login' \subseteq DOMAIN login
  BY <1>1, DialogKeeps
<1>3. (KitsOK /\ CreatedWhole)'
  BY GiftsKeep DEF Frame, Turn
<1>4. CodesOK'
  BY CodesHold DEF Frame
<1>5. ConnsOK'
  <2>1. DOMAIN playing' \subseteq used
    BY DEF Turn, DialogueInv, ConnsOK
  <2> QED BY <1>2, <2>1, ConnsHold DEF Frame
<1> QED BY <1>1, <1>2, <1>3, <1>4, <1>5 DEF DialogueInv, OwnersKeep, Turn

LEMMA RestsHolds ==
    ASSUME DialogueInv, Frame, wakes' \subseteq Conns \X (Codes \cup {NoCode}), CodesKeep, Rests
    PROVE  DialogueInv'
<1>1. OwnersKeep /\ UNCHANGED <<scene, used, login, jobs, owner, accounts, stray>>
  BY FrameKeeps DEF Frame, Rests
<1>2. WorldOK' /\ Gifts(fresh) /\ DOMAIN playing' = DOMAIN playing
  BY <1>1, Unmoved DEF Rests
<1>3. (StagesOK /\ JobsOK /\ Waiting)'
  BY <1>1 DEF DialogueInv, StagesOK, JobsOK, Waiting
<1>4. (KitsOK /\ CreatedWhole)'
  BY <1>1, <1>2, GiftsKeep
<1>5. CodesOK'
  BY CodesHold DEF Frame
<1>6. ConnsOK'
  BY <1>1, <1>2, ConnsHold DEF DialogueInv, ConnsOK
<1> QED BY <1>1, <1>2, <1>3, <1>4, <1>5, <1>6 DEF DialogueInv, OwnersKeep

-----------------------------------------------------------------------------
(* Each action keeps it.                                                   *)

LEMMA SameKits ==
    ASSUME DialogueInv, UNCHANGED <<fresh, kits>>, DOMAIN body' \subseteq DOMAIN body
    PROVE  Gifts(fresh)
BY DEF DialogueInv, KitsOK, CreatedWhole, Gifts

LEMMA LineHolds ==
    ASSUME DialogueInv, NEW c, Line(c)
    PROVE  DialogueInv'
<1>1. wakes \subseteq Conns \X (Codes \cup {NoCode})
  BY DEF DialogueInv, ConnsOK
<1> QED BY <1>1, LineTurn, FreeIdle, TurnHolds, RestsHolds

LEMMA WakeHolds ==
    ASSUME DialogueInv, NEW c, NEW k, Wake(c, k)
    PROVE  DialogueInv'
<1>1. Frame /\ OwnersKeep /\ owner' = owner
  BY FrameKeeps DEF Wake, Quiet, SameRows, Frame
<1>2. wakes' \subseteq Conns \X (Codes \cup {NoCode})
  BY DEF Wake, DialogueInv, ConnsOK
<1>3. CASE Showing(c, k)
  <2>1. c \in DOMAIN login /\ login[c].at = "AwaitingWebApproval" /\ ResolveWebApproval(c)
    BY <1>3 DEF Wake, Showing, At
  <2>2. CodesKeep /\ (Rests \/ Turn(c, jobs, fresh))
    BY <1>1, <2>1, ResolveTurn
  <2>3. Free(c, jobs)
    BY <2>1, FreeIdle
  <2> QED BY <1>1, <1>2, <2>1, <2>2, <2>3, TurnHolds, RestsHolds
<1>4. CASE ~Showing(c, k)
  BY <1>1, <1>2, <1>4, SameCodes, RestsHolds DEF Wake, Rests, Refresh
<1> QED BY <1>3, <1>4

\* The clock of a code and its poller: the stage stays.
LEMMA ClockHolds ==
    ASSUME DialogueInv, NEW c \in Conns, ClockTicks(c) \/ Poll(c)
    PROVE  DialogueInv'
<1>0. /\ c \in DOMAIN login /\ login[c].at = "AwaitingWebApproval"
      /\ Suits(login[c], owner) /\ login[c] \in Ctx
  BY DEF ClockTicks, Poll, At, DialogueInv, StagesOK, Suits
<1>1. /\ Frame /\ Refresh /\ jobs' = jobs /\ codes' = codes
      /\ wakes' \subseteq wakes \cup {<<c, login[c].code>>}
  BY DEF ClockTicks, Poll, Quiet, taskVars, rowVars, histVars, Frame, Refresh
<1>2. OwnersKeep /\ owner' = owner
  BY <1>1, FrameKeeps DEF Frame
<1>3. wakes' \subseteq Conns \X (Codes \cup {NoCode})
  BY <1>0, <1>1 DEF DialogueInv, ConnsOK, Ctx
<1>4. PICK ctx : Put(c, ctx) /\ (\/ \E t \in {"due", "over"} : ctx = [login[c] EXCEPT !.clock = t]
                                 \/ ctx = [login[c] EXCEPT !.poll = FALSE])
  BY DEF ClockTicks, Poll
<1>5. /\ ctx \in Ctx /\ ctx.at = login[c].at /\ ctx.list = login[c].list
      /\ ctx.ch = login[c].ch /\ ctx.user = login[c].user
  BY <1>0, <1>4 DEF Ctx
<1>6. Suits(ctx, owner')
  BY <1>0, <1>2, <1>5 DEF Suits
<1>7. Answers(c, jobs)
  BY <1>0, <1>1, <1>4, <1>5, <1>6 DEF Put, Answers
<1>8. Turn(c, jobs, fresh) /\ Free(c, jobs) /\ CodesKeep
  BY <1>0, <1>1, <1>2, <1>7, QuietTurn, FreeIdle, SameCodes
<1> QED BY <1>0, <1>1, <1>3, <1>8, TurnHolds

LEMMA RunHolds ==
    ASSUME DialogueInv, NEW j \in jobs, RunJob(j)
    PROVE  DialogueInv'
<1>1. PICK done \in Found(j) : jobs' = (jobs \ {j}) \cup {done}
  BY DEF RunJob
<1>2. /\ UNCHANGED <<scene, used, login, playing, body, fresh, wakes, expiring>>
      /\ UNCHANGED <<codes, owner, accounts, kits, unclosed, stray>>
  BY DEF RunJob, Quiet, routerVars, rowVars, histVars
<1>3. JobSuits(j, owner) /\ j.conn \in used
  BY DEF DialogueInv, JobsOK
<1>4. JobSuits(done, owner) /\ done.conn = j.conn
  <2>1. j \in JobRecords
    BY <1>3 DEF JobSuits
  <2>2. CASE j.kind = "name" /\ j.ch \in DOMAIN owner
    <3>1. PICK r \in {"ok", "failed"}, u \in {owner[j.ch], NoUser, j.user} :
            /\ done = [j EXCEPT !.result = r, !.user = u]
            /\ r = "ok" => u \in {owner[j.ch], NoUser}
      <4>1. CASE done \in {[j EXCEPT !.result = "ok", !.user = u] : u \in {owner[j.ch], NoUser}}
        BY <4>1
      <4>2. CASE done = [j EXCEPT !.result = "failed"]
        <5>1. done = [j EXCEPT !.result = "failed", !.user = j.user]
          BY <2>1, <4>2 DEF JobRecords
        <5> QED BY <5>1
      <4>3. Found(j) = {[j EXCEPT !.result = "ok", !.user = u] : u \in {owner[j.ch], NoUser}}
                        \cup {[j EXCEPT !.result = "failed"]}
        BY <2>2 DEF Found
      <4> QED BY <1>1, <4>1, <4>2, <4>3
    <3>2. u \in Accounts \cup {NoUser}
      BY <2>1, <2>2 DEF DialogueInv, OwnersOK, JobRecords
    <3>3. done \in JobRecords /\ done.kind = "name" /\ done.ch = j.ch /\ done.conn = j.conn
          /\ done.result = r /\ done.user = u
      BY <2>1, <2>2, <3>1, <3>2 DEF JobRecords
    <3> QED BY <1>3, <2>2, <3>1, <3>3 DEF JobSuits, Linked
  <2>3. CASE ~(j.kind = "name" /\ j.ch \in DOMAIN owner)
    <3>1. PICK r \in {"ok", "failed", "unknown"} :
            done = [j EXCEPT !.result = r] /\ (j.kind = "name" => r # "ok")
      BY <1>1, <2>3 DEF Found, Faults
    <3>2. /\ done \in JobRecords /\ done.kind = j.kind /\ done.ch = j.ch
          /\ done.conn = j.conn /\ done.user = j.user /\ done.result = r
      BY <2>1, <3>1 DEF JobRecords
    <3> QED BY <1>3, <3>1, <3>2 DEF JobSuits
  <2> QED BY <2>2, <2>3
<1>5. JobsOK'
  BY <1>1, <1>2, <1>3, <1>4 DEF DialogueInv, JobsOK
<1>6. Waiting'
  <2>1. /\ \A i \in jobs : i.conn \in DOMAIN login => login[i.conn].at = "Authenticating"
        /\ \A h, i \in jobs : h.conn = i.conn /\ h.conn \in DOMAIN login => h = i
        /\ \A d \in DOMAIN login :
             login[d].at = "Authenticating" => \E i \in jobs : i.conn = d
    BY DEF DialogueInv, Waiting
  <2>2. /\ \A i \in jobs' : i.conn \in DOMAIN login => login[i.conn].at = "Authenticating"
        /\ \A h, i \in jobs' : h.conn = i.conn /\ h.conn \in DOMAIN login => h = i
    BY <1>1, <1>4, <2>1
  <2>3. ASSUME NEW d \in DOMAIN login, login[d].at = "Authenticating"
        PROVE  \E i \in jobs' : i.conn = d
    BY <1>1, <1>4, <2>1, <2>3
  <2> QED BY <1>2, <2>2, <2>3 DEF Waiting
<1>7. (OwnersOK /\ CodesOK /\ WorldOK /\ ConnsOK /\ StagesOK)'
  BY <1>2 DEF DialogueInv, OwnersOK, CodesOK, WorldOK, ConnsOK, StagesOK
<1>8. (KitsOK /\ CreatedWhole)'
  BY <1>2, SameKits, GiftsKeep
<1> QED BY <1>5, <1>6, <1>7, <1>8 DEF DialogueInv

LEMMA ResultHolds ==
    ASSUME DialogueInv, NEW j \in jobs, OnAuthDone(j)
    PROVE  DialogueInv'
<1> DEFINE rest == jobs \ {j}
<1>0. UNCHANGED <<scene, used, wakes, expiring>> /\ wakes \subseteq Conns \X (Codes \cup {NoCode})
  BY DEF OnAuthDone, Quiet, SameTasks, DialogueInv, ConnsOK
<1>1. CASE j.conn \notin DOMAIN login
  <2>1. /\ jobs' = rest /\ UNCHANGED <<login, playing, body, fresh>>
        /\ UNCHANGED <<codes, owner, accounts, kits, stray>>
    BY <1>1 DEF OnAuthDone, routerVars, rowVars, histVars
  <2>2. (JobsOK /\ Waiting)'
    BY <1>0, <1>1, <2>1 DEF DialogueInv, JobsOK, Waiting
  <2>3. (OwnersOK /\ CodesOK /\ WorldOK /\ ConnsOK /\ StagesOK)'
    BY <1>0, <2>1 DEF DialogueInv, OwnersOK, CodesOK, WorldOK, ConnsOK, StagesOK
  <2>4. (KitsOK /\ CreatedWhole)'
    BY <2>1, SameKits, GiftsKeep
  <2> QED BY <2>2, <2>3, <2>4 DEF DialogueInv
<1>2. CASE j.conn \in DOMAIN login
  <2>0. Free(j.conn, rest)
    BY <1>2, FreeDone
  <2>1. ASSUME UNCHANGED <<owner, accounts, stray>>, CodesKeep, Turn(j.conn, rest, fresh)
        PROVE  DialogueInv'
    BY <1>0, <1>2, <2>0, <2>1, TurnHolds DEF Frame
  <2>2. CASE FinishCharLookup(j, rest)
    BY <1>2, <2>1, <2>2, FrameKeeps, LookupTurn DEF FinishCharLookup, SameRows
  <2>3. CASE FinishEmailLookup(j, rest)
    BY <1>2, <2>1, <2>3, FrameKeeps, LookupTurn DEF FinishEmailLookup, SameRows
  <2>4. CASE FinishCheck(j, rest)
    BY <1>2, <2>1, <2>4, FrameKeeps, CheckTurn, SameCodes DEF FinishCheck, SameRows
  <2>5. CASE FinishSaveWait(j, rest)
    BY <1>2, <2>1, <2>5, FrameKeeps, CheckTurn, SameCodes DEF FinishSaveWait, SameRows
  <2>6. CASE FinishCreation(j, rest)
    <3>1. codes' = codes /\ CodesKeep
      BY <2>6, SameCodes DEF FinishCreation
    <3>2. ASSUME NEW n, NEW a, NEW new, Makes(n, a), Turn(j.conn, rest, new),
                 \/ stray' = stray \cup {n} /\ new = fresh
                 \/ stray' = stray /\ new = fresh \cup {n}
          PROVE  DialogueInv'
      <4>1. OwnersKeep
        BY <3>2, MakesKeeps
      <4>2. (StagesOK /\ JobsOK /\ Waiting)' /\ DOMAIN login' \subseteq DOMAIN login
        BY <1>0, <1>2, <2>0, <3>2, <4>1, DialogKeeps
      <4>3. (KitsOK /\ CreatedWhole)'
        BY <3>2, MakesGifts DEF Turn
      <4>4. CodesOK'
        BY <1>0, <3>1, CodesHold
      <4>5. ConnsOK'
        <5>1. DOMAIN playing' \subseteq used
          BY <1>2, <3>2 DEF Turn, DialogueInv, ConnsOK
        <5> QED BY <1>0, <4>2, <5>1, ConnsHold
      <4> QED BY <3>2, <4>1, <4>2, <4>3, <4>4, <4>5 DEF DialogueInv, OwnersKeep, Turn
    <3> QED BY <1>2, <2>1, <2>6, <3>1, <3>2, CreationTurn
  <2> QED BY <1>2, <2>2, <2>3, <2>4, <2>5, <2>6 DEF OnAuthDone
<1> QED BY <1>1, <1>2

LEMMA ConnectHolds ==
    ASSUME DialogueInv, NEW c \in Conns, OnConnect(c)
    PROVE  DialogueInv'
<1>0. /\ UNCHANGED <<scene, playing, body, fresh, jobs, wakes, expiring>>
      /\ UNCHANGED <<codes, owner, accounts, kits, stray>>
      /\ c \in scene.conns \ used /\ used' = used \cup {c}
  BY DEF OnConnect, taskVars, rowVars, histVars
<1>1. /\ DOMAIN login' = DOMAIN login \cup {c} /\ login'[c] = Blank(0) /\ c \notin DOMAIN login
      /\ \A d \in DOMAIN login : login'[d] = login[d]
  BY DEF OnConnect, With, DialogueInv, ConnsOK
<1>2. Suits(Blank(0), owner') /\ Blank(0).at # "Authenticating"
  BY BlankSuits, FailsTyped
<1>3. \A j \in jobs : j.conn # c
  BY <1>0 DEF DialogueInv, JobsOK
<1>4. (StagesOK /\ JobsOK)'
  BY <1>0, <1>1, <1>2 DEF DialogueInv, StagesOK, JobsOK
<1>5. Waiting'
  BY <1>0, <1>1, <1>2, <1>3 DEF DialogueInv, Waiting
<1>6. (OwnersOK /\ CodesOK /\ WorldOK /\ ConnsOK)'
  BY <1>0, <1>1 DEF DialogueInv, OwnersOK, CodesOK, WorldOK, ConnsOK
<1>7. (KitsOK /\ CreatedWhole)'
  BY <1>0, SameKits, GiftsKeep
<1> QED BY <1>4, <1>5, <1>6, <1>7 DEF DialogueInv

LEMMA DisconnectHolds ==
    ASSUME DialogueInv, NEW c \in Conns, OnDisconnect(c)
    PROVE  DialogueInv'
<1>0. /\ UNCHANGED <<scene, used, fresh, jobs, wakes>>
      /\ UNCHANGED <<codes, owner, accounts, kits, stray>>
      /\ expiring' \subseteq expiring \cup DOMAIN codes
  BY DEF OnDisconnect, Quiet, rowVars, histVars, CodesOf
<1>1. /\ DOMAIN login' \subseteq DOMAIN login
      /\ \A d \in DOMAIN login' : login'[d] = login[d]
      /\ DOMAIN playing' \subseteq DOMAIN playing
      /\ \A d \in DOMAIN playing' : playing'[d] = playing[d]
  BY DEF OnDisconnect, Drop, Restrict
<1>2. /\ DOMAIN body' \subseteq DOMAIN body
      /\ \A ch \in DOMAIN body' : body'[ch] \in {body[ch], NoConn}
  <2>1. CASE body' = [body EXCEPT ![playing[c]] = NoConn]
    BY <2>1
  <2>2. CASE body' = Restrict(body, DOMAIN body \ {playing[c]})
    BY <2>2 DEF Restrict
  <2> QED BY <2>1, <2>2 DEF OnDisconnect
<1>3. (StagesOK /\ JobsOK /\ Waiting)'
  BY <1>0, <1>1 DEF DialogueInv, StagesOK, JobsOK, Waiting
<1>4. (OwnersOK /\ CodesOK /\ WorldOK /\ ConnsOK)'
  BY <1>0, <1>1, <1>2 DEF DialogueInv, OwnersOK, CodesOK, WorldOK, ConnsOK
<1>5. (KitsOK /\ CreatedWhole)'
  BY <1>0, <1>2, SameKits, GiftsKeep
<1> QED BY <1>3, <1>4, <1>5 DEF DialogueInv

LEMMA LeavesHolds ==
    ASSUME DialogueInv, NEW ch, BodyLeaves(ch)
    PROVE  DialogueInv'
<1>0. /\ UNCHANGED <<scene, used, login, playing, fresh, jobs, wakes, expiring>>
      /\ UNCHANGED <<codes, owner, accounts, kits, stray>>
  BY DEF BodyLeaves, Quiet, taskVars, rowVars, histVars
<1>1. DOMAIN body' \subseteq DOMAIN body /\ \A n \in DOMAIN body' : body'[n] = body[n]
  BY DEF BodyLeaves, Restrict
<1>2. (StagesOK /\ JobsOK /\ Waiting)'
  BY <1>0 DEF DialogueInv, StagesOK, JobsOK, Waiting
<1>3. (OwnersOK /\ CodesOK /\ WorldOK /\ ConnsOK)'
  BY <1>0, <1>1 DEF DialogueInv, OwnersOK, CodesOK, WorldOK, ConnsOK
<1>4. (KitsOK /\ CreatedWhole)'
  BY <1>0, <1>1, SameKits, GiftsKeep
<1> QED BY <1>2, <1>3, <1>4 DEF DialogueInv

LEMMA ExpireHolds ==
    ASSUME DialogueInv, NEW k, ExpireTask(k)
    PROVE  DialogueInv'
<1>0. /\ UNCHANGED <<scene, used, login, playing, body, fresh, jobs, wakes>>
      /\ UNCHANGED <<owner, accounts, kits, stray>> /\ expiring' \subseteq expiring
  BY DEF ExpireTask, Quiet, routerVars
<1>1. CodesOK'
  BY <1>0, CloseKeeps, CodesHold DEF ExpireTask
<1>2. (OwnersOK /\ WorldOK /\ ConnsOK /\ StagesOK /\ JobsOK /\ Waiting)'
  BY <1>0 DEF DialogueInv, OwnersOK, WorldOK, ConnsOK, StagesOK, JobsOK, Waiting
<1>3. (KitsOK /\ CreatedWhole)'
  BY <1>0, SameKits, GiftsKeep
<1> QED BY <1>1, <1>2, <1>3 DEF DialogueInv

LEMMA WebsiteHolds ==
    ASSUME DialogueInv, Website
    PROVE  DialogueInv'
<1>0. /\ UNCHANGED <<scene, used, login, playing, body, fresh, jobs, wakes, expiring>>
      /\ UNCHANGED <<accounts, kits, stray>>
  BY DEF Website, Quiet, routerVars, taskVars, histVars
<1>1. CASE \E k \in DOMAIN codes : \E row \in Moves(codes[k]) \ {codes[k]} :
               codes' = [codes EXCEPT ![k] = row] /\ owner' = owner
  <2> PICK k \in DOMAIN codes : \E row \in Moves(codes[k]) :
           codes' = [codes EXCEPT ![k] = row] /\ owner' = owner
    BY <1>1
  <2> PICK row \in Moves(codes[k]) : codes' = [codes EXCEPT ![k] = row] /\ owner' = owner
    OBVIOUS
  <2>1. DOMAIN codes \subseteq Codes /\ \A i \in DOMAIN codes : codes[i] \in RowRecords
    BY DEF DialogueInv, CodesOK
  <2>2. row \in RowRecords
    BY <2>1 DEF Moves, RowRecords, DialogueInv, OwnersOK
  <2>3. CodesOK'
    BY <1>0, <2>1, <2>2 DEF DialogueInv, CodesOK
  <2>4. (OwnersOK /\ WorldOK /\ ConnsOK /\ StagesOK /\ JobsOK /\ Waiting)'
    BY <1>0 DEF DialogueInv, OwnersOK, WorldOK, ConnsOK, StagesOK, JobsOK, Waiting
  <2>5. (KitsOK /\ CreatedWhole)'
    BY <1>0, SameKits, GiftsKeep
  <2> QED BY <2>3, <2>4, <2>5 DEF DialogueInv
<1>2. CASE \E n \in DOMAIN owner, a \in accounts :
               owner[n] = NoUser /\ owner' = [owner EXCEPT ![n] = a] /\ codes' = codes
  <2> PICK n \in DOMAIN owner, a \in accounts :
           owner[n] = NoUser /\ owner' = [owner EXCEPT ![n] = a] /\ codes' = codes
    BY <1>2
  <2>1. /\ DOMAIN owner' = DOMAIN owner /\ owner'[n] = a
        /\ \A m \in DOMAIN owner : m # n => owner'[m] = owner[m]
    OBVIOUS
  <2>2. OwnersKeep
    BY <1>0, <2>1 DEF DialogueInv, OwnersOK, OwnersKeep
  <2>3. (StagesOK /\ JobsOK /\ Waiting)'
    BY <1>0, <2>2, SuitsGrow, JobSuitsGrow DEF DialogueInv, StagesOK, JobsOK, Waiting
  <2>4. (CodesOK /\ WorldOK /\ ConnsOK)'
    BY <1>0, <2>1 DEF DialogueInv, CodesOK, WorldOK, ConnsOK
  <2>5. (KitsOK /\ CreatedWhole)'
    <3>1. Created' = Created /\ n \notin Created /\ Created \subseteq DOMAIN owner
      BY <2>1 DEF Created, DialogueInv, KitsOK
    <3>2. \A m \in Created : owner'[m] = owner[m]
      BY <2>1, <3>1
    <3>3. KitsOK'
      BY <1>0, <2>1, <3>1, <3>2 DEF DialogueInv, KitsOK
    <3>4. accounts' = (Range(Owner0) \ {NoUser}) \cup {owner'[m] : m \in Created'}
      BY <1>0, <3>1, <3>2 DEF DialogueInv, CreatedWhole
    <3> QED BY <1>0, <3>1, <3>3, <3>4 DEF DialogueInv, CreatedWhole
  <2> QED BY <2>2, <2>3, <2>4, <2>5 DEF DialogueInv, OwnersKeep
<1> QED BY <1>1, <1>2 DEF Website

LEMMA DialogueInit == Init => DialogueInv
<1> SUFFICES ASSUME Init PROVE DialogueInv
  OBVIOUS
<1>1. /\ login = << >> /\ playing = << >> /\ body = << >> /\ codes = << >>
      /\ jobs = {} /\ wakes = {} /\ expiring = {} /\ fresh = {} /\ used = {}
      /\ scene \in Scenarios /\ owner = Owner0 /\ accounts = Range(Owner0) \ {NoUser}
      /\ kits = [n \in Names |-> 0]
  BY DEF Init
<1>2. OwnersOK
  BY <1>1, OwnersTyped DEF OwnersOK, Accounts, Range
<1>3. CodesOK /\ WorldOK /\ ConnsOK /\ StagesOK /\ JobsOK /\ Waiting
  BY <1>1 DEF CodesOK, WorldOK, ConnsOK, StagesOK, JobsOK, Waiting
<1>4. Created = {}
  BY <1>1 DEF Created
<1>5. KitsOK
  BY <1>1, <1>4 DEF KitsOK
<1>6. CreatedWhole
  BY <1>1, <1>4 DEF CreatedWhole
<1> QED BY <1>2, <1>3, <1>5, <1>6 DEF DialogueInv

LEMMA DialogueNext == DialogueInv /\ [Next]_vars => DialogueInv'
<1> SUFFICES ASSUME DialogueInv, [Next]_vars PROVE DialogueInv'
  OBVIOUS
<1>1. CASE UNCHANGED vars
  <2>1. UNCHANGED <<scene, used, login, playing, body, fresh, jobs, wakes, expiring,
                    codes, owner, accounts, kits, stray>>
    BY <1>1 DEF vars, routerVars, taskVars, rowVars, histVars
  <2>2. (OwnersOK /\ CodesOK /\ WorldOK /\ ConnsOK /\ StagesOK /\ JobsOK /\ Waiting)'
    BY <2>1 DEF DialogueInv, OwnersOK, CodesOK, WorldOK, ConnsOK, StagesOK, JobsOK, Waiting
  <2>3. (KitsOK /\ CreatedWhole)'
    BY <2>1, SameKits, GiftsKeep
  <2> QED BY <2>2, <2>3 DEF DialogueInv
<1>2. ASSUME Next PROVE DialogueInv'
  BY <1>2, ConnectHolds, LineHolds, DisconnectHolds, ClockHolds, RunHolds, ResultHolds,
     WakeHolds, ExpireHolds, LeavesHolds, WebsiteHolds DEF Next
<1> QED BY <1>1, <1>2

THEOREM DialogueKept == Spec => []DialogueInv
BY DialogueInit, DialogueNext, PTL DEF Spec

-----------------------------------------------------------------------------
(* A code is spent on one login.                                           *)

\* Nothing moves c past its code in this step.
Aside(c) == c \notin DOMAIN playing' /\ (c \in DOMAIN login' => ~Past(login'[c]))

\* c enters as the account, or is on its way as the account.
GoesAs(c, user) ==
    /\ c \in DOMAIN playing' => owner[playing'[c]] = user
    /\ c \in DOMAIN login' =>
         \/ login'[c].at = "CharSelect" /\ login'[c].user = user
         \/ \E j \in jobs' : j.conn = c /\ j.user = user

LEMMA PasswordGoes ==
    ASSUME DialogueInv, NEW c \in DOMAIN login, c \notin DOMAIN playing,
           NEW ch \in DOMAIN owner \cup {NoName}, NEW user \in Accounts \cup {NoUser}, NEW rest,
           ch # NoName => owner[ch] = user, FinishPassword(c, ch, user, rest)
    PROVE  Aside(c) \/ GoesAs(c, user)
<1>1. CASE TurnedAway(c, rest)
  <2>1. c \in DOMAIN login' /\ login'[c].at = "AwaitingIdentifier" /\ playing' = playing
    BY <1>1 DEF TurnedAway, Reprompt, Put, With, Blank
  <2> QED BY <2>1 DEF Aside, Past
<1>2. CASE ch # NoName /\ CompleteLogin(c, ch, user, FALSE, rest, fresh)
  <2>1. CASE TryTakeover(c, ch)
    BY <1>2, <2>1 DEF TryTakeover, Drop, Restrict, With, GoesAs
  <2>2. CASE SpawnPlayer(c, ch, fresh)
    BY <1>2, <2>2 DEF SpawnPlayer, Drop, Restrict, With, GoesAs
  <2>3. CASE RefuseLogin(c, fresh)
    BY <2>3 DEF RefuseLogin, Drop, Restrict, Aside
  <2>4. CASE Park(c, "saves", ch, user, rest) /\ UNCHANGED <<playing, body, kits>>
    <3>1. Job(c, "saves", ch, user) \in jobs'
      BY <2>4 DEF Park
    <3>2. Job(c, "saves", ch, user).conn = c /\ Job(c, "saves", ch, user).user = user
      BY DEF Job
    <3> QED BY <2>4, <3>1, <3>2 DEF GoesAs
  <2> QED BY <1>2, <2>1, <2>2, <2>3, <2>4 DEF CompleteLogin
<1>3. CASE /\ Put(c, [Stage(c, "CharSelect", NoName, user) EXCEPT !.list = ListFor(user)])
           /\ UNCHANGED <<playing, body, fresh, kits>>
  <2> DEFINE ctx == [Stage(c, "CharSelect", NoName, user) EXCEPT !.list = ListFor(user)]
  <2>1. ctx.at = "CharSelect" /\ ctx.user = user
    BY DEF Stage, Blank
  <2>2. login'[c] = ctx /\ playing' = playing
    BY <1>3 DEF Put, With
  <2> QED BY <2>1, <2>2 DEF GoesAs
<1> QED BY <1>1, <1>2, <1>3 DEF FinishPassword

LEMMA ResolveSpends ==
    ASSUME DialogueInv, NEW c \in DOMAIN login, c \notin DOMAIN playing,
           NEW k \in DOMAIN codes, login[c].at = "AwaitingWebApproval", login[c].code = k,
           ResolveWebApproval(c)
    PROVE  \/ Aside(c)
           \/ /\ codes[k].status = "APPROVED" /\ codes'[k].status = "CONSUMED"
              /\ GoesAs(c, codes[k].by)
<1>0. /\ login[c].ch \in DOMAIN owner \cup {NoName} /\ login[c].user \in Accounts \cup {NoUser}
      /\ Linked(login[c].ch, login[c].user, owner)
  BY DEF DialogueInv, StagesOK, Suits, Linked, Ctx, Accounts
<1>1. ASSUME Reprompt(c), Refresh
      PROVE  Aside(c)
  BY <1>1 DEF Reprompt, Put, With, Blank, Refresh, Aside, Past
<1>2. ASSUME login' = login, Refresh
      PROVE  Aside(c)
  BY <1>2 DEF Refresh, Aside, Past
<1>3. CASE ResolveDecoy(c)
  BY <1>1, <1>2, <1>3 DEF ResolveDecoy
<1>4. CASE ResolveOpen(c, k)
  BY <1>1, <1>2, <1>4 DEF ResolveOpen
<1>5. CASE ResolveLinked(c, k)
  <2>1. CASE /\ codes[k].by = login[c].user /\ codes' = Consumed(k)
             /\ FinishPassword(c, login[c].ch, login[c].user, jobs)
    <3>1. login[c].ch # NoName => owner[login[c].ch] = login[c].user
      BY <1>0, <1>5 DEF Linked, ResolveLinked
    <3>2. Aside(c) \/ GoesAs(c, codes[k].by)
      BY <1>0, <2>1, <3>1, PasswordGoes
    <3> QED BY <1>5, <2>1, <3>2, ConsumedKeeps DEF ResolveLinked
  <2> QED BY <1>1, <1>5, <2>1 DEF ResolveLinked
<1>6. CASE ResolveUnlinked(c, k)
  <2>1. CASE /\ codes[k].by = owner[login[c].ch] /\ codes' = Consumed(k)
             /\ FinishPassword(c, login[c].ch, owner[login[c].ch], jobs)
    <3>1. owner[login[c].ch] \in Accounts \cup {NoUser}
      BY <2>1 DEF DialogueInv, CodesOK, RowRecords
    <3>2. Aside(c) \/ GoesAs(c, codes[k].by)
      BY <1>0, <2>1, <3>1, PasswordGoes
    <3> QED BY <1>6, <2>1, <3>2, ConsumedKeeps DEF ResolveUnlinked
  <2> QED BY <1>1, <1>6, <2>1 DEF ResolveUnlinked
<1> QED BY <1>3, <1>4, <1>5, <1>6 DEF ResolveWebApproval

\* Another connection's turn.
LEMMA TurnAside ==
    ASSUME NEW c \in DOMAIN login, c \notin DOMAIN playing, ~Past(login[c]),
           NEW d \in DOMAIN login, d # c, NEW rest, NEW new, Turn(d, rest, new)
    PROVE  Aside(c)
<1>1. c \in DOMAIN login' => login'[c] = login[c]
  BY DEF Turn, Answers, Waits, Ends, Drop, With, Restrict
<1> QED BY <1>1 DEF Turn, Aside

LEMMA ResultTurns ==
    ASSUME DialogueInv, NEW j \in jobs, OnAuthDone(j), j.conn \in DOMAIN login
    PROVE  \E new : Turn(j.conn, jobs \ {j}, new)
<1> DEFINE rest == jobs \ {j}
<1>1. CASE FinishCharLookup(j, rest)
  BY <1>1, FrameKeeps, LookupTurn DEF FinishCharLookup, SameRows
<1>2. CASE FinishEmailLookup(j, rest)
  BY <1>2, FrameKeeps, LookupTurn DEF FinishEmailLookup, SameRows
<1>3. CASE FinishCheck(j, rest)
  BY <1>3, FrameKeeps, CheckTurn DEF FinishCheck, SameRows
<1>4. CASE FinishSaveWait(j, rest)
  BY <1>4, FrameKeeps, CheckTurn DEF FinishSaveWait, SameRows
<1>5. CASE FinishCreation(j, rest)
  BY <1>5, CreationTurn
<1> QED BY <1>1, <1>2, <1>3, <1>4, <1>5 DEF OnAuthDone

LEMMA StepSpends ==
    ASSUME DialogueInv, OneBody, [Next]_vars,
           NEW c \in DOMAIN login, NEW k \in DOMAIN codes, Showing(c, k)
    PROVE  \/ Aside(c)
           \/ /\ codes[k].status = "APPROVED" /\ codes'[k].status = "CONSUMED"
              /\ GoesAs(c, codes[k].by)
<1>0. /\ login[c].at = "AwaitingWebApproval" /\ login[c].code = k /\ ~Past(login[c])
      /\ c \notin DOMAIN playing /\ c \in used
  BY DEF Showing, At, Past, OneBody, DialogueInv, ConnsOK
<1>1. ASSUME UNCHANGED <<login, playing>>
      PROVE  Aside(c)
  BY <1>0, <1>1 DEF Aside
<1>2. ASSUME NEW d \in DOMAIN login, d # c, Rests \/ \E rest, new : Turn(d, rest, new)
      PROVE  Aside(c)
  BY <1>0, <1>1, <1>2, TurnAside DEF Rests, Refresh
<1>3. CASE UNCHANGED vars
  BY <1>1, <1>3 DEF vars, routerVars
<1>4. ASSUME NEW d, OnConnect(d)
      PROVE  Aside(c)
  BY <1>0, <1>4 DEF OnConnect, With, Aside
<1>5. ASSUME NEW d, OnDisconnect(d)
      PROVE  Aside(c)
  BY <1>0, <1>5 DEF OnDisconnect, Drop, Restrict, Aside
<1>6. ASSUME NEW d, Line(d), d # c
      PROVE  Aside(c)
  BY <1>1, <1>2, <1>6, LineTurn DEF Rests, Refresh
<1>7. CASE Line(c)
  <2>1. WebApproval(c)
    BY <1>0, <1>7 DEF Line, Identifier, ConfirmCreate, MenuLine, Menu, Password, Swallow,
                      CharSelect, At
  <2>2. CASE Reprompt(c) /\ Refresh
    BY <1>0, <2>2 DEF Reprompt, Put, With, Blank, Refresh, Aside, Past
  <2> QED BY <1>0, <2>1, <2>2, ResolveSpends DEF WebApproval
<1>8. ASSUME NEW d, ClockTicks(d) \/ Poll(d)
      PROVE  Aside(c)
  <2>1. /\ d \in DOMAIN login /\ login[d] \in Ctx /\ login[d].at = "AwaitingWebApproval"
        /\ playing' = playing
    BY <1>8 DEF ClockTicks, Poll, At, DialogueInv, StagesOK, Suits
  <2>2. PICK ctx : Put(d, ctx) /\ (\/ \E t \in {"due", "over"} : ctx = [login[d] EXCEPT !.clock = t]
                                   \/ ctx = [login[d] EXCEPT !.poll = FALSE])
    BY <1>8 DEF ClockTicks, Poll
  <2>3. ctx.at = "AwaitingWebApproval"
    BY <2>1, <2>2 DEF Ctx
  <2> QED BY <1>0, <2>1, <2>2, <2>3 DEF Put, With, Aside, Past
<1>9. ASSUME NEW j \in jobs, RunJob(j)
      PROVE  Aside(c)
  BY <1>1, <1>9 DEF RunJob, routerVars
<1>10. ASSUME NEW j \in jobs, OnAuthDone(j)
       PROVE  Aside(c)
  <2>1. CASE j.conn \notin DOMAIN login
    BY <1>1, <1>10, <2>1 DEF OnAuthDone, routerVars
  <2>2. CASE j.conn \in DOMAIN login
    <3>1. j.conn # c
      BY <1>0 DEF DialogueInv, Waiting
    <3>2. \E rest, new : Turn(j.conn, rest, new)
      BY <1>10, <2>2, ResultTurns
    <3> QED BY <1>2, <2>2, <3>1, <3>2
  <2> QED BY <2>1, <2>2
<1>11. ASSUME NEW d, NEW i, Wake(d, i)
       PROVE  \/ Aside(c)
              \/ /\ codes[k].status = "APPROVED" /\ codes'[k].status = "CONSUMED"
                 /\ GoesAs(c, codes[k].by)
  <2>1. CASE ~Showing(d, i)
    BY <1>1, <1>11, <2>1 DEF Wake
  <2>2. CASE Showing(d, i) /\ d = c
    BY <1>0, <1>11, <2>2, ResolveSpends DEF Wake
  <2>3. CASE Showing(d, i) /\ d # c
    <3>1. d \in DOMAIN login /\ login[d].at = "AwaitingWebApproval" /\ ResolveWebApproval(d)
      BY <1>11, <2>3 DEF Wake, Showing, At
    <3>2. UNCHANGED <<owner, accounts>>
      BY <1>11 DEF Wake, SameRows
    <3>3. Rests \/ Turn(d, jobs, fresh)
      BY <3>1, <3>2, FrameKeeps, ResolveTurn
    <3> QED BY <1>2, <2>3, <3>1, <3>3
  <2> QED BY <2>1, <2>2, <2>3
<1>12. ASSUME NEW i, ExpireTask(i)
       PROVE  Aside(c)
  BY <1>1, <1>12 DEF ExpireTask, routerVars
<1>13. ASSUME NEW ch, BodyLeaves(ch)
       PROVE  Aside(c)
  BY <1>1, <1>13 DEF BodyLeaves
<1>14. ASSUME Website
       PROVE  Aside(c)
  BY <1>1, <1>14 DEF Website, routerVars
<1> QED BY <1>3, <1>4, <1>5, <1>6, <1>7, <1>8, <1>9, <1>10, <1>11, <1>12, <1>13, <1>14 DEF Next

-----------------------------------------------------------------------------
(* What it gives.                                                          *)

\* on_auth_done may act on a result without looking at the stage: a connection
\* that is logging in waits exactly while one job of its own is outstanding.
THEOREM OneJobEach == Spec => []JobsMatchStage
<1>1. ASSUME DialogueInv
      PROVE  JobsMatchStage
  <2>1. TypeOK
    <3>1. Range(login) \subseteq Ctx
      BY <1>1 DEF DialogueInv, StagesOK, Suits, Range
    <3>2. Range(playing) \subseteq Names /\ Range(body) \subseteq Conns \cup {NoConn}
      BY <1>1 DEF DialogueInv, WorldOK, Range
    <3> QED BY <1>1, <3>1, <3>2 DEF DialogueInv, ConnsOK, WorldOK, CodesOK, TypeOK
  <2>2. ASSUME NEW c \in DOMAIN login
        PROVE  Cardinality({j \in jobs : j.conn = c}) = IF At(c, "Authenticating") THEN 1 ELSE 0
    <3>1. CASE At(c, "Authenticating")
      <4>1. PICK j \in jobs : j.conn = c
        BY <1>1, <3>1 DEF DialogueInv, Waiting, At
      <4>2. {i \in jobs : i.conn = c} = {j}
        BY <1>1, <4>1 DEF DialogueInv, Waiting
      <4>3. Cardinality({j}) = 1
        BY FS_Singleton
      <4> QED BY <3>1, <4>2, <4>3
    <3>2. CASE ~At(c, "Authenticating")
      <4>1. {j \in jobs : j.conn = c} = {}
        BY <1>1, <3>2 DEF DialogueInv, Waiting, At
      <4> QED BY <3>2, <4>1, FS_EmptySet
    <3> QED BY <3>1, <3>2
  <2> QED BY <2>1, <2>2 DEF JobsMatchStage
<1> QED BY <1>1, DialogueKept, PTL

\* finish_creation and complete_login_inner: no account without its character, and
\* one starting kit, at the first spawn.
THEOREM CreationsWhole == Spec => []CreatedWhole
<1>1. DialogueInv => CreatedWhole
  BY DEF DialogueInv
<1> QED BY <1>1, DialogueKept, PTL

\* resolve_web_approval: whoever shows a code gets past it only by spending its
\* approval, and only as the account that gave it.
THEOREM CodeSpentOnce == Spec => CodeSpentOnLogin
<1>1. DialogueInv /\ OneBody /\ [Next]_vars =>
        [\A c \in DOMAIN login, k \in DOMAIN codes :
           Showing(c, k) /\ (c \in DOMAIN playing' \/ (c \in DOMAIN login' /\ Past(login'[c]))) =>
              /\ codes[k].status = "APPROVED" /\ codes'[k].status = "CONSUMED"
              /\ c \in DOMAIN playing' => owner[playing'[c]] = codes[k].by
              /\ c \in DOMAIN login' =>
                   \/ login'[c].at = "CharSelect" /\ login'[c].user = codes[k].by
                   \/ \E j \in jobs' : j.conn = c /\ j.user = codes[k].by]_vars
  BY StepSpends DEF Aside, GoesAs
<1> QED BY <1>1, DialogueKept, OneBodyEach, PTL DEF Spec, CodeSpentOnLogin
=============================================================================
