------------------------------- MODULE Logins -------------------------------
(***************************************************************************)
(* The login dialogue of crates/mud-server/src/login.rs (`ConnRouter`):    *)
(* the stages a connection goes through before it plays, the credential    *)
(* jobs that run beside the world turn and report through `auth_tx`, the   *)
(* website login codes ("GameLoginCode" rows) with their pollers, the      *)
(* creation of characters and the takeover of a body already in the world. *)
(*                                                                         *)
(* One action is one event of the world turn, or one step of a spawned     *)
(* task, of the website or of time.  A handler's awaits hold the turn, but *)
(* not the website: a code row may move between two statements of one      *)
(* handler (`Moves`).  How the saves of an earlier session are ordered is  *)
(* SaveOrder's matter; here a wait for them may end either way.            *)
(***************************************************************************)
EXTENDS Naturals, FiniteSets, Functions

CONSTANTS
    Conns,       \* connection ids, each used once
    Names,       \* character names
    Emails,      \* addresses; an account is known by its address
    Codes,       \* ids of login code rows
    Owner0,      \* the account of every character at start, NoUser for a legacy one
    NoName, NoUser, NoCode, NoConn,
    MaxFails,    \* MAX_FAILED_PASSWORDS_PER_CONN
    Scenarios    \* what the players do: [conns, idents, quota]

\* Every request within the quota finds an id for its row: the bound Codes never
\* stops one.
ASSUME CodesSuffice == \A s \in Scenarios : s.quota <= Cardinality(Codes)

\* What stands for none is none of them.
ASSUME NoneApart == NoConn \notin Conns /\ NoName \notin Names /\ NoUser \notin Emails \cup Names

\* An account made for a character without an address is known by its name.
ASSUME OwnersTyped ==
    DOMAIN Owner0 \subseteq Names /\ Range(Owner0) \subseteq Emails \cup Names \cup {NoUser}

ASSUME FailsTyped == MaxFails \in Nat \ {0}

ASSUME IdentsTyped == \A s \in Scenarios : s.idents \subseteq Emails \cup Names

VARIABLES
    scene,       \* the scenario of this behaviour
    used,        \* connections that have been opened
    login,       \* ConnRouter::login: LoginCtx by connection
    playing,     \* ConnRouter::playing: the character by connection
    body,        \* bodies in the world: the connection a character listens to
    fresh,       \* ConnRouter::fresh_characters
    charged,     \* CodeRateLimiter::hits of the one address the players share
    jobs,        \* credential jobs, running or with their AuthDone queued
    wakes,       \* WebApprovalWake messages queued, <<connection, code>>
    expiring,    \* codes with a task that expires them after a disconnect
    codes,       \* rows of "GameLoginCode": [status, by]
    owner,       \* rows of "Characters": the owning account
    accounts,    \* rows of "Users"
    kits,        \* history: starting kits handed out, by created character
    unclosed,    \* history: codes whose closing statement failed
    stray        \* history: characters whose creation failed after its commit

routerVars == <<login, playing, body, fresh, charged>>
taskVars == <<jobs, wakes, expiring>>
rowVars == <<codes, owner, accounts>>
histVars == <<kits, unclosed, stray>>
vars == <<scene, used, routerVars, taskVars, rowVars, histVars>>

-----------------------------------------------------------------------------
(* Stages and jobs.                                                        *)

Menu == {"AwaitingNewPassword", "ConfirmNewPassword", "AwaitingCharacterName",
         "AwaitingRace", "AwaitingClass", "AwaitingGender", "ReviewStatRoll"}
StageNames == Menu \cup {"AwaitingIdentifier", "ConfirmCreate", "AwaitingPassword",
                         "AwaitingWebApproval", "Authenticating", "CharSelect"}

\* LoginCtx with its Stage.  `ch` is the preselected or new character, `user`
\* the account or the address typed, `code` the row shown (NoCode: a decoy),
\* `clock` where the code's expires_at and the poller's deadline stand.
Ctx == [at : StageNames, ch : Names \cup {NoName}, user : Emails \cup Names \cup {NoUser},
        code : Codes \cup {NoCode}, clock : {"open", "due", "over"}, poll : BOOLEAN,
        list : SUBSET Names, fails : 0..MaxFails]

Blank(fails) == [at |-> "AwaitingIdentifier", ch |-> NoName, user |-> NoUser, code |-> NoCode,
                 clock |-> "open", poll |-> FALSE, list |-> {}, fails |-> fails]
Stage(c, at, ch, user) ==
    [Blank(login[c].fails) EXCEPT !.at = at, !.ch = ch, !.user = user]

At(c, at) == c \in DOMAIN login /\ login[c].at = at
Showing(c, k) == At(c, "AwaitingWebApproval") /\ login[c].code = k

\* HashMap::insert
With(f, x, v) == [y \in DOMAIN f \cup {x} |-> IF y = x THEN v ELSE f[y]]

Put(c, ctx) == login' = With(login, c, ctx)
Reprompt(c) == Put(c, Blank(login[c].fails))
Drop(c) == login' = Restrict(login, DOMAIN login \ {c})

Job(c, kind, ch, user) ==
    [conn |-> c, kind |-> kind, ch |-> ch, user |-> user, result |-> "none"]
Park(c, kind, ch, user, rest) ==
    /\ Put(c, Stage(c, "Authenticating", NoName, NoUser))
    /\ jobs' = rest \cup {Job(c, kind, ch, user)}

\* The outcomes of one database statement.
Faults == {"ok", "failed"}

-----------------------------------------------------------------------------
(* Entering the game.                                                      *)

\* The old connection stays bound until it disconnects.
TryTakeover_KeepsOld(c, ch) ==
    /\ ch \in DOMAIN body
    /\ Drop(c)
    /\ playing' = With(playing, c, ch)
    /\ body' = [body EXCEPT ![ch] = c]

\* try_takeover: the body's old connection is unbound, the new one bound.
TryTakeover(c, ch) ==
    /\ ch \in DOMAIN body
    /\ Drop(c)
    /\ playing' = With(Restrict(playing, DOMAIN playing \ {body[ch]}), c, ch)
    /\ body' = [body EXCEPT ![ch] = c]

\* The mark is taken before the rows are read: a failed load loses it.
RefuseLogin_TakesMark(c, new) == Drop(c) /\ fresh' = {} /\ UNCHANGED <<playing, body, kits>>

\* refuse_login: the entry goes, the socket is closed.
RefuseLogin(c, new) == Drop(c) /\ fresh' = new /\ UNCHANGED <<playing, body, kits>>

SpawnPlayer(c, ch, new) ==
    /\ Drop(c)
    /\ playing' = With(playing, c, ch)
    /\ body' = With(body, ch, c)
    /\ fresh' = new \ {ch}
    /\ kits' = IF ch \in new THEN [kits EXCEPT ![ch] = @ + 1] ELSE kits

\* complete_login_inner, with the jobs left and the fresh characters so far.
CompleteLogin(c, ch, user, waited, rest, new) ==
    \/ /\ TryTakeover(c, ch)
       /\ jobs' = rest /\ fresh' = new /\ kits' = kits
    \/ /\ ch \notin DOMAIN body
       /\ \/ /\ ~waited /\ ch \notin new
             /\ Park(c, "saves", ch, user, rest)
             /\ fresh' = new /\ UNCHANGED <<playing, body, kits>>
          \/ /\ jobs' = rest
             /\ RefuseLogin(c, new) \/ SpawnPlayer(c, ch, new)

-----------------------------------------------------------------------------
(* After the credentials: finish_password.                                 *)

\* Wizlock, ban, or no character to list: back to the first prompt.
TurnedAway(c, rest) ==
    /\ Reprompt(c) /\ jobs' = rest
    /\ UNCHANGED <<playing, body, fresh, kits>>

ListFor(user) == {n \in DOMAIN owner : owner[n] = user}

FinishPassword(c, ch, user, rest) ==
    \/ TurnedAway(c, rest)
    \/ ch # NoName /\ CompleteLogin(c, ch, user, FALSE, rest, fresh)
    \/ /\ ch = NoName /\ ListFor(user) # {}
       /\ Put(c, [Stage(c, "CharSelect", NoName, user) EXCEPT !.list = ListFor(user)])
       /\ jobs' = rest
       /\ UNCHANGED <<playing, body, fresh, kits>>

\* A wrong password: strikes are counted elsewhere, the connection has its cap.
WrongPassword(c, rest) ==
    /\ IF login[c].fails + 1 >= MaxFails
       THEN Drop(c)
       ELSE Put(c, Blank(login[c].fails + 1))
    /\ jobs' = rest
    /\ UNCHANGED <<playing, body, fresh, kits>>

-----------------------------------------------------------------------------
(* Login codes.                                                            *)

\* What the website may have made of a row by the next statement.
Moves(row) ==
    {row} \cup (IF row.status # "PENDING" THEN {}
                ELSE {[status |-> "APPROVED", by |-> a] : a \in accounts}
                     \cup {[status |-> "DENIED", by |-> NoUser]})

\* expire_pending and expire_unconsumed.
ExpirePending(row) == IF row.status = "PENDING" THEN [row EXCEPT !.status = "EXPIRED"] ELSE row
ExpireUnconsumed(row) ==
    IF row.status \in {"PENDING", "APPROVED"} THEN [row EXCEPT !.status = "EXPIRED"] ELSE row

\* A closing statement on row k, which may fail.
Close(k, Expire(_)) ==
    \E row \in Moves(codes[k]), db \in Faults :
        /\ codes' = [codes EXCEPT ![k] = IF db = "ok" THEN Expire(row) ELSE row]
        /\ unclosed' = IF db = "ok" THEN unclosed ELSE unclosed \cup {k}

\* The id the database draws for a row.
NewCode == CHOOSE k \in Codes : k \notin DOMAIN codes

Refresh == UNCHANGED <<playing, body, fresh, kits>>

\* begin_web_approval: charge the address unless it paid at the email prompt,
\* insert the row, start the poller, show the code.
BeginWebApproval(c, ch, user, paid, rest) ==
    /\ jobs' = rest /\ Refresh
    /\ IF ~paid /\ charged >= scene.quota
       THEN Reprompt(c) /\ UNCHANGED <<charged, codes>>
       ELSE /\ charged' = IF paid THEN charged ELSE charged + 1
            /\ \/ Reprompt(c) /\ codes' = codes
               \/ LET k == NewCode IN
                    /\ DOMAIN codes # Codes
                    /\ codes' = With(codes, k, [status |-> "PENDING", by |-> NoUser])
                    /\ Put(c, [Stage(c, "AwaitingWebApproval", ch, user) EXCEPT
                                 !.code = k, !.poll = TRUE])

\* begin_decoy_approval: a code without a row, and a timer for a poller.
BeginDecoyApproval(c, user, rest) ==
    /\ Put(c, [Stage(c, "AwaitingWebApproval", NoName, user) EXCEPT !.poll = TRUE])
    /\ jobs' = rest /\ Refresh /\ UNCHANGED <<charged, codes>>

\* resolve_web_approval, decoy: it only ever expires.
ResolveDecoy(c) ==
    /\ login[c].code = NoCode
    /\ IF login[c].clock = "open" THEN login' = login ELSE Reprompt(c)
    /\ Refresh /\ UNCHANGED <<jobs, codes, unclosed>>

\* The row could not be read, is pending, or is over.
ResolveOpen(c, k) ==
    /\ Refresh /\ jobs' = jobs
    /\ \/ Reprompt(c) /\ Close(k, ExpirePending)
       \/ /\ codes[k].status = "PENDING"
          /\ IF login[c].clock = "open"
             THEN UNCHANGED <<login, codes, unclosed>>
             ELSE Reprompt(c) /\ Close(k, ExpirePending)
       \/ /\ codes[k].status \in {"DENIED", "EXPIRED", "CONSUMED"}
          /\ Reprompt(c) /\ UNCHANGED <<codes, unclosed>>

Consumed(k) == [codes EXCEPT ![k].status = "CONSUMED"]

\* The approver is taken from the row instead of the account that asked.
ResolveLinked_ByRow(c, k) ==
    /\ codes[k].status = "APPROVED" /\ login[c].user # NoUser
    /\ unclosed' = unclosed
    /\ codes' = Consumed(k)
    /\ FinishPassword(c, login[c].ch, codes[k].by, jobs)

\* APPROVED, for the account that asked: consumed, then as a right password.
ResolveLinked(c, k) ==
    /\ codes[k].status = "APPROVED" /\ login[c].user # NoUser
    /\ unclosed' = unclosed
    /\ \/ codes[k].by # login[c].user /\ Reprompt(c) /\ UNCHANGED <<jobs, codes>> /\ Refresh
       \/ codes[k].by = login[c].user /\ Reprompt(c) /\ UNCHANGED <<jobs, codes>> /\ Refresh
       \/ /\ codes[k].by = login[c].user
          /\ codes' = Consumed(k)
          /\ FinishPassword(c, login[c].ch, login[c].user, jobs)

\* resolve_unlinked_approval: the website must have linked the character to the
\* approving account; else, or when a statement fails, the row is closed.
ResolveUnlinked(c, k) ==
    /\ codes[k].status = "APPROVED" /\ login[c].user = NoUser
    /\ \/ /\ Reprompt(c) /\ jobs' = jobs /\ Refresh
          /\ \/ Close(k, ExpireUnconsumed)
             \/ codes[k].by = owner[login[c].ch] /\ codes' = Consumed(k) /\ unclosed' = unclosed
       \/ /\ codes[k].by = owner[login[c].ch]
          /\ codes' = Consumed(k) /\ unclosed' = unclosed
          /\ FinishPassword(c, login[c].ch, owner[login[c].ch], jobs)

ResolveWebApproval(c) ==
    \/ ResolveDecoy(c)
    \/ \E k \in DOMAIN codes :
         /\ login[c].code = k
         /\ ResolveOpen(c, k) \/ ResolveLinked(c, k) \/ ResolveUnlinked(c, k)

-----------------------------------------------------------------------------
(* advance_login: a line from a connection that is logging in.             *)

Quiet == UNCHANGED <<scene, used>>
SameTasks == UNCHANGED <<wakes, expiring>>
SameRows == UNCHANGED <<owner, accounts, stray>>

Identifier(c) ==
    /\ At(c, "AwaitingIdentifier")
    /\ \E id \in scene.idents :
         IF id \in Emails
         THEN Put(c, Stage(c, "ConfirmCreate", NoName, id)) /\ jobs' = jobs
         ELSE Park(c, "name", id, NoUser, jobs)
    /\ Quiet /\ Refresh /\ SameTasks /\ SameRows /\ UNCHANGED <<charged, codes, unclosed>>

\* `code` at the email prompt: email_login_code charges the address first.
EmailCode(c) ==
    IF charged < scene.quota
    THEN /\ charged' = charged + 1
         /\ Park(c, "mail", NoName, login[c].user, jobs)
    ELSE Reprompt(c) /\ UNCHANGED <<charged, jobs>>

ConfirmCreate(c) ==
    /\ At(c, "ConfirmCreate")
    /\ \/ login[c].user # NoUser /\ EmailCode(c)
       \/ /\ \/ Put(c, [login[c] EXCEPT !.at = "AwaitingNewPassword"])
             \/ Reprompt(c)
          /\ UNCHANGED <<charged, jobs>>
    /\ Quiet /\ Refresh /\ SameTasks /\ SameRows /\ UNCHANGED <<codes, unclosed>>

\* Where an accepted answer leads.
Following(ctx) ==
    CASE ctx.at = "AwaitingNewPassword" -> {"ConfirmNewPassword"}
      [] ctx.at = "ConfirmNewPassword" ->
            {"AwaitingNewPassword", IF ctx.ch = NoName THEN "AwaitingCharacterName"
                                                       ELSE "AwaitingRace"}
      [] ctx.at = "AwaitingRace" -> {"AwaitingClass"}
      [] ctx.at = "AwaitingClass" -> {"AwaitingGender"}
      [] ctx.at = "AwaitingGender" -> {"ReviewStatRoll"}
      [] OTHER -> {}

MenuLine(c) ==
    /\ c \in DOMAIN login /\ login[c].at \in Menu
    /\ \/ /\ \E at \in Following(login[c]) : Put(c, [login[c] EXCEPT !.at = at])
          /\ jobs' = jobs
       \/ /\ At(c, "AwaitingCharacterName")
          /\ \E n \in (scene.idents \cap Names) \ DOMAIN owner :
               Put(c, [login[c] EXCEPT !.at = "AwaitingRace", !.ch = n])
          /\ jobs' = jobs
       \/ /\ At(c, "ReviewStatRoll")
          /\ Park(c, "hash", login[c].ch, login[c].user, jobs)
    /\ Quiet /\ Refresh /\ SameTasks /\ SameRows /\ UNCHANGED <<charged, codes, unclosed>>

\* A password, `code`, or (legacy character) an attempt refused by the throttle.
Password(c) ==
    /\ At(c, "AwaitingPassword")
    /\ LET ctx == login[c] IN
       \/ BeginWebApproval(c, ctx.ch, ctx.user, FALSE, jobs)
       \/ /\ Park(c, "password", ctx.ch, ctx.user, jobs)
          /\ Refresh /\ UNCHANGED <<charged, codes>>
       \/ /\ ctx.user = NoUser /\ Reprompt(c)
          /\ jobs' = jobs /\ Refresh /\ UNCHANGED <<charged, codes>>
    /\ Quiet /\ SameTasks /\ SameRows /\ unclosed' = unclosed

\* `cancel`, or any other line to look at the row at once.
WebApproval(c) ==
    /\ At(c, "AwaitingWebApproval")
    /\ \/ ResolveWebApproval(c)
       \/ /\ Reprompt(c) /\ jobs' = jobs /\ Refresh
          /\ IF login[c].code = NoCode
             THEN UNCHANGED <<codes, unclosed>>
             ELSE Close(login[c].code, ExpirePending)
    /\ Quiet /\ SameTasks /\ SameRows /\ charged' = charged

\* The stage taken for the dispatch is not put back.
Swallow_Forgets(c) ==
    /\ At(c, "Authenticating")
    /\ Reprompt(c)
    /\ Quiet /\ UNCHANGED <<playing, body, fresh, charged, taskVars, rowVars, histVars>>

\* A job is in flight: the line is swallowed.
Swallow(c) == At(c, "Authenticating") /\ UNCHANGED vars

CharSelect(c) ==
    /\ At(c, "CharSelect")
    /\ \E n \in login[c].list : CompleteLogin(c, n, login[c].user, FALSE, jobs, fresh)
    /\ Quiet /\ SameTasks /\ SameRows /\ UNCHANGED <<charged, codes, unclosed>>

Line(c) ==
    \/ Identifier(c) \/ ConfirmCreate(c) \/ MenuLine(c) \/ Password(c)
    \/ WebApproval(c) \/ Swallow(c) \/ CharSelect(c)

-----------------------------------------------------------------------------
(* The jobs, and on_auth_done.                                             *)

\* What a job can find when it reads the rows.  The account of a found
\* character is NoUser when it has none or when its row could not be read.
Found(j) ==
    CASE j.kind = "name" ->
            IF j.ch \in DOMAIN owner
            THEN {[j EXCEPT !.result = "ok", !.user = u] : u \in {owner[j.ch], NoUser}}
                 \cup {[j EXCEPT !.result = "failed"]}
            ELSE {[j EXCEPT !.result = r] : r \in {"unknown", "failed"}}
      [] j.kind = "mail" ->
            {[j EXCEPT !.result = r] :
                r \in {"failed", IF j.user \in accounts THEN "ok" ELSE "unknown"}}
      [] OTHER -> {[j EXCEPT !.result = r] : r \in Faults}

RunJob(j) ==
    /\ j.result = "none"
    /\ \E done \in Found(j) : jobs' = (jobs \ {j}) \cup {done}
    /\ Quiet /\ UNCHANGED <<routerVars, wakes, expiring, rowVars, histVars>>

\* finish_char_lookup
FinishCharLookup(j, rest) ==
    /\ j.kind = "name"
    /\ jobs' = rest
    /\ \/ ~At(j.conn, "Authenticating") /\ login' = login
       \/ /\ At(j.conn, "Authenticating")
          /\ \/ j.result = "ok" /\ Put(j.conn, Stage(j.conn, "AwaitingPassword", j.ch, j.user))
             \/ j.result = "unknown" /\ Put(j.conn, Stage(j.conn, "ConfirmCreate", j.ch, NoUser))
             \/ j.result # "ok" /\ Reprompt(j.conn)
    /\ Refresh /\ SameRows /\ UNCHANGED <<charged, codes, unclosed>>

\* finish_email_lookup
FinishEmailLookup(j, rest) ==
    /\ j.kind = "mail"
    /\ \/ j.result = "ok" /\ BeginWebApproval(j.conn, NoName, j.user, TRUE, rest)
       \/ j.result = "unknown" /\ BeginDecoyApproval(j.conn, j.user, rest)
       \/ /\ j.result = "failed" /\ Reprompt(j.conn)
          /\ jobs' = rest /\ Refresh /\ UNCHANGED <<charged, codes>>
    /\ SameRows /\ unclosed' = unclosed

FinishCheck(j, rest) ==
    /\ j.kind = "password"
    /\ IF j.result = "ok" THEN FinishPassword(j.conn, j.ch, j.user, rest)
                          ELSE WrongPassword(j.conn, rest)
    /\ SameRows /\ UNCHANGED <<charged, codes, unclosed>>

\* finish_save_wait
FinishSaveWait(j, rest) ==
    /\ j.kind = "saves"
    /\ IF j.result = "ok" THEN CompleteLogin(j.conn, j.ch, j.user, TRUE, rest, fresh)
                          ELSE RefuseLogin(j.conn, fresh) /\ jobs' = rest
    /\ SameRows /\ UNCHANGED <<charged, codes, unclosed>>

\* The address of the account a new character gets.
AccountOf(j) == IF j.user = NoUser THEN j.ch ELSE j.user

RollBack(j) == UNCHANGED <<owner, accounts, stray>>

\* finish_creation: both rows or none; a name or an address taken meanwhile
\* rolls back.  Reading the new rows again may still fail.
FinishCreation(j, rest) ==
    /\ j.kind = "hash"
    /\ \/ Reprompt(j.conn) /\ jobs' = rest /\ Refresh /\ RollBack(j)
       \/ /\ j.result = "ok"
          /\ AccountOf(j) \notin accounts /\ j.ch \notin DOMAIN owner
          /\ accounts' = accounts \cup {AccountOf(j)}
          /\ owner' = With(owner, j.ch, AccountOf(j))
          /\ \/ /\ stray' = stray \cup {j.ch}
                /\ Reprompt(j.conn) /\ jobs' = rest /\ Refresh
             \/ /\ stray' = stray
                /\ CompleteLogin(j.conn, j.ch, AccountOf(j), FALSE, rest, fresh \cup {j.ch})
    /\ UNCHANGED <<charged, codes, unclosed>>

\* A result for a connection that has gone is dropped.
OnAuthDone(j) ==
    /\ j.result # "none"
    /\ LET rest == jobs \ {j} IN
       IF j.conn \in DOMAIN login
       THEN \/ FinishCharLookup(j, rest) \/ FinishEmailLookup(j, rest) \/ FinishCheck(j, rest)
            \/ FinishSaveWait(j, rest) \/ FinishCreation(j, rest)
       ELSE jobs' = rest /\ UNCHANGED <<routerVars, rowVars, histVars>>
    /\ Quiet /\ SameTasks

-----------------------------------------------------------------------------
(* The pollers, their wakes, time, and the website.                        *)

ClockTicks(c) ==
    /\ At(c, "AwaitingWebApproval") /\ login[c].clock # "over"
    /\ Put(c, [login[c] EXCEPT !.clock = IF @ = "open" THEN "due" ELSE "over"])
    /\ Quiet
    /\ UNCHANGED <<playing, body, fresh, charged, taskVars, rowVars, histVars>>

Ripe(ctx) ==
    \/ ctx.clock = "over"
    \/ ctx.code # NoCode /\ codes[ctx.code].status # "PENDING"

\* The poller looks once and reports whatever it finds.
Poll_Once(c) ==
    /\ At(c, "AwaitingWebApproval") /\ login[c].poll
    /\ Put(c, [login[c] EXCEPT !.poll = FALSE])
    /\ wakes' = wakes \cup {<<c, login[c].code>>}
    /\ Quiet
    /\ UNCHANGED <<playing, body, fresh, charged, jobs, expiring, rowVars, histVars>>

\* The poller reports once: the row left PENDING, or the deadline has passed.
Poll(c) ==
    /\ At(c, "AwaitingWebApproval") /\ login[c].poll /\ Ripe(login[c])
    /\ Put(c, [login[c] EXCEPT !.poll = FALSE])
    /\ wakes' = wakes \cup {<<c, login[c].code>>}
    /\ Quiet
    /\ UNCHANGED <<playing, body, fresh, charged, jobs, expiring, rowVars, histVars>>

\* WebApprovalWake: ignored unless its code is still the one shown.
Wake(c, k) ==
    /\ <<c, k>> \in wakes
    /\ wakes' = wakes \ {<<c, k>>}
    /\ IF Showing(c, k)
       THEN ResolveWebApproval(c)
       ELSE UNCHANGED <<login, playing, body, fresh, jobs, codes, kits, unclosed>>
    /\ Quiet /\ SameRows /\ UNCHANGED <<charged, expiring>>

ExpireTask(k) ==
    /\ k \in expiring
    /\ expiring' = expiring \ {k}
    /\ Close(k, ExpirePending)
    /\ Quiet /\ UNCHANGED <<routerVars, jobs, wakes, owner, accounts, kits, stray>>

\* The website answers a pending code, or links a legacy character.
Website ==
    /\ \/ /\ \E k \in DOMAIN codes : \E row \in Moves(codes[k]) \ {codes[k]} :
               codes' = [codes EXCEPT ![k] = row]
          /\ owner' = owner
       \/ /\ \E n \in scene.idents \cap DOMAIN owner, a \in accounts :
               owner[n] = NoUser /\ owner' = [owner EXCEPT ![n] = a]
          /\ codes' = codes
    /\ Quiet /\ UNCHANGED <<routerVars, taskVars, accounts, histVars>>

-----------------------------------------------------------------------------
(* Connections come and go.                                                *)

OnConnect(c) ==
    /\ c \in scene.conns \ used
    /\ used' = used \cup {c}
    /\ login' = With(login, c, Blank(0))
    /\ scene' = scene
    /\ UNCHANGED <<playing, body, fresh, charged, taskVars, rowVars, histVars>>

\* The task that closes the code is not started.
CodesOf_None(c) == {}

\* The code a connection shows, if it has a row.
CodesOf(c) == {k \in DOMAIN codes : Showing(c, k)}

\* on_disconnect: a code shown is expired by a task; a body stays for its save
\* or its fight, or leaves at once.
OnDisconnect(c) ==
    /\ c \in DOMAIN login \cup DOMAIN playing
    /\ expiring' = expiring \cup CodesOf(c)
    /\ Drop(c)
    /\ playing' = Restrict(playing, DOMAIN playing \ {c})
    /\ IF c \in DOMAIN playing
       THEN \/ body' = [body EXCEPT ![playing[c]] = NoConn]
            \/ body' = Restrict(body, DOMAIN body \ {playing[c]})
       ELSE body' = body
    /\ Quiet /\ UNCHANGED <<fresh, charged, jobs, wakes, rowVars, histVars>>

\* drain_retiring and drain_linkdead.
BodyLeaves(ch) ==
    /\ ch \in DOMAIN body /\ body[ch] = NoConn
    /\ body' = Restrict(body, DOMAIN body \ {ch})
    /\ Quiet /\ UNCHANGED <<login, playing, fresh, charged, taskVars, rowVars, histVars>>

Init ==
    /\ scene \in Scenarios
    /\ used = {} /\ charged = 0
    /\ login = << >> /\ playing = << >> /\ body = << >> /\ fresh = {}
    /\ jobs = {} /\ wakes = {} /\ expiring = {}
    /\ codes = << >> /\ owner = Owner0 /\ accounts = Range(Owner0) \ {NoUser}
    /\ kits = [n \in Names |-> 0] /\ unclosed = {} /\ stray = {}

Next ==
    \/ \E c \in Conns : OnConnect(c) \/ Line(c) \/ OnDisconnect(c) \/ ClockTicks(c) \/ Poll(c)
    \/ \E j \in jobs : RunJob(j) \/ OnAuthDone(j)
    \/ \E c \in Conns, k \in Codes \cup {NoCode} : Wake(c, k)
    \/ \E k \in Codes : ExpireTask(k)
    \/ \E ch \in Names : BodyLeaves(ch)
    \/ Website

\* Every task is polled, every queued message is taken, time passes.
JobStep(c) == \E j \in jobs : j.conn = c /\ (RunJob(j) \/ OnAuthDone(j))
Fairness ==
    /\ \A c \in Conns : WF_vars(JobStep(c)) /\ WF_vars(ClockTicks(c)) /\ WF_vars(Poll(c))
    /\ \A c \in Conns, k \in Codes \cup {NoCode} : WF_vars(Wake(c, k))
    /\ \A k \in Codes : WF_vars(ExpireTask(k))

Spec == Init /\ [][Next]_vars /\ Fairness

-----------------------------------------------------------------------------
(* Properties.                                                             *)

\* Every variable has its type.
TypeOK ==
    /\ used \subseteq scene.conns
    /\ DOMAIN login \subseteq used /\ Range(login) \subseteq Ctx
    /\ DOMAIN playing \subseteq used /\ Range(playing) \subseteq Names
    /\ DOMAIN body \subseteq DOMAIN owner /\ Range(body) \subseteq Conns \cup {NoConn}
    /\ wakes \subseteq Conns \X (Codes \cup {NoCode})
    /\ expiring \subseteq DOMAIN codes
    /\ fresh \subseteq DOMAIN owner

\* on_auth_done acts on a result without looking at the stage (but for lookups
\* and wakes): this is right because a connection that is logging in waits in
\* Authenticating exactly while one job of its own is outstanding.
JobsMatchStage ==
    /\ TypeOK
    /\ \A c \in DOMAIN login :
         Cardinality({j \in jobs : j.conn = c}) = IF At(c, "Authenticating") THEN 1 ELSE 0

\* Takeovers and disconnects in any order leave every playing connection with
\* the one body that listens to it, and no connection in both maps: the eventual
\* disconnect of a replaced connection cannot retire the body it lost.
OneBody ==
    /\ DOMAIN login \cap DOMAIN playing = {}
    /\ \A c \in DOMAIN playing : playing[c] \in DOMAIN body /\ body[playing[c]] = c
    /\ \A ch \in DOMAIN body :
         body[ch] # NoConn => body[ch] \in DOMAIN playing /\ playing[body[ch]] = ch

Past(ctx) == ctx.at \in {"CharSelect", "Authenticating"}

\* A connection that shows a code gets past it only by turning its row from
\* APPROVED to CONSUMED in that step, and only as the approving account: the
\* character list is that account's, the character belongs to it.
CodeSpentOnLogin ==
    [][\A c \in DOMAIN login, k \in DOMAIN codes :
         Showing(c, k) /\ (c \in DOMAIN playing' \/ (c \in DOMAIN login' /\ Past(login'[c]))) =>
            /\ codes[k].status = "APPROVED" /\ codes'[k].status = "CONSUMED"
            /\ c \in DOMAIN playing' => owner[playing'[c]] = codes[k].by
            /\ c \in DOMAIN login' =>
                 \/ login'[c].at = "CharSelect" /\ login'[c].user = codes[k].by
                 \/ \E j \in jobs' : j.conn = c /\ j.user = codes[k].by]_vars

Shown(k) == \E c \in Conns : Showing(c, k)
Pending(k) == k \in DOMAIN codes /\ codes[k].status = "PENDING"

\* on_disconnect, cancel and the timeouts: a code no connection shows any more
\* does not stay approvable, unless the statement that closes it failed.
OrphanCodesClose ==
    \A k \in Codes :
        (Pending(k) /\ ~Shown(k)) ~> (~Pending(k) \/ k \in unclosed)

\* A connection waiting for a job or for the website is answered: input is
\* swallowed in the one stage, and the other leaves only by its poller if the
\* player types nothing.
LoginsMoveOn ==
    \A c \in Conns :
        /\ At(c, "Authenticating") ~> ~At(c, "Authenticating")
        /\ \A k \in Codes \cup {NoCode} : Showing(c, k) ~> ~Showing(c, k)

Created == DOMAIN owner \ DOMAIN Owner0

\* finish_creation leaves no account without its character, and the starting kit
\* is handed out exactly once, at the first spawn, however many logins are
\* refused before it (a creation that failed after its commit has none).
CreatedWhole ==
    /\ accounts = (Range(Owner0) \ {NoUser}) \cup {owner[n] : n \in Created}
    /\ \A n \in Created : n \in fresh \cup stray \/ kits[n] = 1
    /\ \A n \in fresh : kits[n] = 0 /\ n \notin DOMAIN body
=============================================================================
