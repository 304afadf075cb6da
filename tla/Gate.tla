-------------------------------- MODULE Gate --------------------------------
(***************************************************************************)
(* The admission gate of crates/mud-net/src/lib.rs: one process-wide       *)
(* `GateState` behind a mutex, shared by the plain and the TLS listener.   *)
(* It counts the open connections (in all, not logged in yet, and per      *)
(* source address), throttles the rate at which one address connects, and  *)
(* keeps the login flag and the close signal of every open connection.     *)
(*                                                                         *)
(* Every action is one critical section of the mutex.  An Instant is       *)
(* modelled by its age in ticks, which stops growing at AgeCap: beyond it  *)
(* every comparison of the code gives the same answer.                     *)
(***************************************************************************)
EXTENDS Integers, Sequences, FiniteSets, FiniteSetsExt

CONSTANTS
    Conns,            \* connection ids
    IPs,              \* source addresses
    MaxConnections,   \* Limits::max_connections
    MaxPreLogin,      \* Limits::max_pre_login
    MaxPerIp,         \* Limits::max_per_ip
    MaxConnects,      \* MAX_CONNECTS_PER_MIN
    MapCap,           \* THROTTLE_MAP_CAP
    Window,           \* THROTTLE_WINDOW, in ticks
    SweepInterval,    \* THROTTLE_SWEEP_INTERVAL, in ticks
    FullGap           \* THROTTLE_FULL_SWEEP_GAP, in ticks

ASSUME ConnsFinite == IsFiniteSet(Conns)

ASSUME LimitsNat ==
    /\ {MaxConnections, MaxPreLogin, MaxPerIp, MaxConnects, MapCap} \subseteq Nat
    /\ {Window, SweepInterval, FullGap} \subseteq Nat

VARIABLES
    active,       \* GateState::active
    preLogin,     \* GateState::pre_login
    perIp,        \* GateState::per_ip, zero for an address without an entry
    throttle,     \* GateState::throttle: ages of an address's attempts, oldest
                  \* first; an entry is never kept empty, so <<>> is no entry
    sinceSweep,   \* age of GateState::last_sweep
    addr,         \* ConnGuard::ip by connection with a guard (GateState::conns)
    authed,       \* ConnShared::authenticated
    closing,      \* ConnShared::close
    opened        \* history: ages of the tracked attempts that were allowed

counters == <<active, preLogin, perIp>>
rates == <<throttle, sinceSweep, opened>>
shared == <<addr, authed, closing>>
gateVars == <<counters, rates, shared>>

\* The connections with an entry in GateState::conns.
live == DOMAIN addr

AgeCap == Window + FullGap + 1

Older(ages) == [i \in DOMAIN ages |-> IF ages[i] < AgeCap THEN ages[i] + 1 ELSE AgeCap]
\* What is left when the attempts in front that are older than the bound are popped.
Within(ages, bound) ==
    LET kept == {i \in DOMAIN ages : ages[i] <= bound}
    IN  IF kept = {} THEN <<>> ELSE SubSeq(ages, Min(kept), Len(ages))

-----------------------------------------------------------------------------
(* The throttle.                                                           *)

\* A sweep that keeps an address only while its oldest attempt is live.
Swept_ByFront(t) ==
    [ip \in IPs |-> IF t[ip] # <<>> /\ Head(t[ip]) <= Window THEN t[ip] ELSE <<>>]

\* sweep_throttle: entries lose their expired attempts, empty ones go.
Swept(t) == [ip \in IPs |-> Within(t[ip], Window)]

Tracked(t) == {ip \in IPs : t[ip] # <<>>}
Full(t, ip) == t[ip] = <<>> /\ Cardinality(Tracked(t)) >= MapCap

\* The map throttle_allow consults: after the periodic sweep, and after the
\* emergency sweep a full map gets unless the last one is too recent.
Consulted(ip) ==
    LET periodic == sinceSweep >= SweepInterval
        t == IF periodic THEN Swept(throttle) ELSE throttle
        age == IF periodic THEN 0 ELSE sinceSweep
        emergency == Full(t, ip) /\ age >= FullGap
    IN  [map   |-> IF emergency THEN Swept(t) ELSE t,
         sweep |-> IF emergency THEN 0 ELSE age]

\* throttle_allow's verdict.  A map still full lets a new address in untracked.
Untracked(ip) == Full(Consulted(ip).map, ip)
UnderRate(ip) == Len(Within(Consulted(ip).map[ip], Window)) < MaxConnects
Allowed(ip) == Untracked(ip) \/ UnderRate(ip)

\* throttle_allow's effect: it records the attempt it allows, and only that.
Attempt(ip) ==
    LET seen == Consulted(ip)
        recent == Within(seen.map[ip], Window)
        tracked == ~Untracked(ip) /\ UnderRate(ip)
    IN  /\ throttle' = IF Untracked(ip) THEN seen.map
                       ELSE [seen.map EXCEPT ![ip] =
                                IF tracked THEN Append(recent, 0) ELSE recent]
        /\ sinceSweep' = seen.sweep
        /\ opened' = IF tracked THEN [opened EXCEPT ![ip] = Append(@, 0)] ELSE opened

\* Time passes.
Tick ==
    /\ throttle' = [ip \in IPs |-> Older(throttle[ip])]
    /\ sinceSweep' = IF sinceSweep < SweepInterval + FullGap THEN sinceSweep + 1
                     ELSE sinceSweep
    /\ opened' = [ip \in IPs |-> Within(Older(opened[ip]), Window + FullGap)]
    /\ UNCHANGED <<counters, shared>>

-----------------------------------------------------------------------------
(* Admission, login and release.                                           *)

RoomFor(ip) ==
    /\ active < MaxConnections
    /\ preLogin < MaxPreLogin
    /\ perIp[ip] < MaxPerIp

\* usize::saturating_sub(1)
Less(n) == IF n > 0 THEN n - 1 ELSE 0

\* Gate::admit reserves a slot.
Admit(c, ip) ==
    /\ c \notin live
    /\ Allowed(ip) /\ RoomFor(ip)
    /\ Attempt(ip)
    /\ active' = active + 1
    /\ preLogin' = preLogin + 1
    /\ perIp' = [perIp EXCEPT ![ip] = @ + 1]
    /\ addr' = [d \in live \union {c} |-> IF d = c THEN ip ELSE addr[d]]
    /\ UNCHANGED <<authed, closing>>

\* Gate::admit turns the connection away; the attempt is recorded all the
\* same when only a cap refuses it.
Refuse(ip) ==
    /\ ~(Allowed(ip) /\ RoomFor(ip))
    /\ Attempt(ip)
    /\ UNCHANGED <<counters, shared>>

\* It gives a slot back each time it is called.
MarkAuthenticated_EveryCall(c) ==
    /\ IF c \in live
       THEN /\ authed' = authed \union {c}
            /\ preLogin' = Less(preLogin)
       ELSE UNCHANGED <<authed, preLogin>>
    /\ UNCHANGED <<active, perIp, rates, addr, closing>>

\* Gate::mark_authenticated: the first call gives the pre-login slot back.
MarkAuthenticated(c) ==
    /\ IF c \in live \ authed
       THEN /\ authed' = authed \union {c}
            /\ preLogin' = Less(preLogin)
       ELSE UNCHANGED <<authed, preLogin>>
    /\ UNCHANGED <<active, perIp, rates, addr, closing>>

\* Gate::close_connection.
CloseConnection(c) ==
    /\ closing' = IF c \in live THEN closing \union {c} ELSE closing
    /\ UNCHANGED <<counters, rates, addr, authed>>

\* ConnGuard::drop, however the connection's task ends.
DropGuard(c) ==
    /\ c \in live
    /\ active' = Less(active)
    /\ preLogin' = IF c \in authed THEN preLogin ELSE Less(preLogin)
    /\ perIp' = [perIp EXCEPT ![addr[c]] = Less(@)]
    /\ addr' = [d \in live \ {c} |-> addr[d]]
    /\ authed' = authed \ {c}
    /\ closing' = closing \ {c}
    /\ UNCHANGED rates

-----------------------------------------------------------------------------
GateInit ==
    /\ active = 0
    /\ preLogin = 0
    /\ perIp = [ip \in IPs |-> 0]
    /\ throttle = [ip \in IPs |-> <<>>]
    /\ sinceSweep = 0
    /\ addr = [c \in {} |-> c]
    /\ authed = {}
    /\ closing = {}
    /\ opened = [ip \in IPs |-> <<>>]

\* Every way the listeners, the connections and the game may use the gate.
GateNext ==
    \/ \E ip \in IPs : Refuse(ip)
    \/ \E c \in Conns, ip \in IPs : Admit(c, ip)
    \/ \E c \in Conns : MarkAuthenticated(c)
    \/ \E c \in Conns : CloseConnection(c)
    \/ \E c \in Conns : DropGuard(c)
    \/ Tick

GateSpec == GateInit /\ [][GateNext]_gateVars

-----------------------------------------------------------------------------
(* Properties.                                                             *)

\* Connections open from one address.
From(ip) == {c \in live : addr[c] = ip}

\* The three counters are exactly the connections they stand for, whatever the
\* order of logins, closes and endings (a connection may end between its login
\* and the second report of it), and no cap is exceeded.
SlotsExact ==
    /\ active = Cardinality(live) /\ active <= MaxConnections
    /\ preLogin = Cardinality(live \ authed) /\ preLogin <= MaxPreLogin
    /\ \A ip \in IPs : perIp[ip] = Cardinality(From(ip)) /\ perIp[ip] <= MaxPerIp

\* No address that is tracked is let in more than MaxConnects times in a
\* window, whatever the sweeps dropped; and an address is let in untracked only
\* while MapCap addresses connected within the window and the sweep gap.
ThrottleHolds ==
    /\ [](\A ip \in IPs : Len(Within(opened[ip], Window)) <= MaxConnects)
    /\ [][\A ip \in IPs :
            perIp'[ip] > perIp[ip] =>
                \/ opened'[ip] # opened[ip]
                \/ Cardinality({q \in IPs : opened[q] # <<>>}) >= MapCap]_gateVars
=============================================================================
