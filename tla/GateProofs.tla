----------------------------- MODULE GateProofs -----------------------------
(***************************************************************************)
(* The counters of the admission gate are exact and its throttle holds,    *)
(* for any number of connections and addresses and for every value of the  *)
(* limits.                                                                 *)
(***************************************************************************)
EXTENDS Gate, FiniteSetTheorems, SequenceTheorems, WellFoundedInduction, TLAPS

\* The shape of the gate's tables.
Tables ==
    /\ live \subseteq Conns
    /\ addr \in [live -> IPs]
    /\ authed \subseteq live
    /\ active \in Nat
    /\ preLogin \in Nat
    /\ perIp \in [IPs -> Nat]

\* Tables makes SlotsExact inductive: a slot is given back for a login at most
\* once because the login flag goes with the connection's entry.
Exact == Tables /\ SlotsExact

\* The limits are natural numbers.
LEMMA Limits == MaxConnections \in Nat /\ MaxPreLogin \in Nat /\ MaxPerIp \in Nat
BY LimitsNat

\* Every set of connections the counters stand for is finite.
LEMMA Finite ==
    ASSUME Tables
    PROVE  /\ IsFiniteSet(live)
           /\ IsFiniteSet(live \ authed)
           /\ \A ip \in IPs : IsFiniteSet(From(ip))
<1>1. IsFiniteSet(live)
  BY ConnsFinite, FS_Subset DEF Tables
<1>2. live \ authed \subseteq live /\ \A ip \in IPs : From(ip) \subseteq live
  BY DEF From
<1> QED
  BY <1>1, <1>2, FS_Subset

\* An empty gate counts nothing.
LEMMA ExactInit == GateInit => Exact
<1> SUFFICES ASSUME GateInit PROVE Exact
  OBVIOUS
<1>1. live = {}
  BY DEF GateInit, live
<1>2. Tables
  BY <1>1 DEF Tables, GateInit
<1>3. live \ authed = {} /\ \A ip \in IPs : From(ip) = {}
  BY <1>1 DEF From
<1>4. SlotsExact
  BY <1>1, <1>3, FS_EmptySet, Limits DEF SlotsExact, GateInit
<1> QED
  BY <1>2, <1>4 DEF Exact

\* Steps that change neither the counters nor the connections.
LEMMA ExactStutter ==
    ASSUME Exact, UNCHANGED <<active, preLogin, perIp, addr, authed>>
    PROVE  Exact'
BY DEF Exact, Tables, SlotsExact, From, live

\* An admitted connection is counted once in every counter it is counted in.
LEMMA ExactAdmit ==
    ASSUME Exact, NEW c \in Conns, NEW ip \in IPs, Admit(c, ip)
    PROVE  Exact'
<1> USE DEF Exact
<1>1. /\ live' = live \union {c}
      /\ c \notin live
      /\ addr' = [d \in live \union {c} |-> IF d = c THEN ip ELSE addr[d]]
      /\ authed' = authed
      /\ active' = active + 1 /\ preLogin' = preLogin + 1
      /\ perIp' = [perIp EXCEPT ![ip] = @ + 1]
  BY DEF Admit, live
<1>2. active < MaxConnections /\ preLogin < MaxPreLogin /\ perIp[ip] < MaxPerIp
  BY DEF Admit, RoomFor
<1>3. Tables'
  BY <1>1 DEF Tables
<1>4. /\ Cardinality(live') = Cardinality(live) + 1
      /\ Cardinality(live' \ authed') = Cardinality(live \ authed) + 1
  <2>1. live' \ authed' = (live \ authed) \union {c} /\ c \notin live \ authed
    BY <1>1 DEF Tables
  <2> QED
    BY <1>1, <2>1, Finite, FS_AddElement
<1>5. ASSUME NEW q \in IPs
      PROVE  perIp'[q] = Cardinality(From(q)') /\ perIp'[q] <= MaxPerIp
  <2>1. CASE q = ip
    <3>1. From(q)' = From(q) \union {c} /\ c \notin From(q)
      BY <1>1, <2>1 DEF From, Tables
    <3>2. Cardinality(From(q)') = Cardinality(From(q)) + 1
      BY <3>1, Finite, FS_AddElement
    <3> QED
      BY <1>1, <1>2, <2>1, <3>2, Limits DEF SlotsExact, Tables
  <2>2. CASE q # ip
    <3>1. From(q)' = From(q)
      BY <1>1, <2>2 DEF From, Tables
    <3> QED
      BY <1>1, <2>2, <3>1 DEF SlotsExact, Tables
  <2> QED
    BY <2>1, <2>2
<1>6. SlotsExact'
  BY <1>1, <1>2, <1>4, <1>5, Limits DEF SlotsExact, Tables
<1> QED
  BY <1>3, <1>6

\* The first report of a login moves one connection out of the pre-login count.
LEMMA ExactLogin ==
    ASSUME Exact, NEW c \in Conns, MarkAuthenticated(c)
    PROVE  Exact'
<1> USE DEF Exact
<1>1. CASE c \in live \ authed
  <2>1. /\ authed' = authed \union {c} /\ preLogin' = Less(preLogin)
        /\ UNCHANGED <<active, perIp, addr>>
    BY <1>1 DEF MarkAuthenticated
  <2>2. live' = live /\ \A ip \in IPs : From(ip)' = From(ip)
    BY <2>1 DEF live, From
  <2>3. live' \ authed' = (live \ authed) \ {c}
    BY <2>1, <2>2
  <2>4. Cardinality(live' \ authed') = Cardinality(live \ authed) - 1
    BY <1>1, <2>3, Finite, FS_RemoveElement
  <2>5. Cardinality(live \ authed) # 0
    BY <1>1, Finite, FS_EmptySet
  <2>6. preLogin' = preLogin - 1 /\ preLogin' \in Nat
    BY <2>1, <2>5 DEF Less, SlotsExact, Tables
  <2>7. preLogin' <= MaxPreLogin
    BY <2>6, Limits DEF SlotsExact, Tables
  <2> QED
    BY <1>1, <2>1, <2>2, <2>4, <2>6, <2>7 DEF SlotsExact, Tables
<1>2. CASE c \notin live \ authed
  BY <1>2, ExactStutter DEF MarkAuthenticated
<1> QED
  BY <1>1, <1>2

\* A connection that ends is taken out of every counter it is in.
LEMMA ExactDrop ==
    ASSUME Exact, NEW c \in Conns, DropGuard(c)
    PROVE  Exact'
<1> USE DEF Exact
<1>1. /\ c \in live
      /\ live' = live \ {c}
      /\ addr' = [d \in live \ {c} |-> addr[d]]
      /\ authed' = authed \ {c}
      /\ active' = Less(active)
      /\ preLogin' = IF c \in authed THEN preLogin ELSE Less(preLogin)
      /\ perIp' = [perIp EXCEPT ![addr[c]] = Less(@)]
  BY DEF DropGuard, live
<1>2. addr[c] \in IPs
  BY <1>1 DEF Tables
<1>3. Tables'
  BY <1>1, <1>2 DEF Tables, Less
<1>4. active' = Cardinality(live')  /\ active' <= MaxConnections
  <2>1. Cardinality(live') = Cardinality(live) - 1 /\ Cardinality(live) # 0
    BY <1>1, Finite, FS_RemoveElement, FS_EmptySet
  <2> QED
    BY <1>1, <2>1, Limits DEF SlotsExact, Tables, Less
<1>5. preLogin' = Cardinality(live' \ authed') /\ preLogin' <= MaxPreLogin
  <2>1. CASE c \in authed
    <3>1. live' \ authed' = live \ authed
      BY <1>1, <2>1
    <3> QED
      BY <1>1, <2>1, <3>1 DEF SlotsExact
  <2>2. CASE c \notin authed
    <3>1. live' \ authed' = (live \ authed) \ {c} /\ c \in live \ authed
      BY <1>1, <2>2
    <3>2. /\ Cardinality(live' \ authed') = Cardinality(live \ authed) - 1
          /\ Cardinality(live \ authed) # 0
      BY <3>1, Finite, FS_RemoveElement, FS_EmptySet
    <3> QED
      BY <1>1, <2>2, <3>2, Limits DEF SlotsExact, Tables, Less
  <2> QED
    BY <2>1, <2>2
<1>6. ASSUME NEW q \in IPs
      PROVE  perIp'[q] = Cardinality(From(q)') /\ perIp'[q] <= MaxPerIp
  <2>1. CASE q = addr[c]
    <3>1. From(q)' = From(q) \ {c} /\ c \in From(q)
      BY <1>1, <2>1 DEF From, Tables
    <3>2. /\ Cardinality(From(q)') = Cardinality(From(q)) - 1
          /\ Cardinality(From(q)) # 0
      BY <3>1, Finite, FS_RemoveElement, FS_EmptySet
    <3> QED
      BY <1>1, <1>2, <2>1, <3>2, Limits DEF SlotsExact, Tables, Less
  <2>2. CASE q # addr[c]
    <3>1. From(q)' = From(q)
      BY <1>1, <2>2 DEF From, Tables
    <3> QED
      BY <1>1, <2>2, <3>1 DEF SlotsExact, Tables
  <2> QED
    BY <2>1, <2>2
<1>7. SlotsExact'
  BY <1>4, <1>5, <1>6 DEF SlotsExact
<1> QED
  BY <1>3, <1>7

\* Every step of the gate.
LEMMA ExactStep == Exact /\ [GateNext]_gateVars => Exact'
<1> SUFFICES ASSUME Exact, [GateNext]_gateVars PROVE Exact'
  OBVIOUS
<1>1. CASE \E ip \in IPs : Refuse(ip)
  BY <1>1, ExactStutter DEF Refuse, counters, shared
<1>2. CASE \E c \in Conns, ip \in IPs : Admit(c, ip)
  BY <1>2, ExactAdmit
<1>3. CASE \E c \in Conns : MarkAuthenticated(c)
  BY <1>3, ExactLogin
<1>4. CASE \E c \in Conns : CloseConnection(c)
  BY <1>4, ExactStutter DEF CloseConnection, counters
<1>5. CASE \E c \in Conns : DropGuard(c)
  BY <1>5, ExactDrop
<1>6. CASE Tick
  BY <1>6, ExactStutter DEF Tick, counters, shared
<1>7. CASE UNCHANGED gateVars
  BY <1>7, ExactStutter DEF gateVars, counters, shared
<1> QED
  BY <1>1, <1>2, <1>3, <1>4, <1>5, <1>6, <1>7 DEF GateNext

\* The gate never loses or leaks a slot: its counters are exactly the open
\* connections, those not logged in and those of each address, within the caps.
THEOREM GateSlotsExact == GateSpec => []SlotsExact
<1>1. GateInit => Exact
  BY ExactInit
<1>2. Exact /\ [GateNext]_gateVars => Exact'
  BY ExactStep
<1>3. Exact => SlotsExact
  BY DEF Exact
<1> QED
  BY <1>1, <1>2, <1>3, PTL DEF GateSpec

-----------------------------------------------------------------------------
(* The throttle: sequences of ages, read from the newest attempt back.     *)

\* Induction over positions goes by the smallest one.
LEMMA Smallest ==
    ASSUME NEW S \in SUBSET Nat, S # {}
    PROVE  \E x \in S : \A y \in S : x <= y
<1>1. PICK x \in S : \A y \in S : ~(<<y, x>> \in OpToRel(<, Nat))
  BY NatLessThanWellFounded, WFMin
<1>2. ASSUME NEW y \in S PROVE x <= y
  <2>1. x \in Nat /\ y \in Nat /\ (y < x => <<y, x>> \in OpToRel(<, Nat))
    BY DEF OpToRel
  <2>2. ~(y < x)
    BY <1>1, <2>1, Zenon
  <2>3. x \in Nat /\ y \in Nat
    OBVIOUS
  <2> QED
    BY <2>2, <2>3
<1> QED
  BY <1>2

\* The j-th attempt before the newest.
Recent(ages, j) == ages[Len(ages) - j]
Back(ages) == 0..(Len(ages) - 1)

\* Attempts are recorded at the end: none is older than those before it.
Ages(ages) ==
    /\ ages \in Seq(Nat)
    /\ \A j, k \in Back(ages) : j <= k => Recent(ages, j) <= Recent(ages, k)

\* Popping the front is dropping what is older than the bound, since ages are in order.
LEMMA WithinDrops ==
    ASSUME NEW ages, Ages(ages), NEW bound \in Nat
    PROVE  LET w == Within(ages, bound)
           IN  /\ Ages(w) /\ Len(w) <= Len(ages)
               /\ \A j \in Back(ages) : j \in Back(w) <=> Recent(ages, j) <= bound
               /\ \A j \in Back(w) : Recent(w, j) = Recent(ages, j)
<1> DEFINE w == Within(ages, bound)
           kept == {i \in DOMAIN ages : ages[i] <= bound}
           n == Len(ages)
<1>1. n \in Nat /\ DOMAIN ages = 1..n /\ ages \in [1..n -> Nat]
  BY DEF Ages
<1>2. \A i, k \in 1..n : i <= k => ages[k] <= ages[i]
  <2> SUFFICES ASSUME NEW i \in 1..n, NEW k \in 1..n, i <= k PROVE ages[k] <= ages[i]
    OBVIOUS
  <2>1. n - k \in Back(ages) /\ n - i \in Back(ages) /\ n - k <= n - i
    BY <1>1 DEF Back
  <2>2. Recent(ages, n - k) = ages[k] /\ Recent(ages, n - i) = ages[i]
    BY <1>1 DEF Recent
  <2> QED
    BY <2>1, <2>2 DEF Ages
<1>3. CASE kept = {}
  <2>1. w = <<>> /\ Len(w) = 0
    BY <1>3 DEF Within
  <2>2. \A j \in Back(ages) : ~(Recent(ages, j) <= bound)
    BY <1>1, <1>3 DEF Recent, Back
  <2> QED
    BY <1>1, <2>1, <2>2 DEF Ages, Back
<1>4. CASE kept # {}
  <2>1. kept \in SUBSET Nat
    BY <1>1
  <2>2. \E i \in kept : \A k \in kept : i <= k
    BY <1>4, <2>1, Smallest
  <2> DEFINE first == Min(kept)
  <2>3. first \in kept /\ \A k \in kept : first <= k
    BY <2>2 DEF Min
  <2>4. first \in 1..n /\ ages[first] <= bound
    BY <1>1, <2>3
  <2>5. w = SubSeq(ages, first, n)
    BY <1>4 DEF Within
  <2> HIDE DEF first, w
  <2>6. w \in Seq(Nat) /\ Len(w) = n - first + 1
        /\ \A i \in 1..(n - first + 1) : w[i] = ages[first + i - 1]
    BY <1>1, <2>4, <2>5, SubSeqProperties DEF Ages
  <2>7. ASSUME NEW j \in Back(w) PROVE Recent(w, j) = Recent(ages, j)
    <3>1. /\ Len(w) - j \in 1..(n - first + 1)
          /\ first + (Len(w) - j) - 1 = n - j
      BY <1>1, <2>4, <2>6 DEF Back
    <3>2. w[Len(w) - j] = ages[first + (Len(w) - j) - 1]
      BY <2>6, <3>1
    <3> QED
      BY <3>1, <3>2 DEF Recent
  <2>8. Ages(w)
    <3>1. \A j \in Back(w) : j \in Back(ages)
      BY <1>1, <2>4, <2>6 DEF Back
    <3> QED
      BY <2>6, <2>7, <3>1 DEF Ages
  <2>9. ASSUME NEW j \in Back(ages) PROVE j \in Back(w) <=> Recent(ages, j) <= bound
    <3>1. n - j \in 1..n /\ Recent(ages, j) = ages[n - j]
      BY <1>1 DEF Back, Recent
    <3>2. CASE n - j >= first
      <4>1. ages[n - j] <= bound
        BY <1>1, <1>2, <2>4, <3>1, <3>2
      <4>2. j \in Back(w)
        BY <1>1, <2>4, <2>6, <3>1, <3>2 DEF Back
      <4> QED
        BY <3>1, <4>1, <4>2
    <3>3. CASE n - j < first
      <4>1. n - j \notin kept
        BY <2>3, <2>4, <3>1, <3>3
      <4> QED
        BY <1>1, <2>4, <2>6, <3>1, <3>3, <4>1 DEF Back
    <3> QED
      BY <1>1, <2>4, <3>1, <3>2, <3>3
  <2> QED
    BY <1>1, <2>4, <2>6, <2>7, <2>8, <2>9 DEF w
<1> QED
  BY <1>3, <1>4

\* A recorded attempt is the newest, the others are one further back.
LEMMA OneMore ==
    ASSUME NEW ages, Ages(ages)
    PROVE  LET s == Append(ages, 0)
           IN  /\ Ages(s) /\ Len(s) = Len(ages) + 1 /\ Recent(s, 0) = 0
               /\ \A j \in Back(ages) : Recent(s, j + 1) = Recent(ages, j)
<1> DEFINE s == Append(ages, 0)
           n == Len(ages)
<1>1. n \in Nat /\ ages \in Seq(Nat) /\ ages \in [1..n -> Nat]
  BY DEF Ages
<1>2. s \in Seq(Nat) /\ Len(s) = n + 1 /\ s[n + 1] = 0 /\ \A i \in 1..n : s[i] = ages[i]
  BY <1>1, AppendProperties
<1> HIDE DEF s
<1>3. Recent(s, 0) = 0 /\ \A j \in Back(ages) : Recent(s, j + 1) = Recent(ages, j)
  <2>1. ASSUME NEW j \in Back(ages) PROVE Recent(s, j + 1) = Recent(ages, j)
    <3>1. n - j \in 1..n /\ Len(s) - (j + 1) = n - j
      BY <1>1, <1>2 DEF Back
    <3> QED
      BY <1>2, <3>1 DEF Recent
  <2> QED
    BY <1>1, <1>2, <2>1 DEF Recent
<1>4. \A j \in Back(s) : j = 0 \/ (j - 1 \in Back(ages) /\ Recent(s, j) = Recent(ages, j - 1))
  <2> SUFFICES ASSUME NEW j \in Back(s), j # 0
               PROVE  j - 1 \in Back(ages) /\ Recent(s, j) = Recent(ages, j - 1)
    OBVIOUS
  <2>1. j - 1 \in Back(ages) /\ (j - 1) + 1 = j
    BY <1>1, <1>2 DEF Back
  <2> QED
    BY <1>3, <2>1
<1>5. \A j \in Back(s) : Recent(s, j) \in Nat
  BY <1>1, <1>2 DEF Recent, Back
<1>6. ASSUME NEW j \in Back(s), NEW k \in Back(s), j <= k PROVE Recent(s, j) <= Recent(s, k)
  <2>1. CASE j = 0
    BY <1>3, <1>5, <2>1
  <2>2. CASE j # 0
    <3>1. k # 0 /\ j - 1 <= k - 1
      BY <1>1, <1>2, <1>6, <2>2 DEF Back
    <3> QED
      BY <1>4, <2>2, <3>1 DEF Ages
  <2> QED
    BY <2>1, <2>2
<1> QED
  BY <1>2, <1>3, <1>6 DEF Ages, s

\* Time keeps the order.
LEMMA Aging ==
    ASSUME NEW ages, Ages(ages)
    PROVE  LET s == Older(ages)
           IN  /\ Ages(s) /\ Len(s) = Len(ages)
               /\ \A j \in Back(ages) :
                    Recent(s, j) = IF Recent(ages, j) < AgeCap THEN Recent(ages, j) + 1
                                   ELSE AgeCap
<1> DEFINE s == Older(ages)
           n == Len(ages)
<1>0. AgeCap \in Nat
  BY LimitsNat DEF AgeCap
<1>1. n \in Nat /\ ages \in [1..n -> Nat] /\ DOMAIN ages = 1..n
  BY DEF Ages
<1>2. s \in [1..n -> Nat] /\ \A i \in 1..n : s[i] = IF ages[i] < AgeCap THEN ages[i] + 1 ELSE AgeCap
  BY <1>0, <1>1 DEF Older
<1> HIDE DEF s
<1>3. s \in Seq(Nat) /\ Len(s) = n
  BY <1>1, <1>2
<1>4. \A j \in Back(ages) : Recent(s, j) = IF Recent(ages, j) < AgeCap THEN Recent(ages, j) + 1
                                           ELSE AgeCap
  BY <1>1, <1>2, <1>3 DEF Recent, Back
<1>5. \A j \in Back(ages) : Recent(ages, j) \in Nat
  BY <1>1 DEF Recent, Back
<1>6. Back(s) = Back(ages)
  BY <1>3 DEF Back
<1> QED
  BY <1>0, <1>3, <1>4, <1>5, <1>6 DEF Ages, s

\* What an address's entry says about its attempts: nothing recent is missing,
\* and what the sweeps have not dropped is true.
TailOf(t, o) ==
    /\ Ages(t) /\ Ages(o)
    /\ \A j \in Back(t) : Recent(t, j) <= Window + FullGap =>
                             j \in Back(o) /\ Recent(o, j) = Recent(t, j)
    /\ \A j \in Back(o) : Recent(o, j) <= Window =>
                             j \in Back(t) /\ Recent(t, j) = Recent(o, j)

Spans == Window \in Nat /\ FullGap \in Nat /\ SweepInterval \in Nat /\ MaxConnects \in Nat
         /\ MapCap \in Nat /\ AgeCap = Window + FullGap + 1

LEMMA SpansNat == Spans
BY LimitsNat DEF Spans, AgeCap

\* A sweep, a recorded attempt and the passing of time keep an entry true.
LEMMA TailSwept ==
    ASSUME NEW t, NEW o, TailOf(t, o) PROVE TailOf(Within(t, Window), o)
<1> DEFINE w == Within(t, Window)
<1>1. /\ Ages(w)
      /\ \A j \in Back(t) : j \in Back(w) <=> Recent(t, j) <= Window
      /\ \A j \in Back(w) : Recent(w, j) = Recent(t, j)
      /\ Len(w) <= Len(t) /\ Len(w) \in Nat /\ Len(t) \in Nat
  BY WithinDrops, SpansNat DEF TailOf, Spans, Ages
<1> HIDE DEF w
<1>2. \A j \in Back(w) : j \in Back(t)
  BY <1>1 DEF Back
<1> QED
  BY <1>1, <1>2 DEF TailOf, w

LEMMA TailAppended ==
    ASSUME NEW t, NEW o, TailOf(t, o) PROVE TailOf(Append(t, 0), Append(o, 0))
<1> DEFINE t2 == Append(t, 0)
           o2 == Append(o, 0)
<1>1. /\ Ages(t2) /\ Len(t2) = Len(t) + 1 /\ Recent(t2, 0) = 0
      /\ \A j \in Back(t) : Recent(t2, j + 1) = Recent(t, j)
      /\ Len(t) \in Nat
  BY OneMore DEF TailOf, Ages
<1>2. /\ Ages(o2) /\ Len(o2) = Len(o) + 1 /\ Recent(o2, 0) = 0
      /\ \A j \in Back(o) : Recent(o2, j + 1) = Recent(o, j)
      /\ Len(o) \in Nat
  BY OneMore DEF TailOf, Ages
<1> HIDE DEF t2, o2
<1>3. \A j \in Back(t2) : j = 0 \/ (j - 1 \in Back(t) /\ Recent(t2, j) = Recent(t, j - 1))
  <2> SUFFICES ASSUME NEW j \in Back(t2), j # 0
               PROVE  j - 1 \in Back(t) /\ Recent(t2, j) = Recent(t, j - 1)
    OBVIOUS
  <2>1. j - 1 \in Back(t) /\ (j - 1) + 1 = j
    BY <1>1 DEF Back
  <2> QED
    BY <1>1, <2>1
<1>4. \A j \in Back(o2) : j = 0 \/ (j - 1 \in Back(o) /\ Recent(o2, j) = Recent(o, j - 1))
  <2> SUFFICES ASSUME NEW j \in Back(o2), j # 0
               PROVE  j - 1 \in Back(o) /\ Recent(o2, j) = Recent(o, j - 1)
    OBVIOUS
  <2>1. j - 1 \in Back(o) /\ (j - 1) + 1 = j
    BY <1>2 DEF Back
  <2> QED
    BY <1>2, <2>1
<1>5. /\ 0 \in Back(t2) /\ 0 \in Back(o2)
      /\ \A j \in Back(t) : j + 1 \in Back(t2)
      /\ \A j \in Back(o) : j + 1 \in Back(o2)
  BY <1>1, <1>2 DEF Back
<1>6. ASSUME NEW j \in Back(t2), Recent(t2, j) <= Window + FullGap
      PROVE  j \in Back(o2) /\ Recent(o2, j) = Recent(t2, j)
  <2>1. CASE j = 0
    BY <1>1, <1>2, <1>5, <2>1
  <2>2. CASE j # 0
    <3>1. j - 1 \in Back(t) /\ Recent(t2, j) = Recent(t, j - 1) /\ (j - 1) + 1 = j
      BY <1>1, <1>3, <2>2 DEF Back
    <3>2. j - 1 \in Back(o) /\ Recent(o, j - 1) = Recent(t, j - 1)
      BY <1>6, <3>1 DEF TailOf
    <3> QED
      BY <1>2, <1>5, <3>1, <3>2
  <2> QED
    BY <2>1, <2>2
<1>7. ASSUME NEW j \in Back(o2), Recent(o2, j) <= Window
      PROVE  j \in Back(t2) /\ Recent(t2, j) = Recent(o2, j)
  <2>1. CASE j = 0
    BY <1>1, <1>2, <1>5, <2>1
  <2>2. CASE j # 0
    <3>1. j - 1 \in Back(o) /\ Recent(o2, j) = Recent(o, j - 1) /\ (j - 1) + 1 = j
      BY <1>2, <1>4, <2>2 DEF Back
    <3>2. j - 1 \in Back(t) /\ Recent(t, j - 1) = Recent(o, j - 1)
      BY <1>7, <3>1 DEF TailOf
    <3> QED
      BY <1>1, <1>5, <3>1, <3>2
  <2> QED
    BY <2>1, <2>2
<1> QED
  BY <1>1, <1>2, <1>6, <1>7 DEF TailOf, t2, o2

LEMMA TailOlder ==
    ASSUME NEW t, NEW o, TailOf(t, o)
    PROVE  TailOf(Older(t), Within(Older(o), Window + FullGap))
<1> DEFINE t2 == Older(t)
           o1 == Older(o)
           o2 == Within(o1, Window + FullGap)
<1>0. Spans /\ Window + FullGap \in Nat
  BY SpansNat DEF Spans
<1>1. /\ Ages(t2) /\ Back(t2) = Back(t)
      /\ \A j \in Back(t) : Recent(t2, j) = IF Recent(t, j) < AgeCap THEN Recent(t, j) + 1
                                            ELSE AgeCap
  BY Aging DEF TailOf, Back
<1>2. /\ Ages(o1) /\ Back(o1) = Back(o)
      /\ \A j \in Back(o) : Recent(o1, j) = IF Recent(o, j) < AgeCap THEN Recent(o, j) + 1
                                            ELSE AgeCap
  BY Aging DEF TailOf, Back
<1>3. /\ Ages(o2)
      /\ \A j \in Back(o1) : j \in Back(o2) <=> Recent(o1, j) <= Window + FullGap
      /\ \A j \in Back(o2) : Recent(o2, j) = Recent(o1, j)
      /\ Len(o2) <= Len(o1) /\ Len(o1) \in Nat /\ Len(o2) \in Nat
  BY <1>0, <1>2, WithinDrops DEF Ages
<1>4. /\ \A j \in Back(t) : Recent(t, j) \in Nat
      /\ \A j \in Back(o) : Recent(o, j) \in Nat
  <2>1. ASSUME NEW s, Ages(s), NEW j \in Back(s) PROVE Recent(s, j) \in Nat
    <3>1. s \in [1..Len(s) -> Nat] /\ Len(s) - j \in 1..Len(s)
      BY <2>1 DEF Ages, Back
    <3> QED
      BY <3>1 DEF Recent
  <2> QED
    BY <2>1 DEF TailOf
<1> HIDE DEF t2, o1, o2
<1>5. \A j \in Back(o2) : j \in Back(o1)
  BY <1>3 DEF Back
<1>6. ASSUME NEW j \in Back(t2), Recent(t2, j) <= Window + FullGap
      PROVE  j \in Back(o2) /\ Recent(o2, j) = Recent(t2, j)
  <2>1. Recent(t2, j) = Recent(t, j) + 1 /\ Recent(t, j) <= Window + FullGap
    BY <1>0, <1>1, <1>4, <1>6 DEF Spans
  <2>2. j \in Back(o) /\ Recent(o, j) = Recent(t, j)
    BY <1>1, <2>1 DEF TailOf
  <2>3. Recent(o1, j) = Recent(t2, j)
    BY <1>1, <1>2, <2>2
  <2> QED
    BY <1>2, <1>3, <1>6, <2>2, <2>3
<1>7. ASSUME NEW j \in Back(o2), Recent(o2, j) <= Window
      PROVE  j \in Back(t2) /\ Recent(t2, j) = Recent(o2, j)
  <2>1. j \in Back(o) /\ Recent(o2, j) = Recent(o1, j)
    BY <1>2, <1>3, <1>5
  <2>2. Recent(o, j) <= Window
    BY <1>0, <1>2, <1>4, <1>7, <2>1 DEF Spans
  <2>3. j \in Back(t) /\ Recent(t, j) = Recent(o, j)
    BY <2>1, <2>2 DEF TailOf
  <2> QED
    BY <1>1, <1>2, <2>1, <2>3
<1> QED
  BY <1>1, <1>3, <1>6, <1>7 DEF TailOf, t2, o1, o2

-----------------------------------------------------------------------------
(* The throttle's map.                                                     *)

\* A map of entries that tell the truth about the attempts.
Truthful(m) ==
    /\ m = [ip \in IPs |-> m[ip]]
    /\ \A ip \in IPs : TailOf(m[ip], opened[ip])
\* Nothing in it was expired that long ago.
Young(m, age) == \A ip \in IPs : m[ip] # <<>> => Recent(m[ip], 0) <= Window + age

OpenedFrom == {q \in IPs : opened[q] # <<>>}

\* Since the last sweep, if it was recent, entries have expired by less than that.
RateInv ==
    /\ Truthful(throttle)
    /\ opened = [ip \in IPs |-> opened[ip]]
    /\ sinceSweep \in Nat
    /\ sinceSweep < FullGap => Young(throttle, sinceSweep)
    /\ \A ip \in IPs : \A j \in Back(opened[ip]) :
          Recent(opened[ip], j) <= Window => j < MaxConnects
    /\ IsFiniteSet(OpenedFrom)

LEMMA Newest ==
    ASSUME NEW ages, Ages(ages)
    PROVE  /\ \A j \in Back(ages) : Recent(ages, j) \in Nat
           /\ ages # <<>> => 0 \in Back(ages)
           /\ Len(ages) \in Nat
<1>1. ages \in [1..Len(ages) -> Nat] /\ Len(ages) \in Nat
  BY DEF Ages
<1>2. ASSUME NEW j \in Back(ages) PROVE Recent(ages, j) \in Nat
  <2>1. Len(ages) - j \in 1..Len(ages)
    BY <1>1 DEF Back
  <2> QED
    BY <1>1, <2>1 DEF Recent
<1>3. ages # <<>> => Len(ages) # 0
  BY EmptySeq DEF Ages
<1>4. Len(ages) # 0 => 0 \in Back(ages)
  BY <1>1 DEF Back
<1> QED
  BY <1>1, <1>2, <1>3, <1>4

\* What is left within the window is young.
LEMMA WithinYoung ==
    ASSUME NEW ages, Ages(ages), Within(ages, Window) # <<>>
    PROVE  Recent(Within(ages, Window), 0) <= Window
<1> DEFINE w == Within(ages, Window)
<1>1. /\ Ages(w) /\ Len(w) <= Len(ages)
      /\ \A j \in Back(ages) : j \in Back(w) <=> Recent(ages, j) <= Window
      /\ \A j \in Back(w) : Recent(w, j) = Recent(ages, j)
  BY WithinDrops, SpansNat DEF Spans
<1> HIDE DEF w
<1>2. 0 \in Back(w) /\ Len(w) \in Nat /\ Len(ages) \in Nat
  BY <1>1, Newest DEF w
<1>3. 0 \in Back(ages)
  BY <1>1, <1>2 DEF Back
<1> QED
  BY <1>1, <1>2, <1>3 DEF w

\* A sweep leaves nothing expired.
LEMMA Sweeping ==
    ASSUME NEW m, Truthful(m) PROVE Truthful(Swept(m)) /\ Young(Swept(m), 0)
<1>1. /\ Swept(m) = [ip \in IPs |-> Swept(m)[ip]]
      /\ \A ip \in IPs : Swept(m)[ip] = Within(m[ip], Window)
  BY DEF Swept
<1>2. \A ip \in IPs : TailOf(Swept(m)[ip], opened[ip])
  BY <1>1, TailSwept DEF Truthful
<1>3. Window + 0 = Window
  BY SpansNat DEF Spans
<1>4. Young(Swept(m), 0)
  BY <1>1, <1>3, WithinYoung DEF Truthful, TailOf, Young
<1> QED
  BY <1>1, <1>2, <1>4 DEF Truthful

LEMMA Younger ==
    ASSUME NEW m, Truthful(m), NEW a \in Nat, NEW b \in Nat, a <= b, Young(m, a) PROVE Young(m, b)
<1> SUFFICES ASSUME NEW ip \in IPs, m[ip] # <<>> PROVE Recent(m[ip], 0) <= Window + b
  BY DEF Young
<1>1. Recent(m[ip], 0) \in Nat
  BY Newest DEF Truthful, TailOf
<1>2. Recent(m[ip], 0) <= Window + a
  BY DEF Young
<1> QED
  BY <1>1, <1>2, SpansNat DEF Spans

\* The map an attempt is judged by; one that is full was swept within the gap.
LEMMA Consulting ==
    ASSUME RateInv, NEW ip \in IPs
    PROVE  /\ Truthful(Consulted(ip).map) /\ Consulted(ip).sweep \in Nat
           /\ Consulted(ip).sweep < FullGap => Young(Consulted(ip).map, Consulted(ip).sweep)
           /\ Untracked(ip) => Young(Consulted(ip).map, FullGap)
<1> DEFINE periodic == sinceSweep >= SweepInterval
           t == IF periodic THEN Swept(throttle) ELSE throttle
           age == IF periodic THEN 0 ELSE sinceSweep
           emergency == Full(t, ip) /\ age >= FullGap
<1>0. Spans
  BY SpansNat
<1>1. Truthful(t) /\ age \in Nat /\ (age < FullGap => Young(t, age))
  BY Sweeping DEF RateInv
<1>2. /\ Consulted(ip).map = IF emergency THEN Swept(t) ELSE t
      /\ Consulted(ip).sweep = IF emergency THEN 0 ELSE age
  BY DEF Consulted
<1>3. Untracked(ip) <=> Full(Consulted(ip).map, ip)
  BY DEF Untracked
<1> HIDE DEF t, age
<1>4. CASE emergency
  <2>1. Consulted(ip).map = Swept(t) /\ Consulted(ip).sweep = 0
    BY <1>2, <1>4
  <2>2. Truthful(Swept(t)) /\ Young(Swept(t), 0)
    BY <1>1, Sweeping
  <2>3. Young(Swept(t), FullGap)
    BY <1>0, <2>2, Younger DEF Spans
  <2> QED
    BY <2>1, <2>2, <2>3
<1>5. CASE ~emergency
  <2>1. Consulted(ip).map = t /\ Consulted(ip).sweep = age
    BY <1>2, <1>5
  <2>2. Untracked(ip) => age < FullGap
    BY <1>0, <1>1, <1>3, <1>5, <2>1 DEF Spans
  <2>3. Untracked(ip) => Young(t, FullGap)
    BY <1>0, <1>1, <2>2, Younger DEF Spans
  <2> QED
    BY <1>1, <2>1, <2>3
<1> QED
  BY <1>4, <1>5

\* An attempt that is recorded is one of fewer than the limit.
LEMMA AttemptKeeps ==
    ASSUME RateInv, NEW ip \in IPs, Attempt(ip)
    PROVE  RateInv'
<1> DEFINE m == Consulted(ip).map
           recent == Within(m[ip], Window)
           tracked == ~Untracked(ip) /\ UnderRate(ip)
<1>0. Spans
  BY SpansNat
<1>1. /\ Truthful(m) /\ Consulted(ip).sweep \in Nat
      /\ Consulted(ip).sweep < FullGap => Young(m, Consulted(ip).sweep)
  BY Consulting
<1>2. TailOf(m[ip], opened[ip]) /\ TailOf(recent, opened[ip]) /\ Ages(recent)
  BY <1>1, TailSwept DEF Truthful, TailOf
<1>3. sinceSweep' = Consulted(ip).sweep /\ sinceSweep' \in Nat
  BY <1>1 DEF Attempt
<1>4. /\ throttle' = IF Untracked(ip) THEN m
                     ELSE [m EXCEPT ![ip] = IF tracked THEN Append(recent, 0) ELSE recent]
      /\ opened' = IF tracked THEN [opened EXCEPT ![ip] = Append(@, 0)] ELSE opened
  BY DEF Attempt
<1>5. Len(recent) < MaxConnects \/ ~tracked
  BY DEF UnderRate
<1> HIDE DEF m, recent
<1>6. /\ throttle' = [q \in IPs |-> throttle'[q]] /\ opened' = [q \in IPs |-> opened'[q]]
      /\ \A q \in IPs \ {ip} : throttle'[q] = m[q] /\ opened'[q] = opened[q]
  BY <1>1, <1>4 DEF Truthful, RateInv
<1>7. \/ throttle'[ip] \in {m[ip], recent} /\ opened'[ip] = opened[ip]
      \/ tracked /\ throttle'[ip] = Append(recent, 0) /\ opened'[ip] = Append(opened[ip], 0)
  BY <1>1, <1>4 DEF Truthful, RateInv
<1>8. TailOf(throttle'[ip], opened'[ip])
  BY <1>2, <1>7, TailAppended
<1>9. Truthful(throttle)'
  BY <1>1, <1>6, <1>8 DEF Truthful
<1>10. sinceSweep' < FullGap => Young(throttle, sinceSweep)'
  <2> SUFFICES ASSUME sinceSweep' < FullGap, NEW q \in IPs, throttle'[q] # <<>>
               PROVE  Recent(throttle'[q], 0) <= Window + sinceSweep'
    BY DEF Young
  <2>1. m[q] # <<>> => Recent(m[q], 0) <= Window + sinceSweep'
    BY <1>1, <1>3 DEF Young
  <2>2. recent # <<>> => Recent(recent, 0) <= Window
    BY <1>2, WithinYoung DEF TailOf, recent
  <2>3. Recent(Append(recent, 0), 0) = 0
    BY <1>2, OneMore
  <2>4. recent # <<>> => Recent(recent, 0) \in Nat
    BY <1>2, Newest
  <2>5. CASE q # ip \/ throttle'[q] = m[q]
    BY <1>6, <2>1, <2>5
  <2>6. CASE q = ip /\ throttle'[q] = recent
    BY <1>0, <1>3, <2>2, <2>4, <2>6 DEF Spans
  <2>7. CASE q = ip /\ throttle'[q] = Append(recent, 0)
    BY <1>0, <1>3, <2>3, <2>7 DEF Spans
  <2> QED
    BY <1>7, <2>5, <2>6, <2>7
<1>11. ASSUME NEW q \in IPs, NEW j \in Back(opened'[q]), Recent(opened'[q], j) <= Window
       PROVE  j < MaxConnects
  <2>1. CASE opened'[q] = opened[q]
    BY <1>11, <2>1 DEF RateInv
  <2>2. CASE q = ip /\ tracked /\ opened'[q] = Append(opened[q], 0)
    <3>1. Len(recent) \in Nat /\ Len(recent) < MaxConnects /\ Ages(opened[q])
      BY <1>2, <1>5, <2>2, Newest DEF TailOf
    <3>2. CASE j = 0
      BY <1>0, <3>1, <3>2 DEF Spans
    <3>3. CASE j # 0
      <4>1. Len(opened'[q]) = Len(opened[q]) + 1 /\ Len(opened[q]) \in Nat
        BY <2>2, <3>1, OneMore, Newest
      <4>2. j - 1 \in Back(opened[q]) /\ (j - 1) + 1 = j
        BY <3>3, <4>1 DEF Back
      <4>3. Recent(opened[q], j - 1) <= Window
        BY <1>11, <2>2, <3>1, <4>2, OneMore
      <4>4. j - 1 \in Back(recent)
        BY <1>2, <2>2, <4>2, <4>3 DEF TailOf
      <4> QED
        BY <1>0, <3>1, <4>2, <4>4 DEF Back, Spans
    <3> QED
      BY <3>2, <3>3
  <2> QED
    BY <1>6, <1>7, <2>1, <2>2
<1>12. IsFiniteSet(OpenedFrom')
  <2>1. OpenedFrom' \subseteq OpenedFrom \cup {ip}
    BY <1>6 DEF OpenedFrom
  <2>2. IsFiniteSet(OpenedFrom \cup {ip})
    BY FS_AddElement DEF RateInv
  <2> QED
    BY <2>1, <2>2, FS_Subset
<1> QED
  BY <1>3, <1>6, <1>9, <1>10, <1>11, <1>12 DEF RateInv

LEMMA TickKeeps ==
    ASSUME RateInv, Tick
    PROVE  RateInv'
<1>0. Spans
  BY SpansNat
<1>1. /\ throttle' = [q \in IPs |-> throttle'[q]] /\ opened' = [q \in IPs |-> opened'[q]]
      /\ \A q \in IPs : /\ throttle'[q] = Older(throttle[q])
                        /\ opened'[q] = Within(Older(opened[q]), Window + FullGap)
  BY DEF Tick
<1>2. \A q \in IPs : TailOf(throttle[q], opened[q])
  BY DEF RateInv, Truthful
<1>3. Truthful(throttle)'
  BY <1>1, <1>2, TailOlder DEF Truthful
<1>4. sinceSweep' \in Nat /\ (sinceSweep' < FullGap => sinceSweep' = sinceSweep + 1)
  BY <1>0 DEF Tick, RateInv, Spans
<1>5. sinceSweep' < FullGap => Young(throttle, sinceSweep)'
  <2> SUFFICES ASSUME sinceSweep' < FullGap, NEW q \in IPs, throttle'[q] # <<>>
               PROVE  Recent(throttle'[q], 0) <= Window + sinceSweep'
    BY DEF Young
  <2>1. Ages(throttle[q]) /\ Len(throttle'[q]) = Len(throttle[q])
    BY <1>1, <1>2, Aging DEF TailOf
  <2>2. Ages(throttle'[q])
    BY <1>1, <2>1, Aging
  <2>3. throttle[q] # <<>> /\ 0 \in Back(throttle[q]) /\ Recent(throttle[q], 0) \in Nat
    <3>1. 0 \in Back(throttle'[q])
      BY <2>2, Newest
    <3>2. 0 \in Back(throttle[q])
      BY <2>1, <3>1 DEF Back
    <3>3. throttle[q] # <<>>
      BY <3>2 DEF Back
    <3> QED
      BY <2>1, <3>2, <3>3, Newest
  <2>4. Recent(throttle[q], 0) <= Window + sinceSweep
    BY <1>0, <1>4, <2>3 DEF RateInv, Young, Spans
  <2>5. Recent(throttle'[q], 0) = IF Recent(throttle[q], 0) < AgeCap
                                 THEN Recent(throttle[q], 0) + 1 ELSE AgeCap
    BY <1>1, <2>1, <2>3, Aging
  <2> QED
    BY <1>0, <1>4, <2>3, <2>4, <2>5 DEF RateInv, Spans
<1>6. ASSUME NEW q \in IPs
      PROVE  /\ \A j \in Back(opened'[q]) : Recent(opened'[q], j) <= Window => j < MaxConnects
             /\ opened[q] = <<>> => opened'[q] = <<>>
  <2> DEFINE o == opened[q]
             o1 == Older(o)
             o2 == Within(o1, Window + FullGap)
  <2>1. Ages(o) /\ o2 = opened'[q]
    BY <1>1, <1>2 DEF TailOf
  <2>2. /\ Ages(o1) /\ Len(o1) = Len(o)
        /\ \A j \in Back(o) : Recent(o1, j) = IF Recent(o, j) < AgeCap THEN Recent(o, j) + 1
                                              ELSE AgeCap
    BY <2>1, Aging
  <2>3. /\ Ages(o2) /\ Len(o2) <= Len(o1)
        /\ \A j \in Back(o2) : Recent(o2, j) = Recent(o1, j)
    BY <1>0, <2>2, WithinDrops DEF Spans
  <2>4. Len(o) \in Nat /\ Len(o2) \in Nat
    BY <2>1, <2>3, Newest
  <2> HIDE DEF o1, o2
  <2>5. ASSUME NEW j \in Back(o2), Recent(o2, j) <= Window PROVE j < MaxConnects
    <3>1. j \in Back(o)
      BY <2>2, <2>3, <2>4 DEF Back
    <3>2. Recent(o, j) \in Nat
      BY <2>1, <3>1, Newest
    <3>3. Recent(o, j) <= Window
      BY <1>0, <2>2, <2>3, <2>5, <3>1, <3>2 DEF Spans
    <3> QED
      BY <3>1, <3>3 DEF RateInv
  <2>6. o = <<>> => o2 = <<>>
    <3> SUFFICES ASSUME o = <<>>, o2 # <<>> PROVE FALSE
      OBVIOUS
    <3>1. 0 \in Back(o2)
      BY <2>3, Newest
    <3>2. Len(o) = 0
      OBVIOUS
    <3> QED
      BY <2>2, <2>3, <2>4, <3>1, <3>2 DEF Back
  <2> QED
    BY <2>1, <2>5, <2>6
<1>7. IsFiniteSet(OpenedFrom')
  <2>1. OpenedFrom' \subseteq OpenedFrom
    BY <1>6 DEF OpenedFrom
  <2> QED
    BY <2>1, FS_Subset DEF RateInv
<1> QED
  BY <1>1, <1>3, <1>4, <1>5, <1>6, <1>7 DEF RateInv

LEMMA RateInit == GateInit => RateInv
<1> SUFFICES ASSUME GateInit PROVE RateInv
  OBVIOUS
<1>1. Ages(<<>>) /\ Back(<<>>) = {}
  BY DEF Ages, Back
<1>2. TailOf(<<>>, <<>>)
  BY <1>1 DEF TailOf
<1>3. throttle = [ip \in IPs |-> <<>>] /\ opened = [ip \in IPs |-> <<>>] /\ sinceSweep = 0
  BY DEF GateInit
<1>4. OpenedFrom = {}
  BY <1>3 DEF OpenedFrom
<1> QED
  BY <1>1, <1>2, <1>3, <1>4, FS_EmptySet DEF RateInv, Truthful, Young

\* Every step of the gate keeps the throttle's books.
LEMMA RateStep == RateInv /\ [GateNext]_gateVars => RateInv'
<1> SUFFICES ASSUME RateInv, [GateNext]_gateVars PROVE RateInv'
  OBVIOUS
<1>1. CASE \E ip \in IPs : Attempt(ip)
  BY <1>1, AttemptKeeps
<1>2. CASE Tick
  BY <1>2, TickKeeps
<1>3. CASE UNCHANGED rates
  BY <1>3 DEF rates, RateInv, Truthful, Young, OpenedFrom
<1> QED
  BY <1>1, <1>2, <1>3 DEF GateNext, Refuse, Admit, MarkAuthenticated, CloseConnection, DropGuard,
      gateVars

\* Nobody is counted in without an attempt on record, unless the map was full.
LEMMA AdmitsOnRecord ==
    ASSUME RateInv, Exact, [GateNext]_gateVars, NEW ip \in IPs, perIp'[ip] > perIp[ip]
    PROVE  opened'[ip] # opened[ip] \/ Cardinality(OpenedFrom) >= MapCap
<1>1. perIp \in [IPs -> Nat] /\ \A n \in Nat : Less(n) \in Nat /\ Less(n) <= n
  BY DEF Exact, Tables, Less
<1>2. \E c \in Conns : Admit(c, ip)
  <2>1. CASE \E c \in Conns, q \in IPs : Admit(c, q)
    <3>1. PICK c \in Conns, q \in IPs : Admit(c, q)
      BY <2>1
    <3>2. q = ip
      BY <1>1, <3>1 DEF Admit
    <3> QED
      BY <3>1, <3>2
  <2>2. CASE \E c \in Conns : DropGuard(c)
    BY <1>1, <2>2 DEF DropGuard, Exact, Tables
  <2>3. CASE \/ UNCHANGED gateVars \/ Tick \/ \E q \in IPs : Refuse(q)
             \/ \E c \in Conns : MarkAuthenticated(c) \/ CloseConnection(c)
    BY <1>1, <2>3 DEF gateVars, counters, Tick, Refuse, MarkAuthenticated, CloseConnection
  <2> QED
    BY <2>1, <2>2, <2>3 DEF GateNext
<1>3. Attempt(ip) /\ Allowed(ip)
  BY <1>2 DEF Admit
<1>4. CASE ~Untracked(ip)
  <2>1. opened' = [opened EXCEPT ![ip] = Append(@, 0)]
    BY <1>3, <1>4 DEF Attempt, Allowed
  <2>2. opened'[ip] = Append(opened[ip], 0) /\ Ages(opened[ip])
    BY <2>1 DEF RateInv, Truthful, TailOf
  <2>3. Len(opened'[ip]) = Len(opened[ip]) + 1 /\ Len(opened[ip]) \in Nat
    BY <2>2, OneMore, Newest
  <2> QED
    BY <2>3
<1>5. CASE Untracked(ip)
  <2> DEFINE m == Consulted(ip).map
  <2>1. Truthful(m) /\ Young(m, FullGap)
    BY <1>5, Consulting
  <2>2. Cardinality(Tracked(m)) >= MapCap
    BY <1>5 DEF Untracked, Full
  <2> HIDE DEF m
  <2>3. ASSUME NEW q \in Tracked(m) PROVE q \in OpenedFrom
    <3>1. q \in IPs /\ m[q] # <<>>
      BY <2>3 DEF Tracked
    <3>2. TailOf(m[q], opened[q]) /\ Recent(m[q], 0) <= Window + FullGap
      BY <2>1, <3>1 DEF Truthful, Young
    <3>3. 0 \in Back(m[q])
      BY <3>1, <3>2, Newest DEF TailOf
    <3>4. 0 \in Back(opened[q])
      BY <3>2, <3>3 DEF TailOf
    <3>5. opened[q] # <<>>
      BY <3>4 DEF Back
    <3> QED
      BY <3>1, <3>5 DEF OpenedFrom
  <2>4. Cardinality(Tracked(m)) <= Cardinality(OpenedFrom)
        /\ Cardinality(Tracked(m)) \in Nat /\ Cardinality(OpenedFrom) \in Nat
    BY <2>3, FS_Subset, FS_CardinalityType DEF RateInv
  <2> QED
    BY <2>2, <2>4, SpansNat DEF Spans
<1> QED
  BY <1>4, <1>5

\* No tracked address gets more connections in a window than it may have, and an
\* address is let in untracked only while the map is full of others that connected
\* lately: for any limits, any map and any order of sweeps and attempts.
THEOREM GateThrottleHolds == GateSpec => ThrottleHolds
<1> DEFINE Bounded == \A ip \in IPs : Len(Within(opened[ip], Window)) <= MaxConnects
           OnRecord == \A ip \in IPs :
                          perIp'[ip] > perIp[ip] =>
                              \/ opened'[ip] # opened[ip]
                              \/ Cardinality({q \in IPs : opened[q] # <<>>}) >= MapCap
<1>1. RateInv => Bounded
  <2> SUFFICES ASSUME RateInv, NEW ip \in IPs
               PROVE  Len(Within(opened[ip], Window)) <= MaxConnects
    OBVIOUS
  <2> DEFINE o == opened[ip]
             w == Within(o, Window)
  <2>1. Ages(o)
    BY DEF RateInv, Truthful, TailOf
  <2>2. /\ Ages(w) /\ Len(w) <= Len(o)
        /\ \A j \in Back(o) : j \in Back(w) <=> Recent(o, j) <= Window
    BY <2>1, WithinDrops, SpansNat DEF Spans
  <2>3. Len(w) \in Nat /\ Len(o) \in Nat /\ MaxConnects \in Nat
    BY <2>1, <2>2, Newest, SpansNat DEF Spans
  <2> HIDE DEF w
  <2> SUFFICES ASSUME Len(w) > MaxConnects PROVE FALSE
    BY <2>3 DEF w
  <2>4. MaxConnects \in Back(w) /\ MaxConnects \in Back(o)
    BY <2>2, <2>3 DEF Back
  <2>5. MaxConnects < MaxConnects
    BY <2>2, <2>4 DEF RateInv
  <2> QED
    BY <2>3, <2>5
<1>2. RateInv /\ Exact /\ [GateNext]_gateVars => [OnRecord]_gateVars
  BY AdmitsOnRecord DEF OpenedFrom
<1>3. GateSpec => []RateInv
  BY RateInit, RateStep, PTL DEF GateSpec
<1>4. GateSpec => []Exact
  BY ExactInit, ExactStep, PTL DEF GateSpec
<1>5. GateSpec => []Bounded
  BY <1>1, <1>3, PTL
<1>6. GateSpec => [][OnRecord]_gateVars
  BY <1>2, <1>3, <1>4, PTL DEF GateSpec
<1> QED
  BY <1>5, <1>6 DEF ThrottleHolds
=============================================================================
