--------------------------- MODULE SessionsProofs ---------------------------
(***************************************************************************)
(* Proofs about the references to TLS sessions, for every set of programs  *)
(* and sessions and every finite set of connections.                       *)
(*                                                                         *)
(* SessionsOwned compares a counter with the size of a set.  The set is    *)
(* split into the connections whose session it is, the callbacks that have *)
(* it in their hands, and the three places that hold it at most once       *)
(* (OwnersCount); a step of one connection changes each part by at most    *)
(* one (OneMoves).  What makes it inductive is HandsInv: what a callback   *)
(* has in its hands at each of its steps, and that a session nobody has    *)
(* been offered yet is known to one connection only, so that the caches    *)
(* that take it did not have it before.                                    *)
(***************************************************************************)
EXTENDS Sessions, FiniteSetTheorems, TLAPS

-----------------------------------------------------------------------------
(* Counting owners.                                                        *)

Has(c, S) == IF c \in S THEN 1 ELSE 0

\* A finite set tagged with a label is as large as the set.
LEMMA TaggedSize ==
    ASSUME NEW S, IsFiniteSet(S), NEW tag
    PROVE  /\ IsFiniteSet({<<tag, c>> : c \in S})
           /\ Cardinality({<<tag, c>> : c \in S}) = Cardinality(S)
  <1> DEFINE T == {<<tag, c>> : c \in S}
             f == [c \in S |-> <<tag, c>>]
  <1>1. f \in [S -> T] /\ \A t \in T : \E c \in S : f[c] = t
    OBVIOUS
  <1>2. \A a, b \in S : f[a] = f[b] => a = b
    OBVIOUS
  <1>3. f \in Bijection(S, T)
    BY <1>1, <1>2 DEF Bijection, Injection, Surjection, IsInjective
  <1>4. ExistsBijection(S, T)
    BY <1>3 DEF ExistsBijection
  <1> QED BY <1>4, FS_Bijection

\* A place that holds a session holds it once.
LEMMA PlaceSize ==
    ASSUME NEW s, NEW S, NEW tag
    PROVE  /\ IsFiniteSet({<<tag, s>> : x \in {s} \cap S})
           /\ Cardinality({<<tag, s>> : x \in {s} \cap S}) = One(s, S)
  <1>1. CASE s \in S
    <2>1. {<<tag, s>> : x \in {s} \cap S} = {<<tag, s>>}
      BY <1>1
    <2> QED BY <1>1, <2>1, FS_Singleton DEF One
  <1>2. CASE s \notin S
    <2>1. {<<tag, s>> : x \in {s} \cap S} = {}
      BY <1>2
    <2> QED BY <1>2, <2>1, FS_EmptySet DEF One
  <1> QED BY <1>1, <1>2

\* Finite sets with nothing in common.
LEMMA DisjointSize ==
    ASSUME NEW S, NEW T, IsFiniteSet(S), IsFiniteSet(T), S \cap T = {}
    PROVE  IsFiniteSet(S \cup T) /\ Cardinality(S \cup T) = Cardinality(S) + Cardinality(T)
  <1>1. Cardinality(S) \in Nat /\ Cardinality(T) \in Nat
    BY FS_CardinalityType
  <1> QED BY <1>1, FS_Union, FS_EmptySet

\* Owners(s) as the sum of its parts: A the connections, B the callbacks.
LEMMA OwnersSize ==
    ASSUME NEW A \in SUBSET SSLs, NEW B \in SUBSET SSLs, NEW X, NEW Y, NEW Z, NEW s
    PROVE  Cardinality({<<"ssl", c>> : c \in A} \cup {<<"hand", c>> : c \in B}
                         \cup {<<"store", s>> : x \in {s} \cap X}
                         \cup {<<"cache", s>> : x \in {s} \cap Y}
                         \cup {<<"java", s>> : x \in {s} \cap Z})
             = Cardinality(A) + Cardinality(B) + One(s, X) + One(s, Y) + One(s, Z)
  <1> DEFINE a == {<<"ssl", c>> : c \in A}
             b == {<<"hand", c>> : c \in B}
             k == {<<"store", s>> : x \in {s} \cap X}
             l == {<<"cache", s>> : x \in {s} \cap Y}
             m == {<<"java", s>> : x \in {s} \cap Z}
  <1>1. IsFiniteSet(A) /\ IsFiniteSet(B) /\ Cardinality(A) \in Nat /\ Cardinality(B) \in Nat
    BY SSLsAssumption, FS_Subset, FS_CardinalityType
  <1>2. IsFiniteSet(a) /\ Cardinality(a) = Cardinality(A) /\ IsFiniteSet(b) /\ Cardinality(b) = Cardinality(B)
    BY <1>1, TaggedSize
  <1>3. /\ IsFiniteSet(k) /\ Cardinality(k) = One(s, X)
        /\ IsFiniteSet(l) /\ Cardinality(l) = One(s, Y)
        /\ IsFiniteSet(m) /\ Cardinality(m) = One(s, Z)
    BY PlaceSize
  <1>4. a \cap b = {} /\ (a \cup b) \cap k = {} /\ (a \cup b \cup k) \cap l = {}
        /\ (a \cup b \cup k \cup l) \cap m = {}
    OBVIOUS
  <1> HIDE DEF a, b, k, l, m
  <1>5. IsFiniteSet(a \cup b) /\ Cardinality(a \cup b) = Cardinality(A) + Cardinality(B)
    BY <1>2, <1>4, DisjointSize
  <1>6. /\ IsFiniteSet(a \cup b \cup k)
        /\ Cardinality(a \cup b \cup k) = Cardinality(A) + Cardinality(B) + One(s, X)
    BY <1>3, <1>4, <1>5, DisjointSize
  <1>7. /\ IsFiniteSet(a \cup b \cup k \cup l)
        /\ Cardinality(a \cup b \cup k \cup l) = Cardinality(A) + Cardinality(B) + One(s, X) + One(s, Y)
    BY <1>3, <1>4, <1>6, DisjointSize
  <1>8. Cardinality(a \cup b \cup k \cup l \cup m)
           = Cardinality(A) + Cardinality(B) + One(s, X) + One(s, Y) + One(s, Z)
    BY <1>3, <1>4, <1>7, DisjointSize
  <1> QED BY <1>8 DEF a, b, k, l, m

\* Two sets of connections that differ in one connection at most.
LEMMA OneMoves ==
    ASSUME NEW A \in SUBSET SSLs, NEW B \in SUBSET SSLs, NEW c, A \ {c} = B \ {c}
    PROVE  /\ Cardinality(A) \in Nat /\ Cardinality(B) \in Nat
           /\ Cardinality(B) = Cardinality(A) + Has(c, B) - Has(c, A)
  <1>1. /\ IsFiniteSet(A) /\ IsFiniteSet(B)
        /\ Cardinality(A) \in Nat /\ Cardinality(B) \in Nat
    BY SSLsAssumption, FS_Subset, FS_CardinalityType
  <1>2. ASSUME NEW S, IsFiniteSet(S), Cardinality(S) \in Nat
        PROVE  Cardinality(S \ {c}) = Cardinality(S) - Has(c, S)
    <2>1. Cardinality(S \ {c}) = IF c \in S THEN Cardinality(S) - 1 ELSE Cardinality(S)
      BY <1>2, FS_RemoveElement
    <2> QED BY <1>2, <2>1 DEF Has
  <1>3. /\ Cardinality(A \ {c}) = Cardinality(A) - Has(c, A)
        /\ Cardinality(B \ {c}) = Cardinality(B) - Has(c, B)
    BY <1>1, <1>2
  <1> QED BY <1>1, <1>3 DEF Has

-----------------------------------------------------------------------------
(* The inductive invariant.                                                *)

\* TypeOK but for the counters, whose sign is what SessionsOwned is about.
StateOK ==
    /\ program \in Programs
    /\ refs \in [Sessions -> Int]
    /\ made \subseteq Sessions
    /\ mode \in Modes /\ asked \in Modes
    /\ installed \in BOOLEAN
    /\ store \subseteq made /\ cached \subseteq made /\ held \subseteq made
    /\ dropped \subseteq made /\ resurrected \subseteq made
    /\ conn \in [SSLs -> [pc : {"none", "idle", "new", "ticket", "offered", "found"},
                          side : Sides, session : made \cup {NULL}, hand : made \cup {NULL},
                          created : Created \cup {"none"}]]

\* A session that no cache has been told of: only the connection that made it knows it.
Secret(c) ==
    /\ conn[c].hand \notin store \cup cached \cup held
    /\ \A d \in SSLs \ {c} : conn[d].hand # conn[c].hand /\ conn[d].session # conn[c].hand

\* What the callbacks have in their hands.
HandsInv ==
    \A c \in SSLs :
       /\ conn[c].pc \in {"none", "idle"} => conn[c].hand = NULL
       /\ conn[c].pc \in {"none", "found"} => conn[c].session = NULL
       /\ conn[c].pc \in {"new", "ticket", "offered", "found"} => conn[c].hand # NULL
       /\ conn[c].pc \in {"new", "ticket"} => Secret(c)

SslOwners(s)  == {d \in SSLs : conn[d].session = s}
HandOwners(s) == {d \in SSLs : conn[d].hand = s /\ InHand(d)}

Total(s) == Cardinality(SslOwners(s)) + Cardinality(HandOwners(s))
              + One(s, store) + One(s, cached) + One(s, held)

CountsInv == \A s \in Sessions : refs[s] = Total(s)

\* The references of a connection to a session.
Weight(c, s) == One(s, {conn[c].session}) + One(s, IF InHand(c) THEN {conn[c].hand} ELSE {})

LEMMA OneType == \A s, S : One(s, S) \in {0, 1}
  BY DEF One

\* A step of one connection changes the owners by what it does to that connection
\* and to the three places.
LEMMA TotalMoves ==
    ASSUME NEW c \in SSLs, NEW s \in Sessions, \A d \in SSLs \ {c} : conn'[d] = conn[d]
    PROVE  /\ Total(s) \in Nat /\ Total(s)' \in Nat
           /\ Total(s)' = Total(s) + (Weight(c, s)' - Weight(c, s))
                            + (One(s, store') - One(s, store)) + (One(s, cached') - One(s, cached))
                            + (One(s, held') - One(s, held))
  <1> DEFINE A == SslOwners(s)
             B == HandOwners(s)
  <1>1. A \in SUBSET SSLs /\ A' \in SUBSET SSLs /\ B \in SUBSET SSLs /\ B' \in SUBSET SSLs
    BY DEF SslOwners, HandOwners
  <1>2. A \ {c} = A' \ {c} /\ B \ {c} = B' \ {c}
    BY DEF SslOwners, HandOwners, InHand
  <1>3. /\ Weight(c, s) = Has(c, A) + Has(c, B)
        /\ Weight(c, s)' = Has(c, A') + Has(c, B')
    BY DEF Weight, One, Has, SslOwners, HandOwners
  <1>4. Has(c, A) \in {0, 1} /\ Has(c, A') \in {0, 1} /\ Has(c, B) \in {0, 1} /\ Has(c, B') \in {0, 1}
    BY DEF Has
  <1>5. /\ Total(s) = Cardinality(A) + Cardinality(B) + One(s, store) + One(s, cached) + One(s, held)
        /\ Total(s)' = Cardinality(A') + Cardinality(B') + One(s, store') + One(s, cached') + One(s, held')
    BY DEF Total
  <1> HIDE DEF A, B
  <1>6. /\ Cardinality(A) \in Nat /\ Cardinality(A') \in Nat
        /\ Cardinality(A') = Cardinality(A) + Has(c, A') - Has(c, A)
    BY <1>1, <1>2, OneMoves
  <1>7. /\ Cardinality(B) \in Nat /\ Cardinality(B') \in Nat
        /\ Cardinality(B') = Cardinality(B) + Has(c, B') - Has(c, B)
    BY <1>1, <1>2, OneMoves
  <1> QED BY <1>3, <1>4, <1>5, <1>6, <1>7, OneType

\* The same for a step of no connection.
LEMMA TotalStays ==
    ASSUME NEW s \in Sessions, conn' = conn
    PROVE  /\ Total(s) \in Nat /\ Total(s)' \in Nat
           /\ Total(s)' = Total(s) + (One(s, store') - One(s, store)) + (One(s, cached') - One(s, cached))
                            + (One(s, held') - One(s, held))
  <1>1. /\ SslOwners(s)' = SslOwners(s) /\ HandOwners(s)' = HandOwners(s)
        /\ SslOwners(s) \in SUBSET SSLs /\ HandOwners(s) \in SUBSET SSLs
    BY DEF SslOwners, HandOwners, InHand
  <1>2. Cardinality(SslOwners(s)) \in Nat /\ Cardinality(HandOwners(s)) \in Nat
    BY <1>1, SSLsAssumption, FS_Subset, FS_CardinalityType
  <1> QED BY <1>1, <1>2, OneType DEF Total

\* The places that hold a session.
Places(s) == One(s, store) + One(s, cached) + One(s, held)

\* The counts follow the owners.
LEMMA CountsMove ==
    ASSUME StateOK, CountsInv, NEW c \in SSLs, \A d \in SSLs \ {c} : conn'[d] = conn[d],
           \A s \in Sessions :
              refs'[s] + Weight(c, s) + Places(s) = refs[s] + Weight(c, s)' + Places(s)',
           refs' \in [Sessions -> Int]
    PROVE  CountsInv'
  <1> SUFFICES ASSUME NEW s \in Sessions PROVE refs'[s] = Total(s)'
    BY DEF CountsInv
  <1>1. refs[s] = Total(s) /\ refs'[s] \in Int
    BY DEF CountsInv
  <1>2. Weight(c, s) \in Nat /\ Weight(c, s)' \in Nat
    BY DEF Weight, One
  <1>3. refs'[s] + Weight(c, s) + Places(s) = refs[s] + Weight(c, s)' + Places(s)'
    OBVIOUS
  <1> QED BY <1>1, <1>2, <1>3, TotalMoves, OneType DEF Places

\* Where the sessions a connection may come to know come from: none of these is the
\* secret of another connection.
Known(c) == {NULL, conn[c].hand, conn[c].session} \cup store \cup cached \cup held \cup (Sessions \ made)

LEMMA HandsMove ==
    ASSUME StateOK, HandsInv, NEW c \in SSLs, \A d \in SSLs \ {c} : conn'[d] = conn[d],
           store' \cup cached' \cup held' \subseteq Known(c),
           conn'[c].hand \in Known(c), conn'[c].session \in Known(c),
           conn'[c].pc \in {"none", "idle"} => conn'[c].hand = NULL,
           conn'[c].pc \in {"none", "found"} => conn'[c].session = NULL,
           conn'[c].pc \in {"new", "ticket", "offered", "found"} => conn'[c].hand # NULL,
           conn'[c].pc \in {"new", "ticket"} => Secret(c)'
    PROVE  HandsInv'
  <1>1. ASSUME NEW d \in SSLs \ {c}, conn[d].pc \in {"new", "ticket"}
        PROVE  Secret(d)'
    <2>1. conn[d].hand \in made /\ conn[d].hand # NULL /\ Secret(d)
      BY <1>1 DEF StateOK, HandsInv
    <2>2. conn[d].hand \notin Known(c)
      BY <2>1 DEF Known, Secret
    <2> QED BY <2>1, <2>2 DEF Secret
  <1>2. ASSUME NEW d \in SSLs
        PROVE  /\ conn'[d].pc \in {"none", "idle"} => conn'[d].hand = NULL
               /\ conn'[d].pc \in {"none", "found"} => conn'[d].session = NULL
               /\ conn'[d].pc \in {"new", "ticket", "offered", "found"} => conn'[d].hand # NULL
               /\ conn'[d].pc \in {"new", "ticket"} => Secret(d)'
    BY <1>1 DEF HandsInv
  <1> QED BY <1>2 DEF HandsInv

\* The type of the counts.
LEMMA CountType ==
    ASSUME StateOK, NEW up, NEW down
    PROVE  /\ Count(up, down) \in [Sessions -> Int]
           /\ \A s \in Sessions : Count(up, down)[s] = refs[s] + One(s, up) - One(s, down)
  BY OneType DEF StateOK, Count

ConnType(m) == [pc : {"none", "idle", "new", "ticket", "offered", "found"}, side : Sides,
                session : m \cup {NULL}, hand : m \cup {NULL}, created : Created \cup {"none"}]

\* A connection is given a new record.
LEMMA ConnMoves ==
    ASSUME NEW c \in SSLs, NEW r \in ConnType(made'), StateOK, made \subseteq made',
           conn' = [conn EXCEPT ![c] = r]
    PROVE  /\ conn'[c] = r /\ \A d \in SSLs \ {c} : conn'[d] = conn[d]
           /\ conn' \in [SSLs -> ConnType(made')]
  <1>1. conn \in [SSLs -> ConnType(made)] /\ ConnType(made) \subseteq ConnType(made')
    BY DEF StateOK, ConnType
  <1> QED BY <1>1

LEMMA RecordFacts ==
    ASSUME StateOK, NEW c \in SSLs
    PROVE  conn[c] = [pc |-> conn[c].pc, side |-> conn[c].side, session |-> conn[c].session,
                      hand |-> conn[c].hand, created |-> conn[c].created]
  BY DEF StateOK

Inv == StateOK /\ HandsInv /\ CountsInv

\* The references of a connection with record r.
Holds(r, s) ==
    One(s, {r.session})
      + One(s, IF r.pc \in {"found", "ticket"} \/ (r.pc = "offered" /\ r.created # "true")
               THEN {r.hand} ELSE {})

\* A step that gives one connection the record r.
Gives(c, r) ==
    /\ r \in ConnType(made') /\ conn' = [conn EXCEPT ![c] = r]
    /\ made \subseteq made' /\ made' \subseteq Sessions
    /\ UNCHANGED <<program, mode, asked, installed, dropped>> /\ resurrected' \subseteq made'

\* It keeps to HandsInv.
Minds(c, r) ==
    /\ store' \subseteq made' /\ cached' \subseteq made' /\ held' \subseteq made'
    /\ store' \cup cached' \cup held' \cup {r.hand, r.session} \subseteq Known(c)
    /\ r.pc \in {"none", "idle"} => r.hand = NULL
    /\ r.pc \in {"none", "found"} => r.session = NULL
    /\ r.pc \in {"new", "ticket", "offered", "found"} => r.hand # NULL
    /\ r.pc \in {"new", "ticket"} =>
          r.hand \in Sessions \ made /\ UNCHANGED <<store, cached, held>>

\* The counts change with what the connection and the places hold.
Counts(c, r) ==
    /\ refs' \in [Sessions -> Int]
    /\ \A s \in Sessions :
          refs'[s] + Holds(conn[c], s) + Places(s) = refs[s] + Holds(r, s) + Places(s)'

LEMMA StepKeeps ==
    ASSUME Inv, NEW c \in SSLs, NEW r, Gives(c, r), Minds(c, r), Counts(c, r)
    PROVE  Inv'
  <1> USE DEF Inv
  <1>1. /\ conn'[c] = r /\ \A d \in SSLs \ {c} : conn'[d] = conn[d]
        /\ conn' \in [SSLs -> ConnType(made')]
    BY ConnMoves DEF Gives
  <1>2. StateOK'
    BY <1>1 DEF StateOK, ConnType, Gives, Minds, Counts
  <1>3. HandsInv'
    <2>1. r.pc \in {"new", "ticket"} => Secret(c)'
      BY <1>1 DEF Secret, StateOK, Minds
    <2> QED BY <1>1, <2>1, HandsMove DEF Minds
  <1>4. \A s \in Sessions : Weight(c, s) = Holds(conn[c], s) /\ Weight(c, s)' = Holds(r, s)
    BY <1>1 DEF Weight, Holds, InHand, One
  <1>5. CountsInv'
    BY <1>1, <1>4, CountsMove DEF Counts
  <1> QED BY <1>2, <1>3, <1>5

LEMMA SessionRecord ==
    ASSUME NEW m, NEW r \in ConnType(m), NEW s
    PROVE  [r EXCEPT !.session = s] = [pc |-> r.pc, side |-> r.side, session |-> s, hand |-> r.hand,
                                       created |-> r.created]
  BY DEF ConnType

LEMMA StepNewSSL ==
    ASSUME Inv, NEW c \in SSLs, NEW side \in Sides, newSSL(c, side)
    PROVE  Inv'
  <1> USE DEF Inv
  <1> DEFINE r == [pc |-> "idle", side |-> side, session |-> NULL, hand |-> NULL,
                   created |-> "none"]
  <1>1. /\ conn[c].pc = "none" /\ conn[c].session = NULL /\ refs' = refs
        /\ UNCHANGED <<program, mode, asked, installed, made, store, cached, held, dropped, resurrected>>
    BY DEF newSSL, settings, java, HandsInv
  <1>2. Gives(c, r)
    <2>1. r \in ConnType(made')
      BY <1>1 DEF StateOK, ConnType, NoConn, Sides, Created
    <2>2. conn' = [conn EXCEPT ![c] = r]
      BY DEF newSSL
    <2> QED BY <1>1, <2>1, <2>2 DEF StateOK, Gives
  <1>3. Minds(c, r)
    BY <1>1, NULLAssumption DEF Known, StateOK, HandsInv, Minds
  <1>4. ASSUME NEW x \in Sessions
        PROVE  refs'[x] + Holds(conn[c], x) + Places(x) = refs[x] + Holds(r, x) + Places(x)'
    <2>1. refs'[x] = refs[x]
      BY <1>1
    <2>2. /\ Holds(conn[c], x) = One(x, {NULL})
          /\ Holds(r, x) = One(x, {NULL})
      BY <1>1 DEF Holds, One
    <2>3. /\ Places(x)' = Places(x)
          /\ Places(x) \in Int /\ refs[x] \in Int
      BY <1>1, OneType DEF Places, StateOK
    <2> QED BY <2>1, <2>2, <2>3, OneType
  <1>5. Counts(c, r)
    BY <1>1, <1>4, CountType DEF Counts, StateOK
  <1> QED BY <1>2, <1>3, <1>5, StepKeeps

LEMMA StepFreeSSL ==
    ASSUME Inv, NEW c \in SSLs, freeSSL(c)
    PROVE  Inv'
  <1> USE DEF Inv
  <1> DEFINE r == NoConn
  <1>1. /\ conn[c].pc = "idle" /\ refs' = Count({}, {conn[c].session})
        /\ UNCHANGED <<program, mode, asked, installed, made, store, cached, held, dropped, resurrected>>
    BY DEF freeSSL, settings, java
  <1>2. Gives(c, r)
    <2>1. r \in ConnType(made')
      BY <1>1 DEF StateOK, ConnType, NoConn, Sides, Created
    <2>2. conn' = [conn EXCEPT ![c] = r]
      BY <1>1, RecordFacts DEF freeSSL, NoConn, StateOK
    <2> QED BY <1>1, <2>1, <2>2 DEF StateOK, Gives
  <1>3. Minds(c, r)
    BY <1>1, NULLAssumption DEF NoConn, Known, StateOK, HandsInv, Minds
  <1>4. ASSUME NEW x \in Sessions
        PROVE  refs'[x] + Holds(conn[c], x) + Places(x) = refs[x] + Holds(r, x) + Places(x)'
    <2>1. refs'[x] = refs[x] + One(x, {}) - One(x, {conn[c].session})
      BY <1>1, CountType
    <2>2. /\ Holds(conn[c], x) = One(x, {conn[c].session})
          /\ Holds(r, x) = One(x, {})
      BY <1>1, NULLAssumption DEF Holds, One, NoConn
    <2>3. /\ Places(x)' = Places(x)
          /\ Places(x) \in Int /\ refs[x] \in Int
      BY <1>1, OneType DEF Places, StateOK
    <2> QED BY <2>1, <2>2, <2>3, OneType
  <1>5. Counts(c, r)
    BY <1>1, <1>4, CountType DEF Counts, StateOK
  <1> QED BY <1>2, <1>3, <1>5, StepKeeps

LEMMA StepSetSession ==
    ASSUME Inv, NEW c \in SSLs, NEW s \in Sessions, setSession(c, s)
    PROVE  Inv'
  <1> USE DEF Inv
  <1> DEFINE r == [pc |-> "idle", side |-> conn[c].side, session |-> s, hand |-> NULL,
                   created |-> conn[c].created]
  <1>1. /\ conn[c].pc = "idle" /\ conn[c].hand = NULL
        /\ s \in cached \cup held /\ refs' = Count({s}, {conn[c].session})
        /\ UNCHANGED <<program, mode, asked, installed, made, store, cached, held, dropped, resurrected>>
    BY DEF setSession, settings, java, HandsInv
  <1>2. Gives(c, r)
    <2>1. r \in ConnType(made')
      BY <1>1 DEF StateOK, ConnType
    <2>2. [conn[c] EXCEPT !.session = s] = r
      BY <1>1, SessionRecord DEF StateOK, ConnType
    <2>3. conn' = [conn EXCEPT ![c] = r]
      BY <2>2 DEF setSession, FoundInternally
    <2> QED BY <1>1, <2>1, <2>3 DEF StateOK, Gives
  <1>3. Minds(c, r)
    BY <1>1, NULLAssumption DEF Known, StateOK, HandsInv, Minds
  <1>4. ASSUME NEW x \in Sessions
        PROVE  refs'[x] + Holds(conn[c], x) + Places(x) = refs[x] + Holds(r, x) + Places(x)'
    <2>1. refs'[x] = refs[x] + One(x, {s}) - One(x, {conn[c].session})
      BY <1>1, CountType
    <2>2. /\ Holds(conn[c], x) = One(x, {conn[c].session})
          /\ Holds(r, x) = One(x, {s})
      BY <1>1 DEF Holds, One
    <2>3. /\ Places(x)' = Places(x)
          /\ Places(x) \in Int /\ refs[x] \in Int
      BY <1>1, OneType DEF Places, StateOK
    <2> QED BY <2>1, <2>2, <2>3, OneType
  <1>5. Counts(c, r)
    BY <1>1, <1>4, CountType DEF Counts, StateOK
  <1> QED BY <1>2, <1>3, <1>5, StepKeeps

LEMMA StepFullHandshake ==
    ASSUME Inv, NEW c \in SSLs, NEW s \in Sessions, FullHandshake(c, s)
    PROVE  Inv'
  <1> USE DEF Inv
  <1> DEFINE r == [pc |-> "new", side |-> conn[c].side, session |-> s, hand |-> s,
                   created |-> conn[c].created]
  <1>1. /\ conn[c].pc = "idle" /\ s \notin made /\ made' = made \cup {s}
        /\ UNCHANGED <<program, mode, asked, installed, store, cached, held, dropped, resurrected>>
        /\ refs' = Count({s}, {conn[c].session})
    BY DEF FullHandshake, settings, java
  <1>2. Gives(c, r)
    <2>1. r \in ConnType(made')
      BY <1>1 DEF StateOK, ConnType
    <2>2. conn' = [conn EXCEPT ![c] = r]
      BY <1>1, RecordFacts DEF FullHandshake, StateOK
    <2> QED BY <1>1, <2>1, <2>2 DEF StateOK, Gives
  <1>3. Minds(c, r)
    BY <1>1, NULLAssumption DEF Known, StateOK, HandsInv, Minds
  <1>4. ASSUME NEW x \in Sessions
        PROVE  refs'[x] + Holds(conn[c], x) + Places(x) = refs[x] + Holds(r, x) + Places(x)'
    <2>1. refs'[x] = refs[x] + One(x, {s}) - One(x, {conn[c].session})
      BY <1>1, CountType
    <2>2. /\ Holds(conn[c], x) = One(x, {conn[c].session})
          /\ Holds(r, x) = One(x, {s})
      BY <1>1 DEF Holds, One
    <2>3. /\ Places(x)' = Places(x)
          /\ Places(x) \in Int /\ refs[x] \in Int
      BY <1>1, OneType DEF Places, StateOK
    <2> QED BY <2>1, <2>2, <2>3, OneType
  <1>5. Counts(c, r)
    BY <1>1, <1>4, CountType DEF Counts, StateOK
  <1> QED BY <1>2, <1>3, <1>5, StepKeeps

LEMMA StepNewTicketReplaces ==
    ASSUME Inv, NEW c \in SSLs, NEW s \in Sessions, NewTicket(c, s), ~program.BoringSSL
    PROVE  Inv'
  <1> USE DEF Inv
  <1> DEFINE r == [pc |-> "new", side |-> conn[c].side, session |-> s, hand |-> s,
                   created |-> conn[c].created]
  <1>1. /\ conn[c].pc = "idle" /\ s \notin made /\ made' = made \cup {s}
        /\ UNCHANGED <<program, mode, asked, installed, store, cached, held, dropped, resurrected>>
        /\ refs' = Count({s}, {conn[c].session})
    BY DEF NewTicket, settings, java
  <1>2. Gives(c, r)
    <2>1. r \in ConnType(made')
      BY <1>1 DEF StateOK, ConnType
    <2>2. conn' = [conn EXCEPT ![c] = r]
      BY <1>1, RecordFacts DEF NewTicket, StateOK
    <2> QED BY <1>1, <2>1, <2>2 DEF StateOK, Gives
  <1>3. Minds(c, r)
    BY <1>1, NULLAssumption DEF Known, StateOK, HandsInv, Minds
  <1>4. ASSUME NEW x \in Sessions
        PROVE  refs'[x] + Holds(conn[c], x) + Places(x) = refs[x] + Holds(r, x) + Places(x)'
    <2>1. refs'[x] = refs[x] + One(x, {s}) - One(x, {conn[c].session})
      BY <1>1, CountType
    <2>2. /\ Holds(conn[c], x) = One(x, {conn[c].session})
          /\ Holds(r, x) = One(x, {s})
      BY <1>1 DEF Holds, One
    <2>3. /\ Places(x)' = Places(x)
          /\ Places(x) \in Int /\ refs[x] \in Int
      BY <1>1, OneType DEF Places, StateOK
    <2> QED BY <2>1, <2>2, <2>3, OneType
  <1>5. Counts(c, r)
    BY <1>1, <1>4, CountType DEF Counts, StateOK
  <1> QED BY <1>2, <1>3, <1>5, StepKeeps

LEMMA StepNewTicket ==
    ASSUME Inv, NEW c \in SSLs, NEW s \in Sessions, NewTicket(c, s), program.BoringSSL
    PROVE  Inv'
  <1> USE DEF Inv
  <1> DEFINE r == [pc |-> "ticket", side |-> conn[c].side, session |-> conn[c].session, hand |-> s,
                   created |-> conn[c].created]
  <1>1. /\ conn[c].pc = "idle" /\ s \notin made /\ made' = made \cup {s}
        /\ UNCHANGED <<program, mode, asked, installed, store, cached, held, dropped, resurrected>>
        /\ refs' = Count({s}, {})
    BY DEF NewTicket, settings, java
  <1>2. Gives(c, r)
    <2>1. r \in ConnType(made')
      BY <1>1 DEF StateOK, ConnType
    <2>2. conn' = [conn EXCEPT ![c] = r]
      BY <1>1, RecordFacts DEF NewTicket, StateOK
    <2> QED BY <1>1, <2>1, <2>2 DEF StateOK, Gives
  <1>3. Minds(c, r)
    BY <1>1, NULLAssumption DEF Known, StateOK, HandsInv, Minds
  <1>4. ASSUME NEW x \in Sessions
        PROVE  refs'[x] + Holds(conn[c], x) + Places(x) = refs[x] + Holds(r, x) + Places(x)'
    <2>1. refs'[x] = refs[x] + One(x, {s})
      BY <1>1, CountType DEF One, StateOK
    <2>2. /\ Holds(conn[c], x) = One(x, {conn[c].session})
          /\ Holds(r, x) = One(x, {conn[c].session}) + One(x, {s})
      BY <1>1 DEF Holds, One
    <2>3. /\ Places(x)' = Places(x)
          /\ Places(x) \in Int /\ refs[x] \in Int
      BY <1>1, OneType DEF Places, StateOK, One
    <2> QED BY <2>1, <2>2, <2>3, OneType
  <1>5. Counts(c, r)
    BY <1>1, <1>4, CountType DEF Counts, StateOK
  <1> QED BY <1>2, <1>3, <1>5, StepKeeps

LEMMA StepNotOffered ==
    ASSUME Inv, NEW c \in SSLs, NotOffered(c)
    PROVE  Inv'
  <1> USE DEF Inv
  <1> DEFINE r == [pc |-> "idle", side |-> conn[c].side, session |-> conn[c].session, hand |-> NULL,
                   created |-> conn[c].created]
  <1>1. /\ conn[c].pc \in {"new", "ticket"} /\ store' = store \cup Stored(c)
        /\ refs' = Count(Stored(c), IF conn[c].pc = "ticket" THEN {conn[c].hand} ELSE {})
        /\ Stored(c) \subseteq {conn[c].hand} /\ Stored(c) \cap store = {} /\ conn[c].hand \in made
        /\ conn[c].hand \notin store \cup cached \cup held
        /\ conn[c].hand # NULL
        /\ UNCHANGED <<program, mode, asked, installed, made, cached, held, dropped, resurrected>>
    BY DEF NotOffered, settings, java, Stored, HandsInv, Secret, StateOK
  <1>2. Gives(c, r)
    <2>1. r \in ConnType(made')
      BY <1>1 DEF StateOK, ConnType
    <2>2. conn' = [conn EXCEPT ![c] = r]
      BY <1>1, RecordFacts DEF NotOffered, StateOK
    <2> QED BY <1>1, <2>1, <2>2 DEF StateOK, Gives
  <1>3. Minds(c, r)
    BY <1>1, NULLAssumption DEF Known, StateOK, HandsInv, Minds
  <1>4. ASSUME NEW x \in Sessions
        PROVE  refs'[x] + Holds(conn[c], x) + Places(x) = refs[x] + Holds(r, x) + Places(x)'
    <2>1. refs'[x] = refs[x] + One(x, Stored(c)) - One(x, IF conn[c].pc = "ticket" THEN {conn[c].hand} ELSE {})
      BY <1>1, CountType
    <2>2. /\ Holds(conn[c], x) = One(x, {conn[c].session})
                                      + One(x, IF conn[c].pc = "ticket" THEN {conn[c].hand} ELSE {})
          /\ Holds(r, x) = One(x, {conn[c].session}) + 0
      BY <1>1 DEF Holds, One
    <2>3. /\ Places(x)' = Places(x) + One(x, Stored(c))
          /\ Places(x) \in Int /\ refs[x] \in Int
      BY <1>1, OneType DEF Places, One, StateOK
    <2> QED BY <2>1, <2>2, <2>3, OneType
  <1>5. Counts(c, r)
    BY <1>1, <1>4, CountType DEF Counts, StateOK
  <1> QED BY <1>2, <1>3, <1>5, StepKeeps

LEMMA StepNewReturned ==
    ASSUME Inv, NEW c \in SSLs, NewReturned(c)
    PROVE  Inv'
  <1> USE DEF Inv
  <1> DEFINE r == [pc |-> "idle", side |-> conn[c].side, session |-> conn[c].session, hand |-> NULL,
                   created |-> "none"]
  <1>1. /\ conn[c].pc = "offered"
        /\ refs' = Count({}, IF conn[c].created = "true" THEN {} ELSE {conn[c].hand})
        /\ UNCHANGED <<program, mode, asked, installed, made, store, cached, held, dropped, resurrected>>
    BY DEF NewReturned, settings, java, tcn_new_session_cb
  <1>2. Gives(c, r)
    <2>1. r \in ConnType(made')
      BY <1>1 DEF StateOK, ConnType
    <2>2. conn' = [conn EXCEPT ![c] = r]
      BY <1>1, RecordFacts DEF NewReturned, StateOK
    <2> QED BY <1>1, <2>1, <2>2 DEF StateOK, Gives
  <1>3. Minds(c, r)
    BY <1>1, NULLAssumption DEF Known, StateOK, HandsInv, Minds
  <1>4. ASSUME NEW x \in Sessions
        PROVE  refs'[x] + Holds(conn[c], x) + Places(x) = refs[x] + Holds(r, x) + Places(x)'
    <2>1. refs'[x] = refs[x] + 0 - One(x, IF conn[c].created = "true" THEN {} ELSE {conn[c].hand})
      BY <1>1, CountType DEF One
    <2>2. /\ Holds(conn[c], x) = One(x, {conn[c].session})
                                      + One(x, IF conn[c].created = "true" THEN {} ELSE {conn[c].hand})
          /\ Holds(r, x) = One(x, {conn[c].session}) + 0
      BY <1>1 DEF Holds, One
    <2>3. /\ Places(x)' = Places(x)
          /\ Places(x) \in Int /\ refs[x] \in Int
      BY <1>1, OneType DEF Places, StateOK
    <2> QED BY <2>1, <2>2, <2>3, OneType
  <1>5. Counts(c, r)
    BY <1>1, <1>4, CountType DEF Counts, StateOK
  <1> QED BY <1>2, <1>3, <1>5, StepKeeps

LEMMA StepGetSession ==
    ASSUME Inv, NEW c \in SSLs, tcn_get_session_cb(c)
    PROVE  Inv'
  <1> USE DEF Inv
  <1> DEFINE r == [pc |-> "idle", side |-> conn[c].side, session |-> conn[c].hand, hand |-> NULL,
                   created |-> conn[c].created]
  <1>1. /\ conn[c].pc = "found" /\ conn[c].session = NULL /\ conn[c].hand \in made
        /\ store' = store \cup Remembered(c) /\ Remembered(c) \cap store = {} /\ Remembered(c) \subseteq {conn[c].hand}
        /\ refs' \in [Sessions -> Int] /\ \A x \in Sessions : refs'[x] = refs[x] + One(x, Remembered(c))
        /\ UNCHANGED <<program, mode, asked, installed, made, cached, held, dropped, resurrected>>
    BY OneType DEF tcn_get_session_cb, settings, java, Adopted, Copy, One, Remembered, HandsInv, StateOK
  <1>2. Gives(c, r)
    <2>1. r \in ConnType(made')
      BY <1>1 DEF StateOK, ConnType
    <2>2. conn' = [conn EXCEPT ![c] = r]
      BY <1>1, RecordFacts DEF tcn_get_session_cb, StateOK
    <2> QED BY <1>1, <2>1, <2>2 DEF StateOK, Gives
  <1>3. Minds(c, r)
    BY <1>1, NULLAssumption DEF Known, StateOK, HandsInv, Minds
  <1>4. ASSUME NEW x \in Sessions
        PROVE  refs'[x] + Holds(conn[c], x) + Places(x) = refs[x] + Holds(r, x) + Places(x)'
    <2>1. refs'[x] = refs[x] + One(x, Remembered(c))
      BY <1>1
    <2>2. /\ Holds(conn[c], x) = One(x, {NULL}) + One(x, {conn[c].hand})
          /\ Holds(r, x) = One(x, {conn[c].hand}) + 0
      BY <1>1 DEF Holds, One
    <2>3. /\ Places(x)' = Places(x) + One(x, Remembered(c)) /\ One(x, {NULL}) = 0
          /\ Places(x) \in Int /\ refs[x] \in Int
      BY <1>1, OneType, NULLAssumption DEF Places, One, StateOK
    <2> QED BY <2>1, <2>2, <2>3, OneType
  <1>5. Counts(c, r)
    BY <1>1, <1>4, CountType DEF Counts, StateOK
  <1> QED BY <1>2, <1>3, <1>5, StepKeeps

LEMMA StepRejected ==
    ASSUME Inv, NEW c \in SSLs, Rejected(c)
    PROVE  Inv'
  <1> USE DEF Inv
  <1> DEFINE r == [pc |-> "idle", side |-> conn[c].side, session |-> conn[c].session, hand |-> NULL,
                   created |-> conn[c].created]
  <1>1. /\ conn[c].pc = "found"
        /\ refs' \in [Sessions -> Int] /\ \A x \in Sessions : refs'[x] = refs[x] - One(x, {conn[c].hand})
        /\ UNCHANGED <<program, mode, asked, installed, made, store, cached, held, dropped, resurrected>>
    BY OneType DEF Rejected, settings, java, Adopted, Copy, One, StateOK
  <1>2. Gives(c, r)
    <2>1. r \in ConnType(made')
      BY <1>1 DEF StateOK, ConnType
    <2>2. conn' = [conn EXCEPT ![c] = r]
      BY <1>1, RecordFacts DEF Rejected, StateOK
    <2> QED BY <1>1, <2>1, <2>2 DEF StateOK, Gives
  <1>3. Minds(c, r)
    BY <1>1, NULLAssumption DEF Known, StateOK, HandsInv, Minds
  <1>4. ASSUME NEW x \in Sessions
        PROVE  refs'[x] + Holds(conn[c], x) + Places(x) = refs[x] + Holds(r, x) + Places(x)'
    <2>1. refs'[x] = refs[x] - One(x, {conn[c].hand})
      BY <1>1
    <2>2. /\ Holds(conn[c], x) = One(x, {conn[c].session}) + One(x, {conn[c].hand})
          /\ Holds(r, x) = One(x, {conn[c].session}) + 0
      BY <1>1 DEF Holds, One
    <2>3. /\ Places(x)' = Places(x)
          /\ Places(x) \in Int /\ refs[x] \in Int
      BY <1>1, OneType DEF Places, StateOK
    <2> QED BY <2>1, <2>2, <2>3, OneType
  <1>5. Counts(c, r)
    BY <1>1, <1>4, CountType DEF Counts, StateOK
  <1> QED BY <1>2, <1>3, <1>5, StepKeeps

LEMMA StepFoundInternally ==
    ASSUME Inv, NEW c \in SSLs, NEW s \in Sessions, FoundInternally(c, s)
    PROVE  Inv'
  <1> USE DEF Inv
  <1> DEFINE r == [pc |-> "idle", side |-> conn[c].side, session |-> s, hand |-> NULL,
                   created |-> conn[c].created]
  <1>1. /\ conn[c].pc = "idle" /\ conn[c].hand = NULL /\ conn[c].session = NULL /\ s \in store
        /\ refs' = Count({s}, {}) /\ resurrected' \subseteq resurrected \cup {s}
        /\ UNCHANGED <<program, mode, asked, installed, made, store, cached, held, dropped>>
    BY DEF FoundInternally, CanLookUp, Resurrect, settings, java, HandsInv
  <1>2. Gives(c, r)
    <2>1. r \in ConnType(made')
      BY <1>1 DEF StateOK, ConnType
    <2>2. [conn[c] EXCEPT !.session = s] = r
      BY <1>1, SessionRecord DEF StateOK, ConnType
    <2>3. conn' = [conn EXCEPT ![c] = r]
      BY <2>2 DEF setSession, FoundInternally
    <2> QED BY <1>1, <2>1, <2>3 DEF StateOK, Gives
  <1>3. Minds(c, r)
    BY <1>1, NULLAssumption DEF Known, StateOK, HandsInv, Minds
  <1>4. ASSUME NEW x \in Sessions
        PROVE  refs'[x] + Holds(conn[c], x) + Places(x) = refs[x] + Holds(r, x) + Places(x)'
    <2>1. refs'[x] = refs[x] + One(x, {s}) - One(x, {NULL})
      BY <1>1, CountType, NULLAssumption DEF One
    <2>2. /\ Holds(conn[c], x) = One(x, {NULL}) + 0
          /\ Holds(r, x) = One(x, {s}) + 0
      BY <1>1 DEF Holds, One
    <2>3. /\ Places(x)' = Places(x)
          /\ Places(x) \in Int /\ refs[x] \in Int
      BY <1>1, OneType DEF Places, StateOK
    <2> QED BY <2>1, <2>2, <2>3, OneType
  <1>5. Counts(c, r)
    BY <1>1, <1>4, CountType DEF Counts, StateOK
  <1> QED BY <1>2, <1>3, <1>5, StepKeeps

LEMMA StepGetSessionShares ==
    ASSUME Inv, NEW c \in SSLs, NEW s \in Sessions, getSessionShares(c, s)
    PROVE  Inv'
  <1> USE DEF Inv
  <1> DEFINE r == [pc |-> "found", side |-> conn[c].side, session |-> conn[c].session, hand |-> s,
                   created |-> conn[c].created]
  <1>1. /\ conn[c].pc = "idle" /\ conn[c].session = NULL /\ s \in cached /\ refs' = Count({s}, {})
        /\ UNCHANGED <<program, mode, asked, installed, made, store, cached, held, dropped, resurrected>>
    BY DEF getSessionShares, CanLookUp, upRef, settings, java
  <1>2. Gives(c, r)
    <2>1. r \in ConnType(made')
      BY <1>1 DEF StateOK, ConnType
    <2>2. conn' = [conn EXCEPT ![c] = r]
      BY <1>1, RecordFacts DEF getSessionShares, StateOK
    <2> QED BY <1>1, <2>1, <2>2 DEF StateOK, Gives
  <1>3. Minds(c, r)
    BY <1>1, NULLAssumption DEF Known, StateOK, HandsInv, Minds
  <1>4. ASSUME NEW x \in Sessions
        PROVE  refs'[x] + Holds(conn[c], x) + Places(x) = refs[x] + Holds(r, x) + Places(x)'
    <2>1. refs'[x] = refs[x] + One(x, {s})
      BY <1>1, CountType DEF One, StateOK
    <2>2. /\ Holds(conn[c], x) = One(x, {NULL})
          /\ Holds(r, x) = One(x, {NULL}) + One(x, {s})
      BY <1>1 DEF Holds, One
    <2>3. /\ Places(x)' = Places(x)
          /\ Places(x) \in Int /\ refs[x] \in Int
      BY <1>1, OneType DEF Places, One, StateOK
    <2> QED BY <2>1, <2>2, <2>3, OneType
  <1>5. Counts(c, r)
    BY <1>1, <1>4, CountType DEF Counts, StateOK
  <1> QED BY <1>2, <1>3, <1>5, StepKeeps

LEMMA StepGetSessionGives ==
    ASSUME Inv, NEW c \in SSLs, NEW s \in Sessions, getSessionGives(c, s)
    PROVE  Inv'
  <1> USE DEF Inv
  <1> DEFINE r == [pc |-> "found", side |-> conn[c].side, session |-> conn[c].session, hand |-> s,
                   created |-> conn[c].created]
  <1>1. /\ conn[c].pc = "idle" /\ conn[c].session = NULL /\ s \in cached /\ cached' = cached \ {s}
        /\ refs' = refs /\ UNCHANGED <<program, mode, asked, installed, made, store, held, dropped, resurrected>>
    BY DEF getSessionGives, CanLookUp, settings, java
  <1>2. Gives(c, r)
    <2>1. r \in ConnType(made')
      BY <1>1 DEF StateOK, ConnType
    <2>2. conn' = [conn EXCEPT ![c] = r]
      BY <1>1, RecordFacts DEF getSessionGives, StateOK
    <2> QED BY <1>1, <2>1, <2>2 DEF StateOK, Gives
  <1>3. Minds(c, r)
    BY <1>1, NULLAssumption DEF Known, StateOK, HandsInv, Minds
  <1>4. ASSUME NEW x \in Sessions
        PROVE  refs'[x] + Holds(conn[c], x) + Places(x) = refs[x] + Holds(r, x) + Places(x)'
    <2>1. refs'[x] = refs[x]
      BY <1>1
    <2>2. /\ Holds(conn[c], x) = One(x, {NULL})
          /\ Holds(r, x) = One(x, {NULL}) + One(x, {s})
      BY <1>1 DEF Holds, One
    <2>3. /\ Places(x)' = Places(x) - One(x, {s})
          /\ Places(x) \in Int /\ refs[x] \in Int
      BY <1>1, OneType DEF Places, One, StateOK
    <2> QED BY <2>1, <2>2, <2>3, OneType
  <1>5. Counts(c, r)
    BY <1>1, <1>4, CountType DEF Counts, StateOK
  <1> QED BY <1>2, <1>3, <1>5, StepKeeps

LEMMA StepKeep ==
    ASSUME Inv, NEW c \in SSLs, keep(c)
    PROVE  Inv'
  <1> USE DEF Inv
  <1> DEFINE r == conn[c]
  <1>1. /\ conn[c].pc = "idle" /\ conn[c].session # NULL /\ conn[c].session \notin held
        /\ held' = held \cup {conn[c].session} /\ refs' = Count({conn[c].session}, {})
        /\ UNCHANGED <<program, mode, asked, installed, made, store, cached, dropped, conn, resurrected>>
    BY DEF keep, upRef, settings, java
  <1>2. Gives(c, r)
    <2>1. r \in ConnType(made')
      BY <1>1 DEF StateOK, ConnType
    <2>2. conn' = [conn EXCEPT ![c] = r]
      BY <1>1, RecordFacts DEF StateOK
    <2> QED BY <1>1, <2>1, <2>2 DEF StateOK, Gives
  <1>3. Minds(c, r)
    BY <1>1, NULLAssumption DEF Known, StateOK, HandsInv, Minds
  <1>4. ASSUME NEW x \in Sessions
        PROVE  refs'[x] + Holds(conn[c], x) + Places(x) = refs[x] + Holds(r, x) + Places(x)'
    <2>1. refs'[x] = refs[x] + One(x, {conn[c].session}) - One(x, {})
      BY <1>1, CountType
    <2>2. /\ Holds(conn[c], x) = One(x, {conn[c].session}) + One(x, {})
          /\ Holds(r, x) = One(x, {conn[c].session})
      BY <1>1 DEF Holds, One
    <2>3. /\ Places(x)' = Places(x) + One(x, {conn[c].session})
          /\ Places(x) \in Int /\ refs[x] \in Int
      BY <1>1, OneType DEF Places, One, StateOK
    <2> QED BY <2>1, <2>2, <2>3, OneType
  <1>5. Counts(c, r)
    BY <1>1, <1>4, CountType DEF Counts, StateOK
  <1> QED BY <1>2, <1>3, <1>5, StepKeeps

\* The session is secret until sessionCreated: the caches that take it did not have it.
LEMMA StepSessionCreated ==
    ASSUME Inv, NEW c \in SSLs, NEW result \in Created, sessionCreated(c, result)
    PROVE  Inv'
  <1> USE DEF Inv
  <1> DEFINE r == [pc |-> "offered", side |-> conn[c].side, session |-> conn[c].session,
                   hand |-> conn[c].hand, created |-> result]
             h      == conn[c].hand
             new    == IF conn[c].pc = "new" THEN {h} ELSE {}
             ticket == IF conn[c].pc = "ticket" THEN {h} ELSE {}
             taken  == IF result = "true" THEN {h} ELSE {}
             left   == IF result = "true" THEN {} ELSE {h}
  <1>1. /\ conn[c].pc \in {"new", "ticket"} /\ store' = store \cup Stored(c) /\ cached' = cached \cup taken
        /\ Stored(c) \subseteq {h} /\ h \in made /\ h \notin store \cup cached \cup held /\ h # NULL
        /\ UNCHANGED <<program, mode, asked, installed, made, held, dropped, resurrected>>
    BY DEF sessionCreated, settings, java, Stored, HandsInv, Secret, StateOK
  <1>2. /\ refs' \in [Sessions -> Int]
        /\ \A x \in Sessions : refs'[x] = refs[x] + One(x, Stored(c)) + One(x, new)
    BY OneType DEF sessionCreated, StateOK
  <1>3. Gives(c, r)
    <2>1. r \in ConnType(made')
      BY <1>1 DEF StateOK, ConnType
    <2>2. conn' = [conn EXCEPT ![c] = r]
      BY <1>1, RecordFacts DEF sessionCreated, StateOK
    <2> QED BY <1>1, <2>1, <2>2 DEF StateOK, Gives
  <1>4. Minds(c, r)
    BY <1>1, NULLAssumption DEF Known, StateOK, Minds
  <1>5. ASSUME NEW x \in Sessions
        PROVE  refs'[x] + Holds(conn[c], x) + Places(x) = refs[x] + Holds(r, x) + Places(x)'
    <2>1. Holds(conn[c], x) = One(x, {conn[c].session}) + One(x, ticket)
      BY <1>1 DEF Holds, One
    <2>2. Holds(r, x) = One(x, {conn[c].session}) + One(x, left)
      BY DEF Holds, One
    <2>3. One(x, new) + One(x, ticket) = One(x, taken) + One(x, left)
      BY <1>1 DEF One
    <2> HIDE DEF new, ticket, taken, left, r
    <2>4. taken \subseteq {h}
      BY DEF taken
    <2> HIDE DEF h
    <2>5. /\ One(x, store') = One(x, store) + One(x, Stored(c))
          /\ One(x, cached') = One(x, cached) + One(x, taken)
          /\ One(x, held') = One(x, held)
      BY <1>1, <2>4 DEF One
    <2>6. refs[x] \in Int
      BY DEF StateOK
    <2> QED BY <1>2, <2>1, <2>2, <2>3, <2>5, <2>6, OneType DEF Places
  <1>6. Counts(c, r)
    BY <1>2, <1>5 DEF Counts
  <1> QED BY <1>3, <1>4, <1>6, StepKeeps

\* Dropping a session from one of the three places.
LEMMA StepDrops ==
    ASSUME Inv, NEW s \in Sessions, freeHeld(s) \/ drop(s) \/ Expire(s)
    PROVE  Inv'
  <1> USE DEF Inv
  <1>1. /\ refs' = Count({}, {s}) /\ dropped' \subseteq made
        /\ \/ s \in held /\ held' = held \ {s} /\ UNCHANGED <<store, cached>>
           \/ s \in cached /\ cached' = cached \ {s} /\ UNCHANGED <<store, held>>
           \/ s \in store /\ store' = store \ {s} /\ UNCHANGED <<cached, held>>
        /\ UNCHANGED <<program, mode, asked, installed, made, conn, resurrected>>
    BY DEF freeHeld, drop, Expire, free, settings, java, StateOK
  <1>2. StateOK'
    BY <1>1, CountType DEF StateOK
  <1>3. HandsInv'
    BY <1>1 DEF HandsInv, Secret
  <1>4. ASSUME NEW x \in Sessions PROVE refs'[x] = Total(x)'
    <2>1. refs'[x] = refs[x] - One(x, {s}) /\ refs[x] = Total(x)
      BY <1>1, CountType DEF One, CountsInv, StateOK
    <2>2. Places(x)' = Places(x) - One(x, {s})
      BY <1>1 DEF Places, One
    <2>3. Total(x) \in Nat /\ Total(x)' \in Nat /\ Total(x)' = Total(x) + Places(x)' - Places(x)
      BY <1>1, TotalStays, OneType DEF Places
    <2> QED BY <2>1, <2>2, <2>3, OneType DEF Places
  <1> QED BY <1>2, <1>3, <1>4 DEF CountsInv

\* Configuration touches no reference.
LEMMA StepConfigures ==
    ASSUME Inv, \/ \E m \in Modes : setSessionCacheMode(m)
                \/ setSessionCacheSize \/ setSSLSessionCache \/ UNCHANGED vars
    PROVE  Inv'
  <1> USE DEF Inv
  <1>1. /\ UNCHANGED <<program, refs, made, store, cached, held, dropped, conn, resurrected>>
        /\ mode' \in Modes /\ asked' \in Modes /\ installed' \in BOOLEAN
    BY DEF setSessionCacheMode, setSessionCacheSize, setSSLSessionCache, SSL_SESS_CACHE_SERVER, Modes,
           vars, settings, java, StateOK
  <1>2. StateOK'
    BY <1>1 DEF StateOK
  <1>3. HandsInv' /\ CountsInv'
    BY <1>1 DEF HandsInv, Secret, CountsInv, Total, SslOwners, HandOwners, InHand
  <1> QED BY <1>2, <1>3

LEMMA InvInit == ASSUME Init PROVE Inv
  <1>1. StateOK
    <2>1. NoConn \in ConnType({}) /\ {} \in Modes
      BY DEF NoConn, ConnType, Sides, Created, Modes
    <2>2. made = {} /\ conn \in [SSLs -> ConnType(made)]
      BY <2>1 DEF Init
    <2>3. refs \in [Sessions -> Int]
      BY DEF Init
    <2>4. program \in Programs /\ mode = {} /\ asked = {} /\ installed \in BOOLEAN
      BY DEF Init, SSL_SESS_CACHE_OFF
    <2>5. store = {} /\ cached = {} /\ held = {} /\ dropped = {} /\ resurrected = {}
      BY DEF Init
    <2> QED BY <2>1, <2>2, <2>3, <2>4, <2>5 DEF StateOK, ConnType
  <1>2. HandsInv
    BY DEF Init, HandsInv, NoConn
  <1>3. ASSUME NEW s \in Sessions PROVE refs[s] = Total(s)
    <2>1. SslOwners(s) = {} /\ HandOwners(s) = {}
      BY NULLAssumption DEF Init, NoConn, SslOwners, HandOwners
    <2>2. refs[s] = 0 /\ One(s, store) = 0 /\ One(s, cached) = 0 /\ One(s, held) = 0
      BY DEF Init, One
    <2> QED BY <2>1, <2>2, FS_EmptySet DEF Total
  <1> QED BY <1>1, <1>2, <1>3 DEF Inv, CountsInv

LEMMA InvStep == ASSUME Inv, [Next]_vars PROVE Inv'
  BY StepNewSSL, StepFreeSSL, StepSetSession, StepFullHandshake, StepNewTicket, StepNewTicketReplaces,
     StepNotOffered, StepSessionCreated, StepNewReturned, StepGetSession, StepRejected,
     StepFoundInternally, StepGetSessionShares, StepGetSessionGives, StepKeep, StepDrops,
     StepConfigures DEF Next

\* The invariant counts the owners.
LEMMA InvOwned == ASSUME Inv PROVE TypeOK /\ SessionsOwned
  <1>1. ASSUME NEW s \in Sessions PROVE refs[s] = Cardinality(Owners(s)) /\ refs[s] \in Nat
    <2>1. SslOwners(s) \in SUBSET SSLs /\ HandOwners(s) \in SUBSET SSLs
      BY DEF SslOwners, HandOwners
    <2>2. Cardinality(SslOwners(s)) \in Nat /\ Cardinality(HandOwners(s)) \in Nat
      BY <2>1, SSLsAssumption, FS_Subset, FS_CardinalityType
    <2>3. Total(s) \in Nat
      BY <2>2, OneType DEF Total
    <2>4. Cardinality(Owners(s)) = Total(s)
      BY <2>1, OwnersSize DEF Owners, Total, SslOwners, HandOwners
    <2> QED BY <2>3, <2>4 DEF Inv, CountsInv
  <1>2. refs \in [Sessions -> Nat]
    BY <1>1 DEF Inv, StateOK
  <1> QED BY <1>1, <1>2 DEF Inv, StateOK, TypeOK, SessionsOwned

-----------------------------------------------------------------------------
(* The theorems.                                                           *)

\* The counters of the sessions never go below zero, and whatever is held anywhere
\* is a session that was made.
THEOREM TypeCorrect == Spec => []TypeOK
  BY InvInit, InvStep, InvOwned, PTL DEF Spec

\* Whatever sessionCreated and getSession return or throw, on whatever thread Java
\* drops a session meanwhile and in every cache mode, an SSL_SESSION has exactly as
\* many references as owners.
THEOREM SessionsOwnedCorrect == Spec => []SessionsOwned
  BY InvInit, InvStep, InvOwned, PTL DEF Spec

\* Unless the size of the cache is set after its mode, the mode is the one Java
\* asked for whenever it asked for one.
ModeInv == ~program.resizes => (asked # SSL_SESS_CACHE_OFF => mode = asked) /\ resurrected = {}

LEMMA ModeStep == ASSUME ModeInv, [Next]_vars PROVE ModeInv'
  <1>1. CASE \/ \E m \in Modes : setSessionCacheMode(m)
             \/ setSessionCacheSize \/ setSSLSessionCache \/ UNCHANGED vars
    BY <1>1 DEF ModeInv, setSessionCacheMode, setSessionCacheSize, setSSLSessionCache, vars, settings
  <1>2. ASSUME NEW c \in SSLs, NEW s \in Sessions, FoundInternally(c, s)
        PROVE  ModeInv'
    <2>1. /\ UNCHANGED <<program, mode, asked>> /\ "no_internal" \notin mode
          /\ resurrected' = Resurrect(s)
      BY <1>2 DEF FoundInternally, settings
    <2>2. ~program.resizes => "no_internal" \notin asked
      BY <2>1 DEF ModeInv, SSL_SESS_CACHE_OFF
    <2> QED BY <2>1, <2>2 DEF ModeInv, Resurrect
  <1>3. ASSUME NEW c \in SSLs,
               \/ \E side \in Sides : newSSL(c, side)
               \/ freeSSL(c) \/ NotOffered(c) \/ NewReturned(c) \/ tcn_get_session_cb(c)
               \/ Rejected(c) \/ keep(c)
        PROVE  UNCHANGED <<program, mode, asked, resurrected>>
    BY <1>3 DEF newSSL, freeSSL, NotOffered, NewReturned, tcn_get_session_cb, Rejected, keep, settings
  <1>4. ASSUME NEW c \in SSLs, NEW result \in Created, sessionCreated(c, result)
        PROVE  UNCHANGED <<program, mode, asked, resurrected>>
    BY <1>4 DEF sessionCreated, settings
  <1>5. ASSUME NEW c \in SSLs, NEW s \in Sessions,
               \/ setSession(c, s) \/ FullHandshake(c, s) \/ NewTicket(c, s)
               \/ getSessionShares(c, s) \/ getSessionGives(c, s)
        PROVE  UNCHANGED <<program, mode, asked, resurrected>>
    BY <1>5 DEF setSession, FullHandshake, NewTicket, getSessionShares, getSessionGives, settings
  <1>6. ASSUME NEW s \in Sessions, freeHeld(s) \/ drop(s) \/ Expire(s)
        PROVE  UNCHANGED <<program, mode, asked, resurrected>>
    BY <1>6 DEF freeHeld, drop, Expire, settings
  <1>7. CASE UNCHANGED <<program, mode, asked, resurrected>>
    BY <1>7 DEF ModeInv
  <1> QED BY <1>1, <1>2, <1>3, <1>4, <1>5, <1>6, <1>7 DEF Next

\* Of a program that sets the size of its cache before its mode, no handshake
\* resumes from the internal cache a session that Java dropped after it had asked
\* for no internal cache.
THEOREM DroppedStayDroppedCorrect == Spec => []DroppedStayDropped
  <1>1. Init => ModeInv
    BY DEF Init, ModeInv
  <1>2. ModeInv => DroppedStayDropped
    BY DEF ModeInv, DroppedStayDropped
  <1> QED BY <1>1, <1>2, ModeStep, PTL DEF Spec

=============================================================================
