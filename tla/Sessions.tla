------------------------------ MODULE Sessions ------------------------------
(***************************************************************************)
(* TLS sessions (sslsession.c, ssl.c, sslcontext.c): who owns a reference  *)
(* to an SSL_SESSION.  A connection, the internal cache of the SSL_CTX,    *)
(* the SSLSessionCache written in Java and other Java code all hold        *)
(* sessions by address, and the references travel between them through     *)
(* tcn_new_session_cb, tcn_get_session_cb, SSL.setSession and              *)
(* SSLSession.upRef and free.                                              *)
(*                                                                         *)
(* Connections run on threads of their own, and so does the Java code that *)
(* drops sessions from its cache.  A callback is two steps: what Java does *)
(* in it under the lock of its cache, and what the library does when it    *)
(* returns.  Java keeps to the contract of SSLSessionCache: it owns what   *)
(* it said it takes, and frees nothing else.                               *)
(***************************************************************************)
EXTENDS Naturals, FiniteSets

CONSTANTS
    Programs,  \* the programs that use the context
    Sessions,  \* the sessions that can be made
    SSLs,      \* connections
    NULL

\* A program: whether it runs on BoringSSL (or AWS-LC), whether the TLS library
\* has SSL_SESSION_up_ref, and whether the size of the internal cache is set
\* again after its mode.
ASSUME ProgramsAssumption ==
    Programs \subseteq [BoringSSL : BOOLEAN, up_ref : BOOLEAN, resizes : BOOLEAN]
ASSUME NULLAssumption == NULL \notin Sessions
ASSUME SSLsAssumption == IsFiniteSet(SSLs)

Sides == {"client", "server"}
SSL_SESS_CACHE_OFF    == {}
SSL_SESS_CACHE_SERVER == {"server"}
Modes == SUBSET {"client", "server", "no_internal"}

VARIABLES
    program,
    refs,        \* the count of an SSL_SESSION, 0 before it is made and once it is freed
    made,        \* the sessions made so far
    mode,        \* session_cache_mode of the SSL_CTX
    asked,       \* what Java last asked for with setSessionCacheMode
    installed,   \* an SSLSessionCache is set, and its two C functions
    store,       \* the internal cache of the SSL_CTX
    cached,      \* the sessions the SSLSessionCache owns
    held,        \* the sessions other Java code took a reference to
    dropped,     \* the sessions the SSLSessionCache has dropped
    conn,        \* of a connection: where it is, its session, and the one in a callback
    resurrected  \* the sessions the internal cache resumed after Java had dropped them,
                 \* though Java had asked for no internal cache

settings == <<program, mode, asked, installed>>
java     == <<cached, held, dropped>>
vars     == <<settings, refs, made, store, java, conn, resurrected>>

NoConn == [pc |-> "none", side |-> "client", session |-> NULL, hand |-> NULL, created |-> "none"]

Init ==
    /\ program \in Programs
    /\ refs = [s \in Sessions |-> 0]
    /\ made = {}
    /\ mode = SSL_SESS_CACHE_OFF /\ asked = SSL_SESS_CACHE_OFF
    /\ installed = FALSE
    /\ store = {}
    /\ cached = {} /\ held = {} /\ dropped = {}
    /\ conn = [c \in SSLs |-> NoConn]
    /\ resurrected = {}

\* The counts with one more for each session in up and one fewer for each in down.
One(s, set)     == IF s \in set THEN 1 ELSE 0
Count(up, down) == [s \in Sessions |-> refs[s] + One(s, up) - One(s, down)]

-----------------------------------------------------------------------------
(* Configuration.                                                          *)

\* Mutant: the flags that go with the mode are lost.
setSessionCacheModeDropsFlags(m) ==
    /\ mode' = m \cap Sides /\ asked' = m
    /\ UNCHANGED <<program, installed, refs, made, store, java, conn, resurrected>>

setSessionCacheMode(m) ==
    /\ mode' = m /\ asked' = m
    /\ UNCHANGED <<program, installed, refs, made, store, java, conn, resurrected>>

\* A size that is not negative switches the cache on, in the server mode.
setSessionCacheSize ==
    /\ asked # SSL_SESS_CACHE_OFF => program.resizes
    /\ mode' = SSL_SESS_CACHE_SERVER
    /\ UNCHANGED <<program, asked, installed, refs, made, store, java, conn, resurrected>>

\* With a cache or with null.  The sessions of a cache that is taken out stay
\* with it until it drops them.
setSSLSessionCache ==
    /\ installed' = ~installed
    /\ UNCHANGED <<program, mode, asked, refs, made, store, java, conn, resurrected>>

-----------------------------------------------------------------------------
(* Connections.                                                            *)

newSSL(c, side) ==
    /\ conn[c].pc = "none"
    /\ conn' = [conn EXCEPT ![c] = [pc |-> "idle", side |-> side, session |-> NULL,
                                     hand |-> NULL, created |-> "none"]]
    /\ UNCHANGED <<settings, refs, made, store, java, resurrected>>

freeSSL(c) ==
    /\ conn[c].pc = "idle"
    /\ refs' = Count({}, {conn[c].session})
    /\ conn' = [conn EXCEPT ![c] = NoConn]
    /\ UNCHANGED <<settings, made, store, java, resurrected>>

\* SSL_set_session counts the session and gives back the one it replaces.  Java
\* holds the lock of its cache, or a reference of its own.
setSession(c, s) ==
    /\ conn[c].pc = "idle" /\ conn[c].side = "client"
    /\ s \in cached \cup held
    /\ refs' = Count({s}, {conn[c].session})
    /\ conn' = [conn EXCEPT ![c].session = s]
    /\ UNCHANGED <<settings, made, store, java, resurrected>>

\* A full handshake makes a session.
FullHandshake(c, s) ==
    /\ conn[c].pc = "idle" /\ s \notin made
    /\ made' = made \cup {s}
    /\ refs' = Count({s}, {conn[c].session})
    /\ conn' = [conn EXCEPT ![c].session = s, ![c].hand = s, ![c].pc = "new"]
    /\ UNCHANGED <<settings, store, java, resurrected>>

\* A ticket that arrives after a TLS 1.3 handshake is a session of its own.
\* OpenSSL puts it in the place of the session of the connection.
NewTicket(c, s) ==
    /\ conn[c].pc = "idle" /\ conn[c].side = "client"
    /\ conn[c].session # NULL /\ s \notin made
    /\ made' = made \cup {s}
    /\ IF program.BoringSSL
       THEN /\ refs' = Count({s}, {})
            /\ conn' = [conn EXCEPT ![c].hand = s, ![c].pc = "ticket"]
       ELSE /\ refs' = Count({s}, {conn[c].session})
            /\ conn' = [conn EXCEPT ![c].session = s, ![c].hand = s, ![c].pc = "new"]
    /\ UNCHANGED <<settings, store, java, resurrected>>

-----------------------------------------------------------------------------
(* tcn_new_session_cb.                                                     *)

CachesNew(c) == conn[c].side \in mode

\* The internal cache takes the session first; BoringSSL has one for servers only.
Stored(c) ==
    IF /\ CachesNew(c) /\ "no_internal" \notin mode
       /\ conn[c].side = "server" \/ ~program.BoringSSL
    THEN {conn[c].hand}
    ELSE {}

\* No cache is told of the session.
NotOffered(c) ==
    /\ conn[c].pc \in {"new", "ticket"}
    /\ ~(CachesNew(c) /\ installed)
    /\ store' = store \cup Stored(c)
    /\ refs' = Count(Stored(c), IF conn[c].pc = "ticket" THEN {conn[c].hand} ELSE {})
    /\ conn' = [conn EXCEPT ![c].hand = NULL, ![c].pc = "idle"]
    /\ UNCHANGED <<settings, made, java, resurrected>>

\* What SSLSessionCache.sessionCreated does, if the thread has a JNIEnv at all.
Created == {"no env", "true", "false", "throws"}

\* The library gives the callback a reference of its own.
sessionCreated(c, result) ==
    /\ conn[c].pc \in {"new", "ticket"}
    /\ CachesNew(c) /\ installed
    /\ store' = store \cup Stored(c)
    /\ refs' = [s \in Sessions |-> refs[s] + One(s, Stored(c))
                     + One(s, IF conn[c].pc = "new" THEN {conn[c].hand} ELSE {})]
    /\ cached' = IF result = "true" THEN cached \cup {conn[c].hand} ELSE cached
    /\ conn' = [conn EXCEPT ![c].created = result, ![c].pc = "offered"]
    /\ UNCHANGED <<settings, made, held, dropped, resurrected>>

\* Whether the callback returns 1, with which the reference stays with Java.
tcn_new_session_cb(result) == result = "true"

NewReturned(c) ==
    /\ conn[c].pc = "offered"
    /\ refs' = Count({}, IF tcn_new_session_cb(conn[c].created) THEN {} ELSE {conn[c].hand})
    /\ conn' = [conn EXCEPT ![c].hand = NULL, ![c].created = "none", ![c].pc = "idle"]
    /\ UNCHANGED <<settings, made, store, java, resurrected>>

-----------------------------------------------------------------------------
(* Resumption: the internal cache, then tcn_get_session_cb.                *)

CanLookUp(c) == conn[c].pc = "idle" /\ conn[c].side = "server" /\ conn[c].session = NULL

Resurrect(s) == resurrected \cup ({s} \cap IF "no_internal" \in asked THEN dropped ELSE {})

FoundInternally(c, s) ==
    /\ CanLookUp(c)
    /\ "no_internal" \notin mode /\ s \in store
    /\ refs' = Count({s}, {})
    /\ conn' = [conn EXCEPT ![c].session = s]
    /\ resurrected' = Resurrect(s)
    /\ UNCHANGED <<settings, made, store, java>>

\* SSLSession.upRef: the library may lack the function.
upRef == program.up_ref

\* SSLSessionCache.getSession finds the session and shares it: the C code hands
\* on a reference that Java took for it.
getSessionShares(c, s) ==
    /\ CanLookUp(c) /\ installed
    /\ s \in cached /\ upRef
    /\ refs' = IF program.up_ref THEN Count({s}, {}) ELSE refs
    /\ conn' = [conn EXCEPT ![c].hand = s, ![c].pc = "found"]
    /\ UNCHANGED <<settings, made, store, java, resurrected>>

\* It gives the session away: one that should be used once.
getSessionGives(c, s) ==
    /\ CanLookUp(c) /\ installed
    /\ s \in cached
    /\ cached' = cached \ {s}
    /\ conn' = [conn EXCEPT ![c].hand = s, ![c].pc = "found"]
    /\ UNCHANGED <<settings, refs, made, store, held, dropped, resurrected>>

\* Mutant: copy keeps the value the library gave it.
CopyLeft == 1

\* "Set copy to 0 and require the callback to explict call SSL_SESSION_up_ref".
Copy == 0

\* The library takes the session over, and its internal cache takes it too.
Adopted(c) == (IF Copy = 1 THEN {conn[c].hand} ELSE {})
Remembered(c) == IF "no_internal" \in mode THEN {} ELSE {conn[c].hand} \ store

tcn_get_session_cb(c) ==
    /\ conn[c].pc = "found"
    /\ refs' = [s \in Sessions |-> refs[s] + One(s, Adopted(c)) + One(s, Remembered(c))]
    /\ store' = store \cup Remembered(c)
    /\ conn' = [conn EXCEPT ![c].session = conn[c].hand, ![c].hand = NULL, ![c].pc = "idle"]
    /\ UNCHANGED <<settings, made, java, resurrected>>

\* The session has expired or belongs to another context id.
Rejected(c) ==
    /\ conn[c].pc = "found"
    /\ refs' = [s \in Sessions |-> refs[s] + One(s, Adopted(c)) - One(s, {conn[c].hand})]
    /\ conn' = [conn EXCEPT ![c].hand = NULL, ![c].pc = "idle"]
    /\ UNCHANGED <<settings, made, store, java, resurrected>>

-----------------------------------------------------------------------------
(* Java, and the limits of the internal cache.                             *)

\* SSL.getSession followed by SSLSession.upRef, on the thread of the connection.
keep(c) ==
    /\ conn[c].pc = "idle" /\ conn[c].session # NULL
    /\ conn[c].session \notin held /\ upRef
    /\ held' = held \cup {conn[c].session}
    /\ refs' = IF program.up_ref THEN Count({conn[c].session}, {}) ELSE refs
    /\ UNCHANGED <<settings, made, store, cached, dropped, conn, resurrected>>

\* SSLSession.free.
free(s) == Count({}, {s})

freeHeld(s) ==
    /\ s \in held
    /\ held' = held \ {s}
    /\ refs' = free(s)
    /\ UNCHANGED <<settings, made, store, cached, dropped, conn, resurrected>>

\* The cache drops a session: it is full, or Java invalidated the session.
drop(s) ==
    /\ s \in cached
    /\ cached' = cached \ {s} /\ dropped' = dropped \cup {s}
    /\ refs' = free(s)
    /\ UNCHANGED <<settings, made, store, held, conn, resurrected>>

\* The internal cache is full, or a session in it expires.
Expire(s) ==
    /\ s \in store
    /\ store' = store \ {s}
    /\ refs' = Count({}, {s})
    /\ UNCHANGED <<settings, made, java, conn, resurrected>>

-----------------------------------------------------------------------------
(* Properties.                                                             *)

\* The type invariant; whatever is held anywhere is a session that was made.
TypeOK ==
    /\ program \in Programs
    /\ refs \in [Sessions -> Nat]
    /\ made \subseteq Sessions
    /\ mode \in Modes /\ asked \in Modes
    /\ installed \in BOOLEAN
    /\ store \subseteq made /\ cached \subseteq made /\ held \subseteq made
    /\ dropped \subseteq made /\ resurrected \subseteq made
    /\ conn \in [SSLs -> [pc : {"none", "idle", "new", "ticket", "offered", "found"},
                          side : Sides, session : made \cup {NULL}, hand : made \cup {NULL},
                          created : Created \cup {"none"}]]

\* The connections whose callback has a reference in its hands: the one Java took
\* for the library, a ticket nobody has seen, or the one offered to a Java that
\* did not take it.
InHand(c) ==
    \/ conn[c].pc \in {"found", "ticket"}
    \/ conn[c].pc = "offered" /\ conn[c].created # "true"

Owners(s) ==
    {<<"ssl", c>> : c \in {d \in SSLs : conn[d].session = s}}
      \cup {<<"hand", c>> : c \in {d \in SSLs : conn[d].hand = s /\ InHand(d)}}
      \cup {<<"store", s>> : x \in {s} \cap store}
      \cup {<<"cache", s>> : x \in {s} \cap cached}
      \cup {<<"java", s>> : x \in {s} \cap held}

\* An SSL_SESSION has exactly as many references as owners, whatever the two
\* callbacks return or throw and whoever drops it meanwhile: none is freed under
\* an owner, and none outlives its last one (tcn_new_session_cb,
\* tcn_get_session_cb, SSLSession.upRef and free, SSL.setSession).
SessionsOwned == \A s \in Sessions : refs[s] = Cardinality(Owners(s))

\* With SSL_SESS_CACHE_NO_INTERNAL asked for, the SSLSessionCache is the only
\* authority: no handshake resumes a session after Java dropped it, unless
\* the size of the cache was set after the mode (setSessionCacheMode,
\* setSessionCacheSize).
DroppedStayDropped == ~program.resizes => resurrected = {}

\* Deviation: refuted, for setSessionCacheSize replaces the whole mode.
DroppedStayDroppedAlways == resurrected = {}

-----------------------------------------------------------------------------
Next ==
    \/ \E m \in Modes : setSessionCacheMode(m)
    \/ setSessionCacheSize \/ setSSLSessionCache
    \/ \E c \in SSLs :
          \/ \E side \in Sides : newSSL(c, side)
          \/ freeSSL(c) \/ NotOffered(c) \/ NewReturned(c) \/ tcn_get_session_cb(c) \/ Rejected(c) \/ keep(c)
          \/ \E result \in Created : sessionCreated(c, result)
          \/ \E s \in Sessions :
                \/ setSession(c, s) \/ FullHandshake(c, s) \/ NewTicket(c, s)
                \/ FoundInternally(c, s) \/ getSessionShares(c, s) \/ getSessionGives(c, s)
    \/ \E s \in Sessions : freeHeld(s) \/ drop(s) \/ Expire(s)

Spec == Init /\ [][Next]_vars

=============================================================================
