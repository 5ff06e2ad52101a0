----------------------- MODULE LibraryLifecycleProofs -----------------------
(***************************************************************************)
(* What Library.initialize leaves behind, for any number of calls by any   *)
(* number of threads, one at a time.  A call goes through some ten steps,  *)
(* and a call that fails leaves what it had set up so far: the invariant   *)
(* says, step by step, how far the only call has come, what is true while  *)
(* nobody is inside, and that what needs a cleanup has one registered.     *)
(***************************************************************************)
EXTENDS LibraryLifecycle, SequenceTheorems, TLAPS

Pcs == {"idle", "initialize0", "no pool", "entered", "read", "setup", "engine", "index", "no index",
        "methods", "keys", "register", "error"}

SslT  == [initialized : Nat, methods : {"NULL", "live", "freed", "freed twice"},
          engine : BOOLEAN, ui : BOOLEAN, keys : BOOLEAN, locks : BOOLEAN]
CallT == [pc : Pcs, engine : Engines, old : Nat]

Cleanups == {"ssl_init_cleanup", "ssl_thread_cleanup"}

StateOK ==
    /\ program \in Programs
    /\ library \in {"absent", "loaded", "unloading", "unloaded"}
    /\ apr \in Int
    /\ pool \in BOOLEAN
    /\ cleanups \in Seq(Cleanups)
    /\ ssl \in SslT
    /\ indexes \in Nat
    /\ call \in [Threads -> CallT]
    /\ told \subseteq Threads

\* Nobody is in Library.initialize unless the library is loaded.
IdleInv ==
    /\ \A t \in Threads : call[t].pc = "idle" => call[t] = Idle
    /\ library # "loaded" => told = {} /\ \A t \in Threads : call[t] = Idle

-----------------------------------------------------------------------------
(* Calls and the statics of ssl.c.                                         *)

\* Only the call of t moves.
Moves(t, pc) ==
    /\ call'[t].pc = pc /\ call'[t].old = call[t].old /\ call'[t].engine = call[t].engine
    /\ \A u \in Threads \ {t} : call'[u] = call[u]
    /\ call' \in [Threads -> CallT]

LEMMA IdleCall == Idle \in CallT /\ Idle.pc = "idle"
  BY DEF Idle, CallT, Pcs, Engines

LEMMA GotoEffect ==
    ASSUME StateOK, NEW t \in Threads, NEW pc \in Pcs, Goto(t, pc)
    PROVE  Moves(t, pc) /\ told' = told
  <1>1. call[t] \in CallT /\ call' = [call EXCEPT ![t] = [call[t] EXCEPT !.pc = pc]] /\ told' = told
    BY DEF StateOK, Goto
  <1> DEFINE r == [call[t] EXCEPT !.pc = pc]
  <1>2. r \in CallT /\ r.pc = pc /\ r.old = call[t].old /\ r.engine = call[t].engine
    BY <1>1 DEF CallT
  <1> HIDE DEF r
  <1>3. call' = [call EXCEPT ![t] = r]
    BY <1>1 DEF r
  <1> QED BY <1>1, <1>2, <1>3 DEF StateOK, Moves

LEMMA ReturnEffect ==
    ASSUME StateOK, NEW t \in Threads, NEW success \in BOOLEAN, Return(t, success)
    PROVE  /\ call'[t] = Idle /\ call' \in [Threads -> CallT]
           /\ \A u \in Threads \ {t} : call'[u] = call[u]
           /\ told' = (IF success THEN told \cup {t} ELSE told)
  BY IdleCall DEF StateOK, Return

\* What the steps write.
LEMMA SslInitialized ==
    ASSUME NEW s \in SslT, NEW x \in Nat,
           NEW r, r = [s EXCEPT !.initialized = x]
    PROVE  /\ r \in SslT /\ r.initialized = x /\ r.methods = s.methods /\ r.engine = s.engine
           /\ r.ui = s.ui /\ r.keys = s.keys /\ r.locks = s.locks
  BY DEF SslT

LEMMA SslMethods ==
    ASSUME NEW s \in SslT, NEW x \in {"NULL", "live", "freed", "freed twice"},
           NEW r, r = [s EXCEPT !.methods = x]
    PROVE  /\ r \in SslT /\ r.initialized = s.initialized /\ r.methods = x /\ r.engine = s.engine
           /\ r.ui = s.ui /\ r.keys = s.keys /\ r.locks = s.locks
  BY DEF SslT

LEMMA SslEngine ==
    ASSUME NEW s \in SslT, NEW x \in BOOLEAN, NEW y \in BOOLEAN,
           NEW r, r = [s EXCEPT !.engine = x, !.ui = y]
    PROVE  /\ r \in SslT /\ r.initialized = s.initialized /\ r.methods = s.methods /\ r.engine = x
           /\ r.ui = y /\ r.keys = s.keys /\ r.locks = s.locks
  BY DEF SslT

LEMMA SslKeys ==
    ASSUME NEW s \in SslT, NEW x \in BOOLEAN,
           NEW r, r = [s EXCEPT !.keys = x]
    PROVE  /\ r \in SslT /\ r.initialized = s.initialized /\ r.methods = s.methods /\ r.engine = s.engine
           /\ r.ui = s.ui /\ r.keys = x /\ r.locks = s.locks
  BY DEF SslT

LEMMA SslLocks ==
    ASSUME NEW s \in SslT, NEW x \in BOOLEAN,
           NEW r, r = [s EXCEPT !.locks = x]
    PROVE  /\ r \in SslT /\ r.initialized = s.initialized /\ r.methods = s.methods /\ r.engine = s.engine
           /\ r.ui = s.ui /\ r.keys = s.keys /\ r.locks = x
  BY DEF SslT

LEMMA CleanupEffect ==
    ASSUME NEW s \in SslT
    PROVE  LET r == ssl_init_cleanup(s) IN
           /\ r \in SslT /\ r.initialized = 0 /\ r.locks = s.locks
           /\ s.initialized = 0 => r = s
           /\ s.initialized > 0 => /\ r.methods = free_bio_methods(s.methods)
                                   /\ ~r.engine /\ ~r.ui /\ ~r.keys
  <1>1. free_bio_methods(s.methods) \in {"NULL", "live", "freed", "freed twice"}
    BY DEF SslT, free_bio_methods
  <1>2. s.initialized \in Nat
    BY DEF SslT
  <1>3. CASE s.initialized = 0
    BY <1>3 DEF ssl_init_cleanup
  <1>4. CASE s.initialized > 0
    <2> DEFINE m == free_bio_methods(s.methods)
    <2>1. ssl_init_cleanup(s) = [s EXCEPT !.initialized = 0, !.keys = FALSE, !.methods = m,
                                          !.engine = FALSE, !.ui = FALSE]
      BY <1>4 DEF ssl_init_cleanup
    <2> HIDE DEF m
    <2>2. m \in {"NULL", "live", "freed", "freed twice"}
      BY <1>1 DEF m
    <2>3. ssl_init_cleanup(s) = [initialized |-> 0, methods |-> m, engine |-> FALSE, ui |-> FALSE,
                                 keys |-> FALSE, locks |-> s.locks]
      BY <2>1, <2>2 DEF SslT
    <2>4. ssl_init_cleanup(s) \in SslT
      <3> DEFINE a == [s EXCEPT !.initialized = 0]
                 b == [a EXCEPT !.keys = FALSE]
                 c == [b EXCEPT !.methods = m]
                 d == [c EXCEPT !.engine = FALSE, !.ui = FALSE]
      <3>1. ssl_init_cleanup(s) = d
        BY <2>1
      <3>2. a \in SslT
        BY SslInitialized
      <3> HIDE DEF a
      <3>3. b \in SslT
        BY <3>2, SslKeys
      <3> HIDE DEF b
      <3>4. c \in SslT
        BY <2>2, <3>3, SslMethods
      <3> HIDE DEF c
      <3>5. d \in SslT
        BY <3>4, SslEngine
      <3> QED BY <3>1, <3>5
    <2>5. LET r == ssl_init_cleanup(s)
          IN  /\ r.initialized = 0 /\ r.locks = s.locks /\ r.methods = m
              /\ ~r.engine /\ ~r.ui /\ ~r.keys
      BY <2>3
    <2>6. s.initialized # 0
      BY <1>4
    <2> QED BY <2>4, <2>5, <2>6 DEF m
  <1> QED BY <1>2, <1>3, <1>4
LEMMA ReadEffect ==
    ASSUME StateOK, NEW t \in Threads
    PROVE  [call EXCEPT ![t].pc = "read", ![t].old = ssl.initialized]
             = [call EXCEPT ![t] = [pc |-> "read", engine |-> call[t].engine, old |-> ssl.initialized]]
  <1> DEFINE x == ssl.initialized
             m == [call EXCEPT ![t].pc = "read"]
  <1>1. call[t] \in CallT /\ x \in Nat /\ call \in [Threads -> CallT]
    BY DEF StateOK, SslT
  <1> HIDE DEF x
  <1>2. [call EXCEPT ![t].pc = "read", ![t].old = x] = [m EXCEPT ![t].old = x]
    OBVIOUS
  <1>3. [call[t] EXCEPT !.pc = "read"] = [pc |-> "read", engine |-> call[t].engine, old |-> call[t].old]
    BY <1>1 DEF CallT
  <1>4. m = [call EXCEPT ![t] = [pc |-> "read", engine |-> call[t].engine, old |-> call[t].old]]
    BY <1>3
  <1>5. m[t] = [pc |-> "read", engine |-> call[t].engine, old |-> call[t].old]
    BY <1>1, <1>4
  <1>6. [m[t] EXCEPT !.old = x] = [pc |-> "read", engine |-> call[t].engine, old |-> x]
    BY <1>5
  <1> QED BY <1>1, <1>2, <1>4, <1>6 DEF x

LEMMA MethodsEffect ==
    ASSUME StateOK, NEW t \in Threads, init_bio_methods(t)
    PROVE  /\ ssl' \in SslT /\ ssl'.initialized = ssl.initialized /\ ssl'.locks = ssl.locks
           /\ HasMethodTable => ssl'.methods = "live"
           /\ ~HasMethodTable => ssl'.methods = ssl.methods
  <1>0. ssl \in SslT
    BY DEF StateOK
  <1>1. CASE HasMethodTable
    <2>1. ssl' = [ssl EXCEPT !.methods = "live"]
      BY <1>1 DEF init_bio_methods, NewMethods
    <2>2. /\ ssl' \in SslT /\ ssl'.initialized = ssl.initialized /\ ssl'.locks = ssl.locks
          /\ ssl'.methods = "live"
      BY <1>0, <2>1 DEF SslT
    <2> QED BY <1>1, <2>2
  <1>2. CASE ~HasMethodTable
    <2>1. ssl' = [ssl EXCEPT !.methods = ssl.methods] /\ ssl.methods \in {"NULL", "live", "freed", "freed twice"}
      BY <1>2 DEF init_bio_methods, StateOK, SslT
    <2>2. ssl' = ssl
      BY <1>0, <2>1 DEF SslT
    <2> QED BY <1>0, <1>2, <2>2
  <1> QED BY <1>1, <1>2

LEMMA KeysEffect ==
    ASSUME StateOK, NEW t \in Threads, SSL_TMP_KEYS_INIT(t)
    PROVE  /\ ssl' \in SslT /\ ssl'.initialized = ssl.initialized
           /\ ssl'.methods = ssl.methods /\ ssl'.locks = ssl.locks
           /\ \/ Goto(t, "register") /\ failed' = failed
              \/ Goto(t, "error") /\ failed' = (IF failed = "no" THEN "keys" ELSE failed)
  <1>0. ssl \in SslT
    BY DEF StateOK
  <1>1. CASE Build({"OpenSSL 3"})
    BY <1>0, <1>1 DEF SSL_TMP_KEYS_INIT
  <1>2. CASE ~Build({"OpenSSL 3"})
    <2>1. PICK x \in BOOLEAN, success \in BOOLEAN :
             /\ ssl' = [ssl EXCEPT !.keys = x]
             /\ Goto(t, IF success THEN "register" ELSE "error")
             /\ failed' = IF ~success /\ failed = "no" THEN "keys" ELSE failed
      BY <1>2 DEF SSL_TMP_KEYS_INIT
    <2>2. \/ Goto(t, "register") /\ failed' = failed
          \/ Goto(t, "error") /\ failed' = (IF failed = "no" THEN "keys" ELSE failed)
      BY <2>1
    <2>3. /\ ssl' \in SslT /\ ssl'.initialized = ssl.initialized
          /\ ssl'.methods = ssl.methods /\ ssl'.locks = ssl.locks
      BY <1>0, <2>1, SslKeys
    <2> QED BY <2>2, <2>3
  <1> QED BY <1>1, <1>2

\* A call that fails here is a second failure if one failed at its keys.
LEMMA EngineEffect ==
    ASSUME StateOK, NEW t \in Threads, LoadEngine(t)
    PROVE  /\ ssl' \in SslT /\ ssl'.initialized = ssl.initialized
           /\ ssl'.methods = ssl.methods /\ ssl'.locks = ssl.locks
           /\ \/ Goto(t, "index") /\ failed' = failed
              \/ Goto(t, "error") /\ failed' = (IF failed = "no" THEN "no" ELSE "keys, then engine")
  <1>0. ssl \in SslT /\ ssl.ui \in BOOLEAN
    BY DEF StateOK, SslT
  <1>1. CASE call[t].engine = "named" /\ ~Build({"BoringSSL"})
    <2>1. PICK outcome \in {"not found", "refused", "no UI", "UI refused", "set up"} :
             /\ ssl' = [ssl EXCEPT !.engine = outcome # "not found",
                                   !.ui = IF outcome \in {"not found", "refused"} THEN @ ELSE outcome # "no UI"]
             /\ Goto(t, IF outcome = "set up" THEN "index" ELSE "error")
             /\ failed' = IF outcome = "set up" \/ failed = "no" THEN failed ELSE "keys, then engine"
      BY <1>1 DEF LoadEngine
    <2>2. \/ Goto(t, "index") /\ failed' = failed
          \/ Goto(t, "error") /\ failed' = (IF failed = "no" THEN "no" ELSE "keys, then engine")
      BY <2>1
    <2>3. PICK x \in BOOLEAN, y \in BOOLEAN : ssl' = [ssl EXCEPT !.engine = x, !.ui = y]
      BY <1>0, <2>1
    <2>4. /\ ssl' \in SslT /\ ssl'.initialized = ssl.initialized
          /\ ssl'.methods = ssl.methods /\ ssl'.locks = ssl.locks
      BY <1>0, <2>3 DEF SslT
    <2> QED BY <2>2, <2>4
  <1>2. CASE ~(call[t].engine = "named" /\ ~Build({"BoringSSL"}))
    <2>1. UNCHANGED <<ssl, failed>> /\ Goto(t, "index")
      BY <1>2 DEF LoadEngine
    <2> QED BY <1>0, <2>1
  <1> QED BY <1>1, <1>2

-----------------------------------------------------------------------------
(* Types.                                                                  *)

LEMMA TypedInit == Init => StateOK /\ IdleInv
  <1> SUFFICES ASSUME Init PROVE StateOK /\ IdleInv
    OBVIOUS
  <1>1. ssl \in SslT
    BY DEF Init, SslT
  <1>2. call \in [Threads -> CallT] /\ \A t \in Threads : call[t] = Idle
    BY IdleCall DEF Init
  <1>3. cleanups \in Seq(Cleanups)
    BY DEF Init
  <1>4. /\ program \in Programs /\ library = "absent" /\ apr \in Int /\ indexes \in Nat /\ told = {}
    BY DEF Init
  <1>5. pool \in BOOLEAN
    BY DEF Init
  <1> QED BY <1>1, <1>2, <1>3, <1>4, <1>5 DEF StateOK, IdleInv

\* A step of the call of t.
LEMMA TypedGoto ==
    ASSUME StateOK, IdleInv, NEW t \in Threads, NEW pc \in Pcs \ {"idle"}, Goto(t, pc), library = "loaded",
           library' = library
    PROVE  call' \in [Threads -> CallT] /\ told' \subseteq Threads /\ IdleInv'
  <1>1. Moves(t, pc) /\ told' = told
    BY GotoEffect
  <1> QED BY <1>1 DEF Moves, StateOK, IdleInv

LEMMA TypedReturn ==
    ASSUME StateOK, IdleInv, NEW t \in Threads, NEW success \in BOOLEAN, Return(t, success),
           library = "loaded", library' = library
    PROVE  call' \in [Threads -> CallT] /\ told' \subseteq Threads /\ IdleInv'
  BY ReturnEffect DEF StateOK, IdleInv

LEMMA InLoaded ==
    ASSUME IdleInv, NEW t \in Threads, call[t].pc # "idle"
    PROVE  library = "loaded"
  BY IdleCall DEF IdleInv

LEMMA TypedCall ==
    ASSUME StateOK, IdleInv, NEW t \in Threads,
           initialize0(t) \/ CreatePool(t) \/ SSL_initialize(t)
    PROVE  (StateOK /\ IdleInv)'
  <1>0. /\ library = "loaded"
        /\ call[t] \in CallT /\ call[t].old \in Nat
    BY InLoaded DEF initialize0, CreatePool, SSL_initialize, At, ReadInitialized, WriteInitialized,
       ssl_thread_setup, LoadEngine, tcn_init_app_state_idx, AllocateIndex, init_bio_methods,
       SSL_TMP_KEYS_INIT, RegisterCleanup, InitializeFails, StateOK, CallT
  <1>1. ASSUME NEW pc \in Pcs \ {"idle"}, Goto(t, pc), library' = library
        PROVE  call' \in [Threads -> CallT] /\ told' \subseteq Threads /\ IdleInv'
    BY <1>0, <1>1, TypedGoto
  <1>2. ASSUME NEW success \in BOOLEAN, Return(t, success), library' = library
        PROVE  call' \in [Threads -> CallT] /\ told' \subseteq Threads /\ IdleInv'
    BY <1>0, <1>2, TypedReturn
  <1>3. Pcs \ {"idle"} = {"initialize0", "no pool", "entered", "read", "setup", "engine", "index", "no index",
                          "methods", "keys", "register", "error"}
    BY DEF Pcs
  <1>4. CASE initialize0(t)
    BY <1>1, <1>3, <1>4 DEF initialize0, StateOK, tls
  <1>5. CASE CreatePool(t)
    <2>1. call' \in [Threads -> CallT] /\ told' \subseteq Threads /\ IdleInv'
      BY <1>1, <1>2, <1>3, <1>5 DEF CreatePool
    <2>2. pool' \in BOOLEAN
      BY <1>5 DEF CreatePool
    <2>3. apr' \in Int
      <3>1. apr \in Int /\ apr' = apr + 1
        BY <1>5 DEF CreatePool, StateOK
      <3> QED BY <3>1
    <2> QED BY <1>5, <2>1, <2>2, <2>3 DEF CreatePool, StateOK, tls
  <1>6. CASE ReadInitialized(t)
    <2>1. CASE pool
      <3> DEFINE r == [pc |-> "read", engine |-> call[t].engine, old |-> ssl.initialized]
      <3>1. r \in CallT /\ r.pc # "idle"
        BY <1>0, <1>6 DEF StateOK, CallT, SslT, Pcs
      <3>2. call' = [call EXCEPT ![t] = r] /\ told' = told
        BY <1>6, <2>1, ReadEffect DEF ReadInitialized
      <3> HIDE DEF r
      <3>3. call' \in [Threads -> CallT] /\ IdleInv'
        BY <1>0, <1>6, <3>1, <3>2 DEF StateOK, IdleInv, ReadInitialized
      <3> QED BY <1>6, <3>2, <3>3 DEF ReadInitialized, StateOK, tls
    <2>2. CASE ~pool
      BY <1>2, <1>6, <2>2 DEF ReadInitialized, StateOK, tls
    <2> QED BY <2>1, <2>2
  <1>7. CASE WriteInitialized(t)
    <2>1. ssl' \in SslT
      <3>1. call[t].old + 1 \in Nat /\ ssl' = [ssl EXCEPT !.initialized = call[t].old + 1]
        BY <1>0, <1>7 DEF WriteInitialized
      <3> QED BY <3>1, SslInitialized DEF StateOK
    <2> QED BY <1>1, <1>2, <1>3, <1>7, <2>1 DEF WriteInitialized, StateOK
  <1>8. CASE ssl_thread_setup(t)
    <2>1. ssl' \in SslT
      BY <1>8, SslLocks DEF ssl_thread_setup, StateOK
    <2>2. cleanups' \in Seq(Cleanups)
      <3>1. cleanups' = cleanups \/ cleanups' = Append(cleanups, "ssl_thread_cleanup")
        BY <1>8 DEF ssl_thread_setup
      <3>2. "ssl_thread_cleanup" \in Cleanups
        BY DEF Cleanups
      <3> QED BY <3>1, <3>2 DEF StateOK
    <2> QED BY <1>1, <1>3, <1>8, <2>1, <2>2 DEF ssl_thread_setup, StateOK
  <1>9. CASE LoadEngine(t)
    <2>1. ssl' \in SslT
      BY <1>9, EngineEffect
    <2>2. call' \in [Threads -> CallT] /\ told' \subseteq Threads /\ IdleInv'
      BY <1>1, <1>3, <1>9 DEF LoadEngine
    <2> QED BY <1>9, <2>1, <2>2 DEF LoadEngine, StateOK
  <1>10. CASE tcn_init_app_state_idx(t)
    BY <1>1, <1>3, <1>10 DEF tcn_init_app_state_idx, StateOK, tls
  <1>11. CASE AllocateIndex(t)
    <2>1. indexes' \in Nat
      <3>1. indexes \in Nat /\ indexes' = indexes + 1
        BY <1>11 DEF AllocateIndex, StateOK
      <3> QED BY <3>1
    <2> QED BY <1>1, <1>3, <1>11, <2>1 DEF AllocateIndex, StateOK
  <1>12. CASE init_bio_methods(t)
    <2>1. ssl' \in SslT
      BY <1>12, MethodsEffect
    <2> QED BY <1>1, <1>3, <1>12, <2>1 DEF init_bio_methods, StateOK
  <1>13. CASE SSL_TMP_KEYS_INIT(t)
    <2>1. ssl' \in SslT
      BY <1>13, KeysEffect
    <2>2. call' \in [Threads -> CallT] /\ told' \subseteq Threads /\ IdleInv'
      BY <1>1, <1>3, <1>13 DEF SSL_TMP_KEYS_INIT
    <2> QED BY <1>13, <2>1, <2>2 DEF SSL_TMP_KEYS_INIT, StateOK
  <1>14. CASE RegisterCleanup(t)
    <2>1. cleanups' \in Seq(Cleanups)
      BY <1>14 DEF RegisterCleanup, StateOK, Cleanups
    <2> QED BY <1>2, <1>3, <1>14, <2>1 DEF RegisterCleanup, StateOK, tls
  <1>15. CASE InitializeFails(t)
    <2>1. ssl' \in SslT
      BY <1>15, CleanupEffect DEF InitializeFails, StateOK
    <2> QED BY <1>2, <1>15, <2>1 DEF InitializeFails, StateOK
  <1> QED BY <1>4, <1>5, <1>6, <1>7, <1>8, <1>9, <1>10, <1>11, <1>12, <1>13, <1>14, <1>15 DEF SSL_initialize
\* The newest cleanup is taken off.
LEMMA FrontEffect ==
    ASSUME StateOK, cleanups # << >>, cleanups' = Front(cleanups)
    PROVE  /\ Len(cleanups) \in Nat \ {0} /\ cleanups[Len(cleanups)] \in Cleanups
           /\ cleanups' \in Seq(Cleanups) /\ Len(cleanups') = Len(cleanups) - 1
           /\ \A n \in 1 .. Len(cleanups) - 1 : cleanups'[n] = cleanups[n]
  <1>1. cleanups \in Seq(Cleanups) /\ Len(cleanups) \in Nat \ {0}
    BY DEF StateOK
  <1>2. cleanups' = SubSeq(cleanups, 1, Len(cleanups) - 1)
    BY DEF Front
  <1> DEFINE n == Len(cleanups) - 1
  <1>3. n \in Int /\ n \in Nat /\ 1 \in Int /\ \A i \in 1 .. n : cleanups[i] \in Cleanups
    BY <1>1
  <1>4. cleanups[Len(cleanups)] \in Cleanups
    BY <1>1
  <1> HIDE DEF n
  <1>5. /\ SubSeq(cleanups, 1, n) \in Seq(Cleanups)
        /\ Len(SubSeq(cleanups, 1, n)) = IF 1 <= n THEN n - 1 + 1 ELSE 0
        /\ \A i \in 1 .. n - 1 + 1 : SubSeq(cleanups, 1, n)[i] = cleanups[1 + i - 1]
    BY <1>3, SubSeqProperties
  <1>6. Len(SubSeq(cleanups, 1, n)) = n /\ \A i \in 1 .. n : SubSeq(cleanups, 1, n)[i] = cleanups[i]
    BY <1>3, <1>5
  <1> QED BY <1>1, <1>2, <1>4, <1>5, <1>6 DEF n

LEMMA TypedLibrary ==
    ASSUME StateOK, IdleInv, JNI_OnLoad \/ JNI_OnUnload \/ RunCleanup \/ UnloadParts
    PROVE  (StateOK /\ IdleInv)'
  <1>1. CASE JNI_OnLoad
    <2>1. library = "absent" /\ library' \in {"absent", "loaded"}
      BY <1>1 DEF JNI_OnLoad
    <2> QED BY <1>1, <2>1 DEF JNI_OnLoad, StateOK, IdleInv, tls
  <1>2. CASE JNI_OnUnload
    <2>1. apr' \in Int
      <3>1. apr \in Int /\ (apr' = apr - 1 \/ apr' = apr)
        BY <1>2 DEF JNI_OnUnload, apr_terminate, StateOK
      <3> QED BY <3>1
    <2> QED BY <1>2, <2>1 DEF JNI_OnUnload, StateOK, IdleInv, tls
  <1>3. CASE RunCleanup
    <2>1. cleanups' \in Seq(Cleanups)
      BY <1>3, FrontEffect DEF RunCleanup
    <2>2. ssl' \in SslT
      <3>1. ssl \in SslT
        BY DEF StateOK
      <3>2. CASE ssl' = ssl_init_cleanup(ssl)
        BY <3>1, <3>2, CleanupEffect
      <3>3. CASE ssl' = ssl_thread_cleanup(ssl)
        BY <3>1, <3>3, SslLocks DEF ssl_thread_cleanup
      <3> QED BY <1>3, <3>2, <3>3 DEF RunCleanup
    <2> QED BY <1>3, <2>1, <2>2 DEF RunCleanup, StateOK, IdleInv
  <1>4. CASE UnloadParts
    <2>1. pool' \in BOOLEAN
      BY <1>4 DEF UnloadParts
    <2> QED BY <1>4, <2>1 DEF UnloadParts, StateOK, IdleInv, tls
  <1> QED BY <1>1, <1>2, <1>3, <1>4

\* A call begins.
LEMMA BeginEffect ==
    ASSUME StateOK, NEW t \in Threads, NEW engine \in Engines, initialize(t, engine)
    PROVE  /\ call[t] = Idle /\ call'[t].pc = "initialize0"
           /\ \A u \in Threads \ {t} : call'[u] = call[u]
           /\ call' \in [Threads -> CallT]
           /\ call'[t].engine = engine
  <1> DEFINE r == [pc |-> "initialize0", engine |-> engine, old |-> 0]
  <1>1. [Idle EXCEPT !.pc = "initialize0", !.engine = engine] = r
    <2> DEFINE m == [Idle EXCEPT !.pc = "initialize0"]
    <2>1. m = [pc |-> "initialize0", engine |-> "none", old |-> 0]
      BY DEF Idle
    <2> HIDE DEF m
    <2>2. [m EXCEPT !.engine = engine] = r
      BY <2>1
    <2> QED BY <2>2 DEF m
  <1>2. r \in CallT /\ r.pc = "initialize0" /\ r.engine = engine
    BY DEF CallT, Pcs
  <1>3. call[t] = Idle /\ call' = [call EXCEPT ![t] = r]
    BY <1>1 DEF initialize
  <1> HIDE DEF r
  <1> QED BY <1>2, <1>3 DEF StateOK

LEMMA TypedBegin ==
    ASSUME StateOK, IdleInv, NEW t \in Threads, NEW engine \in Engines, initialize(t, engine)
    PROVE  (StateOK /\ IdleInv)'
  <1>1. library = "loaded" /\ UNCHANGED <<program, library, apr, pool, cleanups, ssl, indexes, told>>
    BY DEF initialize, tls
  <1>2. call' \in [Threads -> CallT]
    BY BeginEffect
  <1>3. \A u \in Threads : call'[u].pc = "idle" => call'[u] = Idle
    BY BeginEffect DEF IdleInv
  <1> QED BY <1>1, <1>2, <1>3 DEF StateOK, IdleInv

LEMMA TypedStep == StateOK /\ IdleInv /\ [Next]_vars => (StateOK /\ IdleInv)'
  <1> SUFFICES ASSUME StateOK, IdleInv, [Next]_vars PROVE (StateOK /\ IdleInv)'
    OBVIOUS
  <1>1. CASE UNCHANGED vars
    BY <1>1 DEF vars, tls, StateOK, IdleInv
  <1> QED BY <1>1, TypedCall, TypedLibrary, TypedBegin DEF Next

LEMMA TypedCorrect == Spec => [](StateOK /\ IdleInv)
  BY TypedInit, TypedStep, PTL DEF Spec

-----------------------------------------------------------------------------
(* Calls that do not overlap.                                              *)

Working == {"setup", "engine", "index", "no index", "methods", "keys", "register", "error"}
Busy    == \E t \in Threads : call[t].pc \in Working

Has(c) == \E n \in 1 .. Len(cleanups) : cleanups[n] = c

In(t, pcs) == call[t].pc \in pcs

\* How far the call of t has come, if there is one.
CallInv(t) ==
    /\ In(t, {"no pool"}) => ~pool
    /\ In(t, {"read"}) => pool /\ call[t].old = ssl.initialized
    /\ In(t, Working) => told = {} /\ pool /\ ssl.initialized > 0
    /\ In(t, Working \ {"setup"}) /\ Build({"OpenSSL 1.0"}) => ssl.locks
    /\ In(t, {"no index"}) => indexes = 0
    /\ In(t, {"methods", "keys", "register"}) => indexes = 1
    /\ In(t, {"keys", "register"}) /\ HasMethodTable => ssl.methods = "live"
    /\ call[t].engine \in program.engines \cup {"none"}

\* What is set up is set up completely, unless a call is at it.
SetUpInv ==
    ssl.initialized > 0 /\ ~Busy =>
       /\ indexes = 1
       /\ HasMethodTable => ssl.methods = "live"
       /\ library = "loaded" => pool
       /\ library = "loaded" /\ Build({"OpenSSL 1.0"}) => ssl.locks

AloneInv ==
    /\ \A t, u \in Threads : call[t].pc # "idle" /\ call[u].pc # "idle" => t = u
    /\ \A t \in Threads : CallInv(t)
    /\ indexes \in {0, 1}
    /\ told # {} => ssl.initialized > 0
    /\ library = "absent" => ssl.initialized = 0
    /\ SetUpInv

LEMMA IdleInvariant ==
    ASSUME NEW t \in Threads, call'[t] = Idle
    PROVE  CallInv(t)' /\ call'[t].pc \notin Working
  <1>1. call'[t].pc = "idle" /\ call'[t].engine = "none"
    BY DEF Idle
  <1> QED BY <1>1 DEF CallInv, In, Working

\* The only call moves, or returns.
LEMMA AloneKept ==
    ASSUME StateOK, IdleInv, AloneInv, NEW t \in Threads, call[t].pc # "idle",
           \A u \in Threads \ {t} : call'[u] = call[u],
           CallInv(t)'
    PROVE  /\ \A u, v \in Threads : call'[u].pc # "idle" /\ call'[v].pc # "idle" => u = v
           /\ \A u \in Threads : CallInv(u)'
           /\ Busy <=> call[t].pc \in Working
           /\ Busy' <=> call'[t].pc \in Working
  <1>1. \A u \in Threads \ {t} : call[u].pc = "idle" /\ call[u] = Idle /\ call'[u] = Idle
    BY DEF AloneInv, IdleInv
  <1>2. ASSUME NEW u \in Threads \ {t}
        PROVE  CallInv(u)'
    <2>1. call'[u].pc = "idle" /\ call'[u].engine = "none"
      BY <1>1 DEF Idle
    <2> QED BY <2>1 DEF CallInv, In, Working
  <1>3. ASSUME NEW u \in Threads \ {t}
        PROVE  call[u].pc \notin Working /\ call'[u].pc \notin Working /\ call'[u].pc = "idle"
    BY <1>1 DEF Idle, Working
  <1>4. /\ Busy <=> call[t].pc \in Working
        /\ Busy' <=> call'[t].pc \in Working
    BY <1>3 DEF Busy
  <1> QED BY <1>2, <1>3, <1>4

LEMMA AloneCall ==
    ASSUME StateOK, IdleInv, AloneInv, NEW t \in Threads,
           initialize0(t) \/ CreatePool(t) \/ SSL_initialize(t)
    PROVE  AloneInv'
  <1> USE DEF At
  <1>0. /\ program' = program /\ library' = library /\ library = "loaded" /\ call[t].pc # "idle"
        /\ CallInv(t)
        /\ ssl \in SslT /\ call[t] \in CallT /\ call[t].engine \in program.engines \cup {"none"}
    BY InLoaded DEF initialize0, CreatePool, SSL_initialize, ReadInitialized, WriteInitialized,
       ssl_thread_setup, LoadEngine, tcn_init_app_state_idx, AllocateIndex, init_bio_methods,
       SSL_TMP_KEYS_INIT, RegisterCleanup, InitializeFails, StateOK, AloneInv, CallInv
  \* It is enough to look at the call of t.
  <1>k. ASSUME \A u \in Threads \ {t} : call'[u] = call[u], CallInv(t)'
        PROVE  /\ \A u, v \in Threads : call'[u].pc # "idle" /\ call'[v].pc # "idle" => u = v
               /\ \A u \in Threads : CallInv(u)'
               /\ Busy <=> call[t].pc \in Working
               /\ Busy' <=> call'[t].pc \in Working
    BY <1>0, <1>k, AloneKept
  <1>c. /\ (HasMethodTable' <=> HasMethodTable)
        /\ Build({"OpenSSL 1.0"})' <=> Build({"OpenSSL 1.0"})
    BY <1>0 DEF HasMethodTable, Build
  \* The statics do not change, and the call stays in or out of the part that sets them up.
  <1>s. ASSUME UNCHANGED <<ssl, indexes>>, told' = told, pool => pool',
               \A u \in Threads \ {t} : call'[u] = call[u], CallInv(t)',
               call'[t].pc \in Working <=> call[t].pc \in Working
        PROVE  AloneInv'
    BY <1>0, <1>k, <1>s, <1>c DEF AloneInv, SetUpInv
  <1>4. CASE initialize0(t)
    <2>1. PICK pc \in {"entered", "no pool"} : Goto(t, pc) /\ (pc = "no pool" => ~pool)
      BY <1>4 DEF initialize0
    <2>2. Moves(t, pc) /\ told' = told /\ UNCHANGED <<ssl, indexes, pool>> /\ call[t].pc = "initialize0"
      BY <1>4, <2>1, GotoEffect DEF initialize0, tls, Pcs
    <2>3. CallInv(t)' /\ (call'[t].pc \in Working <=> call[t].pc \in Working)
      BY <1>0, <2>1, <2>2 DEF CallInv, In, Working, Moves
    <2> QED BY <2>2, <2>3, <1>s DEF Moves
  <1>5. CASE CreatePool(t)
    <2>1. UNCHANGED <<ssl, indexes>> /\ call[t].pc = "no pool" /\ ~pool
      BY <1>0, <1>5 DEF CreatePool, tls, CallInv, In
    <2>2. CASE pool' = TRUE /\ Goto(t, "entered")
      <3>1. Moves(t, "entered") /\ told' = told
        BY <2>2, GotoEffect DEF Pcs
      <3>2. CallInv(t)' /\ (call'[t].pc \in Working <=> call[t].pc \in Working)
        BY <1>0, <2>1, <2>2, <3>1 DEF CallInv, In, Working, Moves
      <3> QED BY <2>1, <3>1, <3>2, <1>s DEF Moves
    <2>3. CASE Return(t, FALSE)
      <3>1. call'[t] = Idle /\ told' = told /\ \A u \in Threads \ {t} : call'[u] = call[u]
        BY <2>3, ReturnEffect
      <3>2. CallInv(t)' /\ (call'[t].pc \in Working <=> call[t].pc \in Working)
        BY <2>1, <3>1, IdleInvariant DEF Working
      <3> QED BY <2>1, <3>1, <3>2, <1>s
    <2> QED BY <1>5, <2>2, <2>3 DEF CreatePool
  <1>6. CASE ReadInitialized(t)
    <2>1. UNCHANGED <<ssl, indexes, pool>> /\ call[t].pc = "entered"
      BY <1>6 DEF ReadInitialized, tls
    <2>2. CASE pool
      <3>1. call' = [call EXCEPT ![t] = [pc |-> "read", engine |-> call[t].engine, old |-> ssl.initialized]]
            /\ told' = told
        BY <1>6, <2>2, ReadEffect DEF ReadInitialized
      <3>2. /\ call'[t].pc = "read" /\ call'[t].old = ssl.initialized /\ call'[t].engine = call[t].engine
            /\ \A u \in Threads \ {t} : call'[u] = call[u]
        BY <3>1 DEF StateOK
      <3>3. CallInv(t)' /\ (call'[t].pc \in Working <=> call[t].pc \in Working)
        BY <1>0, <2>1, <2>2, <3>2 DEF CallInv, In, Working
      <3> QED BY <2>1, <3>1, <3>2, <3>3, <1>s
    <2>3. CASE ~pool
      <3>0. Return(t, FALSE)
        BY <1>6, <2>3 DEF ReadInitialized
      <3>1. call'[t] = Idle /\ told' = told /\ \A u \in Threads \ {t} : call'[u] = call[u]
        BY <3>0, ReturnEffect
      <3>2. CallInv(t)' /\ (call'[t].pc \in Working <=> call[t].pc \in Working)
        BY <2>1, <3>1, IdleInvariant DEF Working
      <3> QED BY <2>1, <3>1, <3>2, <1>s
    <2> QED BY <2>2, <2>3
  <1>7. CASE WriteInitialized(t)
    <2>1. /\ UNCHANGED <<indexes, pool>> /\ call[t].pc = "read" /\ pool
          /\ call[t].old = ssl.initialized /\ ssl.initialized \in Nat
          /\ ssl' = [ssl EXCEPT !.initialized = ssl.initialized + 1]
      BY <1>0, <1>7 DEF WriteInitialized, CallInv, In, SslT
    <2>2. /\ ssl'.initialized > 0 /\ ssl'.methods = ssl.methods /\ ssl'.locks = ssl.locks
      <3>1. ssl.initialized + 1 \in Nat /\ ssl.initialized + 1 > 0
        BY <2>1
      <3> QED BY <1>0, <2>1, <3>1, SslInitialized
    <2>3. CASE ssl.initialized > 0
      <3>0. Return(t, TRUE)
        BY <1>7, <2>1, <2>3 DEF WriteInitialized, AlreadyInitialized
      <3>1. call'[t] = Idle /\ \A u \in Threads \ {t} : call'[u] = call[u]
        BY <3>0, ReturnEffect
      <3>2. CallInv(t)' /\ call'[t].pc \notin Working /\ call[t].pc \notin Working
        BY <2>1, <3>1, IdleInvariant DEF Working
      <3> QED BY <1>0, <2>1, <2>2, <2>3, <3>1, <3>2, <1>c, <1>k DEF AloneInv, SetUpInv
    <2>4. CASE ssl.initialized = 0
      <3>a. ~AlreadyInitialized(t)
        BY <2>1, <2>4 DEF AlreadyInitialized
      <3>b. told # {} => ssl.initialized > 0
        BY DEF AloneInv
      <3>c. told = {}
        BY <2>4, <3>b
      <3>0. Goto(t, "setup") /\ told = {}
        BY <1>7, <3>a, <3>c DEF WriteInitialized
      <3>1. Moves(t, "setup") /\ told' = told
        BY <3>0, GotoEffect DEF Pcs
      <3>2. CallInv(t)' /\ call'[t].pc \in Working
        BY <1>0, <2>1, <2>2, <3>0, <3>1 DEF CallInv, In, Working, Moves
      <3> QED BY <1>0, <2>1, <2>2, <3>0, <3>1, <3>2, <1>c, <1>k DEF AloneInv, SetUpInv, Moves
    <2> QED BY <2>1, <2>3, <2>4
  \* A step within the part that sets up the library.
  <1>w. ASSUME NEW pc \in Working, Moves(t, pc), told' = told, call[t].pc \in Working, CallInv(t)',
               ssl'.initialized = ssl.initialized, indexes' \in {0, 1},
               ssl'.methods \in {ssl.methods, "live"}
        PROVE  AloneInv'
    <2>1. told = {} /\ ssl.initialized > 0
      BY <1>0, <1>w DEF CallInv, In
    <2>2. call'[t].pc \in Working /\ \A u \in Threads \ {t} : call'[u] = call[u]
      BY <1>w DEF Moves
    <2> QED BY <1>0, <1>w, <2>1, <2>2, <1>c, <1>k DEF AloneInv, SetUpInv
  <1>8. CASE ssl_thread_setup(t)
    <2>1. /\ ssl'.initialized = ssl.initialized /\ ssl'.methods = ssl.methods
          /\ Build({"OpenSSL 1.0"}) => ssl'.locks
      BY <1>0, <1>8, SslLocks DEF ssl_thread_setup
    <2>2. UNCHANGED <<indexes, pool>> /\ call[t].pc = "setup" /\ Goto(t, "engine")
      BY <1>8 DEF ssl_thread_setup
    <2>3. Moves(t, "engine") /\ told' = told /\ indexes' \in {0, 1}
      BY <2>2, GotoEffect DEF Pcs, AloneInv
    <2>4. CallInv(t)'
      BY <1>0, <1>c, <2>1, <2>2, <2>3 DEF CallInv, In, Working, Moves
    <2> QED BY <2>1, <2>2, <2>3, <2>4, <1>w DEF Working
  <1>9. CASE LoadEngine(t)
    <2>1. /\ ssl'.initialized = ssl.initialized /\ ssl'.methods = ssl.methods /\ ssl'.locks = ssl.locks
          /\ Goto(t, "index") \/ Goto(t, "error")
      BY <1>9, EngineEffect
    <2>2. UNCHANGED <<indexes, pool>> /\ call[t].pc = "engine" /\ indexes' \in {0, 1}
      BY <1>9 DEF LoadEngine, AloneInv
    <2>3. CASE Goto(t, "index")
      <3>1. Moves(t, "index") /\ told' = told
        BY <2>3, GotoEffect DEF Pcs
      <3>2. CallInv(t)'
        BY <1>0, <1>c, <2>1, <2>2, <3>1 DEF CallInv, In, Working, Moves
      <3> QED BY <2>1, <2>2, <3>1, <3>2, <1>w DEF Working
    <2>4. CASE Goto(t, "error")
      <3>1. Moves(t, "error") /\ told' = told
        BY <2>4, GotoEffect DEF Pcs
      <3>2. CallInv(t)'
        BY <1>0, <1>c, <2>1, <2>2, <3>1 DEF CallInv, In, Working, Moves
      <3> QED BY <2>1, <2>2, <3>1, <3>2, <1>w DEF Working
    <2> QED BY <2>1, <2>3, <2>4
  <1>10. CASE tcn_init_app_state_idx(t)
    <2>1. PICK pc \in {"no index", "methods"} : Goto(t, pc) /\ (pc = "no index" <=> indexes = 0)
      BY <1>10 DEF tcn_init_app_state_idx
    <2>2. UNCHANGED <<ssl, indexes, pool>> /\ call[t].pc = "index" /\ indexes \in {0, 1}
      BY <1>10 DEF tcn_init_app_state_idx, tls, AloneInv
    <2>3. Moves(t, pc) /\ told' = told
      BY <2>1, GotoEffect DEF Pcs
    <2>4. CallInv(t)'
      BY <1>0, <1>c, <2>1, <2>2, <2>3 DEF CallInv, In, Working, Moves
    <2> QED BY <2>1, <2>2, <2>3, <2>4, <1>w DEF Working
  <1>11. CASE AllocateIndex(t)
    <2>0. UNCHANGED <<ssl, pool>> /\ call[t].pc = "no index" /\ indexes' = indexes + 1 /\ Goto(t, "methods")
      BY <1>11 DEF AllocateIndex
    <2>a. indexes = 0
      BY <1>0, <2>0 DEF CallInv, In
    <2>b. indexes' = indexes + 1
      BY <2>0
    <2>c. indexes' = 1
      BY <2>a, <2>b
    <2>1. UNCHANGED <<ssl, pool>> /\ call[t].pc = "no index" /\ indexes = 0 /\ indexes' = 1 /\ Goto(t, "methods")
      BY <2>0, <2>a, <2>c
    <2>2. Moves(t, "methods") /\ told' = told
      BY <2>1, GotoEffect DEF Pcs
    <2>3. CallInv(t)'
      BY <1>0, <1>c, <2>1, <2>2 DEF CallInv, In, Working, Moves
    <2> QED BY <2>1, <2>2, <2>3, <1>w DEF Working
  <1>12. CASE init_bio_methods(t)
    <2>1. /\ ssl'.initialized = ssl.initialized /\ ssl'.locks = ssl.locks
          /\ HasMethodTable => ssl'.methods = "live"
          /\ ~HasMethodTable => ssl'.methods = ssl.methods
      BY <1>12, MethodsEffect
    <2>2. UNCHANGED <<indexes, pool>> /\ call[t].pc = "methods" /\ indexes' \in {0, 1} /\ Goto(t, "keys")
      BY <1>12 DEF init_bio_methods, AloneInv
    <2>3. Moves(t, "keys") /\ told' = told
      BY <2>2, GotoEffect DEF Pcs
    <2>4. CallInv(t)'
      BY <1>0, <1>c, <2>1, <2>2, <2>3 DEF CallInv, In, Working, Moves
    <2>5. ssl'.methods \in {ssl.methods, "live"}
      BY <2>1
    <2> QED BY <2>1, <2>2, <2>3, <2>4, <2>5, <1>w DEF Working
  <1>13. CASE SSL_TMP_KEYS_INIT(t)
    <2>1. /\ ssl'.initialized = ssl.initialized /\ ssl'.methods = ssl.methods /\ ssl'.locks = ssl.locks
          /\ Goto(t, "register") \/ Goto(t, "error")
      BY <1>13, KeysEffect
    <2>2. PICK pc \in {"register", "error"} : Goto(t, pc)
      BY <2>1
    <2>3. UNCHANGED <<indexes, pool>> /\ call[t].pc = "keys" /\ indexes' \in {0, 1}
      BY <1>13 DEF SSL_TMP_KEYS_INIT, AloneInv
    <2>4. Moves(t, pc) /\ told' = told
      BY <2>2, GotoEffect DEF Pcs
    <2>5. CallInv(t)'
      BY <1>0, <1>c, <2>1, <2>3, <2>4 DEF CallInv, In, Working, Moves
    <2> QED BY <2>1, <2>2, <2>3, <2>4, <2>5, <1>w DEF Working
  <1>14. CASE RegisterCleanup(t)
    <2>1. UNCHANGED <<ssl, indexes, pool>> /\ call[t].pc = "register" /\ Return(t, TRUE)
      BY <1>14 DEF RegisterCleanup, tls
    <2>2. call'[t] = Idle /\ \A u \in Threads \ {t} : call'[u] = call[u]
      BY <2>1, ReturnEffect
    <2>3. CallInv(t)' /\ call'[t].pc \notin Working
      BY <2>2, IdleInvariant
    <2>4. /\ pool /\ ssl.initialized > 0 /\ indexes = 1
          /\ HasMethodTable => ssl.methods = "live"
          /\ Build({"OpenSSL 1.0"}) => ssl.locks
      BY <1>0, <2>1 DEF CallInv, In, Working
    <2> QED BY <1>0, <2>1, <2>2, <2>3, <2>4, <1>c, <1>k DEF AloneInv, SetUpInv
  <1>15. CASE InitializeFails(t)
    <2>1. UNCHANGED <<indexes, pool>> /\ call[t].pc = "error" /\ ssl' = ssl_init_cleanup(ssl) /\ Return(t, FALSE)
      BY <1>15 DEF InitializeFails
    <2>2. call'[t] = Idle /\ told' = told /\ \A u \in Threads \ {t} : call'[u] = call[u]
      BY <2>1, ReturnEffect
    <2>3. CallInv(t)' /\ call'[t].pc \notin Working
      BY <2>2, IdleInvariant
    <2>4. told = {} /\ ssl.initialized > 0
      BY <1>0, <2>1 DEF CallInv, In, Working
    <2>5. ssl'.initialized = 0 /\ ssl'.methods = free_bio_methods(ssl.methods)
      BY <1>0, <2>1, <2>4, CleanupEffect
    <2>7. /\ \A u, v \in Threads : call'[u].pc # "idle" /\ call'[v].pc # "idle" => u = v
          /\ \A u \in Threads : CallInv(u)'
      BY <2>2, <2>3, <1>k
    <2>a. ~(ssl'.initialized > 0)
      BY <2>5
    <2>8. indexes' \in {0, 1} /\ told' = {} /\ SetUpInv'
      BY <2>1, <2>2, <2>4, <2>a DEF AloneInv, SetUpInv
    <2> QED BY <1>0, <2>7, <2>8, <1>c DEF AloneInv
  <1> QED BY <1>4, <1>5, <1>6, <1>7, <1>8, <1>9, <1>10, <1>11, <1>12, <1>13, <1>14, <1>15 DEF SSL_initialize

LEMMA AloneBegin ==
    ASSUME StateOK, IdleInv, AloneInv, ~Races,
           NEW t \in Threads, NEW engine \in Engines, initialize(t, engine)
    PROVE  AloneInv'
  <1>1. /\ UNCHANGED <<program, library, apr, pool, cleanups, ssl, indexes, told>> /\ library = "loaded"
        /\ engine \in program.engines /\ \A u \in Threads : call[u] = Idle
    BY DEF initialize, tls
  <1>2. /\ call'[t].pc = "initialize0" /\ call'[t].engine = engine
        /\ \A u \in Threads \ {t} : call'[u] = Idle
    BY <1>1, BeginEffect
  <1>3. CallInv(t)' /\ call'[t].pc \notin Working
    BY <1>1, <1>2 DEF CallInv, In, Working
  <1>4. \A u \in Threads \ {t} : CallInv(u)' /\ call'[u].pc = "idle" /\ call'[u].pc \notin Working
    BY <1>2, IdleInvariant DEF Idle
  <1>a. \A u \in Threads : call[u].pc \notin Working
    <2>1. Idle.pc \notin Working
      BY IdleCall DEF Working
    <2> QED BY <1>1, <2>1
  <1>5. ~Busy /\ ~Busy'
    BY <1>a, <1>3, <1>4 DEF Busy
  <1>6. /\ (HasMethodTable' <=> HasMethodTable)
        /\ Build({"OpenSSL 1.0"})' <=> Build({"OpenSSL 1.0"})
    BY <1>1 DEF HasMethodTable, Build
  <1>7. SetUpInv'
    BY <1>1, <1>5, <1>6 DEF AloneInv, SetUpInv
  <1>8. \A u, v \in Threads : call'[u].pc # "idle" /\ call'[v].pc # "idle" => u = v
    BY <1>4
  <1> QED BY <1>1, <1>3, <1>4, <1>6, <1>7, <1>8 DEF AloneInv

\* Nobody is inside while the library is loaded or unloaded.
LEMMA AloneLibrary ==
    ASSUME StateOK, IdleInv, AloneInv, JNI_OnLoad \/ JNI_OnUnload \/ RunCleanup \/ UnloadParts
    PROVE  AloneInv'
  <1>1. /\ UNCHANGED <<program, indexes, call>> /\ \A t \in Threads : call[t] = Idle
        /\ told' = {}
        /\ library' = "loaded" => library = "absent" /\ UNCHANGED <<ssl, pool>>
    BY DEF JNI_OnLoad, JNI_OnUnload, RunCleanup, UnloadParts, IdleInv, tls
  <1>2. /\ \A t \in Threads : CallInv(t)' /\ call[t].pc = "idle" /\ call'[t].pc = "idle"
        /\ \A t \in Threads : call[t].pc \notin Working /\ call'[t].pc \notin Working
    BY <1>1, IdleInvariant DEF Idle
  <1>3. ~Busy /\ ~Busy'
    BY <1>2 DEF Busy
  <1>4. /\ (HasMethodTable' <=> HasMethodTable)
        /\ Build({"OpenSSL 1.0"})' <=> Build({"OpenSSL 1.0"})
    BY <1>1 DEF HasMethodTable, Build
  <1>5. /\ ssl'.initialized > 0 => ssl.initialized > 0 /\ ssl'.methods = ssl.methods
    <2>1. CASE ssl' = ssl
      BY <2>1 DEF AloneInv
    <2>2. CASE ssl' = ssl_thread_cleanup(ssl)
      <3>1. ssl \in SslT /\ ssl' = [ssl EXCEPT !.locks = FALSE]
        BY <2>2 DEF StateOK, ssl_thread_cleanup
      <3>2. ssl'.initialized = ssl.initialized /\ ssl'.methods = ssl.methods
        BY <3>1 DEF SslT
      <3> QED BY <3>2 DEF AloneInv
    <2>3. CASE ssl' = ssl_init_cleanup(ssl)
      <3>1. /\ ssl \in SslT /\ ssl.initialized \in Nat /\ ssl'.initialized = 0
            /\ ssl.initialized = 0 => ssl' = ssl
            /\ ssl.initialized > 0 => ssl'.methods = free_bio_methods(ssl.methods)
        BY <2>3, CleanupEffect DEF StateOK, SslT
      <3>2. ~(ssl'.initialized > 0)
        BY <3>1
      <3>3. CASE ssl.initialized = 0
        BY <3>1, <3>2, <3>3 DEF AloneInv
      <3>4. CASE ssl.initialized > 0
        BY <3>2
      <3>5. ssl.initialized = 0 \/ ssl.initialized > 0
        BY <3>1
      <3> QED BY <3>3, <3>4, <3>5
    <2> QED BY <2>1, <2>2, <2>3 DEF JNI_OnLoad, JNI_OnUnload, RunCleanup, UnloadParts, tls
  <1>6. library = "absent" => ssl.initialized = 0 /\ ~(ssl.initialized > 0)
    <2>1. library = "absent" => ssl.initialized = 0
      BY DEF AloneInv
    <2> QED BY <2>1
  <1>7. SetUpInv'
    BY <1>1, <1>3, <1>4, <1>5, <1>6 DEF AloneInv, SetUpInv
  <1>8. library' = "absent" => ssl'.initialized = 0
    BY <1>6 DEF JNI_OnLoad, JNI_OnUnload, RunCleanup, UnloadParts, tls
  <1> QED BY <1>1, <1>2, <1>4, <1>5, <1>7, <1>8 DEF AloneInv

LEMMA AloneStep == StateOK /\ IdleInv /\ (~Races => AloneInv) /\ [Next]_vars => (~Races => AloneInv)'
  <1> SUFFICES ASSUME StateOK, IdleInv, ~Races => AloneInv, [Next]_vars, (~Races)' PROVE AloneInv'
    OBVIOUS
  <1>1. program' = program
    BY DEF Next, vars, initialize, initialize0, CreatePool, SSL_initialize, ReadInitialized, WriteInitialized,
       ssl_thread_setup, LoadEngine, tcn_init_app_state_idx, AllocateIndex, init_bio_methods,
       SSL_TMP_KEYS_INIT, RegisterCleanup, InitializeFails, JNI_OnLoad, JNI_OnUnload, RunCleanup, UnloadParts
  <1>2. ~Races /\ AloneInv
    BY <1>1 DEF Races
  <1>3. CASE UNCHANGED vars
    BY <1>2, <1>3 DEF vars, tls, AloneInv, CallInv, In, SetUpInv, Busy, HasMethodTable, Build
  <1> QED BY <1>2, <1>3, AloneCall, AloneBegin, AloneLibrary DEF Next

LEMMA AloneInit == Init => AloneInv
  <1> SUFFICES ASSUME Init PROVE AloneInv
    OBVIOUS
  <1>1. /\ \A t \in Threads : call[t].pc = "idle" /\ call[t].engine = "none"
        /\ told = {} /\ indexes = 0
    BY DEF Init, Idle
  <1>2. ssl.initialized = 0 /\ ssl.methods = "NULL"
    BY DEF Init
  <1>3. ~(ssl.initialized > 0)
    BY <1>2
  <1>4. \A t \in Threads : CallInv(t)
    BY <1>1 DEF CallInv, In, Working
  <1> QED BY <1>1, <1>2, <1>3, <1>4 DEF AloneInv, SetUpInv

LEMMA AloneCorrect == Spec => [](StateOK /\ IdleInv /\ (~Races => AloneInv))
  BY TypedInit, TypedStep, AloneInit, AloneStep, PTL DEF Spec

\* Once Library.initialize returned true the TLS library is set up, with its methods
\* and locks, until it is unloaded: for any sequence of calls that do not overlap,
\* whichever engines they ask for and wherever in SSL.initialize they fail.
THEOREM InitializedWhenTrueCorrect == Spec => []InitializedWhenTrue
  <1>1. StateOK /\ IdleInv /\ (~Races => AloneInv) => InitializedWhenTrue
    <2> SUFFICES ASSUME StateOK, IdleInv, AloneInv, told # {}
                 PROVE  /\ pool /\ ssl.initialized > 0 /\ indexes = 1
                        /\ HasMethodTable => ssl.methods = "live"
                        /\ Build({"OpenSSL 1.0"}) => ssl.locks
      BY DEF InitializedWhenTrue
    <2>1. library = "loaded" /\ ssl.initialized > 0
      BY DEF IdleInv, AloneInv
    <2>2. ~Busy
      BY DEF AloneInv, CallInv, In, Busy
    <2> QED BY <2>1, <2>2 DEF AloneInv, SetUpInv
  <1> QED BY <1>1, AloneCorrect, PTL

-----------------------------------------------------------------------------
(* What is left when the library is unloaded.                              *)

\* What SSL.initialize set up is undone, or has a cleanup that will undo it, and the
\* pool that runs the cleanups is destroyed by the one call of apr_terminate.
TearInv ==
    /\ ~HasMethodTable => ssl.methods = "NULL"
    /\ ssl.initialized = 0 => ssl.methods # "live" /\ ~ssl.engine /\ ~ssl.ui /\ ~ssl.keys
    /\ ssl.locks => Has("ssl_thread_cleanup")
    /\ ssl.initialized > 0 /\ ~Busy => Has("ssl_init_cleanup")
    /\ ~OutOfMemory => apr = IF pool /\ library \in {"absent", "loaded"} THEN 1 ELSE 0
    /\ ~OutOfMemory /\ library = "unloaded" => cleanups = << >>

LEMMA AppendHas ==
    ASSUME StateOK, NEW x \in Cleanups, cleanups' = Append(cleanups, x)
    PROVE  Has(x)' /\ \A c \in Cleanups : Has(c) => Has(c)'
  <1>1. /\ cleanups \in Seq(Cleanups) /\ Len(cleanups) \in Nat
        /\ Len(cleanups') = Len(cleanups) + 1 /\ cleanups'[Len(cleanups) + 1] = x
        /\ \A n \in 1 .. Len(cleanups) : cleanups'[n] = cleanups[n]
    BY DEF StateOK
  <1>2. Len(cleanups) + 1 \in 1 .. Len(cleanups') /\ \A n \in 1 .. Len(cleanups) : n \in 1 .. Len(cleanups')
    BY <1>1
  <1> QED BY <1>1, <1>2 DEF Has

LEMMA TearCall ==
    ASSUME StateOK, IdleInv, AloneInv, AloneInv', TearInv, NEW t \in Threads,
           initialize0(t) \/ CreatePool(t) \/ SSL_initialize(t)
    PROVE  TearInv'
  <1> USE DEF At
  <1>0. /\ program' = program /\ library' = library /\ library = "loaded" /\ call[t].pc # "idle"
        /\ CallInv(t) /\ CallInv(t)'
        /\ ssl \in SslT /\ ssl.initialized \in Nat /\ call[t] \in CallT /\ apr \in Int
    BY InLoaded DEF initialize0, CreatePool, SSL_initialize, ReadInitialized, WriteInitialized,
       ssl_thread_setup, LoadEngine, tcn_init_app_state_idx, AllocateIndex, init_bio_methods,
       SSL_TMP_KEYS_INIT, RegisterCleanup, InitializeFails, StateOK, AloneInv, SslT
  <1>k. ASSUME \A u \in Threads \ {t} : call'[u] = call[u]
        PROVE  /\ Busy <=> call[t].pc \in Working
               /\ Busy' <=> call'[t].pc \in Working
    BY <1>0, <1>k, AloneKept
  <1>c. /\ (HasMethodTable' <=> HasMethodTable) /\ (OutOfMemory' <=> OutOfMemory)
    BY <1>0 DEF HasMethodTable, Build, OutOfMemory
  \* A step that neither writes the statics nor registers a cleanup.
  <1>s. ASSUME UNCHANGED <<ssl, apr, pool, cleanups>>,
               \A u \in Threads \ {t} : call'[u] = call[u],
               call'[t].pc \in Working <=> call[t].pc \in Working
        PROVE  TearInv'
    BY <1>0, <1>k, <1>s, <1>c DEF TearInv, Has
  \* A step within the part that sets up the library.
  <1>w. ASSUME NEW pc \in Working, Goto(t, pc), pc \in Pcs, call[t].pc \in Working, UNCHANGED <<apr, pool>>,
               ssl'.initialized = ssl.initialized, ~HasMethodTable => ssl'.methods = ssl.methods,
               ssl'.locks => Has("ssl_thread_cleanup")'
        PROVE  TearInv'
    <2>1. Moves(t, pc)
      BY <1>w, GotoEffect
    <2>0. ssl.initialized > 0 /\ ssl'.initialized = ssl.initialized
      BY <1>0, <1>w DEF CallInv, In
    <2>2. ssl'.initialized > 0 /\ ssl'.initialized # 0
      BY <1>0, <2>0
    <2>3. Busy'
      BY <1>k, <1>w, <2>1 DEF Moves
    <2> QED BY <1>0, <1>c, <1>w, <2>2, <2>3 DEF TearInv
  <1>4. CASE initialize0(t)
    <2>1. PICK pc \in {"entered", "no pool"} : Goto(t, pc)
      BY <1>4 DEF initialize0
    <2>2. Moves(t, pc) /\ UNCHANGED <<ssl, apr, pool, cleanups>> /\ call[t].pc = "initialize0"
      BY <1>4, <2>1, GotoEffect DEF initialize0, tls, Pcs
    <2>3. call'[t].pc \in Working <=> call[t].pc \in Working
      BY <2>1, <2>2 DEF Working, Moves
    <2> QED BY <2>2, <2>3, <1>s DEF Moves
  <1>5. CASE CreatePool(t)
    <2>1. UNCHANGED <<ssl, cleanups>> /\ call[t].pc = "no pool" /\ ~pool
      BY <1>0, <1>5 DEF CreatePool, tls, CallInv, In
    <2>2. \A u \in Threads \ {t} : call'[u] = call[u]
      BY <1>5, GotoEffect, ReturnEffect DEF CreatePool, Pcs, Moves
    <2>3. call'[t].pc \notin Working /\ call[t].pc \notin Working
      BY <1>5, <2>1, GotoEffect, ReturnEffect, IdleCall DEF CreatePool, Pcs, Moves, Working
    <2>4. ~OutOfMemory => apr = 0 /\ pool'
      BY <1>0, <1>5, <2>1 DEF CreatePool, TearInv
    <2>5. ~OutOfMemory => apr' = 1
      <3>1. apr' = apr + 1
        BY <1>5 DEF CreatePool
      <3> QED BY <3>1, <2>4
    <2> QED BY <1>0, <1>c, <1>k, <2>1, <2>2, <2>3, <2>4, <2>5 DEF TearInv, Has
  <1>6. CASE ReadInitialized(t)
    <2>1. UNCHANGED <<ssl, apr, pool, cleanups>> /\ call[t].pc = "entered"
      BY <1>6 DEF ReadInitialized, tls
    <2>2. CASE pool
      <3>1. call' = [call EXCEPT ![t] = [pc |-> "read", engine |-> call[t].engine, old |-> ssl.initialized]]
        BY <1>6, <2>2, ReadEffect DEF ReadInitialized
      <3>2. call'[t].pc = "read" /\ \A u \in Threads \ {t} : call'[u] = call[u]
        BY <3>1 DEF StateOK
      <3>3. call'[t].pc \in Working <=> call[t].pc \in Working
        BY <2>1, <3>2 DEF Working
      <3> QED BY <2>1, <3>2, <3>3, <1>s
    <2>3. CASE ~pool
      <3>0. Return(t, FALSE)
        BY <1>6, <2>3 DEF ReadInitialized
      <3>1. call'[t] = Idle /\ \A u \in Threads \ {t} : call'[u] = call[u]
        BY <3>0, ReturnEffect
      <3>2. call'[t].pc \in Working <=> call[t].pc \in Working
        BY <2>1, <3>1, IdleCall DEF Working
      <3> QED BY <2>1, <3>1, <3>2, <1>s
    <2> QED BY <2>2, <2>3
  <1>7. CASE WriteInitialized(t)
    <2>1. /\ UNCHANGED <<apr, pool, cleanups>> /\ call[t].pc = "read"
          /\ call[t].old = ssl.initialized /\ ssl' = [ssl EXCEPT !.initialized = ssl.initialized + 1]
      BY <1>0, <1>7 DEF WriteInitialized, CallInv, In
    <2>2. ssl.initialized + 1 \in Nat /\ ssl.initialized + 1 > 0 /\ ssl.initialized + 1 # 0
      BY <1>0
    <2>3. /\ ssl'.initialized > 0 /\ ssl'.initialized # 0
          /\ ssl'.methods = ssl.methods /\ ssl'.locks = ssl.locks
      BY <1>0, <2>1, <2>2, SslInitialized
    <2>4. CASE AlreadyInitialized(t)
      <3>1. ssl.initialized > 0
        BY <2>1, <2>4 DEF AlreadyInitialized
      <3>2. call'[t] = Idle /\ \A u \in Threads \ {t} : call'[u] = call[u]
        BY <1>7, <2>4, ReturnEffect DEF WriteInitialized
      <3>3. call'[t].pc \notin Working /\ call[t].pc \notin Working
        BY <2>1, <3>2, IdleCall DEF Working
      <3> QED BY <1>0, <1>c, <1>k, <2>1, <2>3, <3>1, <3>2, <3>3 DEF TearInv, Has
    <2>5. CASE ~AlreadyInitialized(t)
      <3>1. Goto(t, "setup")
        BY <1>7, <2>5 DEF WriteInitialized
      <3>2. Moves(t, "setup")
        BY <3>1, GotoEffect DEF Pcs
      <3>3. Busy'
        BY <1>k, <3>2 DEF Moves, Working
      <3> QED BY <1>0, <1>c, <2>1, <2>3, <3>3 DEF TearInv, Has
    <2> QED BY <2>4, <2>5
  <1>8. CASE ssl_thread_setup(t)
    <2>1. /\ ssl'.initialized = ssl.initialized /\ ssl'.methods = ssl.methods
          /\ ~Build({"OpenSSL 1.0"}) => ssl' = ssl
      BY <1>0, <1>8, SslLocks DEF ssl_thread_setup
    <2>2. UNCHANGED <<apr, pool>> /\ call[t].pc = "setup" /\ Goto(t, "engine")
      BY <1>8 DEF ssl_thread_setup
    <2>3. ssl'.locks => Has("ssl_thread_cleanup")'
      <3>1. CASE Build({"OpenSSL 1.0"})
        BY <1>8, <3>1, AppendHas DEF ssl_thread_setup, Cleanups
      <3>2. CASE ~Build({"OpenSSL 1.0"})
        BY <1>8, <3>2 DEF ssl_thread_setup, TearInv, Has
      <3> QED BY <3>1, <3>2
    <2> QED BY <2>1, <2>2, <2>3, <1>w DEF Working, Pcs
  <1>9. CASE LoadEngine(t)
    <2>1. /\ ssl'.initialized = ssl.initialized /\ ssl'.methods = ssl.methods /\ ssl'.locks = ssl.locks
          /\ Goto(t, "index") \/ Goto(t, "error")
      BY <1>9, EngineEffect
    <2>2. UNCHANGED <<apr, pool, cleanups>> /\ call[t].pc = "engine"
      BY <1>9 DEF LoadEngine
    <2>3. ssl'.locks => Has("ssl_thread_cleanup")'
      BY <2>1, <2>2 DEF TearInv, Has
    <2> QED BY <2>1, <2>2, <2>3, <1>w DEF Working, Pcs
  <1>10. CASE tcn_init_app_state_idx(t)
    <2>1. PICK pc \in {"no index", "methods"} : Goto(t, pc)
      BY <1>10 DEF tcn_init_app_state_idx
    <2>2. UNCHANGED <<ssl, apr, pool, cleanups>> /\ call[t].pc = "index"
      BY <1>10 DEF tcn_init_app_state_idx, tls
    <2>3. ssl'.locks => Has("ssl_thread_cleanup")'
      BY <2>2 DEF TearInv, Has
    <2> QED BY <2>1, <2>2, <2>3, <1>w DEF Working, Pcs
  <1>11. CASE AllocateIndex(t)
    <2>1. UNCHANGED <<ssl, apr, pool, cleanups>> /\ call[t].pc = "no index" /\ Goto(t, "methods")
      BY <1>11 DEF AllocateIndex
    <2>2. ssl'.locks => Has("ssl_thread_cleanup")'
      BY <2>1 DEF TearInv, Has
    <2> QED BY <2>1, <2>2, <1>w DEF Working, Pcs
  <1>12. CASE init_bio_methods(t)
    <2>1. /\ ssl'.initialized = ssl.initialized /\ ssl'.locks = ssl.locks
          /\ ~HasMethodTable => ssl'.methods = ssl.methods
      BY <1>12, MethodsEffect
    <2>2. UNCHANGED <<apr, pool, cleanups>> /\ call[t].pc = "methods" /\ Goto(t, "keys")
      BY <1>12 DEF init_bio_methods
    <2>3. ssl'.locks => Has("ssl_thread_cleanup")'
      BY <2>1, <2>2 DEF TearInv, Has
    <2> QED BY <2>1, <2>2, <2>3, <1>w DEF Working, Pcs
  <1>13. CASE SSL_TMP_KEYS_INIT(t)
    <2>1. /\ ssl'.initialized = ssl.initialized /\ ssl'.methods = ssl.methods /\ ssl'.locks = ssl.locks
          /\ Goto(t, "register") \/ Goto(t, "error")
      BY <1>13, KeysEffect
    <2>2. UNCHANGED <<apr, pool, cleanups>> /\ call[t].pc = "keys"
      BY <1>13 DEF SSL_TMP_KEYS_INIT
    <2>3. ssl'.locks => Has("ssl_thread_cleanup")'
      BY <2>1, <2>2 DEF TearInv, Has
    <2> QED BY <2>1, <2>2, <2>3, <1>w DEF Working, Pcs
  <1>14. CASE RegisterCleanup(t)
    <2>1. UNCHANGED <<ssl, apr, pool>>
      BY <1>14 DEF RegisterCleanup, tls
    <2>2. Has("ssl_init_cleanup")' /\ (Has("ssl_thread_cleanup") => Has("ssl_thread_cleanup")')
      BY <1>14, AppendHas DEF RegisterCleanup, Cleanups
    <2> QED BY <1>0, <1>c, <2>1, <2>2 DEF TearInv
  <1>15. CASE InitializeFails(t)
    <2>1. UNCHANGED <<apr, pool, cleanups>> /\ call[t].pc = "error" /\ ssl' = ssl_init_cleanup(ssl)
      BY <1>15 DEF InitializeFails
    <2>2. ssl.initialized > 0
      BY <1>0, <2>1 DEF CallInv, In, Working
    <2>3. /\ ssl'.initialized = 0 /\ ssl'.methods = free_bio_methods(ssl.methods)
          /\ ~ssl'.engine /\ ~ssl'.ui /\ ~ssl'.keys /\ ssl'.locks = ssl.locks
      BY <1>0, <2>1, <2>2, CleanupEffect
    <2>4. ssl'.methods # "live" /\ (~HasMethodTable => ssl'.methods = "NULL")
      BY <2>3 DEF free_bio_methods, TearInv
    <2>5. ~(ssl'.initialized > 0)
      BY <2>3
    <2> QED BY <1>0, <1>c, <2>1, <2>3, <2>4, <2>5 DEF TearInv, Has
  <1> QED BY <1>4, <1>5, <1>6, <1>7, <1>8, <1>9, <1>10, <1>11, <1>12, <1>13, <1>14, <1>15 DEF SSL_initialize

LEMMA FrontHas ==
    ASSUME StateOK, cleanups # << >>, cleanups' = Front(cleanups), NEW c \in Cleanups, Last(cleanups) # c, Has(c)
    PROVE  Has(c)'
  <1>1. /\ Len(cleanups) \in Nat \ {0} /\ Len(cleanups') = Len(cleanups) - 1
        /\ \A n \in 1 .. Len(cleanups) - 1 : cleanups'[n] = cleanups[n]
        /\ cleanups[Len(cleanups)] # c
    BY FrontEffect DEF Last
  <1>2. PICK n \in 1 .. Len(cleanups) : cleanups[n] = c
    BY DEF Has
  <1>3. n \in 1 .. Len(cleanups) - 1 /\ n \in 1 .. Len(cleanups')
    BY <1>1, <1>2
  <1> QED BY <1>1, <1>2, <1>3 DEF Has

LEMMA TearLibrary ==
    ASSUME StateOK, IdleInv, AloneInv, TearInv, JNI_OnLoad \/ JNI_OnUnload \/ RunCleanup \/ UnloadParts
    PROVE  TearInv'
  <1>1. /\ UNCHANGED <<program, call>> /\ \A t \in Threads : call[t] = Idle
        /\ ssl \in SslT /\ ssl.initialized \in Nat /\ apr \in Int
    BY DEF JNI_OnLoad, JNI_OnUnload, RunCleanup, UnloadParts, IdleInv, tls, StateOK, SslT
  <1>2. ~Busy /\ ~Busy'
    <2>1. Idle.pc \notin Working
      BY IdleCall DEF Working
    <2> QED BY <1>1, <2>1 DEF Busy
  <1>3. (HasMethodTable' <=> HasMethodTable) /\ (OutOfMemory' <=> OutOfMemory)
    BY <1>1 DEF HasMethodTable, Build, OutOfMemory
  <1>4. CASE JNI_OnLoad
    BY <1>2, <1>3, <1>4 DEF JNI_OnLoad, TearInv, Has, tls
  <1>5. CASE JNI_OnUnload
    <2>1. UNCHANGED <<ssl, cleanups, pool>> /\ library = "loaded" /\ library' = "unloading"
          /\ apr' = (IF pool THEN apr - 1 ELSE apr)
      BY <1>5 DEF JNI_OnUnload, tls, apr_terminate
    <2>2. ~OutOfMemory => apr = IF pool THEN 1 ELSE 0
      BY <2>1 DEF TearInv
    <2>3. ~OutOfMemory => apr' = 0
      BY <2>1, <2>2
    <2> QED BY <1>2, <1>3, <2>1, <2>3 DEF TearInv, Has
  <1>6. CASE RunCleanup
    <2>1. /\ library = "unloading" /\ UNCHANGED <<library, apr, pool>>
          /\ cleanups # << >> /\ cleanups' = Front(cleanups) /\ Last(cleanups) \in Cleanups
      BY <1>6, FrontEffect DEF RunCleanup, Last
    <2>2. CASE Last(cleanups) = "ssl_init_cleanup"
      <3>1. /\ ssl'.initialized = 0 /\ ssl'.locks = ssl.locks
            /\ ssl.initialized = 0 => ssl' = ssl
            /\ ssl.initialized > 0 => /\ ssl'.methods = free_bio_methods(ssl.methods)
                                      /\ ~ssl'.engine /\ ~ssl'.ui /\ ~ssl'.keys
        BY <1>1, <1>6, <2>2, CleanupEffect DEF RunCleanup
      <3>2. /\ ssl'.methods # "live" /\ ~ssl'.engine /\ ~ssl'.ui /\ ~ssl'.keys
            /\ ~HasMethodTable => ssl'.methods = "NULL"
        <4>1. CASE ssl.initialized = 0
          BY <3>1, <4>1 DEF TearInv
        <4>2. CASE ssl.initialized > 0
          BY <3>1, <4>2 DEF TearInv, free_bio_methods
        <4>3. ssl.initialized = 0 \/ ssl.initialized > 0
          BY <1>1
        <4> QED BY <4>1, <4>2, <4>3
      <3>3. Has("ssl_thread_cleanup") => Has("ssl_thread_cleanup")'
        BY <2>1, <2>2, FrontHas DEF Cleanups
      <3>4. ~(ssl'.initialized > 0)
        BY <3>1
      <3> QED BY <1>3, <2>1, <3>1, <3>2, <3>3, <3>4 DEF TearInv
    <2>3. CASE Last(cleanups) = "ssl_thread_cleanup"
      <3>0. ssl' = [ssl EXCEPT !.locks = FALSE]
        BY <1>6, <2>3 DEF RunCleanup, ssl_thread_cleanup
      <3>1. /\ ssl'.initialized = ssl.initialized /\ ssl'.methods = ssl.methods /\ ssl'.engine = ssl.engine
            /\ ssl'.ui = ssl.ui /\ ssl'.keys = ssl.keys /\ ~ssl'.locks
        BY <1>1, <3>0, SslLocks
      <3>2. Has("ssl_init_cleanup") => Has("ssl_init_cleanup")'
        BY <2>1, <2>3, FrontHas DEF Cleanups
      <3> QED BY <1>2, <1>3, <2>1, <3>1, <3>2 DEF TearInv
    <2> QED BY <2>1, <2>2, <2>3 DEF Cleanups
  <1>7. CASE UnloadParts
    <2>1. UNCHANGED <<ssl, cleanups, apr>> /\ library = "unloading" /\ library' = "unloaded" /\ ~pool'
          /\ (apr > 0 \/ cleanups = << >>)
      BY <1>7 DEF UnloadParts, tls
    <2>2. ~OutOfMemory => apr = 0
      BY <2>1 DEF TearInv
    <2>3. ~OutOfMemory => cleanups = << >>
      BY <2>1, <2>2
    <2> QED BY <1>2, <1>3, <2>1, <2>2, <2>3 DEF TearInv, Has
  <1> QED BY <1>4, <1>5, <1>6, <1>7

LEMMA TearBegin ==
    ASSUME StateOK, IdleInv, AloneInv, TearInv, ~Races,
           NEW t \in Threads, NEW engine \in Engines, initialize(t, engine)
    PROVE  TearInv'
  <1>1. /\ UNCHANGED <<program, library, apr, pool, cleanups, ssl>>
        /\ \A u \in Threads : call[u] = Idle
    BY DEF initialize, tls
  <1>2. ~Busy /\ ~Busy'
    <2>1. Idle.pc \notin Working
      BY IdleCall DEF Working
    <2>2. call'[t].pc \notin Working /\ \A u \in Threads \ {t} : call'[u] = Idle
      BY <1>1, BeginEffect DEF Working
    <2> QED BY <1>1, <2>1, <2>2 DEF Busy
  <1>3. (HasMethodTable' <=> HasMethodTable) /\ (OutOfMemory' <=> OutOfMemory)
    BY <1>1 DEF HasMethodTable, Build, OutOfMemory
  <1> QED BY <1>1, <1>2, <1>3 DEF TearInv, Has

LEMMA TearStep ==
    StateOK /\ IdleInv /\ (~Races => AloneInv) /\ (~Races => AloneInv)' /\ (~Races => TearInv) /\ [Next]_vars
      => (~Races => TearInv)'
  <1> SUFFICES ASSUME StateOK, IdleInv, ~Races => AloneInv, (~Races => AloneInv)', ~Races => TearInv,
                      [Next]_vars, (~Races)'
               PROVE  TearInv'
    OBVIOUS
  <1>1. program' = program
    BY DEF Next, vars, initialize, initialize0, CreatePool, SSL_initialize, ReadInitialized, WriteInitialized,
       ssl_thread_setup, LoadEngine, tcn_init_app_state_idx, AllocateIndex, init_bio_methods,
       SSL_TMP_KEYS_INIT, RegisterCleanup, InitializeFails, JNI_OnLoad, JNI_OnUnload, RunCleanup, UnloadParts
  <1>2. ~Races /\ AloneInv /\ AloneInv' /\ TearInv
    BY <1>1 DEF Races
  <1>3. CASE UNCHANGED vars
    BY <1>2, <1>3 DEF vars, tls, TearInv, Has, Busy, HasMethodTable, OutOfMemory, Build
  <1> QED BY <1>2, <1>3, TearCall, TearBegin, TearLibrary DEF Next

LEMMA TearInit == Init => TearInv
  <1> SUFFICES ASSUME Init PROVE TearInv
    OBVIOUS
  <1>1. ssl.initialized = 0 /\ ssl.methods = "NULL" /\ ~ssl.engine /\ ~ssl.ui /\ ~ssl.keys /\ ~ssl.locks
    BY DEF Init
  <1>2. ~(ssl.initialized > 0)
    BY <1>1
  <1>3. apr = 0 /\ ~pool /\ library = "absent"
    BY DEF Init
  <1> QED BY <1>1, <1>2, <1>3 DEF TearInv

LEMMA TearCorrect == Spec => [](StateOK /\ IdleInv /\ (~Races => AloneInv) /\ (~Races => TearInv))
  BY TypedInit, TypedStep, AloneInit, AloneStep, TearInit, TearStep, PTL DEF Spec

\* "Let us cleanup the ssl library when the library is unloaded" (SSL.initialize): after
\* JNI_OnUnload neither the table of BIO methods nor an engine, keys or locks are left,
\* whatever calls were made and wherever they failed.
THEOREM TornDownCorrect == Spec => []TornDown
  <1>1. StateOK /\ IdleInv /\ (~Races => AloneInv) /\ (~Races => TearInv) => TornDown
    <2> SUFFICES ASSUME StateOK, IdleInv, AloneInv, TearInv, ~OutOfMemory, library = "unloaded"
                 PROVE  ssl.methods # "live" /\ ~ssl.engine /\ ~ssl.ui /\ ~ssl.keys /\ ~ssl.locks
      BY DEF TornDown
    <2>1. \A c \in Cleanups : ~Has(c)
      BY DEF TearInv, Has
    <2>2. ~Busy
      <3>1. Idle.pc \notin Working
        BY IdleCall DEF Working
      <3> QED BY <3>1 DEF IdleInv, Busy
    <2>3. ~(ssl.initialized > 0) /\ ~ssl.locks
      BY <2>1, <2>2 DEF TearInv, Cleanups
    <2>4. ssl.initialized \in Nat
      BY DEF StateOK, SslT
    <2>5. ssl.initialized = 0
      BY <2>3, <2>4
    <2> QED BY <2>3, <2>5 DEF TearInv
  <1> QED BY <1>1, TearCorrect, PTL

-----------------------------------------------------------------------------
(* The table of BIO methods.                                               *)

\* A table that is freed while the library is loaded was freed by a call that failed at
\* its keys; a call that has no table yet, and one that fails, find none that is live
\* unless they made it.
FreedCall(t) ==
    /\ In(t, {"setup", "engine"}) => ssl.methods # "live"
    /\ In(t, {"error"}) /\ ssl.methods = "live" => failed # "no"
    /\ In(t, {"error"}) /\ ssl.methods = "freed" => failed = "keys, then engine"

FreedInv ==
    /\ failed \in Failures
    /\ library \in {"absent", "loaded"} /\ ssl.methods = "freed" => failed # "no"
    /\ ssl.methods = "freed twice" => failed = "keys, then engine"
    /\ \A t \in Threads : FreedCall(t)

LEMMA FreedCallStep ==
    ASSUME StateOK, IdleInv, AloneInv, TearInv, FreedInv, NEW t \in Threads,
           initialize0(t) \/ CreatePool(t) \/ SSL_initialize(t)
    PROVE  FreedInv'
  <1> USE DEF At
  <1>0. /\ program' = program /\ library' = library /\ library = "loaded" /\ call[t].pc # "idle"
        /\ CallInv(t) /\ FreedCall(t)
        /\ ssl \in SslT /\ ssl.initialized \in Nat /\ call[t] \in CallT
    BY InLoaded DEF initialize0, CreatePool, SSL_initialize, ReadInitialized, WriteInitialized,
       ssl_thread_setup, LoadEngine, tcn_init_app_state_idx, AllocateIndex, init_bio_methods,
       SSL_TMP_KEYS_INIT, RegisterCleanup, InitializeFails, StateOK, AloneInv, FreedInv, SslT
  \* It is enough to look at the call of t.
  <1>k. ASSUME \A u \in Threads \ {t} : call'[u] = call[u], FreedCall(t)'
        PROVE  \A u \in Threads : FreedCall(u)'
    <2>1. \A u \in Threads \ {t} : call'[u].pc = "idle"
      BY <1>0, <1>k DEF AloneInv
    <2>2. \A u \in Threads \ {t} : FreedCall(u)'
      BY <2>1 DEF FreedCall, In
    <2> QED BY <1>k, <2>2
  \* A step that neither fails nor touches the table.
  <1>s. ASSUME ssl'.methods = ssl.methods, failed' = failed,
               \A u \in Threads \ {t} : call'[u] = call[u],
               call'[t].pc \notin {"setup", "engine", "error"}
        PROVE  FreedInv'
    <2>1. FreedCall(t)'
      BY <1>s DEF FreedCall, In
    <2> QED BY <1>0, <1>k, <1>s, <2>1 DEF FreedInv
  <1>4. CASE initialize0(t)
    <2>1. PICK pc \in {"entered", "no pool"} : Goto(t, pc)
      BY <1>4 DEF initialize0
    <2>2. Moves(t, pc) /\ UNCHANGED <<ssl, failed>>
      BY <1>4, <2>1, GotoEffect DEF initialize0, tls, Pcs
    <2> QED BY <2>1, <2>2, <1>s DEF Moves
  <1>5. CASE CreatePool(t)
    <2>1. UNCHANGED <<ssl, failed>>
      BY <1>5 DEF CreatePool, tls
    <2>2. call'[t].pc \in {"entered", "idle"} /\ \A u \in Threads \ {t} : call'[u] = call[u]
      BY <1>5, GotoEffect, ReturnEffect, IdleCall DEF CreatePool, Pcs, Moves
    <2> QED BY <2>1, <2>2, <1>s
  <1>6. CASE ReadInitialized(t)
    <2>1. UNCHANGED <<ssl, failed>>
      BY <1>6 DEF ReadInitialized, tls
    <2>2. CASE pool
      <3>1. call' = [call EXCEPT ![t] = [pc |-> "read", engine |-> call[t].engine, old |-> ssl.initialized]]
        BY <1>6, <2>2, ReadEffect DEF ReadInitialized
      <3>2. call'[t].pc = "read" /\ \A u \in Threads \ {t} : call'[u] = call[u]
        BY <3>1 DEF StateOK
      <3> QED BY <2>1, <3>2, <1>s
    <2>3. CASE ~pool
      <3>0. Return(t, FALSE)
        BY <1>6, <2>3 DEF ReadInitialized
      <3> QED BY <2>1, <3>0, <1>s, ReturnEffect, IdleCall
    <2> QED BY <2>2, <2>3
  <1>7. CASE WriteInitialized(t)
    <2>1. /\ call[t].pc = "read" /\ call[t].old = ssl.initialized /\ failed' = failed
          /\ ssl' = [ssl EXCEPT !.initialized = ssl.initialized + 1]
      BY <1>0, <1>7 DEF WriteInitialized, CallInv, In
    <2>2. ssl.initialized + 1 \in Nat
      BY <1>0
    <2>3. ssl'.methods = ssl.methods
      BY <1>0, <2>1, <2>2, SslInitialized
    <2>4. CASE AlreadyInitialized(t)
      <3>1. Return(t, TRUE)
        BY <1>7, <2>4 DEF WriteInitialized
      <3> QED BY <2>1, <2>3, <3>1, <1>s, ReturnEffect, IdleCall
    <2>5. CASE ~AlreadyInitialized(t)
      <3>1. Goto(t, "setup") /\ ~(ssl.initialized > 0)
        BY <1>7, <2>1, <2>5 DEF WriteInitialized, AlreadyInitialized
      <3>2. ssl.initialized = 0
        BY <1>0, <3>1
      <3>3. ssl.methods # "live"
        BY <3>2 DEF TearInv
      <3>4. Moves(t, "setup")
        BY <3>1, GotoEffect DEF Pcs
      <3>5. FreedCall(t)'
        BY <2>3, <3>3, <3>4 DEF FreedCall, In, Moves
      <3> QED BY <1>0, <1>k, <2>1, <2>3, <3>4, <3>5 DEF FreedInv, Moves
    <2> QED BY <2>4, <2>5
  <1>8. CASE ssl_thread_setup(t)
    <2>1. ssl'.methods = ssl.methods /\ failed' = failed /\ call[t].pc = "setup" /\ Goto(t, "engine")
      BY <1>0, <1>8, SslLocks DEF ssl_thread_setup
    <2>2. Moves(t, "engine")
      BY <2>1, GotoEffect DEF Pcs
    <2>3. FreedCall(t)'
      BY <1>0, <2>1, <2>2 DEF FreedCall, In, Moves
    <2> QED BY <1>0, <1>k, <2>1, <2>2, <2>3 DEF FreedInv, Moves
  <1>9. CASE LoadEngine(t)
    <2>1. ssl'.methods = ssl.methods /\ call[t].pc = "engine"
      BY <1>9, EngineEffect DEF LoadEngine
    <2>2. CASE Goto(t, "index") /\ failed' = failed
      <3>1. Moves(t, "index")
        BY <2>2, GotoEffect DEF Pcs
      <3> QED BY <2>1, <2>2, <3>1, <1>s DEF Moves
    <2>3. CASE Goto(t, "error") /\ failed' = (IF failed = "no" THEN "no" ELSE "keys, then engine")
      <3>1. Moves(t, "error")
        BY <2>3, GotoEffect DEF Pcs
      <3>2. ssl.methods # "live" /\ (ssl.methods = "freed" => failed # "no")
        BY <1>0, <2>1 DEF FreedCall, In, FreedInv
      <3>3. FreedCall(t)'
        BY <2>1, <2>3, <3>1, <3>2 DEF FreedCall, In, Moves
      <3>4. failed' \in Failures
        BY <2>3 DEF FreedInv, Failures
      <3> QED BY <1>0, <1>k, <2>1, <2>3, <3>1, <3>3, <3>4 DEF FreedInv, Moves
    <2> QED BY <1>9, <2>2, <2>3, EngineEffect
  <1>10. CASE tcn_init_app_state_idx(t)
    <2>1. PICK pc \in {"no index", "methods"} : Goto(t, pc)
      BY <1>10 DEF tcn_init_app_state_idx
    <2>2. Moves(t, pc) /\ UNCHANGED <<ssl, failed>>
      BY <1>10, <2>1, GotoEffect DEF tcn_init_app_state_idx, tls, Pcs
    <2> QED BY <2>1, <2>2, <1>s DEF Moves
  <1>11. CASE AllocateIndex(t)
    <2>1. Moves(t, "methods") /\ UNCHANGED <<ssl, failed>>
      BY <1>11, GotoEffect DEF AllocateIndex, Pcs
    <2> QED BY <2>1, <1>s DEF Moves
  <1>12. CASE init_bio_methods(t)
    <2>1. /\ HasMethodTable => ssl'.methods = "live"
          /\ ~HasMethodTable => ssl'.methods = ssl.methods
      BY <1>12, MethodsEffect
    <2>2. Moves(t, "keys") /\ failed' = failed
      BY <1>12, GotoEffect DEF init_bio_methods, Pcs
    <2>3. FreedCall(t)'
      BY <2>2 DEF FreedCall, In, Moves
    <2> QED BY <1>0, <1>k, <2>1, <2>2, <2>3 DEF FreedInv, Moves
  <1>13. CASE SSL_TMP_KEYS_INIT(t)
    <2>1. ssl'.methods = ssl.methods /\ call[t].pc = "keys"
      BY <1>13, KeysEffect DEF SSL_TMP_KEYS_INIT
    <2>2. CASE Goto(t, "register") /\ failed' = failed
      <3>1. Moves(t, "register")
        BY <2>2, GotoEffect DEF Pcs
      <3> QED BY <2>1, <2>2, <3>1, <1>s DEF Moves
    <2>3. CASE Goto(t, "error") /\ failed' = (IF failed = "no" THEN "keys" ELSE failed)
      <3>1. Moves(t, "error")
        BY <2>3, GotoEffect DEF Pcs
      <3>2. ssl.methods \in {"live", "NULL"}
        BY <1>0, <2>1 DEF CallInv, In, TearInv
      <3>3. FreedCall(t)'
        BY <2>1, <2>3, <3>1, <3>2 DEF FreedCall, In, Moves
      <3>4. failed' \in Failures
        BY <2>3 DEF FreedInv, Failures
      <3> QED BY <1>0, <1>k, <2>1, <2>3, <3>1, <3>2, <3>3, <3>4 DEF FreedInv, Moves
    <2> QED BY <1>13, <2>2, <2>3, KeysEffect
  <1>14. CASE RegisterCleanup(t)
    <2>1. UNCHANGED <<ssl, failed>> /\ Return(t, TRUE)
      BY <1>14 DEF RegisterCleanup, tls
    <2> QED BY <2>1, <1>s, ReturnEffect, IdleCall
  <1>15. CASE InitializeFails(t)
    <2>1. failed' = failed /\ call[t].pc = "error" /\ ssl' = ssl_init_cleanup(ssl) /\ Return(t, FALSE)
      BY <1>15 DEF InitializeFails
    <2>2. ssl.initialized > 0
      BY <1>0, <2>1 DEF CallInv, In, Working
    <2>3. ssl'.methods = free_bio_methods(ssl.methods)
      BY <1>0, <2>1, <2>2, CleanupEffect
    <2>4. /\ ssl'.methods = "freed" => failed # "no"
          /\ ssl'.methods = "freed twice" => failed = "keys, then engine"
      BY <1>0, <2>1, <2>3 DEF free_bio_methods, FreedCall, In, FreedInv, TearInv, SslT
    <2>5. call'[t].pc = "idle" /\ \A u \in Threads \ {t} : call'[u] = call[u]
      BY <2>1, ReturnEffect, IdleCall
    <2>6. FreedCall(t)'
      BY <2>5 DEF FreedCall, In
    <2> QED BY <1>0, <1>k, <2>1, <2>4, <2>5, <2>6 DEF FreedInv
  <1> QED BY <1>4, <1>5, <1>6, <1>7, <1>8, <1>9, <1>10, <1>11, <1>12, <1>13, <1>14, <1>15 DEF SSL_initialize

LEMMA FreedLibrary ==
    ASSUME StateOK, IdleInv, AloneInv, TearInv, FreedInv,
           JNI_OnLoad \/ JNI_OnUnload \/ RunCleanup \/ UnloadParts
    PROVE  FreedInv'
  <1>1. /\ UNCHANGED <<program, call, failed>> /\ \A t \in Threads : call[t] = Idle
        /\ ssl \in SslT /\ ssl.initialized \in Nat
        /\ library' \in {"absent", "loaded"} => ssl' = ssl /\ library = "absent"
    BY DEF JNI_OnLoad, JNI_OnUnload, RunCleanup, UnloadParts, IdleInv, tls, StateOK, SslT
  <1>2. \A t \in Threads : FreedCall(t)'
    BY <1>1, IdleCall DEF FreedCall, In
  <1>3. ssl'.methods = "freed twice" => ssl.methods = "freed twice"
    <2>1. CASE ssl' = ssl
      BY <2>1
    <2>2. CASE ssl' = ssl_thread_cleanup(ssl)
      BY <1>1, <2>2, SslLocks DEF ssl_thread_cleanup
    <2>3. CASE ssl' = ssl_init_cleanup(ssl)
      <3>1. ssl.initialized = 0 => ssl' = ssl
        BY <1>1, <2>3, CleanupEffect
      <3>2. CASE ssl.initialized > 0
        <4>1. ssl'.methods = free_bio_methods(ssl.methods)
          BY <1>1, <2>3, <3>2, CleanupEffect
        <4>2. ~Busy
          BY <1>1, IdleCall DEF Busy, Working
        <4>3. HasMethodTable => ssl.methods = "live"
          BY <3>2, <4>2 DEF AloneInv, SetUpInv
        <4> QED BY <4>1, <4>3 DEF free_bio_methods
      <3>3. ssl.initialized = 0 \/ ssl.initialized > 0
        BY <1>1
      <3> QED BY <3>1, <3>2, <3>3
    <2> QED BY <2>1, <2>2, <2>3 DEF JNI_OnLoad, JNI_OnUnload, RunCleanup, UnloadParts, tls
  <1> QED BY <1>1, <1>2, <1>3 DEF FreedInv

LEMMA FreedBegin ==
    ASSUME StateOK, FreedInv, NEW t \in Threads, NEW engine \in Engines, initialize(t, engine)
    PROVE  FreedInv'
  <1>1. UNCHANGED <<library, ssl, failed>>
    BY DEF initialize, tls
  <1>2. call'[t].pc = "initialize0" /\ \A u \in Threads \ {t} : call'[u] = call[u]
    BY BeginEffect DEF initialize, StateOK
  <1> QED BY <1>1, <1>2 DEF FreedInv, FreedCall, In

LEMMA FreedStep ==
    StateOK /\ IdleInv /\ (~Races => AloneInv) /\ (~Races => TearInv) /\ (~Races => FreedInv) /\ [Next]_vars
      => (~Races => FreedInv)'
  <1> SUFFICES ASSUME StateOK, IdleInv, ~Races => AloneInv, ~Races => TearInv, ~Races => FreedInv,
                      [Next]_vars, (~Races)'
               PROVE  FreedInv'
    OBVIOUS
  <1>1. program' = program
    BY DEF Next, vars, initialize, initialize0, CreatePool, SSL_initialize, ReadInitialized, WriteInitialized,
       ssl_thread_setup, LoadEngine, tcn_init_app_state_idx, AllocateIndex, init_bio_methods,
       SSL_TMP_KEYS_INIT, RegisterCleanup, InitializeFails, JNI_OnLoad, JNI_OnUnload, RunCleanup, UnloadParts
  <1>2. AloneInv /\ TearInv /\ FreedInv
    BY <1>1 DEF Races
  <1>3. CASE UNCHANGED vars
    BY <1>2, <1>3 DEF vars, tls, FreedInv, FreedCall, In
  <1> QED BY <1>2, <1>3, FreedCallStep, FreedBegin, FreedLibrary DEF Next

\* The table of BIO methods is freed twice only after a call failed at its temporary keys
\* and a later one at its engine (the pointer ssl_init_cleanup leaves behind): for calls
\* that do not overlap, any number of them, whatever they ask for and wherever else they
\* fail, and at the end, the counter ssl_initialized and the new table of every call that
\* gets that far keep a second cleanup from freeing it again.
THEOREM FreedOnceCorrect == Spec => []FreedOnce
  <1>1. Init => FreedInv
    <2> SUFFICES ASSUME Init PROVE FreedInv
      OBVIOUS
    <2>1. ssl.methods = "NULL" /\ failed = "no" /\ \A t \in Threads : call[t].pc = "idle"
      BY DEF Init, Idle
    <2> QED BY <2>1 DEF FreedInv, FreedCall, In, Failures
  <1>2. (~Races => FreedInv) => FreedOnce
    BY DEF FreedOnce, FreedInv
  <1>3. Spec => [](~Races => FreedInv)
    BY <1>1, FreedStep, TearCorrect, PTL DEF Spec
  <1> QED BY <1>2, <1>3, PTL

-----------------------------------------------------------------------------
(* What JNI_OnLoad and JNI_OnUnload leave in the JVM.                      *)

ErrorClasses == {"Exception", "NullPointerException", "IllegalArgumentException",
                 "UnsupportedOperationException", "OutOfMemoryError"}
ContextClasses == {"SSLContext", "SSLTask", "CertificateCallbackTask", "CertificateVerifierTask",
                   "SSLPrivateKeyMethodTask", "SSLPrivateKeyMethodSignTask",
                   "SSLPrivateKeyMethodDecryptTask"}
Natives1 == {"Buffer", "NativeStaticallyReferencedJniMethods", "SSL"}
Natives2 == {"SSLSession", "SSLCredential"}
Names    == {"Library", "String", "byte[]"} \cup ErrorClasses \cup Natives1 \cup ContextClasses \cup Natives2

First(s, n) == {s[i] : i \in 1 .. n}

LEMMA FirstOfConcat ==
    ASSUME NEW s \in Seq(Names), NEW t \in Seq(Names)
    PROVE  /\ s \o t \in Seq(Names) /\ Len(s \o t) = Len(s) + Len(t)
           /\ \A n \in 0 .. Len(s) : First(s \o t, n) = First(s, n)
           /\ First(s \o t, Len(s) + Len(t)) = First(s, Len(s)) \cup First(t, Len(t))
  <1>1. /\ Len(s) \in Nat /\ Len(t) \in Nat
        /\ s \o t \in Seq(Names) /\ Len(s \o t) = Len(s) + Len(t)
        /\ \A i \in 1 .. Len(s) : (s \o t)[i] = s[i]
        /\ \A i \in 1 .. Len(t) : (s \o t)[Len(s) + i] = t[i]
    OBVIOUS
  <1> DEFINE st == s \o t
             k  == Len(s)
             m  == Len(t)
  <1> HIDE DEF st, k, m
  <1>2. /\ k \in Nat /\ m \in Nat
        /\ \A i \in 1 .. k : st[i] = s[i]
        /\ \A i \in 1 .. m : st[k + i] = t[i]
    BY <1>1 DEF st, k, m
  <1>3. \A n \in 0 .. k : First(st, n) = First(s, n)
    <2> SUFFICES ASSUME NEW n \in 0 .. k PROVE First(st, n) = First(s, n)
      OBVIOUS
    <2>1. \A i \in 1 .. n : i \in 1 .. k
      BY <1>2
    <2> QED BY <1>2, <2>1 DEF First
  <1>4. First(st, k + m) = First(s, k) \cup First(t, m)
    <2>1. ASSUME NEW i \in 1 .. k + m
          PROVE  st[i] \in First(s, k) \cup First(t, m)
      <3>1. CASE i <= k
        <4>1. i \in 1 .. k
          BY <1>2, <3>1
        <4> QED BY <1>2, <4>1 DEF First
      <3>2. CASE i > k
        <4>1. i - k \in 1 .. m /\ i = k + (i - k)
          BY <1>2, <3>2
        <4>2. st[i] = t[i - k]
          BY <1>2, <4>1
        <4> QED BY <4>1, <4>2 DEF First
      <3> QED BY <1>2, <3>1, <3>2
    <2>2. ASSUME NEW i \in 1 .. k
          PROVE  s[i] \in First(st, k + m)
      <3>1. i \in 1 .. k + m
        BY <1>2
      <3> QED BY <1>2, <3>1 DEF First
    <2>3. ASSUME NEW i \in 1 .. m
          PROVE  t[i] \in First(st, k + m)
      <3>1. k + i \in 1 .. k + m
        BY <1>2
      <3> QED BY <1>2, <3>1 DEF First
    <2> QED BY <2>1, <2>2, <2>3 DEF First
  <1> QED BY <1>1, <1>3, <1>4 DEF st, k, m

LEMMA FirstMonotone ==
    ASSUME NEW s, NEW n \in Nat, NEW m \in 0 .. n
    PROVE  First(s, m) \subseteq First(s, n)
  <1>1. \A i \in 1 .. m : i \in 1 .. n
    OBVIOUS
  <1> QED BY <1>1 DEF First

LEMMA ErrorSteps ==
    /\ Error_JNI_OnLoad \in Seq(Names) /\ Len(Error_JNI_OnLoad) = 5
    /\ First(Error_JNI_OnLoad, 5) = ErrorClasses /\ Range(Error_JNI_OnLoad) = ErrorClasses
  <1>1. Error_JNI_OnLoad \in Seq(Names) /\ Len(Error_JNI_OnLoad) = 5
    BY DEF Error_JNI_OnLoad, Names, ErrorClasses
  <1>2. 1 .. 5 = {1, 2, 3, 4, 5} /\ DOMAIN Error_JNI_OnLoad = 1 .. 5
    BY DEF Error_JNI_OnLoad
  <1>3. First(Error_JNI_OnLoad, 5) = ErrorClasses
    BY <1>2 DEF First, Error_JNI_OnLoad, ErrorClasses
  <1> QED BY <1>1, <1>2, <1>3 DEF First, Range

LEMMA ContextSteps ==
    /\ SSLContext_JNI_OnLoad \in Seq(Names) /\ Len(SSLContext_JNI_OnLoad) = 7
    /\ First(SSLContext_JNI_OnLoad, 7) = ContextClasses /\ Range(SSLContext_JNI_OnLoad) = ContextClasses
  <1>1. SSLContext_JNI_OnLoad \in Seq(Names) /\ Len(SSLContext_JNI_OnLoad) = 7
    BY DEF SSLContext_JNI_OnLoad, Names, ContextClasses
  <1>2. 1 .. 7 = {1, 2, 3, 4, 5, 6, 7} /\ DOMAIN SSLContext_JNI_OnLoad = 1 .. 7
    BY DEF SSLContext_JNI_OnLoad
  <1>3. First(SSLContext_JNI_OnLoad, 7) = ContextClasses
    BY <1>2 DEF First, SSLContext_JNI_OnLoad, ContextClasses
  <1> QED BY <1>1, <1>2, <1>3 DEF First, Range

LEMMA OtherSteps ==
    LET l == <<"Library">>
        b == <<"Buffer", "NativeStaticallyReferencedJniMethods", "SSL">>
        d == <<"SSLSession", "SSLCredential", "String", "byte[]">>
    IN  /\ l \in Seq(Names) /\ Len(l) = 1 /\ First(l, 1) = {"Library"}
        /\ b \in Seq(Names) /\ Len(b) = 3 /\ First(b, 3) = Natives1
        /\ d \in Seq(Names) /\ Len(d) = 4 /\ First(d, 4) = Natives2 \cup {"String", "byte[]"}
  <1>1. 1 .. 1 = {1} /\ 1 .. 3 = {1, 2, 3} /\ 1 .. 4 = {1, 2, 3, 4}
    OBVIOUS
  <1>3. <<"Library">> \in Seq(Names) /\ First(<<"Library">>, 1) = {"Library"}
    BY <1>1 DEF First, Names
  <1>4. LET b == <<"Buffer", "NativeStaticallyReferencedJniMethods", "SSL">>
        IN  b \in Seq(Names) /\ Len(b) = 3 /\ First(b, 3) = Natives1
    BY <1>1 DEF First, Natives1, Names
  <1>5. LET d == <<"SSLSession", "SSLCredential", "String", "byte[]">>
        IN  d \in Seq(Names) /\ Len(d) = 4 /\ First(d, 4) = Natives2 \cup {"String", "byte[]"}
    BY <1>1 DEF First, Natives2, Names
  <1> QED BY <1>3, <1>4, <1>5

\* What was loaded after n steps: the classes of Error are complete from step 6 on,
\* those of SSLContext from step 16 on.
LEMMA LoadedAfter ==
    /\ Len(LoadSteps) = 20
    /\ \A n \in 0 .. 20 :
         /\ Loaded(n) \subseteq {"Library", "String", "byte[]"} \cup ErrorClasses \cup Natives1
                                  \cup ContextClasses \cup Natives2
         /\ n <= 6  => Loaded(n) \subseteq {"Library"} \cup ErrorClasses
         /\ n >= 6  => ErrorClasses \subseteq Loaded(n)
         /\ n <= 16 => Loaded(n) \subseteq {"Library"} \cup ErrorClasses \cup Natives1 \cup ContextClasses
         /\ n >= 16 => ContextClasses \subseteq Loaded(n)
    /\ Range(LoadSteps) = Names
  <1> DEFINE l == <<"Library">>
             b == <<"Buffer", "NativeStaticallyReferencedJniMethods", "SSL">>
             d == <<"SSLSession", "SSLCredential", "String", "byte[]">>
             q2 == l \o Error_JNI_OnLoad
             q3 == q2 \o b
             q4 == q3 \o SSLContext_JNI_OnLoad
             q5 == q4 \o d
  <1>1. /\ l \in Seq(Names) /\ Len(l) = 1 /\ First(l, 1) = {"Library"}
        /\ b \in Seq(Names) /\ Len(b) = 3 /\ First(b, 3) = Natives1
        /\ d \in Seq(Names) /\ Len(d) = 4 /\ First(d, 4) = Natives2 \cup {"String", "byte[]"}
    BY OtherSteps
  <1>2. LoadSteps = q5
    BY DEF LoadSteps
  <1> HIDE DEF l, b, d, q2, q3, q4, q5
  <1>3. /\ q2 \in Seq(Names) /\ Len(q2) = 6
        /\ First(q2, 6) = {"Library"} \cup ErrorClasses
    <2>1. /\ l \o Error_JNI_OnLoad \in Seq(Names) /\ Len(l \o Error_JNI_OnLoad) = Len(l) + Len(Error_JNI_OnLoad)
          /\ \A n \in 0 .. Len(l) : First(l \o Error_JNI_OnLoad, n) = First(l, n)
          /\ First(l \o Error_JNI_OnLoad, Len(l) + Len(Error_JNI_OnLoad)) = First(l, Len(l)) \cup First(Error_JNI_OnLoad, Len(Error_JNI_OnLoad))
      BY <1>1, ErrorSteps, FirstOfConcat
    <2>2. Len(l) = 1 /\ Len(Error_JNI_OnLoad) = 5 /\ Len(l) + Len(Error_JNI_OnLoad) = 6
      BY <1>1, ErrorSteps
    <2> QED BY <1>1, ErrorSteps, <2>1, <2>2 DEF q2
  <1>4. /\ q3 \in Seq(Names) /\ Len(q3) = 9
        /\ First(q3, 9) = {"Library"} \cup ErrorClasses \cup Natives1
        /\ \A n \in 0 .. 6 : First(q3, n) = First(q2, n)
    <2>1. /\ q2 \o b \in Seq(Names) /\ Len(q2 \o b) = Len(q2) + Len(b)
          /\ \A n \in 0 .. Len(q2) : First(q2 \o b, n) = First(q2, n)
          /\ First(q2 \o b, Len(q2) + Len(b)) = First(q2, Len(q2)) \cup First(b, Len(b))
      BY <1>1, <1>3, FirstOfConcat
    <2>2. Len(q2) = 6 /\ Len(b) = 3 /\ Len(q2) + Len(b) = 9
      BY <1>1, <1>3
    <2> QED BY <1>1, <1>3, <2>1, <2>2 DEF q3
  <1>5. /\ q4 \in Seq(Names) /\ Len(q4) = 16
        /\ First(q4, 16) = {"Library"} \cup ErrorClasses \cup Natives1 \cup ContextClasses
        /\ \A n \in 0 .. 9 : First(q4, n) = First(q3, n)
    <2>1. /\ q3 \o SSLContext_JNI_OnLoad \in Seq(Names) /\ Len(q3 \o SSLContext_JNI_OnLoad) = Len(q3) + Len(SSLContext_JNI_OnLoad)
          /\ \A n \in 0 .. Len(q3) : First(q3 \o SSLContext_JNI_OnLoad, n) = First(q3, n)
          /\ First(q3 \o SSLContext_JNI_OnLoad, Len(q3) + Len(SSLContext_JNI_OnLoad)) = First(q3, Len(q3)) \cup First(SSLContext_JNI_OnLoad, Len(SSLContext_JNI_OnLoad))
      BY <1>4, ContextSteps, FirstOfConcat
    <2>2. Len(q3) = 9 /\ Len(SSLContext_JNI_OnLoad) = 7 /\ Len(q3) + Len(SSLContext_JNI_OnLoad) = 16
      BY <1>4, ContextSteps
    <2> QED BY <1>4, ContextSteps, <2>1, <2>2 DEF q4
  <1>6. /\ q5 \in Seq(Names) /\ Len(q5) = 20
        /\ First(q5, 20) = {"Library"} \cup ErrorClasses \cup Natives1 \cup ContextClasses
                             \cup (Natives2 \cup {"String", "byte[]"})
        /\ \A n \in 0 .. 16 : First(q5, n) = First(q4, n)
    <2>1. /\ q4 \o d \in Seq(Names) /\ Len(q4 \o d) = Len(q4) + Len(d)
          /\ \A n \in 0 .. Len(q4) : First(q4 \o d, n) = First(q4, n)
          /\ First(q4 \o d, Len(q4) + Len(d)) = First(q4, Len(q4)) \cup First(d, Len(d))
      BY <1>1, <1>5, FirstOfConcat
    <2>2. Len(q4) = 16 /\ Len(d) = 4 /\ Len(q4) + Len(d) = 20
      BY <1>1, <1>5
    <2> QED BY <1>1, <1>5, <2>1, <2>2 DEF q5
  <1>7. \A n \in 0 .. 20 : Loaded(n) = First(q5, n)
    <2> SUFFICES ASSUME NEW n \in 0 .. 20 PROVE Loaded(n) = First(q5, n)
      OBVIOUS
    <2>b. q5 \in Seq(Names) /\ Len(q5) = 20
      BY <1>6
    <2>0. \A i \in 1 .. 20 : q5[i] \in Names
      BY <2>b, ElementOfSeq
    <2>a. n \in Int /\ 1 \in Int /\ \A i \in 1 .. n : i \in 1 .. 20
      OBVIOUS
    <2>1. /\ n \in Int /\ 1 \in Int /\ \A i \in 1 .. n : q5[i] \in Names
      BY <2>0, <2>a
    <2>2. /\ SubSeq(q5, 1, n) \in Seq(Names)
          /\ Len(SubSeq(q5, 1, n)) = IF 1 <= n THEN n - 1 + 1 ELSE 0
          /\ \A i \in 1 .. n - 1 + 1 : SubSeq(q5, 1, n)[i] = q5[1 + i - 1]
      BY <2>1, SubSeqProperties
    <2> DEFINE p == SubSeq(q5, 1, n)
    <2>3. p \in Seq(Names) /\ Len(p) = n /\ \A i \in 1 .. n : p[i] = q5[i]
      BY <2>1, <2>2
    <2> HIDE DEF p
    <2>4. DOMAIN p = 1 .. n
      BY <2>3
    <2>5. Range(p) = First(q5, n)
      BY <2>3, <2>4 DEF Range, First
    <2> QED BY <1>2, <2>5 DEF Loaded, p
  <1>8. Range(LoadSteps) = First(q5, 20)
    <2>1. DOMAIN q5 = 1 .. 20
      BY <1>6
    <2> QED BY <1>2, <2>1 DEF Range, First
  <1>9. First(q5, 6) = {"Library"} \cup ErrorClasses
    BY <1>3, <1>4, <1>5, <1>6
  <1>10. First(q5, 16) = {"Library"} \cup ErrorClasses \cup Natives1 \cup ContextClasses
    BY <1>5, <1>6
  <1>11. ASSUME NEW n \in 0 .. 20
         PROVE  /\ First(q5, n) \subseteq First(q5, 20)
                /\ n <= 6  => First(q5, n) \subseteq First(q5, 6)
                /\ n >= 6  => First(q5, 6) \subseteq First(q5, n)
                /\ n <= 16 => First(q5, n) \subseteq First(q5, 16)
                /\ n >= 16 => First(q5, 16) \subseteq First(q5, n)
    BY FirstMonotone
  <1>12. First(q5, 20) = Names
    BY <1>6 DEF Names
  <1> QED BY <1>2, <1>6, <1>7, <1>8, <1>9, <1>10, <1>11, <1>12

LEMMA Unloads ==
    /\ OnUnLoad("Error") = ErrorClasses /\ OnUnLoad("SSLContext") = ContextClasses
    /\ \A part \in Natives1 \cup Natives2 : part \in Parts /\ OnUnLoad(part) = {part}
    /\ "Error" \in Parts /\ "SSLContext" \in Parts
  <1>1. OnUnLoad("Error") = ErrorClasses
    BY ErrorSteps DEF OnUnLoad, Loads
  <1>2. OnUnLoad("SSLContext") = ContextClasses
    BY ContextSteps DEF OnUnLoad, Loads
  <1>3. ASSUME NEW part \in Natives1 \cup Natives2
        PROVE  part \in Parts /\ OnUnLoad(part) = {part}
    <2>1. part \in Parts /\ part # "Error" /\ part # "SSLContext"
      BY DEF Natives1, Natives2, Parts
    <2>2. Loads(part) = <<part>>
      BY <2>1 DEF Loads
    <2>3. DOMAIN <<part>> = {1} /\ <<part>>[1] = part
      OBVIOUS
    <2> QED BY <2>1, <2>2, <2>3 DEF OnUnLoad, Range
  <1> QED BY <1>1, <1>2, <1>3 DEF Parts

\* At most one part is half loaded when a step fails, and it is the one that is left.
LEMMA FailedLoad ==
    ASSUME NEW n \in 0 .. 20
    PROVE  \E part \in Parts :
             Loaded(n) \ (WithPool \cup {"byte[]", "Library"} \cup UNION {OnUnLoad(p) : p \in OnLoadCalled(n)})
               \subseteq OnUnLoad(part) \cup {"String"}
  <1> DEFINE U == UNION {OnUnLoad(p) : p \in OnLoadCalled(n)}
             J == Loaded(n) \ (WithPool \cup {"byte[]", "Library"} \cup U)
  <1>1. \A p \in Parts : OnUnLoad(p) \subseteq Loaded(n) => OnUnLoad(p) \subseteq U
    BY DEF OnLoadCalled
  <1>2. \A x \in Natives1 \cup Natives2 : x \notin J
    <2> SUFFICES ASSUME NEW x \in Natives1 \cup Natives2, x \in Loaded(n) PROVE x \in U
      OBVIOUS
    <2>1. x \in Parts /\ OnUnLoad(x) = {x}
      BY Unloads
    <2> QED BY <1>1, <2>1
  <1> HIDE DEF U
  <1>3. J \subseteq Loaded(n) /\ "Library" \notin J /\ "byte[]" \notin J /\ \A x \in U : x \notin J
    OBVIOUS
  <1> HIDE DEF J
  <1>4. CASE n <= 6
    <2>1. J \subseteq ErrorClasses
      BY <1>3, <1>4, LoadedAfter
    <2> QED BY <2>1, Unloads DEF J, U
  <1>5. CASE n >= 6 /\ n <= 16
    <2>1. ErrorClasses \subseteq U
      BY <1>1, <1>5, Unloads, LoadedAfter
    <2>2. Loaded(n) \subseteq {"Library"} \cup ErrorClasses \cup Natives1 \cup ContextClasses
      BY <1>5, LoadedAfter
    <2>3. J \subseteq ContextClasses
      BY <1>2, <1>3, <2>1, <2>2
    <2> QED BY <2>3, Unloads DEF J, U
  <1>6. CASE n >= 16
    <2>0. n >= 6
      BY <1>6
    <2>1. ErrorClasses \subseteq U /\ ContextClasses \subseteq U
      BY <1>1, <1>6, <2>0, Unloads, LoadedAfter
    <2>2. Loaded(n) \subseteq {"Library", "String", "byte[]"} \cup ErrorClasses \cup Natives1
                                \cup ContextClasses \cup Natives2
      BY LoadedAfter
    <2>3. J \subseteq {"String"}
      BY <1>2, <1>3, <2>1, <2>2
    <2> QED BY <2>3, Unloads DEF J, U
  <1> QED BY <1>4, <1>5, <1>6

\* The pool exists once a call of Library.initialize got beyond its beginning.
ClassInv ==
    /\ calls \in Nat
    /\ library = "absent" => calls = 0
    /\ library \in {"loaded", "unloading"} => jni \subseteq Range(LoadSteps)
    /\ ~OutOfMemory /\ library \in {"loaded", "unloading"} /\ calls > 0 =>
         pool \/ \E t \in Threads : call[t].pc \in {"initialize0", "no pool"}
    /\ LoadUndone
    /\ ClassesReleased

LEMMA ClassesCall ==
    ASSUME StateOK, IdleInv, ClassInv, NEW t \in Threads,
           initialize0(t) \/ CreatePool(t) \/ SSL_initialize(t)
    PROVE  ClassInv'
  <1> USE DEF At
  <1>1. /\ UNCHANGED <<program, library, jni, calls>> /\ library = "loaded" /\ call[t].pc # "idle"
    BY InLoaded DEF initialize0, CreatePool, SSL_initialize, ReadInitialized, WriteInitialized,
       ssl_thread_setup, LoadEngine, tcn_init_app_state_idx, AllocateIndex, init_bio_methods,
       SSL_TMP_KEYS_INIT, RegisterCleanup, InitializeFails
  <1>2. \A u \in Threads \ {t} : call'[u] = call[u]
    BY DEF initialize0, CreatePool, SSL_initialize, ReadInitialized, WriteInitialized, Goto, Return,
       ssl_thread_setup, LoadEngine, tcn_init_app_state_idx, AllocateIndex, init_bio_methods,
       SSL_TMP_KEYS_INIT, RegisterCleanup, InitializeFails, StateOK
  <1>3. OutOfMemory' <=> OutOfMemory
    BY <1>1 DEF OutOfMemory
  <1>4. ~OutOfMemory /\ (pool \/ \E u \in Threads : call[u].pc \in {"initialize0", "no pool"})
          => (pool' \/ \E u \in Threads : call'[u].pc \in {"initialize0", "no pool"})
    <2>1. CASE initialize0(t)
      <3>1. PICK pc \in {"entered", "no pool"} : Goto(t, pc) /\ (pc = "entered" => pool /\ pool')
        BY <2>1 DEF initialize0
      <3>2. call'[t].pc = pc
        BY <3>1, GotoEffect DEF Moves, Pcs
      <3> QED BY <3>1, <3>2
    <2>2. CASE CreatePool(t)
      BY <2>2 DEF CreatePool
    <2>3. CASE SSL_initialize(t)
      <3>1. pool' = pool /\ call[t].pc \notin {"initialize0", "no pool"}
        BY <2>3 DEF SSL_initialize, ReadInitialized, WriteInitialized,
           ssl_thread_setup, LoadEngine, tcn_init_app_state_idx, AllocateIndex, init_bio_methods,
           SSL_TMP_KEYS_INIT, RegisterCleanup, InitializeFails
      <3> QED BY <1>2, <3>1
    <2> QED BY <2>1, <2>2, <2>3
  <1> QED BY <1>1, <1>3, <1>4 DEF ClassInv, LoadUndone, ClassesReleased

LEMMA ClassesBegin ==
    ASSUME StateOK, IdleInv, ClassInv, NEW t \in Threads, NEW engine \in Engines, initialize(t, engine)
    PROVE  ClassInv'
  <1>1. UNCHANGED <<program, library, jni>> /\ library = "loaded" /\ calls' = calls + 1 /\ calls \in Nat
    BY DEF initialize, ClassInv
  <1>2. calls' \in Nat
    BY <1>1
  <1>3. call'[t].pc = "initialize0"
    BY BeginEffect
  <1> QED BY <1>1, <1>2, <1>3 DEF ClassInv, LoadUndone, ClassesReleased

LEMMA ClassesLibrary ==
    ASSUME StateOK, IdleInv, ClassInv, JNI_OnLoad \/ JNI_OnUnload \/ RunCleanup \/ UnloadParts
    PROVE  ClassInv'
  <1>1. UNCHANGED <<program, call, calls>> /\ calls \in Nat
    BY DEF JNI_OnLoad, JNI_OnUnload, RunCleanup, UnloadParts, ClassInv
  <1>2. OutOfMemory' <=> OutOfMemory
    BY <1>1 DEF OutOfMemory
  <1>3. CASE JNI_OnLoad
    <2>1. library = "absent" /\ ~(calls > 0) /\ calls = 0
      <3>1. library = "absent" /\ calls = 0
        BY <1>3 DEF JNI_OnLoad, ClassInv
      <3> QED BY <3>1
    <2>2. CASE library' = "loaded" /\ jni' = Range(LoadSteps)
      BY <1>1, <2>1, <2>2 DEF ClassInv, LoadUndone, ClassesReleased
    <2>3. CASE library' = library /\ \E n \in 0 .. Len(LoadSteps) - 1 :
                 jni' = Loaded(n) \ (WithPool \cup {"byte[]", "Library"}
                                     \cup UNION {OnUnLoad(part) : part \in OnLoadCalled(n)})
      <3>1. PICK n \in 0 .. Len(LoadSteps) - 1 :
                 jni' = Loaded(n) \ (WithPool \cup {"byte[]", "Library"}
                                     \cup UNION {OnUnLoad(part) : part \in OnLoadCalled(n)})
        BY <2>3
      <3>2. Len(LoadSteps) = 20
        BY LoadedAfter
      <3>3. n \in 0 .. 20
        BY <3>2
      <3>4. \E part \in Parts : jni' \subseteq OnUnLoad(part) \cup {"String"}
        BY <3>1, <3>3, FailedLoad
      <3> QED BY <1>1, <2>1, <2>3, <3>4 DEF ClassInv, LoadUndone, ClassesReleased
    <2> QED BY <1>3, <2>2, <2>3 DEF JNI_OnLoad
  <1>4. CASE JNI_OnUnload
    <2>1. UNCHANGED <<jni, pool>> /\ library = "loaded" /\ library' = "unloading"
      BY <1>4 DEF JNI_OnUnload
    <2> QED BY <1>1, <1>2, <2>1 DEF ClassInv, LoadUndone, ClassesReleased
  <1>5. CASE RunCleanup
    <2>1. UNCHANGED <<jni, pool, library>> /\ library = "unloading"
      BY <1>5 DEF RunCleanup
    <2> QED BY <1>1, <1>2, <2>1 DEF ClassInv, LoadUndone, ClassesReleased
  <1>6. CASE UnloadParts
    <2>1. /\ library = "unloading" /\ library' = "unloaded"
          /\ jni' = jni \ (WithPool \cup {"byte[]"} \cup UNION {OnUnLoad(part) : part \in Parts})
      BY <1>6 DEF UnloadParts
    <2>2. ASSUME ~OutOfMemory, calls > 0
          PROVE  jni' \subseteq {"Library"}
      <3>1. \A t \in Threads : call[t].pc = "idle"
        BY <2>1, IdleCall DEF IdleInv
      <3>2. pool
        BY <2>1, <2>2, <3>1 DEF ClassInv
      <3>3. WithPool = {"String"}
        BY <3>2 DEF WithPool
      <3>4. jni \subseteq {"Library", "String", "byte[]"} \cup ErrorClasses \cup Natives1
                            \cup ContextClasses \cup Natives2
        <4>1. jni \subseteq Range(LoadSteps)
          BY <2>1 DEF ClassInv
        <4> QED BY <4>1, LoadedAfter DEF Names
      <3>5. ErrorClasses \cup Natives1 \cup ContextClasses \cup Natives2
              \subseteq UNION {OnUnLoad(part) : part \in Parts}
        BY Unloads
      <3> QED BY <2>1, <3>3, <3>4, <3>5
    <2> QED BY <1>1, <1>2, <2>1, <2>2 DEF ClassInv, LoadUndone, ClassesReleased
  <1> QED BY <1>3, <1>4, <1>5, <1>6

LEMMA ClassesCorrect == Spec => []ClassInv
  <1>1. Init => ClassInv
    <2> SUFFICES ASSUME Init PROVE ClassInv
      OBVIOUS
    <2>1. calls = 0 /\ library = "absent" /\ jni = {}
      BY DEF Init
    <2>2. ~(calls > 0) /\ calls \in Nat
      BY <2>1
    <2>3. \E part \in Parts : jni \subseteq OnUnLoad(part) \cup {"String"}
      BY <2>1, Unloads
    <2> QED BY <2>1, <2>2, <2>3 DEF ClassInv, LoadUndone, ClassesReleased
  <1>2. StateOK /\ IdleInv /\ ClassInv /\ [Next]_vars => ClassInv'
    <2> SUFFICES ASSUME StateOK, IdleInv, ClassInv, [Next]_vars PROVE ClassInv'
      OBVIOUS
    <2>1. CASE UNCHANGED vars
      BY <2>1 DEF vars, ClassInv, LoadUndone, ClassesReleased, OutOfMemory, Races
    <2> QED BY <2>1, ClassesCall, ClassesBegin, ClassesLibrary DEF Next
  <1> QED BY <1>1, <1>2, TypedCorrect, PTL DEF Spec

\* Nothing is left of the library when it is unloaded, but the natives of Library; and a
\* load that fails leaves at most what the part that failed had done, and the class String.
THEOREM CleanedOnUnloadCorrect == Spec => []CleanedOnUnload
  <1>1. ClassInv /\ TornDown => CleanedOnUnload
    BY DEF ClassInv, CleanedOnUnload
  <1> QED BY <1>1, ClassesCorrect, TornDownCorrect, PTL

-----------------------------------------------------------------------------
(* The type invariant.                                                     *)

\* While there is a pool, apr_initialize was called more often than apr_terminate.
AprInv ==
    /\ apr \in Nat
    /\ pool /\ library \in {"absent", "loaded"} => apr > 0
    /\ jni \subseteq Range(LoadSteps)
    /\ calls \in 0 .. MaxCalls

\* The history of failures changes where a call fails.
LEMMA FailuresStep == StateOK /\ failed \in Failures /\ [Next]_vars => (failed \in Failures)'
  <1> SUFFICES ASSUME StateOK, failed \in Failures, [Next]_vars PROVE failed' \in Failures
    OBVIOUS
  <1>1. ASSUME NEW t \in Threads, LoadEngine(t) \/ SSL_TMP_KEYS_INIT(t)
        PROVE  failed' \in Failures
    BY <1>1, EngineEffect, KeysEffect DEF Failures
  <1>2. ASSUME NEW t \in Threads, SSL_initialize(t), ~LoadEngine(t), ~SSL_TMP_KEYS_INIT(t)
        PROVE  failed' = failed
    BY <1>2 DEF SSL_initialize, ReadInitialized, WriteInitialized, ssl_thread_setup, tcn_init_app_state_idx,
       AllocateIndex, init_bio_methods, RegisterCleanup, InitializeFails, tls
  <1>3. ASSUME NEW t \in Threads, initialize0(t) \/ CreatePool(t) \/ \E engine \in Engines : initialize(t, engine)
        PROVE  failed' = failed
    BY <1>3 DEF initialize0, CreatePool, initialize, tls
  <1>4. JNI_OnLoad \/ JNI_OnUnload \/ RunCleanup \/ UnloadParts \/ UNCHANGED vars => failed' = failed
    BY DEF JNI_OnLoad, JNI_OnUnload, RunCleanup, UnloadParts, tls, vars
  <1> QED BY <1>1, <1>2, <1>3, <1>4 DEF Next

LEMMA AprStep == StateOK /\ IdleInv /\ AprInv /\ [Next]_vars => AprInv'
  <1> SUFFICES ASSUME StateOK, IdleInv, AprInv, [Next]_vars PROVE AprInv'
    OBVIOUS
  <1>1. CASE UNCHANGED vars
    BY <1>1 DEF vars, AprInv
  <1>2. CASE JNI_OnLoad
    <2>1. jni' \subseteq Range(LoadSteps)
      <3>1. CASE jni' = Range(LoadSteps)
        BY <3>1
      <3>2. CASE \E n \in 0 .. Len(LoadSteps) - 1 : jni' \subseteq Loaded(n)
        <4>1. PICK n \in 0 .. Len(LoadSteps) - 1 : jni' \subseteq Loaded(n)
          BY <3>2
        <4>2. Len(LoadSteps) = 20 /\ Range(LoadSteps) = Names
          BY LoadedAfter
        <4>3. n \in 0 .. 20
          BY <4>2
        <4>4. Loaded(n) \subseteq Names
          BY <4>3, LoadedAfter DEF Names
        <4> QED BY <4>1, <4>2, <4>4
      <3> QED BY <1>2, <3>1, <3>2 DEF JNI_OnLoad
    <2> QED BY <1>2, <2>1 DEF JNI_OnLoad, AprInv
  <1>3. CASE JNI_OnUnload
    <2>1. /\ library = "loaded" /\ library' = "unloading" /\ UNCHANGED <<jni, pool, calls>>
          /\ apr' = IF pool THEN apr - 1 ELSE apr
      BY <1>3 DEF JNI_OnUnload, apr_terminate
    <2>2. apr \in Nat /\ (pool => apr > 0)
      BY <2>1 DEF AprInv
    <2>3. apr' \in Nat
      BY <2>1, <2>2
    <2> QED BY <2>1, <2>3 DEF AprInv
  <1>4. CASE RunCleanup
    BY <1>4 DEF RunCleanup, AprInv
  <1>5. CASE UnloadParts
    BY <1>5 DEF UnloadParts, AprInv
  <1>6. ASSUME NEW t \in Threads, NEW engine \in Engines, initialize(t, engine)
        PROVE  AprInv'
    <2>1. UNCHANGED <<library, jni, apr, pool>> /\ calls' = calls + 1 /\ calls < MaxCalls
      BY <1>6 DEF initialize
    <2>2. calls \in 0 .. MaxCalls
      BY DEF AprInv
    <2>3. calls' \in 0 .. MaxCalls
      BY <2>1, <2>2, CallsAssumption
    <2> QED BY <2>1, <2>3 DEF AprInv
  <1>7. ASSUME NEW t \in Threads, CreatePool(t)
        PROVE  AprInv'
    <2>1. UNCHANGED <<library, jni, calls>> /\ apr' = apr + 1 /\ apr \in Nat
      BY <1>7 DEF CreatePool, AprInv
    <2>2. apr' \in Nat /\ apr' > 0
      BY <2>1
    <2> QED BY <2>1, <2>2 DEF AprInv
  <1>8. ASSUME NEW t \in Threads, initialize0(t) \/ SSL_initialize(t)
        PROVE  AprInv'
    <2>1. UNCHANGED <<library, jni, apr, pool, calls>>
      BY <1>8 DEF initialize0, SSL_initialize, ReadInitialized, WriteInitialized,
         ssl_thread_setup, LoadEngine, tcn_init_app_state_idx, AllocateIndex, init_bio_methods,
         SSL_TMP_KEYS_INIT, RegisterCleanup, InitializeFails
    <2> QED BY <2>1 DEF AprInv
  <1> QED BY <1>1, <1>2, <1>3, <1>4, <1>5, <1>6, <1>7, <1>8 DEF Next

\* The type invariant, of calls that overlap as well: apr_terminate is never called more
\* often than apr_initialize, although threads that race for the pool each call the latter.
THEOREM TypeCorrect == Spec => []TypeOK
  <1>1. Init => AprInv
    <2> SUFFICES ASSUME Init PROVE AprInv
      OBVIOUS
    <2>1. apr = 0 /\ calls = 0 /\ ~pool /\ jni = {}
      BY DEF Init
    <2>2. apr \in Nat /\ calls \in 0 .. MaxCalls
      BY <2>1, CallsAssumption
    <2> QED BY <2>1, <2>2 DEF AprInv
  <1>3. Init => failed \in Failures
    BY DEF Init, Failures
  <1>2. StateOK /\ AprInv /\ failed \in Failures => TypeOK
    BY DEF StateOK, AprInv, TypeOK, SslT, CallT, Pcs, Cleanups
  <1> QED BY <1>1, <1>2, <1>3, AprStep, FailuresStep, TypedCorrect, PTL DEF Spec
=============================================================================
