-------------------------- MODULE LibraryLifecycle --------------------------
(***************************************************************************)
(* Loading, initialising and unloading the native library (jnilib.c,       *)
(* ssl.c, error.c, Library.java): JNI_OnLoad goes through the parts of the *)
(* library and undoes what it did when a step fails, Library.initialize    *)
(* creates the pool and sets up the TLS library once however often it is   *)
(* called, and JNI_OnUnload lets the pool run what was registered with it. *)
(*                                                                         *)
(* The JVM loads one library at a time and unloads it when nothing uses it *)
(* any more.  A library that failed to load is unmapped, its statics with  *)
(* it; jni is what the last attempt left in the JVM.                       *)
(***************************************************************************)
EXTENDS Integers, Sequences, SequencesExt

CONSTANTS
    Programs,    \* the builds and the programs that use them
    Threads,     \* the threads that call Library.initialize
    MaxCalls     \* bound on these calls

Builds  == {"OpenSSL 1.0", "OpenSSL 1.1", "OpenSSL 3", "BoringSSL"}
Engines == {"none", "auto", "named"}
Habits  == {"races", "out of memory"}

\* A program: its build, the engines it asks for, and whether it initialises from
\* several threads at a time or may run out of memory when it creates the pool.
ASSUME ProgramsAssumption ==
    Programs \subseteq [build : Builds, engines : SUBSET Engines, habits : SUBSET Habits]
ASSUME CallsAssumption == MaxCalls \in Nat

VARIABLES
    program,    \* the one that runs
    library,    \* "absent", "loaded", "unloading" or "unloaded"
    jni,        \* the global class references and registered natives the JVM holds
    apr,        \* calls of apr_initialize that are not undone
    pool,       \* tcn_global_pool # NULL
    cleanups,   \* the cleanups registered with the pool, oldest first
    ssl,        \* the statics of ssl.c, and the locks set on the TLS library
    indexes,    \* how often the index of the application state was allocated
    failed,     \* history: where calls failed, as far as the table of BIO methods minds
    call,       \* where a thread is in Library.initialize
    told,       \* the threads to which it returned true
    calls       \* how often it was called

tls  == <<ssl, indexes, failed>>
vars == <<program, library, jni, apr, pool, cleanups, tls, call, told, calls>>

Races       == "races" \in program.habits
OutOfMemory == "out of memory" \in program.habits
Build(b)    == program.build \in b

\* Whether a call failed at its temporary keys, and another at its engine after that.
Failures == {"no", "keys", "keys, then engine"}

Idle == [pc |-> "idle", engine |-> "none", old |-> 0]

Init ==
    /\ program \in Programs
    /\ library = "absent"
    /\ jni = {}
    /\ apr = 0
    /\ pool = FALSE
    /\ cleanups = << >>
    /\ ssl = [initialized |-> 0, methods |-> "NULL", engine |-> FALSE, ui |-> FALSE,
              keys |-> FALSE, locks |-> FALSE]
    /\ indexes = 0
    /\ failed = "no"
    /\ call = [t \in Threads |-> Idle]
    /\ told = {}
    /\ calls = 0

-----------------------------------------------------------------------------
(* JNI_OnLoad and JNI_OnUnload.                                            *)

\* The parts whose OnLoad is called, and what each makes the JVM hold: its natives,
\* by the name of their class, and classes.  (The SSLContext also keeps a copy of
\* the package prefix, from the end of its OnLoad to its OnUnLoad.)
Parts == {"Error", "Buffer", "NativeStaticallyReferencedJniMethods", "SSL", "SSLContext",
          "SSLSession", "SSLCredential"}

Error_JNI_OnLoad ==
    <<"Exception", "NullPointerException", "IllegalArgumentException",
      "UnsupportedOperationException", "OutOfMemoryError">>

SSLContext_JNI_OnLoad ==
    <<"SSLContext", "SSLTask", "CertificateCallbackTask", "CertificateVerifierTask",
      "SSLPrivateKeyMethodTask", "SSLPrivateKeyMethodSignTask",
      "SSLPrivateKeyMethodDecryptTask">>

Loads(part) == CASE part = "Error"      -> Error_JNI_OnLoad
                 [] part = "SSLContext" -> SSLContext_JNI_OnLoad
                 [] OTHER               -> <<part>>

OnUnLoad(part) == Range(Loads(part))

LoadSteps ==
    <<"Library">> \o Error_JNI_OnLoad
                  \o <<"Buffer", "NativeStaticallyReferencedJniMethods", "SSL">>
                  \o SSLContext_JNI_OnLoad
                  \o <<"SSLSession", "SSLCredential", "String", "byte[]">>
Loaded(n) == Range(SubSeq(LoadSteps, 1, n))

\* The flags errorOnLoadCalled, bufferOnLoadCalled, ... when n steps were done.
OnLoadCalled(n) == {part \in Parts : OnUnLoad(part) \subseteq Loaded(n)}

\* What comes with the pool, whether the library is unloaded or fails to load.
WithPool == IF pool THEN {"String"} ELSE {}

JNI_OnLoad ==
    /\ library = "absent"
    /\ \/ library' = "loaded" /\ jni' = Range(LoadSteps)
       \/ \E n \in 0 .. Len(LoadSteps) - 1 :
             jni' = Loaded(n) \ (WithPool \cup {"byte[]", "Library"}
                                 \cup UNION {OnUnLoad(part) : part \in OnLoadCalled(n)})
             /\ UNCHANGED library
    /\ UNCHANGED <<program, apr, pool, cleanups, tls, call, told, calls>>

-----------------------------------------------------------------------------
(* The cleanups.                                                           *)

HasMethodTable == ~Build({"OpenSSL 1.0"})

free_bio_methods(methods) ==
    CASE ~HasMethodTable \/ methods = "NULL" -> methods
      [] methods = "live"                    -> "freed"
      [] OTHER                               -> "freed twice"

\* Mutant: the engine is left to the TLS library.
ssl_init_cleanupNoEngine(s) ==
    IF s.initialized = 0 THEN s
    ELSE [s EXCEPT !.initialized = 0, !.keys = FALSE, !.methods = free_bio_methods(@)]

\* free_bio_methods leaves the pointer as it is.
ssl_init_cleanup(s) ==
    IF s.initialized = 0 THEN s
    ELSE [s EXCEPT !.initialized = 0, !.keys = FALSE, !.methods = free_bio_methods(@),
                   !.engine = FALSE, !.ui = FALSE]

ssl_thread_cleanup(s) == [s EXCEPT !.locks = FALSE]

\* The call that matches apr_initialize.
apr_terminate == IF pool THEN apr - 1 ELSE apr

JNI_OnUnload ==
    /\ library = "loaded"
    /\ \A t \in Threads : call[t] = Idle
    /\ library' = "unloading"
    /\ apr' = apr_terminate
    /\ told' = {}
    /\ UNCHANGED <<program, jni, pool, cleanups, tls, call, calls>>

\* The last apr_terminate destroys all pools, and each runs its cleanups, the newest
\* first.
RunCleanup ==
    /\ library = "unloading" /\ apr = 0
    /\ cleanups # << >>
    /\ cleanups' = Front(cleanups)
    /\ ssl' = IF Last(cleanups) = "ssl_init_cleanup" THEN ssl_init_cleanup(ssl) ELSE ssl_thread_cleanup(ssl)
    /\ UNCHANGED <<program, library, jni, apr, pool, indexes, failed, call, told, calls>>

\* The rest of JNI_OnUnload.
UnloadParts ==
    /\ library = "unloading"
    /\ apr > 0 \/ cleanups = << >>
    /\ library' = "unloaded"
    /\ pool' = FALSE
    /\ jni' = jni \ (WithPool \cup {"byte[]"} \cup UNION {OnUnLoad(part) : part \in Parts})
    /\ UNCHANGED <<program, apr, cleanups, tls, call, told, calls>>

-----------------------------------------------------------------------------
(* Library.initialize, by a thread t.                                      *)

At(t, pc)   == call[t].pc = pc
Goto(t, pc) == call' = [call EXCEPT ![t].pc = pc] /\ UNCHANGED told
Return(t, success) ==
    /\ call' = [call EXCEPT ![t] = Idle]
    /\ told' = IF success THEN told \cup {t} ELSE told

\* The library is loaded already or by this call; its version of APR and that it has
\* threads are those of the build.
initialize(t, engine) ==
    /\ library = "loaded"
    /\ calls < MaxCalls
    /\ call[t] = Idle
    /\ Races \/ \A u \in Threads : call[u] = Idle
    /\ engine \in program.engines
    /\ call' = [call EXCEPT ![t] = [Idle EXCEPT !.pc = "initialize0", !.engine = engine]]
    /\ calls' = calls + 1
    /\ UNCHANGED <<program, library, jni, apr, pool, cleanups, tls, told>>

initialize0(t) ==
    /\ At(t, "initialize0")
    /\ Goto(t, IF pool THEN "entered" ELSE "no pool")
    /\ UNCHANGED <<program, library, jni, apr, pool, cleanups, tls, calls>>

CreatePool(t) ==
    /\ At(t, "no pool")
    /\ apr' = apr + 1
    /\ \/ pool' = TRUE /\ Goto(t, "entered")
       \/ OutOfMemory /\ pool' = FALSE /\ Return(t, FALSE)
    /\ UNCHANGED <<program, library, jni, cleanups, tls, calls>>

\* ssl_initialized++ of an int that is neither atomic nor locked.
ReadInitialized(t) ==
    /\ At(t, "entered")
    /\ IF pool
       THEN call' = [call EXCEPT ![t].pc = "read", ![t].old = ssl.initialized] /\ UNCHANGED told
       ELSE Return(t, FALSE)
    /\ UNCHANGED <<program, library, jni, apr, pool, cleanups, tls, calls>>

\* Mutant: the library is set up by every call.
AlreadyInitializedNever(t) == FALSE

AlreadyInitialized(t) == call[t].old > 0

WriteInitialized(t) ==
    /\ At(t, "read")
    /\ ssl' = [ssl EXCEPT !.initialized = call[t].old + 1]
    /\ IF AlreadyInitialized(t) THEN Return(t, TRUE) ELSE Goto(t, "setup")
    /\ UNCHANGED <<program, library, jni, apr, pool, cleanups, indexes, failed, calls>>

ssl_thread_setup(t) ==
    /\ At(t, "setup")
    /\ IF Build({"OpenSSL 1.0"})
       THEN /\ ssl' = [ssl EXCEPT !.locks = TRUE]
            /\ cleanups' = Append(cleanups, "ssl_thread_cleanup")
       ELSE UNCHANGED <<ssl, cleanups>>
    /\ Goto(t, "engine")
    /\ UNCHANGED <<program, library, jni, apr, pool, indexes, failed, calls>>

\* The named engine is not found, found but refused, without a UI_METHOD, with one
\* that cannot be filled in, or set up.  Nothing is kept of the engine "auto".
LoadEngine(t) ==
    /\ At(t, "engine")
    /\ IF call[t].engine = "named" /\ ~Build({"BoringSSL"})
       THEN \E outcome \in {"not found", "refused", "no UI", "UI refused", "set up"} :
               /\ ssl' = [ssl EXCEPT !.engine = outcome # "not found",
                                     !.ui = IF outcome \in {"not found", "refused"} THEN @
                                            ELSE outcome # "no UI"]
               /\ Goto(t, IF outcome = "set up" THEN "index" ELSE "error")
               /\ failed' = IF outcome = "set up" \/ failed = "no" THEN failed
                            ELSE "keys, then engine"
       ELSE Goto(t, "index") /\ UNCHANGED <<ssl, failed>>
    /\ UNCHANGED <<program, library, jni, apr, pool, cleanups, indexes, calls>>

tcn_init_app_state_idx(t) ==
    /\ At(t, "index")
    /\ Goto(t, IF indexes = 0 THEN "no index" ELSE "methods")
    /\ UNCHANGED <<program, library, jni, apr, pool, cleanups, tls, calls>>

AllocateIndex(t) ==
    /\ At(t, "no index")
    /\ indexes' = indexes + 1
    /\ Goto(t, "methods")
    /\ UNCHANGED <<program, library, jni, apr, pool, cleanups, ssl, failed, calls>>

\* Mutant: the table is only made if there is none, by the look of the pointer.
NewMethodsOnce(methods) == IF methods = "NULL" THEN "live" ELSE methods

NewMethods(methods) == "live"

init_bio_methods(t) ==
    /\ At(t, "methods")
    /\ ssl' = [ssl EXCEPT !.methods = IF HasMethodTable THEN NewMethods(@) ELSE @]
    /\ Goto(t, "keys")
    /\ UNCHANGED <<program, library, jni, apr, pool, cleanups, indexes, failed, calls>>

\* Some of the four keys may exist when another cannot be made.
SSL_TMP_KEYS_INIT(t) ==
    /\ At(t, "keys")
    /\ IF Build({"OpenSSL 3"}) THEN Goto(t, "register") /\ UNCHANGED <<ssl, failed>>
       ELSE \E some, success \in BOOLEAN :
               /\ success => some
               /\ ssl' = [ssl EXCEPT !.keys = some]
               /\ Goto(t, IF success THEN "register" ELSE "error")
               /\ failed' = IF ~success /\ failed = "no" THEN "keys" ELSE failed
    /\ UNCHANGED <<program, library, jni, apr, pool, cleanups, indexes, calls>>

RegisterCleanup(t) ==
    /\ At(t, "register")
    /\ cleanups' = Append(cleanups, "ssl_init_cleanup")
    /\ Return(t, TRUE)
    /\ UNCHANGED <<program, library, jni, apr, pool, tls, calls>>

\* The label error of SSL.initialize: an exception is thrown.
InitializeFails(t) ==
    /\ At(t, "error")
    /\ ssl' = ssl_init_cleanup(ssl)
    /\ Return(t, FALSE)
    /\ UNCHANGED <<program, library, jni, apr, pool, cleanups, indexes, failed, calls>>

SSL_initialize(t) ==
    \/ ReadInitialized(t) \/ WriteInitialized(t) \/ ssl_thread_setup(t) \/ LoadEngine(t)
    \/ tcn_init_app_state_idx(t) \/ AllocateIndex(t) \/ init_bio_methods(t)
    \/ SSL_TMP_KEYS_INIT(t) \/ RegisterCleanup(t) \/ InitializeFails(t)

Next ==
    \/ JNI_OnLoad \/ JNI_OnUnload \/ RunCleanup \/ UnloadParts
    \/ \E t \in Threads, engine \in Engines : initialize(t, engine)
    \/ \E t \in Threads : initialize0(t) \/ CreatePool(t) \/ SSL_initialize(t)

Spec == Init /\ [][Next]_vars

-----------------------------------------------------------------------------
(* What makes the life of the library correct.                             *)

\* Type invariant of the statics; apr_terminate is never called more often than
\* apr_initialize.
TypeOK ==
    /\ program \in Programs
    /\ library \in {"absent", "loaded", "unloading", "unloaded"}
    /\ jni \subseteq Range(LoadSteps)
    /\ apr \in Nat
    /\ pool \in BOOLEAN
    /\ cleanups \in Seq({"ssl_init_cleanup", "ssl_thread_cleanup"})
    /\ ssl \in [initialized : Nat, methods : {"NULL", "live", "freed", "freed twice"},
                engine : BOOLEAN, ui : BOOLEAN, keys : BOOLEAN, locks : BOOLEAN]
    /\ indexes \in Nat
    /\ failed \in Failures
    /\ call \in [Threads -> [pc : {"idle", "initialize0", "no pool", "entered", "read", "setup",
                                   "engine", "index", "no index", "methods", "keys", "register", "error"},
                             engine : Engines, old : Nat]]
    /\ told \subseteq Threads
    /\ calls \in 0 .. MaxCalls

\* Once Library.initialize returned true the TLS library is set up and stays so until
\* it is unloaded, whatever later calls ask for and however many failed before; and
\* the index under which contexts and connections keep their state never moves.
\* (Of calls that do not overlap.)
InitializedWhenTrue ==
    ~Races /\ told # {} =>
        /\ pool /\ ssl.initialized > 0 /\ indexes = 1
        /\ HasMethodTable => ssl.methods = "live"
        /\ Build({"OpenSSL 1.0"}) => ssl.locks

\* JNI_OnLoad, when one of its steps fails, undoes every part it had loaded: what is
\* left is of the part that failed, or the class String.
LoadUndone ==
    library = "absent" => \E part \in Parts : jni \subseteq OnUnLoad(part) \cup {"String"}

\* After JNI_OnUnload nothing is left of any call of initialize, failed ones included.
TornDown ==
    ~Races /\ ~OutOfMemory /\ library = "unloaded" =>
        ssl.methods # "live" /\ ~ssl.engine /\ ~ssl.ui /\ ~ssl.keys /\ ~ssl.locks

\* Nor of JNI_OnLoad, but the natives of Library.
ClassesReleased ==
    ~Races /\ ~OutOfMemory /\ library = "unloaded" /\ calls > 0 => jni \subseteq {"Library"}

\* "Let us cleanup the ssl library when the library is unloaded" (SSL.initialize), and
\* what JNI_OnLoad did with it, whether it fails half-way or the library is unloaded.
\* (Of calls that do not overlap and do not fail to create the pool.)
CleanedOnUnload == LoadUndone /\ TornDown /\ ClassesReleased

\* The table of BIO methods is freed twice only if one call failed at its temporary
\* keys, which frees the table and leaves its pointer behind, and a later one at its
\* engine, before it made a table of its own: through every other sequence of failing,
\* succeeding and repeated calls, and at the end, ssl_init_cleanup frees it once.  (Of
\* calls that do not overlap.)
FreedOnce == ~Races /\ ssl.methods = "freed twice" => failed = "keys, then engine"

\* What ssl_init_cleanup and free_bio_methods are written for.  The code does not keep to
\* it: README.md, "Deviations".
NeverFreedTwice == ~Races => ssl.methods # "freed twice"

\* "Call unload methods if needed to ensure we correctly release any resources"
\* (Library_JNI_OnLoad).  The code does not keep to it: README.md, "Deviations".
FailedLoadReleasesAll == library = "absent" => jni = {}
=============================================================================
