-------------------------- MODULE ContextCallbacks --------------------------
(***************************************************************************)
(* The Java callbacks of an SSLContext (sslcontext.c, cert_compress.c) and *)
(* the life of the context.  A callback lives in a slot of tcn_ssl_ctxt_t: *)
(* a JNI global reference to the Java object and the id of its method.  A  *)
(* setter fills the two fields, sets a C function on the SSL_CTX that      *)
(* calls them, and deletes the reference it replaced.  The function of the *)
(* host name matcher finds the context in an argument that is set on the   *)
(* SSL_CTX by a call of its own.  No lock is taken, while handshakes on    *)
(* other threads run the C functions.                                      *)
(*                                                                         *)
(* One thread configures the context, one step at a time; a connection has *)
(* one callback running at a time.  A connection holds the SSL_CTX, not    *)
(* the tcn_ssl_ctxt_t.                                                     *)
(***************************************************************************)
EXTENDS Naturals, FiniteSets

CONSTANTS
    Programs,    \* the programs that use the context
    Objects,     \* the Java objects that are set as callbacks
    Handles,     \* what tells apart the references made for one slot
    SSLs,        \* connections
    Null         \* NULL

Setters == {"verifier", "cert_requested", "certificate", "private_key", "session_cache", "sni", "keylog"}
Compression == {"zlib", "brotli", "zstd"}
Slots == Setters \cup Compression

\* A program: the callbacks it sets, whether it runs on BoringSSL (or AWS-LC),
\* and whether it replaces a callback, frees the context, or sets a first host name
\* matcher while there are connections.
ASSUME ProgramsAssumption ==
    Programs \subseteq [callbacks : SUBSET Slots, BoringSSL : BOOLEAN,
                        replaces : BOOLEAN, freesEarly : BOOLEAN, matchesLate : BOOLEAN]
ASSUME NullAssumption == Null \notin Objects \cup Slots

VARIABLES
    program,  \* the one that runs
    alive,    \* the tcn_ssl_ctxt_t has not been freed
    slot,     \* the reference in a slot
    method,   \* the object whose class the method id of a slot is of
    live,     \* the object a reference refers to, Null if it was deleted
    lib,      \* the slots whose C function is set on the SSL_CTX
    arg,      \* whether the argument of ssl_servername_cb is
    setter,   \* where the thread that configures the context is
    ssls,     \* the connections that exist
    calling,  \* the slot whose C function a connection runs, and the reference it loaded
    bad       \* what went wrong in a call: "null", "stale", "mismatch"

vars == <<program, alive, slot, method, live, lib, arg, setter, ssls, calling, bad>>

\* The C functions that look at the field before they call it.
NullChecked ==
    {"private_key", "session_cache"} \cup Compression \cup IF program.BoringSSL THEN {"verifier"} ELSE {}

Refs == Slots \X Handles
NoRef == <<Null, Null>>

Idle   == [pc |-> "idle", slot |-> Null, obj |-> Null, ref |-> NoRef, old |-> NoRef]
NoCall == [slot |-> Null, ref |-> NoRef]

Init ==
    /\ program \in Programs
    /\ alive = TRUE
    /\ slot = [s \in Slots |-> NoRef]
    /\ method = [s \in Slots |-> Null]
    /\ live = [r \in Refs |-> Null]
    /\ lib = {}
    /\ arg = FALSE
    /\ setter = Idle
    /\ ssls = {}
    /\ calling = [c \in SSLs |-> NoCall]
    /\ bad = {}

Delete(r) == IF r = NoRef THEN live ELSE [live EXCEPT ![r] = Null]

-----------------------------------------------------------------------------
(* The setters of one object, or of NULL.                                  *)

\* What the program does to the callback old of a slot while there are connections.
MayBegin(s, old) ==
    IF old # NoRef THEN program.replaces ELSE s = "sni" => program.matchesLate

\* Mutant: the C function is set before the fields it reads.
BeginInstalls(s, obj) ==
    /\ alive /\ setter.pc = "idle"
    /\ s \in program.callbacks
    /\ ssls # {} => MayBegin(s, slot[s])
    /\ lib' = lib \cup {s}
    /\ setter' = [pc |-> "begun", slot |-> s, obj |-> obj, ref |-> NoRef, old |-> slot[s]]
    /\ UNCHANGED <<program, alive, slot, method, live, arg, ssls, calling, bad>>

\* The caller replaces a callback, and sets a first matcher, between connections
\* unless the program does so meanwhile.
Begin(s, obj) ==
    /\ alive /\ setter.pc = "idle"
    /\ s \in program.callbacks
    /\ ssls # {} => MayBegin(s, slot[s])
    /\ setter' = [pc |-> "begun", slot |-> s, obj |-> obj, ref |-> NoRef, old |-> slot[s]]
    /\ UNCHANGED <<program, alive, slot, method, live, lib, arg, ssls, calling, bad>>

setCertVerifyCallback(obj)    == Begin("verifier", obj)
setCertRequestedCallback(obj) == Begin("cert_requested", obj)
setCertificateCallback(obj)   == Begin("certificate", obj)
setPrivateKeyMethod0(obj)     == Begin("private_key", obj)
setSSLSessionCache(obj)       == Begin("session_cache", obj)
setSniHostnameMatcher(obj)    == Begin("sni", obj)
setKeyLogCallback(obj)        == Begin("keylog", obj)

\* GetMethodID finds no method, or NewGlobalRef has no memory: an exception is
\* thrown before anything changes.
Throw ==
    /\ setter.pc = "begun" /\ setter.obj # Null
    /\ setter' = Idle
    /\ UNCHANGED <<program, alive, slot, method, live, lib, arg, ssls, calling, bad>>

\* The two fields.
StoreObject ==
    /\ setter.pc = "begun" /\ setter.obj # Null /\ setter.slot \in Setters
    /\ \E r \in {setter.slot} \X Handles :
          /\ live[r] = Null
          /\ live' = [live EXCEPT ![r] = setter.obj]
          /\ slot' = [slot EXCEPT ![setter.slot] = r]
    /\ method' = [method EXCEPT ![setter.slot] = setter.obj]
    /\ setter' = [setter EXCEPT !.pc = "stored"]
    /\ UNCHANGED <<program, alive, lib, arg, ssls, calling, bad>>

StoreNull ==
    /\ setter.pc = "begun" /\ setter.obj = Null
    /\ slot' = [slot EXCEPT ![setter.slot] = NoRef]
    /\ method' = [method EXCEPT ![setter.slot] = Null]
    /\ setter' = [setter EXCEPT !.pc = "stored"]
    /\ UNCHANGED <<program, alive, live, lib, arg, ssls, calling, bad>>

\* SSL_CTX_set_..., with the C function or with NULL, and for the matcher the call
\* that sets its argument, to the context or to NULL.
SetOnLibrary ==
    /\ setter.pc = "stored"
    /\ lib' = IF setter.obj = Null THEN lib \ {setter.slot} ELSE lib \cup {setter.slot}
    /\ setter' = [setter EXCEPT !.pc = IF setter.slot = "sni" THEN "called" ELSE "installed"]
    /\ UNCHANGED <<program, alive, slot, method, live, arg, ssls, calling, bad>>

SetArg ==
    /\ setter.pc = "called"
    /\ arg' = (setter.obj # Null)
    /\ setter' = [setter EXCEPT !.pc = "installed"]
    /\ UNCHANGED <<program, alive, slot, method, live, lib, ssls, calling, bad>>

\* Mutant: the reference that was replaced is kept.
DeleteOldLeaks ==
    /\ setter.pc = "installed"
    /\ setter' = Idle
    /\ UNCHANGED <<program, alive, slot, method, live, lib, arg, ssls, calling, bad>>

DeleteOld ==
    /\ setter.pc = "installed"
    /\ live' = Delete(setter.old)
    /\ setter' = Idle
    /\ UNCHANGED <<program, alive, slot, method, lib, arg, ssls, calling, bad>>

-----------------------------------------------------------------------------
(* addCertificateCompressionAlgorithm0, which sets the C functions first.  *)

\* A NULL algorithm is refused before anything happens.
addCertificateCompressionAlgorithm0(s, obj) == obj # Null /\ Begin(s, obj)

NewAlgorithmRef ==
    /\ setter.pc = "begun" /\ setter.slot \in Compression
    /\ \E r \in {setter.slot} \X Handles :
          /\ live[r] = Null
          /\ live' = [live EXCEPT ![r] = setter.obj]
          /\ setter' = [setter EXCEPT !.pc = "referenced", !.ref = r]
    /\ UNCHANGED <<program, alive, slot, method, lib, arg, ssls, calling, bad>>

\* SSL_CTX_add_cert_compression_alg refuses an algorithm it has already.
RefusedByLibrary ==
    /\ setter.pc = "referenced"
    /\ setter.slot \in lib
    /\ live' = Delete(setter.ref)
    /\ setter' = Idle
    /\ UNCHANGED <<program, alive, slot, method, lib, arg, ssls, calling, bad>>

AddToLibrary ==
    /\ setter.pc = "referenced"
    /\ setter.slot \notin lib
    /\ lib' = lib \cup {setter.slot}
    /\ setter' = [setter EXCEPT !.pc = "added"]
    /\ UNCHANGED <<program, alive, slot, method, live, arg, ssls, calling, bad>>

StoreAlgorithm ==
    /\ setter.pc = "added"
    /\ live' = Delete(slot[setter.slot])
    /\ slot' = [slot EXCEPT ![setter.slot] = setter.ref]
    /\ method' = [method EXCEPT ![setter.slot] = setter.obj]
    /\ setter' = Idle
    /\ UNCHANGED <<program, alive, lib, arg, ssls, calling, bad>>

-----------------------------------------------------------------------------
(* Connections.                                                            *)

newSSL(c) ==
    /\ alive
    /\ setter.pc # "idle" => MayBegin(setter.slot, setter.old)
    /\ c \notin ssls
    /\ ssls' = ssls \cup {c}
    /\ UNCHANGED <<program, alive, slot, method, live, lib, arg, setter, calling, bad>>

freeSSL(c) ==
    /\ c \in ssls /\ calling[c] = NoCall
    /\ ssls' = ssls \ {c}
    /\ UNCHANGED <<program, alive, slot, method, live, lib, arg, setter, calling, bad>>

\* What is wrong with the tcn_ssl_ctxt_t that a C function takes its fields from.
NoContext(s) ==
    IF s = "sni" /\ ~arg THEN {"null"} ELSE IF alive THEN {} ELSE {"stale"}

\* The C function loads the reference from the context.  Neither NULL nor a freed
\* context is one to load from; a function that checks returns an error on NULL.
\* The library reads a function and its argument one after the other, here at once:
\* the difference shows where a matcher is unset, by a program that replaces.
LoadCallback(c, s) ==
    /\ c \in ssls /\ calling[c] = NoCall
    /\ s \in lib
    /\ bad' = bad \cup NoContext(s)
    /\ IF NoContext(s) # {} \/ (slot[s] = NoRef /\ s \in NullChecked)
       THEN UNCHANGED calling
       ELSE calling' = [calling EXCEPT ![c] = [slot |-> s, ref |-> slot[s]]]
    /\ UNCHANGED <<program, alive, slot, method, live, lib, arg, setter, ssls>>

\* The C functions that call into Java, one for each slot, the session cache
\* having two and an algorithm its two directions.
verify_callback(c)        == LoadCallback(c, "verifier")
cert_requested(c)         == LoadCallback(c, "cert_requested")
certificate_cb(c)         == LoadCallback(c, "certificate")
tcn_private_key_java(c)   == LoadCallback(c, "private_key")
tcn_new_session_cb(c)     == LoadCallback(c, "session_cache")
tcn_get_session_cb(c)     == LoadCallback(c, "session_cache")
ssl_servername_cb(c)      == LoadCallback(c, "sni")
keylog_cb(c)              == LoadCallback(c, "keylog")
compress(c)               == \E s \in Compression : LoadCallback(c, s)
decompress(c)             == \E s \in Compression : LoadCallback(c, s)

\* What CallVoidMethod and its kin may find wrong with their arguments.
Fault(s, r) ==
    IF ~alive THEN {"stale"}
    ELSE IF r = NoRef THEN {"null"}
    ELSE IF live[r] = Null THEN {"stale"}
    ELSE IF method[s] # live[r] THEN {"mismatch"}
    ELSE {}

\* It passes the reference and the method id to JNI, and returns.
InvokeCallback(c) ==
    /\ calling[c] # NoCall
    /\ bad' = bad \cup Fault(calling[c].slot, calling[c].ref)
    /\ calling' = [calling EXCEPT ![c] = NoCall]
    /\ UNCHANGED <<program, alive, slot, method, live, lib, arg, setter, ssls>>

\* Mutant: a slot is forgotten in the cleanup.
ssl_context_cleanupForgets ==
    /\ alive /\ setter.pc = "idle"
    /\ ssls # {} => program.freesEarly
    /\ alive' = FALSE
    /\ live' = [r \in Refs |-> IF \E s \in Slots \ {"verifier"} : slot[s] = r THEN Null ELSE live[r]]
    /\ slot' = [s \in Slots |-> NoRef]
    /\ method' = [s \in Slots |-> Null]
    /\ UNCHANGED <<program, lib, arg, setter, ssls, calling, bad>>

\* SSLContext.free runs ssl_context_cleanup: the SSL_CTX stays as long as a
\* connection holds it, the slots and the context are gone.
ssl_context_cleanup ==
    /\ alive /\ setter.pc = "idle"
    /\ ssls # {} => program.freesEarly
    /\ alive' = FALSE
    /\ live' = [r \in Refs |-> IF \E s \in Slots : slot[s] = r THEN Null ELSE live[r]]
    /\ slot' = [s \in Slots |-> NoRef]
    /\ method' = [s \in Slots |-> Null]
    /\ UNCHANGED <<program, lib, arg, setter, ssls, calling, bad>>

-----------------------------------------------------------------------------
Next ==
    \/ \E obj \in Objects \cup {Null} :
          \/ setCertVerifyCallback(obj) \/ setCertRequestedCallback(obj)
          \/ setCertificateCallback(obj) \/ setPrivateKeyMethod0(obj)
          \/ setSSLSessionCache(obj) \/ setSniHostnameMatcher(obj) \/ setKeyLogCallback(obj)
    \/ \E s \in Compression, obj \in Objects : addCertificateCompressionAlgorithm0(s, obj)
    \/ Throw \/ StoreObject \/ StoreNull \/ SetOnLibrary \/ SetArg \/ DeleteOld
    \/ NewAlgorithmRef \/ RefusedByLibrary \/ AddToLibrary \/ StoreAlgorithm
    \/ \E c \in SSLs : newSSL(c) \/ freeSSL(c) \/ InvokeCallback(c)
    \/ \E c \in SSLs :
          \/ verify_callback(c) \/ cert_requested(c) \/ certificate_cb(c) \/ tcn_private_key_java(c)
          \/ tcn_new_session_cb(c) \/ tcn_get_session_cb(c)
          \/ ssl_servername_cb(c) \/ keylog_cb(c) \/ compress(c) \/ decompress(c)
    \/ ssl_context_cleanup

Spec == Init /\ [][Next]_vars

-----------------------------------------------------------------------------
(* Properties.                                                             *)

\* Type invariant: the fields of tcn_ssl_ctxt_t, the JNI references, and where
\* the threads are.
TypeOK ==
    /\ program \in Programs
    /\ alive \in BOOLEAN
    /\ slot \in [Slots -> Refs \cup {NoRef}]
    /\ method \in [Slots -> Objects \cup {Null}]
    /\ live \in [Refs -> Objects \cup {Null}]
    /\ lib \subseteq Slots
    /\ arg \in BOOLEAN
    /\ setter \in [pc : {"idle", "begun", "stored", "called", "installed", "referenced", "added"},
                   slot : Slots \cup {Null}, obj : Objects \cup {Null},
                   ref : Refs \cup {NoRef}, old : Refs \cup {NoRef}]
    /\ ssls \subseteq SSLs
    /\ calling \in [SSLs -> [slot : Slots \cup {Null}, ref : Refs \cup {NoRef}]]
    /\ bad \subseteq {"null", "stale", "mismatch"}

\* The references the configuring thread has in its local variables.
InHand ==
    {setter.ref} \cup IF setter.pc \in {"stored", "called", "installed"} THEN {setter.old} ELSE {}

\* No setter and no failure path of one leaks a global reference or leaves a
\* deleted one in a slot, and the cleanup deletes them all: a live reference is
\* in exactly the slot it was made for or on its way in or out of it, and a
\* freed context has none.  At rest, the library calls into the context exactly for
\* the slots that are filled, and the matcher's function with its argument: no error
\* path leaves a C function without its object.
RefsOwned ==
    /\ \A r \in Refs : live[r] # Null <=> (\E s \in Slots : slot[s] = r) \/ r \in InHand
    /\ alive /\ setter.pc = "idle" =>
          lib = {s \in Slots : slot[s] # NoRef} /\ (arg <=> "sni" \in lib)
    /\ ~alive => \A r \in Refs : live[r] = Null

\* Of a program that replaces its callbacks, and sets its first matcher, between
\* connections and frees the context after them, a handshake never passes NULL, a
\* deleted reference or the method id of another class to JNI, although every other
\* callback may be set for the first time while it runs: the fields are filled before
\* the C function that reads them is set, and the functions set earlier check for NULL.
NoStaleCallback ==
    ~program.replaces /\ ~program.freesEarly /\ ~program.matchesLate => bad = {}

\* The same where the first matcher, too, is set while handshakes run
\* (setSniHostnameMatcher).
\* The code does not keep to it: README.md, "Deviations".
FirstMatcherIsSafe == ~program.replaces /\ ~program.freesEarly => bad = {}

=============================================================================
