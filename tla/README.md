# netty-tcnative in TLA+

netty-tcnative is the native half of Netty's OpenSSL support: Java classes
(`openssl-classes`) over a JNI library in C (`openssl-dynamic/src/main/c`) that
drives OpenSSL, LibreSSL, BoringSSL or AWS-LC. There is no thread of its own
and no persistent state. What makes it hard is where its pieces meet: a TLS
library that calls back in the middle of a handshake, Java code that runs on
other threads and may come back late, memory that is lent to C for the time of
a call, JNI references and library objects counted by hand, and two builds
(`OPENSSL_IS_BORINGSSL`) that take different paths through the same functions.

This directory holds TLA+ modules that model those parts, the configurations
TLC checks them with, and proofs that TLAPS checks. Paths below are relative to
`src/openssl-dynamic/src/main/c/` (C) and
`src/openssl-classes/src/main/java/io/netty/internal/tcnative/` (Java).

## Inventory

| Component | State it keeps | Operations | Meets | What is hard |
|---|---|---|---|---|
| ByteBuffer BIO (`ssl.c`) | a ring of queued bytes, the address and length of a direct buffer Java lent | create, set, clear, flush, read, write, destroy | called by Java between calls into the TLS library and by the library inside them | wrap-around of the ring, partial flushes, a buffer taken back, counts that two callers rely on |
| Handshake callbacks and tasks (`sslcontext.c`, `ssl.c`, `SSLTask.java` and its subclasses) | the task slot of an SSL, fields of the task object | verify, certificate and private key callbacks, `getTask`, `run`, `runAsync`, `setUseTasks`, `freeSSL` | handshake thread, executor threads, Java callbacks | results read from unsynchronised fields, retries, tasks run twice, callbacks that throw, an SSL freed meanwhile |
| Session ticket keys (`sslcontext.c`) | an array of keys and its length under an rwlock, atomic counters | `setSessionTicketKeys0`, `ssl_tlsext_ticket_key_cb` and its two lookups | handshakes of all connections of a context, the thread that rotates | a rotation during a handshake, copies that are used after the unlock |
| ALPN and NPN (`sslutils.c`, `sslcontext.c`, `SSLContext.java`) | two lists in wire format with their lengths | `setAlpnProtos`, `setNpnProtos`, `select_next_proto` | the TLS library's selection callbacks | a walk over bytes with two cursors, memory behind the list, a failed allocation |
| Callbacks and life of a context (`sslcontext.c`, `cert_compress.c`) | for each callback a global reference and a method id, the C function on the SSL_CTX | eight setters, the C functions, `make`, `free` | handshakes on any thread | order of stores, references deleted under a running callback, error paths |
| Verification level and depth (`sslcontext.c`, `ssl.c`, `sslutils.c`) | a level and a depth per context and per connection, the mode in the library | `SSLContext.setVerify`, `SSL.setVerify`, `setCertVerifyCallback`, the handshake | the library's own copy of the mode | calls in any order, a verifier removed, depth at its limits |
| Key material and credentials (`ssl.c`, `sslcredential.c`, `sslutils.c`) | reference counts of X509, EVP_PKEY, CRYPTO_BUFFER and SSL_CREDENTIAL objects | `parseX509Chain`, `parsePrivateKey`, `setKeyMaterial`, `setKeyMaterialClientSide`, `SSLCredential.*` | Java holds raw pointers, connections hold references | failures half-way, chains appended twice |
| Certificates, keys and passwords of a context (`sslcontext.c`, `sslutils.c`) | the certificate and key of the SSL_CTX, the password pointer | `setCertificate`, `setCertificateBio`, `setCertificateChainFile`, `setCACertificateBio` | PEM readers that call back for the password | a password that stays behind |
| Library load and unload (`jnilib.c`, `ssl.c`, `Library.java`) | which classes are loaded, global pool, `ssl_initialized`, lock array, BIO method tables | `JNI_OnLoad`, `JNI_OnUnload`, `initialize0`, `SSL.initialize`, cleanup | class loaders, threads that initialise at the same time | a step of many that fails, a second call while the first runs |
| Sessions (`sslsession.c`, `ssl.c`, `sslcontext.c`, `SSLSessionCache.java`) | reference count of an SSL_SESSION, mode of the internal cache | `upRef`, `free`, `setSession`, the two cache callbacks, `setSessionCacheMode`, `setSessionCacheSize` | connections, the library's cache, a cache in Java, each on its own thread | who owns a reference at each moment, a session dropped meanwhile, a mode overwritten |
| Protocol versions (`sslcontext.c`, `ssl.c`) | the method and the `SSL_OP_NO_` options of a context, and a connection's copy | `make`, `setOptions`, `clearOptions` | the library's negotiation | three kinds of libraries, versions switched off one by one, gaps |
| Contexts, connections and OCSP (`sslcontext.c`, `ssl.c`) | the memory of contexts, connections, BIOs and responses; the OCSP callback and its argument | `make`, `free`, `newSSL`, `bioNewByteBuffer`, `freeSSL`, `enableOcsp`, `disableOcsp`, `setOcspResponse`, `getOcspResponse`, `getHandshakeCount` | handshakes that read what another thread sets | failures half-way, two fields that belong together, a stub that answers for both sides |
| Getters, pass-through setters, constants, exceptions (`ssl.c`, `sslcontext.c`, `native_constants.c`, `error.c`) | none | one library call each | - | - |

What makes each of them correct is stated as properties in its module; the
hazards, each at its line with the properties that cover it, are in
`PROJECT.json`.

## Modules

Every state variable carries the name of the C or Java field it stands for
where there is one, and every operation of the code is an action of the same
name. `PROJECT.json` maps each definition to its lines.

| Module | Models | Proofs | TLC |
|---|---|---|---|
| `ByteStream` | abstract: a bounded queue of bytes between a writer and a reader | - | as `ImplementsStream` |
| `ByteBufferBIO` | the BIO | `ByteBufferBIOProofs` | `MCByteBufferBIO` |
| `SSLTasks` | the callbacks of a handshake and the task slot | `HandshakeProofs` | `MCSSLTasks` |
| `KeyRing` | abstract: a ring of keys replaced and looked up in one step | - | as `ImplementsKeyRing` |
| `TicketKeys` | rotation and use of ticket keys | `TicketKeysProofs` | `MCTicketKeys` |
| `ProtocolSelection` | ALPN and NPN lists and the selection | `NegotiationProofs` | `MCProtocolSelection` |
| `ContextCallbacks` | the callback slots and the life of a context | `ContextCallbacksProofs` | `MCContextCallbacks` |
| `VerifyConfig` | level, depth and verifier | `NegotiationProofs` | `MCVerifyConfig` |
| `KeyMaterial` | certificates, keys, credentials, passwords and the references to them | `HandshakeProofs` | `MCKeyMaterial` |
| `LibraryLifecycle` | load, initialisation and unload of the library | `LibraryLifecycleProofs` | `MCLibraryLifecycle` |
| `Sessions` | references to sessions, the cache callbacks and the cache mode | `SessionsProofs` | `MCSessions` |
| `ProtocolVersions` | operators: what `make` enables and what a handshake settles on | - | by `Connections` |
| `Connections` | contexts and connections, their memory, versions and OCSP responses; extends `ProtocolVersions` | `ConnectionsProofs` | `MCConnections` |

A definition whose comment begins with "Mutant" is a plausible error in the
definition that follows it. It is used by no specification; `PROJECT.json`
names the property that breaks when the definition is replaced by it.

### How state and actions correspond to the code

**`ByteBufferBIO`.** `nonApplicationBuffer`, its offset and its length, `buffer`,
`bufferLength` and `bufferIsSSLWriteSink` are the fields of
`struct TCN_bio_bytebuffer`. A byte is its number in the stream it belongs to,
so that a lost, repeated or reordered byte shows. A JNI call or a BIO method is
one action (`bioNewByteBuffer`, `bioSetByteBuffer`, `bioFlushByteBuffer`,
`bio_java_bytebuffer_read`, and so on); a write is split into the three ways it
can go: nothing done, queued in the ring, into the lent buffer behind what is
queued. A copy that would start outside the ring kills the process
(`status = "crashed"`). `sent`, `delivered`, `consumed` and `received` record
the streams and are read by no guard but the bounds. `ByteStream` is the promise: a
queue of bytes of bounded size that the writer appends to and the reader takes
from.

**`SSLTasks`.** One handshake is a sequence of phases, each a verify, certificate,
sign or decrypt callback. The slot is `state->ssl_task` with its `consumed` flag;
`ref` are the JNI global references. Each branch of the three callback functions
is an action (no slot yet and tasks on, tasks off, not done yet, done, no
memory). `SSLTask.run` is four kinds of steps on a thread of its own:
`runTask`, the Java callback's `onResult`, the moment a field of the task becomes
visible to other threads, and `completeCallback`: the fields are plain Java
fields, so without a hand-over (`completeCallback` before the next call of the
handshake) they become visible in any order. `caller` fixes what the Java code
around it does: toggle `setUseTasks`, throw, poll the handshake before the task
is done, run a task twice, run it on two threads at once, fetch tasks with
`SSL.getAsyncTask`, whose cast fails for the tasks that are no `AsyncTask`.
`SSLTask.run` looks at `didRun`, a plain field, and then sets it: nothing keeps a
second thread from finding it unset as well, so `runTask` of a caller that "races"
may begin again while the task is in `didRun`. `running` counts the calls of the
Java callback that have not ended; the answer that ends last stays.

**`TicketKeys`.** `heap` is the memory arrays of keys live in; `ticket_keys` and
`ticket_keys_len` are the two fields of `tcn_ssl_ctxt_t`; `readers` and `writer`
are the rwlock. A rotation is allocate and fill, lock, free the old array, store
and unlock; the callback is call, read-lock, copy and unlock, use. An address
that was freed is given out again. `seen` collects the lists in force during a
call, so that the answer can be compared with that of an atomic lookup. `KeyRing`
states the same as a specification: a ring replaced in one step, and a call that
is asked, decided in one step and returned. The mapping takes `configured`, the
keys of the last rotation that stored them, for the ring, and reads the decision
off the locals of the callback once it has given up the lock.

**`ProtocolSelection`.** The lists are bytes, because the two cursors of
`select_next_proto` (`i` and `supported_protos`) count them; what lies behind a
block of memory is one of `Junk`, and a read behind that faults. Each round of
the loop is one action. `protocolsToWireFormat` writes the low byte of a length,
as `ByteArrayOutputStream.write` does.

**`ContextCallbacks`.** Ten slots: seven callbacks and three certificate
compression algorithms. A setter is the steps between which another thread can
look: store the reference and the method id, set the C function, delete the old
reference; the algorithms go in the order of their own function. The host name
matcher has one step more: `ssl_servername_cb` gets the context as an argument
that is set after the function (`SetOnLibrary`, then `SetArg`; `arg` tells whether
it is there), while the other functions find the context through the SSL. A C function
that runs in a handshake loads the slot and calls it: two steps, each of one
connection. `bad` records what the call passed to JNI.

**`VerifyConfig`.** The two copies of `verify_config`, the mode and callback the
library holds for context and connection, and what a handshake did. `armed` are
the connections whose level reached the library. The handshake is the library's
decision (external) around the code's verify callback.

**`KeyMaterial`.** `refs` counts the references of each object; `chains`, `keys`
and `javaCreds` are what Java holds by address, `conn`, `ctx` and `cred` what the
library holds. Each JNI call is one action; the library calls it makes are
operators that return the set of their outcomes, failure first, chained with
`Then`, so that every call can fail at every point and leave behind what the
calls before it did. `err` is the oldest entry of the thread's error queue.
OpenSSL keeps a certificate and a key for each type of key; the type it was given
last is the current one. `cert`, `key` and `chain` are the slots of the current
type, `aside` those of the other, and `UseCertificate` and `UsePrivateKey` first
turn to the type of what they are given (`Select`). A connection has a chain for
each type, a context one extra chain for all (`chainPerType`). `program.ec` are the
objects of one of the two types; `program.client` is the mode of the context, for
which `setCACertificateBio` does nothing.

**`LibraryLifecycle`.** `JNI_OnLoad` is one action, since nothing else runs until
the JVM has loaded the library: it succeeds or stops after any of its steps, and
`jni` is what its error path leaves. `JNI_OnUnload` is a chain of actions in which
nothing else can run: `apr_terminate`, one `RunCleanup` per registered cleanup if
that destroys the pool, and `UnloadParts` for the rest. `Library.initialize` is a sequence of steps
of the calling thread, split where another thread could see or change a static
(`tcn_global_pool`, the two halves of `ssl_initialized++`, the index of the
application state). The statics of `ssl.c` are the record `ssl`; `cleanups` is
what is registered with the pool, run newest first when `apr_terminate` undoes
the last `apr_initialize` (APR counts them). The table of BIO methods keeps its
pointer after it is freed, so its value distinguishes `freed` from `NULL`. `failed`
is a history variable: whether a call failed at its temporary keys, and whether a
later one failed at its engine.

**`Sessions`.** `refs` counts; `store`, `cached` and `held` are the sessions the
internal cache, the `SSLSessionCache` and other Java code own, `conn` has the
session of a connection and the one in the hand of its callback. A callback is
two steps, what Java does and what the library does on return, between which the
other connection and the Java code that drops sessions take theirs. Java keeps to
the contract of `SSLSessionCache`. The library's part (`FullHandshake`,
`NewTicket`, `Stored`, `FoundInternally`, `Remembered`) is external and differs
by build: BoringSSL has no internal cache for clients, and OpenSSL puts a ticket
in the place of the connection's session. `resurrected` is a history variable.

**`Connections`.** `count`, `pools`, `states`, `bios` and `blocks` are what is
allocated; `ctx` and `conn` what the library and `tcn_ssl_ctxt_t` know. `make`,
`newSSL`, `bioNewByteBuffer` and `setOcspResponse` succeed in one action and
fail, at each of their steps, in another. `enableOcsp` and `disableOcsp` are two
steps in the order of the code (`EnableOrder`, `DisableOrder`), and so is the
library's reading of callback and argument; `openssl_ocsp_callback` on a missing
argument brings the process down. A handshake is between a client and a server of
the same build; `wanted` remembers which versions the calls left enabled.
`ProtocolVersions` has the decisions of `make` as operators, and the external rule
that a client, and BoringSSL on both sides, speaks the lowest range without a gap.
A context of OpenSSL before 1.1.0 that got the method of one version does not look at
the options that switch versions off (`Chooses`, `Speaks`); that rule is the library's
and external too. `enableOcsp` takes whatever side Java names: of a program that uses
"any side" also the one the context was not made for.

## Runs

The configuration of a run gives the constants their values and nothing else.
Deadlock is not checked where the modelled thing may end: a freed BIO, context or
connection, a crashed process, a handshake that is over, or a bound reached.

| Run | Checks | Shows |
|---|---|---|
| `bio` | `TypeOK`, `BufferAccounting`, `ReportsBytesWritten`, `StreamIntact`, `SourceIntact`, `ImplementsStream` | with a caller that flushes a sink before TLS writes into it no byte is lost, repeated or reordered in either direction, counts are exact, and the BIO is a bounded byte stream |
| `bio_wraps_out_of_bounds` | `ReadyToCapture` | violated: a queued write after a partial flush |
| `tasks` | `TypeOK`, `GlobalRefsOwned`, `CalledOnce`, `SlotIsThisPhases`, `PassedByCallback`, `SameAlert`, `HandshakeEnds` | a handshake with all kinds of callbacks under five kinds of callers; each property says which callers it is about |
| `ticket_keys` | `TypeOK`, `NoUseAfterFree`, `RightKey`, `AnswersOneList`, `ArraysOwned`, `ImplementsKeyRing` | rotations among handshakes, before OpenSSL 3; the array under its lock is a ring replaced and looked up in one step |
| `ticket_keys_openssl3` | `RightKey` | violated: the copy points into the freed array |
| `alpn` | `PreferredMatch`, `StaysInTheList`, `SelectionEnds` | the first configured name the peer offers is selected, the list set last is announced, a walk with a name to find stays in the list, and every walk ends |
| `callbacks` | `RefsOwned`, `NoStaleCallback` | callbacks set for the first time under running handshakes, the host name matcher and replacements between connections |
| `verify` | `TypeOK`, `LevelEnforced`, `LibraryAgrees`, `FailsClosed` | every order of the calls that configure verification, both builds, server and client |
| `key_material` | `RefsOwned`, `PasswordAccepted`, `PresentsWhole` | references balance on every path, failures included; a refused password does not stay; `setKeyMaterial` leaves nothing of an earlier call in the slots of the chain's type of key, and touches nothing else |
| `library` | `InitializedWhenTrue`, `CleanedOnUnload`, `FreedOnce` | a failed load is undone, a reported success lasts until the unload, and the unload leaves nothing behind, after any number of failed calls; one sequence of failures, and no other, frees the table of BIO methods twice |
| `sessions` | `SessionsOwned`, `DroppedStayDropped` | a session has as many references as owners in every interleaving of callbacks, drops and frees; with no internal cache asked for, none is resumed after Java dropped it |
| `connections` | `ResourcesOwned`, `NegotiatesBest`, `ArgumentReady`, `StapleArrives` | failures half-way leak nothing and free nothing twice; versions switched off stay off, and the best of the others is used, where a context chooses among versions; OCSP can be enabled under running handshakes, and the response arrives |

A `TypeOK` is an invariant of the four oldest runs; the other modules have one too,
which their configurations satisfy and a theorem states. `ProtocolSelection` and
`KeyMaterial` share a module of proofs with another component, so their specifications
have names of their own (`SelectionSpec` and `SelectionTypeOK`, `MaterialSpec` and
`MaterialTypeOK`).

### Bounds

- `bio`: a ring of 3 bytes, buffers and chunks of up to 3, 6 bytes each way. The
  ring wraps, fills, and is drained in parts; 6 bytes are two rings, so that each
  cell is used twice. The theorems remove these bounds.
- `tasks`: `cert`, `sign`, `verify`: a TLS 1.3 server that asks for a client
  certificate. Three phases let a result of one meet the next and the one after;
  `decrypt` takes the path of `sign`. Callers: `Careful` (the documented use),
  `Careless` (all habits but racing), `Hasty` (not throwing either), `Casting`
  (`getAsyncTask`) and `Racing` (waits, but runs a task on two threads: `MaxRuns`,
  the calls that find `didRun` unset, is 2).
- `ticket_keys`: three threads, two keys, three addresses, three rotations over
  the lists `<<k1>>`, `<<k2, k1>>`, `<<k2>>`, two tickets: a ticket under a key
  that is current, kept behind another or dropped, during two overlapping
  rotations. Threads and addresses are symmetric. Again the theorems remove the
  bounds.
- `alpn`: names of zero, one and two bytes in lists of up to three, three
  offers, junk that is empty or contains names. A list of three names leads the
  loop three bytes behind its end.
- `callbacks`: two connections, two objects and two references per slot, which
  is what a replacement under a running callback needs; six programs that between
  them set every slot, one of them its first matcher under running handshakes. Slots do not interact except through the order of the
  steps of one setter, so not all combinations are needed.
- `verify`: two connections, depths -1 and 1, chains of 0, 1 and 2 certificates,
  which is below, at and above the depth.
- `key_material`: three certificates of which two fit one key, two keys, one
  credential, two passwords, one chain of up to two certificates held by Java, one
  connection, one context, at most two references of Java to the credential. The
  nine programs split the calls into groups that can share objects; calls of
  groups that no program joins meet only in the counts. Two of them have the third
  certificate and its key of another type than the rest, so that what a call for one
  type leaves meets a call for the other.
- `library`: two threads and four calls of `Library.initialize`: a call that fails,
  one that fails elsewhere, one that succeeds and one after it. Six programs: each
  build, with and without an engine asked for by name, and two that run out of
  memory or overlap their calls, for the properties that do not exclude that.
- `sessions`: two connections, two sessions, four programs: BoringSSL, OpenSSL with
  and without `SSL_SESSION_up_ref`, and one that sets the size of the cache after
  its mode. Two sessions let one replace the other in a connection while the
  first is in a cache; connections and sessions are symmetric.
- `connections`: two contexts, a client and a server connection, one response,
  options that switch TLS 1.2 and 1.3, and seven programs: versions on each kind of
  library, OCSP on BoringSSL and OpenSSL without memory to spare and with contexts
  for both sides, OCSP switched on and off under handshakes, and OCSP enabled for the
  wrong side. With two
  protocol arguments per program contexts with and without a gap meet. A
  connection does one handshake.

### Fairness

`SSLTasks.FairSpec` is weakly fair to the callback of the phase, `getTask`,
the first `runTask`, `onResult` and `completeCallback` of each task: `SSL.java:920` tells
the caller to retry after the task was run, Netty does, and an executor runs
what it is given. `HandshakeEnds` holds for every caller and names the two ways
in which an answer is lost for good (`AnswerLost`): a verifier or key method that
throws, and the failed cast of `getAsyncTask`. Nothing fair is asked of `freeSSL`, `setUseTasks`, a peer that
fails or of a second run. `ProtocolSelection.FairSelectionSpec` is weakly fair to the loop
of `select_next_proto`, which runs on one thread without waiting. The other
modules have safety properties only.

## Proofs

47 theorems in eight modules, for every value of the constants that meets the named
`ASSUME`s of the modules: sizes are positive, bounds are numbers, model values are
distinct, and the connections of `Sessions` and `Connections`, which are counted, are
finitely many. The bounds in the guards are constants too and can have any value. A
theorem that holds of some callers or lists only says so in a hypothesis; each is
named below, with what goes wrong without it under Deviations.

`ByteBufferBIOProofs`. `TypeCorrect`, `BufferAccounted` and `SourceCorrect` hold
for every caller; `StreamCorrect`, `FlushCorrect`, `ReportsCorrect` and
`StreamImplemented` assume `FlushesFirst`, without which they are false (see
Deviations). `BufferInv` is the type invariant with `buffer + bufferLength = limit`.
`StreamIntact` is inductive only together with `FlushDrains` (`StreamInv`): a write
into a sink puts new bytes behind the drained ones only because a flushed sink with
room left has no bytes waiting. The heart is that the cells `(offset + k) % Size` of a
queue are distinct, so a queued write overwrites nothing that waits. For the
refinement of `ByteStream`, `RunsInv` says that what was delivered and what waits are
consecutive runs of numbers; then each call maps to an append, a take, both or a
stutter.

`HandshakeProofs`, of `SSLTasks`. `TypeCorrect` holds for every caller and
`CalledOnceCorrect` for every one that does not run a task on two threads at once.
`CalledInv` says that the task of the current phase is in the slot if it was ever
made, so a phase never makes a second one; `RunInv` that of such a caller a task whose
callback is running was not answered yet. `RefsCorrect` and `SlotCorrect` are for
callers that leave `setUseTasks` alone (`SlotInv`: a suspended handshake has the
task of its phase in the slot, and a running one has none). `RefsToggledCorrect` is
for every caller, provided the handshake has one key operation (`OneKeyOperation`):
a call of `setUseTasks` may leave a task in the slot, but only that of the key
operation (`LeftInv`), and only a second one would overwrite it. `PassedCorrect` is for callers that
wait and run each task once (`Waits`); it adds `HandedOver`: what is visible of a
task was written by its answer, and a signalled task is visible whole.
`SameAlertCorrect`, again without racing callers, needs in `AlertInv` that the task in the slot remembers the length
of the chain of its own phase, and that a phase has no outcome before.

`HandshakeProofs`, of `KeyMaterial`. `RefsOwnedCorrect`, `PasswordAcceptedCorrect`,
`PresentsWholeCorrect` and `MaterialTypeCorrect`, for any number of objects and chains of
any length. `MaterialInv` joins the types without the sign of the counts
(`MaterialTyped`), the shape of a connection's slots (`ConnShape`), that an object is
held in finitely many places (`FinitePlaces`), and the two invariants themselves; that
no count falls below zero then follows from `RefsOwned`, which equates it with a number
of holders. Each library call returns the set of its outcomes, so the proof goes by
outcomes: every one of them is `Balanced`, its counts change by exactly what its slots
change, and `Then` composes balanced calls into balanced ones. A setter is thus balanced
at every point where it may fail, and what an action changes of `chains`, `keys`,
credentials and slots is what an object is `Owed`. A credential that loses its last
reference gives up what it holds itself (`FreedCreds`), so the sum over the credentials
is split in those freed and those that stay. Holders are counted as the places an
object has in a sequence (`Count`) or in a function of sequences (`Places`); the lemmas
on those say what concatenating, replacing one entry and splitting the domain do.
Turning to the slots of another type of key moves references and changes none
(`SelectBalanced`). `PresentsWhole` follows from `Placed`, which the calls of
`setKeyMaterial` establish and keep (`PlacedKept`): the chain's certificate is in the
slots of its own type, with no key of another certificate, and the slots put aside are
those an earlier call left for the other type. A key that belongs to the chain is of
the chain's type (`SameType`), so installing it turns nothing away; without that
premise it may (`KeyMatches`).

`TicketKeysProofs`. `TypeCorrect`, `LookupsSafe`, `AnswersCorrect` for every
number of threads, keys and rotations, and `RightKeyCorrect` before OpenSSL 3.
The invariant `TicketInv` joins the exclusion of the lock (`LockInv`), the
ownership of arrays with the one moment at which `ticket_keys` dangles, under the
write lock (`HeapInv`), and what a callback knows after its read (`ReaderInv`):
that what it found or missed was so in some list in force since its call.
`ArraysOwnedCorrect` adds `OwnedInv`: while `ticket_keys` dangles, the address it holds is free or
was given to another rotation, so nothing is counted twice. `KeyRingImplemented` takes
every step of the code to a step of `KeyRing` or a stutter; `CallInv` says that a call
that has not looked yet holds no key, which makes the mapping of an asked call exact.

`NegotiationProofs`. `TypeCorrect`, `LevelCorrect`, `LibraryCorrect`,
`ClosedCorrect` are about `VerifyConfig`. None of the three properties is inductive alone: the mode of a
connection comes from the library's context by `newSSL`, so `LibraryInv` (a
BoringSSL context has the callback exactly when it has a verifier, and verifies
nothing without) is needed; `VerifyInv` is the conjunction of all.
Of `ProtocolSelection` it has `SelectionTypeCorrect`, which holds for all lists, and
`PreferredMatchCorrect` and `StaysInTheListCorrect`, for lists of names whose length
fits the byte it is written in (`ShortNames`; the code lets longer names through, see
Deviations). `BytesInv` says that what is read is bytes; `WalkInv` that memory begins with the
encoding of the list set last, or the list was lost to a failed allocation, and that as
long as some configured name is offered the walk stands behind the `k`-th name with none
of the first `k` offered. The counter `i` lags behind the cursor by a byte per name, so
the loop cannot end before the list does: that is why the walk finds the match, and also
why it reads past the end without one. With a match ahead the name the walk stands at is
one of the list, so it ends inside it (`LooksInTheList`). `protocolsToWireFormat` is a recursive function;
what it writes at the place of each name is shown by taking the least index at which
the claim fails.

`ContextCallbacksProofs`. `TypeCorrect`, `RefsOwnedCorrect` and
`NoStaleCallbackCorrect`. A setter is several steps, so the invariant describes its
locals at each of them (`SetterInv`), which slots the library calls while one setter
is between its store and its call (`LibInv`), and that a slot has a live reference
with the method id of the class it refers to (`SlotsInv`). `CallsInv`, for the stale
callbacks, says that what a connection loaded is still what the slot holds. `ArgInv`
says that the matcher's function has its argument, but for a setter between its two
calls, when a program that sets its first matcher between connections has none.

`SessionsProofs`. `TypeCorrect`, `SessionsOwnedCorrect` and
`DroppedStayDroppedCorrect`. A count is compared with a sum over connections and
caches (`CountsInv`), so every step is shown to move one reference from one owner to
another; what makes it inductive is `HandsInv`: a session in the hand of a callback
that the library has not stored yet is known to no one else. `ModeInv` carries the
mode Java asked for.

`ConnectionsProofs`. `TypeCorrect`, `ResourcesOwnedCorrect`, `NegotiatesBestCorrect`,
`ArgumentReadyCorrect`, `StapleArrivesCorrect`. Type correctness and ownership go
together: a counter is a natural number because it counts something (`Counted`), and
`RunInv` says that nothing is left of a freed connection and that a handshake has two
connections of its own. `VersionsInv` ties the options of a connection to the versions
its calls left enabled, and a handshake to `Settled`, where a side that `Chooses` its
version offers what is not switched off; lemmas about `ProtocolVersions`
then give the best common version when neither side has a gap. `ArgumentReady` follows
from `ArgInv`: the callback is set only where the argument is, unless somebody uses
`disableOcsp`, and so is what a handshake read of them. `StapleArrives` needs the side a
context was enabled for (`FitsInv`) and how far a handshake whose settings stay has
come (`StapleInv`).

`LibraryLifecycleProofs`. `TypeCorrect` holds of calls that overlap too.
`InitializedWhenTrueCorrect` and `FreedOnceCorrect` rest on `AloneInv`: of calls that
do not overlap, what has been set up at each location of the only call (`CallInv`), and
that whatever is set up while nobody is inside is set up completely (`SetUpInv`).
For `FreedOnce`, a table that is freed while the library is loaded was freed by a call
that failed at its keys, every later call that gets past its engine makes a new one,
and so only a call that fails at its engine meets the freed one.
`TornDownCorrect` adds `TearInv`: what is set up has a cleanup registered, or a call is
still at it, and `apr_terminate` destroys the pool because `apr_initialize` was
called once. `CleanedOnUnloadCorrect` adds what JNI holds (`ClassInv`); its heart is
`FailedLoad`: wherever `JNI_OnLoad` stops, at most one part is half loaded.

Only model-checked:

- liveness (`HandshakeEnds`, `SelectionEnds`), which the proof system does not reach;
- the two deviations that have a run, which are counterexamples, and the formulas of
  the table under Deviations.

Every invariant, action property and refinement that a passing run checks is stated by
a theorem.

## Use the properties rely on

- One SSL, and with it its BIO, is used by one thread at a time; tasks are what
  runs elsewhere.
- A sink is flushed before TLS writes into it (`FlushesFirst`), as Netty does.
- One task is not run on two threads at the same time (`CalledOnce`,
  `PassedByCallback`, `SameAlert`); `GlobalRefsOwned` and `HandshakeEnds` do not need it.
- Callbacks are replaced, the first host name matcher is set, and a context is freed,
  when it has no connections (`NoStaleCallback`; `RefsOwned` does not need it). The ALPN and NPN lists
  are set between handshakes.
- An `SSLSessionCache` owns what it said it takes, takes a reference for what it
  shares, and guards itself with a lock; `SSL.getSession` and `SSLSession.upRef`
  follow each other on the thread of the connection (`SessionsOwned`).
- OCSP is not switched off under handshakes (`ArgumentReady`), and a context is
  made, and enabled, for one side (the part of `StapleArrives` about failed handshakes).
- The key given to `setKeyMaterial` belongs to the chain (`PresentsWhole`).
- `KeyMaterial` is one thread with one error queue.
- Calls of `Library.initialize` do not overlap (`InitializedWhenTrue`,
  `CleanedOnUnload`, `FreedOnce`): Netty makes them in a static initialiser.

## Deviations

Where the code and what the repository says of it differ. The first two have a
run that shows them.

1. *Ring index* (`ssl.c:199`): `startIndex` lacks the modulus, so after the queue
   wraps a write computes a negative chunk. `SSL.java:250`: "ready to capture data
   which may unexpectedly happen". Run `bio_wraps_out_of_bounds`.
2. *OpenSSL 3 MAC parameters* (`sslcontext.c:1425`, used at 1377): the copied
   struct points into the array a rotation frees. Run `ticket_keys_openssl3`.

The others are stated as formulas of the modules; to see one refuted, name it in
the configuration of the module's run, or drop the premise that the row names.

| Formula | The code | What the repository says |
|---|---|---|
| `ReportsBytesWritten`, `StreamIntact` with `FlushesFirst = FALSE` | `ssl.c:240` adds the drained bytes to what it reports as written | `SSL.java:204` "The number of bytes that were written." |
| `BIOFlushDrains` | `ssl.c:351` returns 1 and moves nothing | `SSL.java:259` "This does the same thing as `BIO_flush`" |
| `Approved` (`PassedByCallback` without `Waits`) | `complete` and `returnValue` are plain fields written by another thread; one that polls may see the first without the second | `sslcontext.c:1699` "Check if the task complete yet." |
| `SlotIsThisPhases` without `~Toggles` | `sslcontext.c:2349`: with tasks off the completion reports success without looking at the slot | `sslcontext.c:1697` "Let's check if we retried the operation" |
| `SignedByMethod` | `sslcontext.c:2367` reads `resultBytes` only, which an error leaves as the empty array: the phase passes without a signature | `SSLPrivateKeyMethodTask.java:47` "this signals back that the operation failed" |
| `SignalMeansComplete` | `SSLTask.java:57`: a second run calls `completeCallback` while the first still works | `AsyncTask.java:24` "run once the task was run and completed" |
| `NeverCrashes` | `sslcontext.c:2239` calls the `sign` of an asynchronous key method, which takes a further argument and returns void, with `CallObjectMethod` when tasks are off | `SSLContext.java` documents `setUseTasks` as a switch |
| `CalledOnceByAnyThreads` | `SSLTask.java:46` looks at `didRun` and then sets it, without a lock: two threads that run one task may both call back | - |
| `EveryHandshakeEnds` | `CertificateVerifierTask.java:36` lets what `verify` throws escape, and `complete` is never set; `SSL.java:941` throws after the task was marked consumed | `SSL.java:920` "After the task was run we should retry" |
| `NewMeansNoTicket` | `sslcontext.c:1367` counts each ticket made, also the renewed ones | `ssl_private.h:382` "The client did not present a ticket and we issued a new one." |
| `NothingMatched` | `sslutils.c:736`: the counter does not count length bytes, and a name behind the end of the list is selected | `sslutils.c:748` "Nothing matched so not select anything and just accept." |
| `BehaviourHonoured` | `sslcontext.c:1017` and `1045`: `selectorFailureBehavior` is an argument nothing stores, the fields read at `sslutils.c:756` stay 0 | `SSLContext.java:590` "see `SSL_SELECTOR_FAILURE_NO_ADVERTISE` and `SSL_SELECTOR_FAILURE_CHOOSE_MY_LAST_PROTOCOL`" |
| `PreferredMatch` with `LongLists`, `LongJunk` | `SSLContext.java:557` lets names of up to 65535 bytes through and writes one byte of length | `SSLContext.java:589` "protocols in priority order" |
| `FirstMatcherIsSafe` | `sslcontext.c:2646` sets the function of the host name matcher before the argument it reads the context from (line 2601) | - |
| `RequiredOfEveryone` | `sslcontext.c:1810`: with BoringSSL and no verifier the level does not reach the library | `SSLContext.java:483` "The client has to present a valid Certificate" |
| `DepthCountsIssuers` | `sslcontext.c:1532` cuts the whole chain, leaf included, at the depth | `SSLContext.java:485` "maximum number of intermediate certificate issuers" |
| `KeyMatches` | `ssl.c:2331`: with OpenSSL a key of another type than the chain turns to the slots of its own type; if an earlier call left a certificate there that it belongs to, both checks pass, and the rest of the chain goes to that type | `ssl.c:2341` "Private key does not match the certificate public key" |
| `PasswordRestored` | `sslcontext.c:812`: `old_password` is NULL when a failing call brought no password, and the earlier one is freed and lost | `sslcontext.c:816` "Restore old password" |
| `ChainsWhole` | `ssl.c:2239` looks at the oldest error of the thread only; `sslutils.c:488` leaves the end of input of a failed `setCertificateChainBio` there (`sslcontext.c:647` does not clear it), and a malformed certificate behind it goes unseen | `ssl.c:2238` "ensure that if we have an error its just for EOL." |
| `FailedLoadReleasesAll` | `jnilib.c:231` releases `String` only with a pool, which does not exist yet; a part that fails half-way (`error.c:98`, `sslcontext.c:3235`) keeps what it made | `jnilib.c:241` "ensure we correctly release any resources" |
| `InitializedWhenTrue` without `~Races` | `ssl.c:752`: a call that finds the counter raised succeeds while the first call still works, and may yet fail | `Library.java:184` "`true` if initialization was successful" |
| `CleanedOnUnload` without `~OutOfMemory` | `jnilib.c:96`: a failed `apr_pool_create` leaves APR counted twice after the next call, so `apr_terminate` destroys no pool | `ssl.c:862` "Let us cleanup the ssl library when the library is unloaded" |
| `NeverFreedTwice` | `ssl.c:458` keeps the freed pointer: a call that fails at the temporary keys, then one that fails at its engine, free the table twice | - |
| `DroppedStayDroppedAlways` | `sslcontext.c:1130`: `setSessionCacheSize` replaces the mode, `SSL_SESS_CACHE_NO_INTERNAL` included | `SSLContext.java:240` "Set the size of the internal session cache." |
| `OnlyAsked` | `sslcontext.c:379` to 397 never set `SSL_OP_NO_TLSv1_3` | `SSLContext.java:46` "The SSL protocol to use."; `SSL.java:53` has a bit for TLS 1.3 |
| `AnyCommonVersion` | a context asked for `TLSv1` and `TLSv1.2` has a gap, and a client speaks the versions below it only | `SSLContext.java:46` "any combination of the following" |
| `SwitchedOffStaysOff` | `sslcontext.c:300`: before OpenSSL 1.1.0 a context for one version ignores the options that `setOptions` sets | - |
| `StapleBreaksNothing` | `sslcontext.c:2820` takes the side from its caller; the stub's number for success on one side is failure on the other | - |
| `HandshakesDone` | `sslcontext.c:187` counts a handshake when it starts | `SSL.java:628` "the number of handshakes done for this SSL instance" |
| `Connections!NeverCrashes` | `sslcontext.c:213` sets the versions of a NULL `SSL_CTX`; `sslcontext.c:2864` and 2865 clear callback and argument between which a handshake may read | - |

Met while modelling, and modelled as they are: `setCertificateBio` computes
`key_bio` before `key` falls back to `cert` (`sslcontext.c:941`, `ssl.c:2050`),
so without a key BIO the fallback of `SSLContext.java:231` does not happen;
`SSL_PROTOCOL_TLS` and `SSL_PROTOCOL_ALL` of `SSL.java` have the bit of TLS 1.3
which those of `ssl_private.h` lack, so on libraries before OpenSSL 1.1.0 they
miss their case in `make` and get the method of TLS 1.2 alone, and both contain
SSLv3 (`SSLContext.java:54`: "all TLS versions, no SSL");
`setKeyMaterialClientSide` appends to the chain of the connection without
clearing it; the OpenSSL path of `setKeyMaterial` goes on after it threw, and a
connection keeps what earlier calls gave it for another type of key; a credential of
`addCredential` (`ssl.c:2738`) stays through `setKeyMaterial`, and BoringSSL tries
credentials before the chain and key of the connection; a connection whose own chain
is empty sends the extra chain of its context.

## Not modelled

- *Dynamic locks of OpenSSL 1.0* (`ssl_dyn_create_function` and its neighbours):
  each is one call into APR on a lock of its own.
- *An address without a reference*: `SSL.getSession` returns the session of the
  connection uncounted. A TLS 1.3 ticket that arrives before `SSLSession.upRef`
  may free it; the model takes the two calls as one step.
- *Lists replaced during a walk*: `setAlpnProtos` frees a list that another thread
  may walk (`sslcontext.c:1061`); the model sets lists between handshakes.
- *Getters and pass-through setters*: one library call each, no state of their
  own. *Exceptions, constants, Java interfaces*: nothing that changes state.
- *TLS itself*: record layer, cryptography and the decisions of the library are
  external; the modules contain of them what the code relies on.
- *Build and packaging*: no program state.

## Plan

Modelled and checked: all of the modules above; proved: the safety properties of
all of them. Left: a composition of `VerifyConfig` and `SSLTasks` (the level of a
connection when the verifier runs as a task), and an abstract specification of
`LibraryLifecycle` (absent, loaded, set up, gone).
