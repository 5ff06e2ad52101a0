---------------------------- MODULE Connections -----------------------------
(***************************************************************************)
(* SSL contexts and the connections made from them (sslcontext.c, ssl.c):  *)
(* what SSLContext.make, SSL.newSSL and SSL.bioNewByteBuffer allocate and  *)
(* give back when one of their steps fails, which protocol version a       *)
(* client and a server settle on, and how a stapled OCSP response gets     *)
(* from SSL.setOcspResponse on one side to SSL.getOcspResponse on the      *)
(* other.  Both sides use the same build.                                  *)
(*                                                                         *)
(* One thread runs a handshake, another one configures: the library reads  *)
(* the OCSP callback and its argument one after the other, and             *)
(* SSLContext.enableOcsp and disableOcsp write them one after the other.   *)
(***************************************************************************)
EXTENDS ProtocolVersions

CONSTANTS
    Programs,       \* the programs that use the library
    Ctxs,           \* contexts
    SSLs,           \* connections
    Options,        \* the versions a call of setOptions or clearOptions names
    Responses,      \* OCSP responses
    NULL

Modes == {"client", "server", "combined"}

\* The calls that have two halves.
OcspCalls == [name : {"enableOcsp", "disableOcsp"}, ctx : Ctxs, client : BOOLEAN]

\* A program: its build, the arguments it gives to make, what it calls besides the
\* basic functions, whether it enables OCSP for any side, whatever the context is made
\* for, and whether memory may run out.
ASSUME ProgramsAssumption ==
    Programs \subseteq [build : Builds, protocols : SUBSET SUBSET Versions, modes : SUBSET Modes,
                        uses : SUBSET {"options", "ocsp", "disableOcsp", "any side"}, scarce : BOOLEAN]
ASSUME ArgumentsAssumption ==
    /\ Options \subseteq SUBSET Versions
    /\ IsFiniteSet(SSLs)
    /\ NULL \notin Responses \cup Ctxs \cup SSLs
    /\ NULL \notin {0, 1} /\ NULL \notin {"make", "ocsp"} /\ NULL \notin OcspCalls

VARIABLES
    program,
    ctx,       \* the SSL_CTX and its tcn_ssl_ctxt_t
    count,     \* references to an SSL_CTX
    pools,     \* the contexts whose APR pool exists
    conn,      \* the SSL and its tcn_ssl_state_t
    states,    \* how many tcn_ssl_state_t are allocated
    bios,      \* how many BIOs
    blocks,    \* how many copies of OCSP responses
    config,    \* the call of enableOcsp or disableOcsp that has done its first half
    hs,        \* the handshake that runs, or the last one: its step, its two sides and what
               \* they wanted, the version and the response; steady as long as nobody
               \* changes what OCSP depends on
    crashed    \* what brought the process down, or NULL

memory == <<count, pools, states, bios, blocks>>
vars   == <<program, ctx, memory, conn, config, hs, crashed>>

build     == program.build
BoringSSL == build.library = "BoringSSL"

NoCtx  == [made |-> FALSE, protocol |-> {}, mode |-> "client", speaks |-> {}, off |-> {}, wanted |-> {},
           cb |-> FALSE, arg |-> NULL]
NoConn == [ctx |-> NULL, server |-> FALSE, off |-> {}, wanted |-> {}, bio |-> FALSE,
           status |-> FALSE, response |-> NULL, got |-> NULL, handshakeCount |-> 0, completed |-> 0]
NoHs   == [pc |-> "none", client |-> NULL, server |-> NULL, version |-> {}, staple |-> NULL,
           cw |-> {}, sw |-> {}, steady |-> FALSE]

Init ==
    /\ program \in Programs
    /\ ctx = [k \in Ctxs |-> NoCtx]
    /\ count = [k \in Ctxs |-> 0] /\ pools = {}
    /\ conn = [c \in SSLs |-> NoConn]
    /\ states = 0 /\ bios = 0 /\ blocks = 0
    /\ config = NULL /\ hs = NoHs /\ crashed = NULL

\* The process runs.
Live == crashed = NULL

Uses(call) == call \in program.uses
Running    == hs.pc \notin {"none", "done", "failed"}
InUse(c)   == Running /\ c \in {hs.client, hs.server}
Idle(c)    == conn[c].ctx # NULL /\ ~InUse(c)

-----------------------------------------------------------------------------
(* SSLContext.make and free.                                               *)

make(k, protocol, mode) ==
    /\ Live
    /\ count[k] = 0 /\ method(build, protocol) # {}
    /\ ctx' = [ctx EXCEPT ![k] = [made |-> TRUE, protocol |-> protocol, mode |-> mode,
                                  speaks |-> method(build, protocol),
                                  off |-> SwitchedOff(protocol), wanted |-> protocol \cup {TLSV1_3},
                                  cb |-> FALSE, arg |-> NULL]]
    /\ count' = [count EXCEPT ![k] = 1] /\ pools' = pools \cup {k}
    /\ UNCHANGED <<program, conn, states, bios, blocks, config, hs, crashed>>

\* The label cleanup of make: destroy the pool, if there is one, free the SSL_CTX.
cleanup(acquired) == acquired \ {"pool", "SSL_CTX"}

MakeSteps == {"SSL_CTX_new", "apr_pool_create", "apr_pcalloc", "apr_thread_rwlock_create"}

\* A step of make fails.  BoringSSL sets the versions of the SSL_CTX before make
\* looks whether there is one.
makeFails(k, step) ==
    LET acquired == CASE step = "SSL_CTX_new" -> {}
                      [] step = "apr_pool_create" -> {"SSL_CTX"}
                      [] OTHER -> {"SSL_CTX", "pool"}
    IN
    /\ Live
    /\ program.scarce /\ count[k] = 0
    /\ IF step = "SSL_CTX_new" /\ BoringSSL
       THEN crashed' = "make" /\ UNCHANGED <<count, pools>>
       ELSE /\ count' = [count EXCEPT ![k] = IF "SSL_CTX" \in cleanup(acquired) THEN 1 ELSE 0]
            /\ pools' = IF "pool" \in cleanup(acquired) THEN pools \cup {k} ELSE pools
            /\ UNCHANGED crashed
    /\ UNCHANGED <<program, ctx, conn, states, bios, blocks, config, hs>>

\* The library frees an SSL_CTX with its last reference.
Unreferenced(after) == [k \in Ctxs |-> IF count'[k] = 0 THEN NoCtx ELSE after[k]]

\* ssl_context_cleanup gives back the reference of make, and the pool goes.
free(k) ==
    /\ Live
    /\ ctx[k].made /\ config = NULL
    /\ count' = [count EXCEPT ![k] = @ - 1]
    /\ ctx' = Unreferenced([ctx EXCEPT ![k].made = FALSE])
    /\ pools' = pools \ {k}
    /\ UNCHANGED <<program, conn, states, bios, blocks, config, hs, crashed>>

-----------------------------------------------------------------------------
(* SSL.newSSL, bioNewByteBuffer and freeSSL.                               *)

\* The SSL inherits what the context has at that time.
newSSL(c, k, server) ==
    /\ Live
    /\ conn[c].ctx = NULL /\ ctx[k].made
    /\ ctx[k].mode # "combined" => server = (ctx[k].mode = "server")
    /\ conn' = [conn EXCEPT ![c] = [ctx |-> k, server |-> server, off |-> ctx[k].off,
                                    wanted |-> ctx[k].wanted, bio |-> FALSE, status |-> FALSE,
                                    response |-> NULL, got |-> NULL, handshakeCount |-> 0, completed |-> 0]]
    /\ count' = [count EXCEPT ![k] = @ + 1] /\ states' = states + 1
    /\ UNCHANGED <<program, ctx, pools, bios, blocks, config, hs, crashed>>

\* The SSL gives back its reference to the SSL_CTX.
SSL_free(n) == n - 1

\* No state can be allocated for the SSL.
newSSLFails(c, k) ==
    /\ Live
    /\ program.scarce /\ conn[c].ctx = NULL /\ ctx[k].made
    /\ count' = [count EXCEPT ![k] = SSL_free(@ + 1)]
    /\ UNCHANGED <<program, ctx, pools, conn, states, bios, blocks, config, hs, crashed>>

\* SSL_set_bio frees the BIO it replaces.
bioNewByteBuffer(c) ==
    /\ Live
    /\ Idle(c)
    /\ bios' = bios + 1 - (IF conn[c].bio THEN 1 ELSE 0)
    /\ conn' = [conn EXCEPT ![c].bio = TRUE]
    /\ UNCHANGED <<program, ctx, count, pools, states, blocks, config, hs, crashed>>

BIO_free(n) == n - 1

\* The BIO is there but its data or its buffer is not.
bioNewByteBufferFails(c) ==
    /\ Live
    /\ program.scarce /\ Idle(c)
    /\ bios' = BIO_free(bios + 1)
    /\ UNCHANGED <<program, ctx, count, pools, states, blocks, conn, config, hs, crashed>>

\* SSL_free frees the BIO and the response that were given to the SSL.
freeSSL(c) ==
    /\ Live
    /\ Idle(c)
    /\ states' = states - 1
    /\ count' = [count EXCEPT ![conn[c].ctx] = SSL_free(@)]
    /\ bios' = IF conn[c].bio THEN bios - 1 ELSE bios
    /\ blocks' = IF conn[c].response # NULL THEN blocks - 1 ELSE blocks
    /\ conn' = [conn EXCEPT ![c] = NoConn]
    /\ hs' = IF c \in {hs.client, hs.server} THEN NoHs ELSE hs
    /\ ctx' = Unreferenced(ctx)
    /\ UNCHANGED <<program, pools, config, crashed>>

-----------------------------------------------------------------------------
(* The options that switch versions off.                                   *)

SSLContext_setOptions(k, versions) ==
    /\ Live
    /\ Uses("options") /\ ctx[k].made
    /\ ctx' = [ctx EXCEPT ![k].off = @ \cup versions, ![k].wanted = @ \ versions]
    /\ UNCHANGED <<program, memory, conn, config, hs, crashed>>

SSLContext_clearOptions(k, versions) ==
    /\ Live
    /\ Uses("options") /\ ctx[k].made
    /\ ctx' = [ctx EXCEPT ![k].off = @ \ versions, ![k].wanted = @ \cup versions]
    /\ UNCHANGED <<program, memory, conn, config, hs, crashed>>

SSL_setOptions(c, versions) ==
    /\ Live
    /\ Uses("options") /\ Idle(c)
    /\ conn' = [conn EXCEPT ![c].off = @ \cup versions, ![c].wanted = @ \ versions]
    /\ UNCHANGED <<program, ctx, memory, config, hs, crashed>>

SSL_clearOptions(c, versions) ==
    /\ Live
    /\ Uses("options") /\ Idle(c)
    /\ conn' = [conn EXCEPT ![c].off = @ \ versions, ![c].wanted = @ \cup versions]
    /\ UNCHANGED <<program, ctx, memory, config, hs, crashed>>

-----------------------------------------------------------------------------
(* OCSP: what Java sets.  SSLContext.enableOcsp and disableOcsp do nothing *)
(* with BoringSSL, which has no callback for it.                           *)

\* Mutant: both sides acknowledge with SSL_TLSEXT_ERR_OK.
OCSP_CLIENT_ACK_OK == 0

\* What the stub callback returns.
OCSP_CLIENT_ACK == 1
OCSP_SERVER_ACK == 0

\* What the library takes for success: SSL_TLSEXT_ERR_OK of a server, a positive
\* number of a client.
Success(server) == IF server THEN {0} ELSE {1}

\* Mutant: the callback is set before its argument.
EnableCallbackFirst == <<"cb", "arg">>

\* Which of the two fields the calls write first.
EnableOrder == <<"arg", "cb">>
DisableOrder == <<"cb", "arg">>

\* A half of the call, on the field it is about.
Write(call, half) ==
    LET enable == call.name = "enableOcsp"
        ack    == IF call.client THEN OCSP_CLIENT_ACK ELSE OCSP_SERVER_ACK
        field  == IF enable THEN EnableOrder[half] ELSE DisableOrder[half]
    IN  ctx' = IF field = "cb" THEN [ctx EXCEPT ![call.ctx].cb = enable]
               ELSE [ctx EXCEPT ![call.ctx].arg = IF enable THEN ack ELSE NULL]

Unsteady == hs' = [hs EXCEPT !.steady = FALSE]

\* Java says for which side the context is meant; nothing holds that against its mode.
SSLContext_enableOcsp(k, client) ==
    /\ Live
    /\ Uses("ocsp") /\ ~BoringSSL /\ config = NULL /\ ctx[k].made
    /\ Uses("any side") \/ ctx[k].mode = "combined" \/ client = (ctx[k].mode = "client")
    /\ config' = [name |-> "enableOcsp", ctx |-> k, client |-> client]
    /\ Write(config', 1) /\ Unsteady
    /\ UNCHANGED <<program, memory, conn, crashed>>

SSLContext_disableOcsp(k) ==
    /\ Live
    /\ Uses("disableOcsp") /\ ~BoringSSL /\ config = NULL /\ ctx[k].made
    /\ config' = [name |-> "disableOcsp", ctx |-> k, client |-> FALSE]
    /\ Write(config', 1) /\ Unsteady
    /\ UNCHANGED <<program, memory, conn, crashed>>

SecondHalf ==
    /\ Live
    /\ config # NULL
    /\ Write(config, 2) /\ Unsteady
    /\ config' = NULL
    /\ UNCHANGED <<program, memory, conn, crashed>>

\* "This needs to happen before the SSL handshake."
SSL_enableOcsp(c) ==
    /\ Live
    /\ Uses("ocsp") /\ Idle(c) /\ ~conn[c].server /\ conn[c].handshakeCount = 0
    /\ conn' = [conn EXCEPT ![c].status = TRUE]
    /\ UNCHANGED <<program, ctx, memory, config, hs, crashed>>

\* Mutant: the copy is freed whoever owns it.
ReleasedAlways(fails) == 1

\* How many of the copies made for the call it frees itself: OpenSSL owns the one
\* it took, BoringSSL made another one.
Released(fails) == IF BoringSSL \/ fails THEN 1 ELSE 0

\* The response takes the place of an earlier one.  When it fails, BoringSSL has
\* dropped that one already.
setOcspResponse(c, response, fails) ==
    LET after == IF fails /\ ~BoringSSL THEN conn[c].response ELSE IF fails THEN NULL ELSE response
        taken == IF fails THEN 0 ELSE 1
        freed == IF (fails /\ ~BoringSSL) \/ conn[c].response = NULL THEN 0 ELSE 1
    IN
    /\ Live
    /\ Uses("ocsp") /\ Idle(c) /\ conn[c].server
    /\ fails => program.scarce
    /\ blocks' = blocks + 1 + (IF BoringSSL THEN taken ELSE 0) - Released(fails) - freed
    /\ conn' = [conn EXCEPT ![c].response = after]
    /\ Unsteady
    /\ UNCHANGED <<program, ctx, count, pools, states, bios, config, crashed>>

-----------------------------------------------------------------------------
(* The handshake, of which every connection does one.                      *)

CtxOf(c)   == ctx[conn[c].ctx]
Chooses(c) == Flexible(build, CtxOf(c).protocol)

\* A method for one version does not look at the options that switch versions off.
Speaks(c) == IF Chooses(c) THEN CtxOf(c).speaks \ conn[c].off ELSE CtxOf(c).speaks

\* SSL_do_handshake on both sides: ssl_info_callback counts, the hellos settle
\* the version.
doHandshake(c, s) ==
    LET version == Settled(build, Speaks(c), Speaks(s)) IN
    /\ Live
    /\ ~Running /\ Idle(c) /\ Idle(s)
    /\ ~conn[c].server /\ conn[s].server
    /\ conn[c].bio /\ conn[s].bio
    /\ conn[c].handshakeCount = 0 /\ conn[s].handshakeCount = 0
    /\ conn' = [conn EXCEPT ![c].handshakeCount = @ + 1, ![s].handshakeCount = @ + 1]
    /\ hs' = [pc |-> IF version = {} THEN "failed" ELSE "server", client |-> c, server |-> s,
              version |-> version, staple |-> NULL, cw |-> conn[c].wanted, sw |-> conn[s].wanted,
              steady |-> config = NULL]
    /\ UNCHANGED <<program, ctx, memory, config, crashed>>

AskedFor == conn[hs.client].status

Done == [conn EXCEPT ![hs.client].got = hs.staple, ![hs.client].completed = @ + 1,
                     ![hs.server].completed = @ + 1]

\* The server looks for a response, OpenSSL for a callback first.
ServerStatus ==
    /\ Live
    /\ hs.pc = "server"
    /\ hs' = CASE AskedFor /\ BoringSSL ->
                    [hs EXCEPT !.staple = conn[hs.server].response, !.pc = "client"]
               [] AskedFor /\ ~BoringSSL /\ CtxOf(hs.server).cb -> [hs EXCEPT !.pc = "server callback"]
               [] OTHER -> [hs EXCEPT !.pc = "client"]
    /\ UNCHANGED <<program, ctx, memory, conn, config, crashed>>

\* It returns *arg.
openssl_ocsp_callback_server ==
    /\ Live
    /\ hs.pc = "server callback"
    /\ hs' = IF CtxOf(hs.server).arg \in Success(TRUE)
             THEN [hs EXCEPT !.staple = conn[hs.server].response, !.pc = "client"]
             ELSE [hs EXCEPT !.pc = "failed"]
    /\ crashed' = IF CtxOf(hs.server).arg = NULL THEN "ocsp" ELSE NULL
    /\ UNCHANGED <<program, ctx, memory, conn, config>>

ClientStatus ==
    /\ Live
    /\ hs.pc = "client"
    /\ IF AskedFor /\ ~BoringSSL /\ CtxOf(hs.client).cb
       THEN hs' = [hs EXCEPT !.pc = "client callback"] /\ UNCHANGED conn
       ELSE hs' = [hs EXCEPT !.pc = "done"] /\ conn' = Done
    /\ UNCHANGED <<program, ctx, memory, config, crashed>>

openssl_ocsp_callback_client ==
    /\ Live
    /\ hs.pc = "client callback"
    /\ IF CtxOf(hs.client).arg \in Success(FALSE)
       THEN hs' = [hs EXCEPT !.pc = "done"] /\ conn' = Done
       ELSE hs' = [hs EXCEPT !.pc = "failed"] /\ UNCHANGED conn
    /\ crashed' = IF CtxOf(hs.client).arg = NULL THEN "ocsp" ELSE NULL
    /\ UNCHANGED <<program, ctx, memory, config>>

-----------------------------------------------------------------------------
Configure ==
    \/ \E k \in Ctxs :
          \/ \E protocol \in program.protocols, mode \in program.modes : make(k, protocol, mode)
          \/ \E step \in MakeSteps : makeFails(k, step)
          \/ free(k)
          \/ \E versions \in Options : SSLContext_setOptions(k, versions) \/ SSLContext_clearOptions(k, versions)
          \/ \E client \in BOOLEAN : SSLContext_enableOcsp(k, client)
          \/ SSLContext_disableOcsp(k)
    \/ SecondHalf

Connect ==
    \E c \in SSLs :
       \/ \E k \in Ctxs, server \in BOOLEAN : newSSL(c, k, server)
       \/ \E k \in Ctxs : newSSLFails(c, k)
       \/ bioNewByteBuffer(c) \/ bioNewByteBufferFails(c) \/ freeSSL(c) \/ SSL_enableOcsp(c)
       \/ \E versions \in Options : SSL_setOptions(c, versions) \/ SSL_clearOptions(c, versions)
       \/ \E response \in Responses, fails \in BOOLEAN : setOcspResponse(c, response, fails)
       \/ \E s \in SSLs : doHandshake(c, s)

Handshake == ServerStatus \/ openssl_ocsp_callback_server \/ ClientStatus \/ openssl_ocsp_callback_client

Next == Configure \/ Connect \/ Handshake

Spec == Init /\ [][Next]_vars

-----------------------------------------------------------------------------
(* What makes contexts and connections correct.                            *)

TypeOK ==
    /\ program \in Programs
    /\ ctx \in [Ctxs -> [made : BOOLEAN, protocol : SUBSET Versions, mode : Modes, speaks : SUBSET Versions,
                         off : SUBSET Versions, wanted : SUBSET Versions, cb : BOOLEAN,
                         arg : {NULL, 0, 1}]]
    /\ count \in [Ctxs -> Nat] /\ pools \subseteq Ctxs
    /\ states \in Nat /\ bios \in Nat /\ blocks \in Nat
    /\ conn \in [SSLs -> [ctx : Ctxs \cup {NULL}, server : BOOLEAN, off : SUBSET Versions,
                          wanted : SUBSET Versions, bio : BOOLEAN, status : BOOLEAN,
                          response : Responses \cup {NULL}, got : Responses \cup {NULL},
                          handshakeCount : 0 .. 1, completed : 0 .. 1]]
    /\ crashed \in {NULL, "make", "ocsp"}

\* Whatever is made, replaced, freed or fails half-way in make, newSSL,
\* bioNewByteBuffer and setOcspResponse, and in whichever order contexts and
\* connections are freed: an SSL_CTX has a reference for its context and one for
\* each connection, and there is a pool per context, a state per connection, and
\* a BIO and a copy of a response only where a connection has them.
ResourcesOwned ==
    /\ \A k \in Ctxs : count[k] = Cardinality({c \in SSLs : conn[c].ctx = k})
                                    + (IF ctx[k].made THEN 1 ELSE 0)
    /\ pools = {k \in Ctxs : ctx[k].made}
    /\ states = Cardinality({c \in SSLs : conn[c].ctx # NULL})
    /\ bios = Cardinality({c \in SSLs : conn[c].bio})
    /\ blocks = Cardinality({c \in SSLs : conn[c].response # NULL})

\* A handshake never settles on a version that make or the options of a context or
\* connection switched off for a side that chooses its version; and between two such
\* sides it settles on the best both want, provided they want ranges without gaps
\* (SSLContext.make, setOptions and clearOptions of both classes, newSSL).
NegotiatesBest ==
    hs.pc # "none" =>
      LET wanted == hs.cw \cap hs.sw \cap build.versions IN
      /\ Chooses(hs.client) => hs.version \subseteq hs.cw
      /\ Chooses(hs.server) => hs.version \subseteq hs.sw
      /\ (/\ Chooses(hs.client) /\ Chooses(hs.server)
          /\ \A versions \in {hs.cw, hs.sw} : Contiguous(versions \cap build.versions))
         => hs.version = IF wanted = {} THEN {} ELSE {Max(wanted)}

\* openssl_ocsp_callback never finds its argument missing when OCSP is switched on
\* for a context while handshakes run (SSLContext.enableOcsp).
ArgumentReady == crashed = "ocsp" => Uses("disableOcsp")

\* When nobody changes the OCSP settings meanwhile, the client gets exactly the
\* response its server was given, if it asked for one and the server's context
\* is enabled; and between contexts made, and enabled, for one side the stub callback
\* never breaks a handshake (enableOcsp, setOcspResponse, getOcspResponse).
StapleArrives ==
    hs.steady =>
      /\ hs.pc = "done" =>
           conn[hs.client].got = IF AskedFor /\ (BoringSSL \/ CtxOf(hs.server).cb)
                                 THEN conn[hs.server].response
                                 ELSE NULL
      /\ hs.pc = "failed" => \/ hs.version = {} \/ Uses("any side")
                             \/ "combined" \in {CtxOf(hs.client).mode, CtxOf(hs.server).mode}

-----------------------------------------------------------------------------
(* Deviations: formulas the code does not satisfy.                         *)

\* "The SSL protocol to use" (SSLContext.java): TLSv1.3 is never switched off.
OnlyAsked ==
    hs.pc # "none" /\ ~Uses("options") =>
      hs.version \subseteq CtxOf(hs.client).protocol \cap CtxOf(hs.server).protocol

\* With OpenSSL before 1.1.0 a context for one version speaks it, whatever setOptions says.
SwitchedOffStaysOff == hs.pc # "none" => hs.version \subseteq hs.cw \cap hs.sw

\* A context for one side that is enabled for the other, or one for both, fails its
\* handshakes in the stub callback.
StapleBreaksNothing == hs.steady /\ hs.pc = "failed" => hs.version = {}

\* "The number of handshakes done" (SSL.java): failed ones and running ones count.
HandshakesDone == \A c \in SSLs : conn[c].handshakeCount = conn[c].completed

\* make on BoringSSL without memory, and disableOcsp during a handshake.
NeverCrashes == crashed = NULL

\* Two sides that share a version may fail to see it when one wants a gap.
AnyCommonVersion == hs.pc # "none" /\ hs.version = {} => hs.cw \cap hs.sw \cap build.versions = {}

=============================================================================
