---------------------------- MODULE VerifyConfig ----------------------------
(***************************************************************************)
(* Which peers a connection accepts: the verification level and depth of   *)
(* an SSLContext and of its connections, the Java CertificateVerifier, and *)
(* what of them reaches the TLS library, whatever the order of the calls   *)
(* that set them (sslcontext.c, ssl.c, tcn_set_verify_config of            *)
(* sslutils.c).                                                            *)
(*                                                                         *)
(* A chain is its number of certificates.  The verifier runs on the thread *)
(* of the handshake; SSLTasks models the one that runs as a task.          *)
(***************************************************************************)
EXTENDS Integers

CONSTANTS
    SSLs,       \* connections
    Depths,     \* the depths callers pass
    Chains      \* the lengths of the chains peers send, 0 for no certificate

SSL_CVERIFY_IGNORED  == -1
SSL_CVERIFY_NONE     == 0
SSL_CVERIFY_OPTIONAL == 1
SSL_CVERIFY_REQUIRED == 2
Levels == {SSL_CVERIFY_IGNORED, SSL_CVERIFY_NONE, SSL_CVERIFY_OPTIONAL, SSL_CVERIFY_REQUIRED}

\* What the library knows of: SSL_VERIFY_NONE, SSL_VERIFY_PEER, and the latter
\* with SSL_VERIFY_FAIL_IF_NO_PEER_CERT.
LibraryModes == {"NONE", "PEER", "PEER_OR_FAIL"}

\* The results of a verification that are told apart.
Verdicts == {"X509_V_OK", "X509_V_ERR_UNSPECIFIED", "X509_V_ERR_CERT_HAS_EXPIRED"}

ASSUME DepthsAssumption == Depths \subseteq Int
ASSUME ChainsAssumption == Chains \subseteq Nat

VARIABLES
    Server,         \* the context is a server's
    BoringSSL,      \* the build is for BoringSSL or AWS-LC
    verify_config,  \* of the context
    verifier,       \* the context has a CertificateVerifier
    lib,            \* mode and verify callback on the SSL_CTX
    conn,           \* a connection: its verify_config, its mode and callback in the library
    open,           \* the connections that exist
    armed,          \* those the library was told the level for
    outcome         \* what became of the handshake of a connection

build == <<Server, BoringSSL>>
vars  == <<build, verify_config, verifier, lib, conn, open, armed, outcome>>

\* The library's own default is SSL_VERIFY_NONE.
DefaultConfig == [mode |-> SSL_CVERIFY_NONE, depth |-> 100]
DefaultLib    == [mode |-> "NONE", callback |-> FALSE]
NoOutcome     == [status |-> "none", chain |-> 0, passed |-> 0, called |-> FALSE, verdict |-> "none"]

Init ==
    /\ Server \in BOOLEAN /\ BoringSSL \in BOOLEAN
    /\ verify_config = DefaultConfig
    /\ verifier = FALSE
    /\ lib = DefaultLib
    /\ conn = [c \in SSLs |-> [config |-> DefaultConfig, lib |-> DefaultLib]]
    /\ open = {}
    /\ armed = {}
    /\ outcome = [c \in SSLs |-> NoOutcome]

-----------------------------------------------------------------------------
(* tcn_set_verify_config: the new configuration, and the mode it returns.  *)

\* Mutant: a negative depth is stored.
UpdateConfigAnyDepth(config, level, depth) ==
    [mode  |-> IF level = SSL_CVERIFY_IGNORED THEN config.mode ELSE level,
     depth |-> depth]

UpdateConfig(config, level, depth) ==
    [mode  |-> IF level = SSL_CVERIFY_IGNORED THEN config.mode ELSE level,
     depth |-> IF depth >= 0 THEN depth ELSE config.depth]

LibraryMode(config) ==
    CASE config.mode = SSL_CVERIFY_NONE     -> "NONE"
      [] config.mode = SSL_CVERIFY_OPTIONAL -> "PEER"
      [] OTHER                              -> "PEER_OR_FAIL"

-----------------------------------------------------------------------------
(* The context.                                                            *)

\* Mutant: the mode waits for a verifier in every build.
SSLContext_setVerifyLater(level, depth) ==
    /\ verify_config' = UpdateConfig(verify_config, level, depth)
    /\ lib' = IF ~verifier THEN lib ELSE [lib EXCEPT !.mode = LibraryMode(verify_config')]
    /\ UNCHANGED <<build, verifier, conn, open, armed, outcome>>

\* With BoringSSL the mode reaches the library together with the callback, and
\* only when there is a verifier to call.
SSLContext_setVerify(level, depth) ==
    /\ verify_config' = UpdateConfig(verify_config, level, depth)
    /\ lib' = IF BoringSSL /\ ~verifier THEN lib
              ELSE [lib EXCEPT !.mode = LibraryMode(verify_config')]
    /\ UNCHANGED <<build, verifier, conn, open, armed, outcome>>

\* Mutant: the level that was set before the verifier is not handed on.
setCertVerifyCallbackIgnoresLevel ==
    /\ verifier' = TRUE
    /\ lib' = [lib EXCEPT !.callback = TRUE]
    /\ UNCHANGED <<build, verify_config, conn, open, armed, outcome>>

setCertVerifyCallback ==
    /\ verifier' = TRUE
    /\ lib' = [mode |-> IF BoringSSL THEN LibraryMode(verify_config) ELSE lib.mode, callback |-> TRUE]
    /\ UNCHANGED <<build, verify_config, conn, open, armed, outcome>>

\* Mutant: the callback goes, the mode stays.
clearCertVerifyCallbackKeepsMode ==
    /\ verifier' = FALSE
    /\ lib' = [lib EXCEPT !.callback = FALSE]
    /\ UNCHANGED <<build, verify_config, conn, open, armed, outcome>>

clearCertVerifyCallback ==
    /\ verifier' = FALSE
    /\ lib' = [mode |-> IF BoringSSL THEN "NONE" ELSE lib.mode, callback |-> FALSE]
    /\ UNCHANGED <<build, verify_config, conn, open, armed, outcome>>

-----------------------------------------------------------------------------
(* Connections.                                                            *)

\* SSL_new copies what the library has, new_ssl_state the configuration.
newSSL(c) ==
    /\ c \notin open
    /\ open' = open \cup {c}
    /\ conn' = [conn EXCEPT ![c] = [config |-> verify_config, lib |-> lib]]
    /\ armed' = IF BoringSSL /\ ~verifier THEN armed \ {c} ELSE armed \cup {c}
    /\ outcome' = [outcome EXCEPT ![c] = NoOutcome]
    /\ UNCHANGED <<build, verify_config, verifier, lib>>

freeSSL(c) ==
    /\ c \in open
    /\ open' = open \ {c}
    /\ outcome' = [outcome EXCEPT ![c] = NoOutcome]
    /\ UNCHANGED <<build, verify_config, verifier, lib, conn, armed>>

\* The level is for the next handshake of the connection.
SSL_setVerify(c, level, depth) ==
    LET config == UpdateConfig(conn[c].config, level, depth)
    IN  /\ c \in open
        /\ conn' = [conn EXCEPT ![c] = [config |-> config,
                                        lib |-> [mode |-> LibraryMode(config),
                                                 callback |-> BoringSSL \/ conn[c].lib.callback]]]
        /\ armed' = armed \cup {c}
        /\ outcome' = [outcome EXCEPT ![c] = NoOutcome]
        /\ UNCHANGED <<build, verify_config, verifier, lib, open>>

-----------------------------------------------------------------------------
(* The handshake.                                                          *)

\* get_certs hands on the first certificates of the chain.
get_certs(c, chain) == IF conn[c].config.depth < chain THEN conn[c].config.depth ELSE chain

\* Mutant: a verifier that fails without a reason lets the peer pass.
ResultTrusting(verdict, passed, chain) ==
    IF verdict = "X509_V_ERR_UNSPECIFIED" THEN "X509_V_OK" ELSE verdict

\* An unknown failure of a shortened chain is the missing issuer.
Result(verdict, passed, chain) ==
    IF verdict = "X509_V_ERR_UNSPECIFIED" /\ passed < chain
    THEN "X509_V_ERR_UNABLE_TO_GET_ISSUER_CERT_LOCALLY" ELSE verdict

\* A server asks for a certificate only when it verifies.
Presented(c, chain) == IF Server /\ conn[c].lib.mode = "NONE" THEN 0 ELSE chain

\* What the library makes of the result of a callback: SSL_VERIFY_NONE accepts
\* any, and no certificate is a failure only where one is asked for.
Accepts(c, chain, result) ==
    \/ conn[c].lib.mode = "NONE"
    \/ chain > 0 /\ result = "X509_V_OK"
    \/ chain = 0 /\ conn[c].lib.mode = "PEER"

Finish(c, accepted, chain, passed, called, verdict) ==
    outcome' = [outcome EXCEPT ![c] =
        [status |-> IF accepted THEN "accepted" ELSE "refused",
         chain |-> chain, passed |-> passed, called |-> called, verdict |-> verdict]]

Handshaking(c) == c \in open /\ outcome[c] = NoOutcome

\* The client of this context always sees a chain; a server may see none.
NoCertificate(c) ==
    /\ Handshaking(c) /\ Server
    /\ \E chain \in Chains : Presented(c, chain) = 0
    /\ Finish(c, Accepts(c, 0, "none"), 0, 0, FALSE, "none")
    /\ UNCHANGED <<build, verify_config, verifier, lib, conn, open, armed>>

\* The verifier is asked.  One that throws counts as X509_V_ERR_UNSPECIFIED.
CallVerifier(c, chain, verdict) ==
    LET passed == get_certs(c, chain)
    IN  /\ Handshaking(c) /\ Presented(c, chain) > 0
        /\ verifier
        /\ IF BoringSSL THEN conn[c].lib.callback ELSE lib.callback
        /\ Finish(c, Accepts(c, chain, Result(verdict, passed, chain)), chain, passed, TRUE, verdict)
        /\ UNCHANGED <<build, verify_config, verifier, lib, conn, open, armed>>

\* The verifier was removed from a BoringSSL context, whose connections keep
\* the callback.
VerifierGone(c, chain) ==
    LET passed == get_certs(c, chain)
    IN  /\ Handshaking(c) /\ Presented(c, chain) > 0
        /\ BoringSSL /\ ~verifier /\ conn[c].lib.callback
        /\ Finish(c, Accepts(c, chain, Result("X509_V_ERR_UNSPECIFIED", passed, chain)),
                  chain, passed, FALSE, "none")
        /\ UNCHANGED <<build, verify_config, verifier, lib, conn, open, armed>>

\* Without a callback OpenSSL verifies by itself; a BoringSSL context made with
\* TLS_with_buffers_method has nothing to verify with and refuses.
LibraryVerifies(c, chain, verdict) ==
    /\ Handshaking(c) /\ Presented(c, chain) > 0
    /\ IF BoringSSL THEN ~conn[c].lib.callback ELSE ~lib.callback
    /\ Finish(c, ~BoringSSL /\ Accepts(c, chain, verdict), chain, 0, FALSE, verdict)
    /\ UNCHANGED <<build, verify_config, verifier, lib, conn, open, armed>>

Handshake(c) ==
    \/ NoCertificate(c)
    \/ \E chain \in Chains :
          \/ VerifierGone(c, chain)
          \/ \E verdict \in Verdicts : CallVerifier(c, chain, verdict) \/ LibraryVerifies(c, chain, verdict)

-----------------------------------------------------------------------------
Next ==
    \/ \E level \in Levels, depth \in Depths :
          \/ SSLContext_setVerify(level, depth)
          \/ \E c \in SSLs : SSL_setVerify(c, level, depth)
    \/ setCertVerifyCallback \/ clearCertVerifyCallback
    \/ \E c \in SSLs : newSSL(c) \/ freeSSL(c) \/ Handshake(c)

Spec == Init /\ [][Next]_vars

-----------------------------------------------------------------------------
(* Properties.                                                             *)

\* Type invariant: the two configurations, what the library holds, and the
\* result of a handshake.
Configs == [mode : {SSL_CVERIFY_NONE, SSL_CVERIFY_OPTIONAL, SSL_CVERIFY_REQUIRED}, depth : Nat]
Libs    == [mode : LibraryModes, callback : BOOLEAN]
TypeOK ==
    /\ Server \in BOOLEAN /\ BoringSSL \in BOOLEAN
    /\ verify_config \in Configs
    /\ verifier \in BOOLEAN
    /\ lib \in Libs
    /\ conn \in [SSLs -> [config : Configs, lib : Libs]]
    /\ open \subseteq SSLs
    /\ armed \subseteq SSLs
    /\ outcome \in [SSLs -> [status : {"none", "accepted", "refused"}, chain : Nat, passed : Nat,
                             called : BOOLEAN, verdict : Verdicts \cup {"none"}]]

Accepted(c) == outcome[c].status = "accepted"
Verified(c) == outcome[c].chain > 0 /\ outcome[c].verdict = "X509_V_OK"
Level(c)    == conn[c].config.mode

\* A connection at level REQUIRED is established only with a peer whose chain
\* was found valid, and one at level OPTIONAL never with a peer whose chain was
\* not: for every order of setVerify, setCertVerifyCallback, newSSL and
\* SSL.setVerify in which the library was told the level at all.
LevelEnforced ==
    \A c \in armed : Accepted(c) =>
        /\ Level(c) = SSL_CVERIFY_REQUIRED => Verified(c)
        /\ Level(c) = SSL_CVERIFY_OPTIONAL => Verified(c) \/ outcome[c].chain = 0

\* No call on the context, before or after a connection is made, lets the mode
\* in the library drift from the level: of a context with a verifier, and of
\* the connections whose level the library was told.
LibraryAgrees ==
    /\ verifier \/ ~BoringSSL => lib.mode = LibraryMode(verify_config)
    /\ \A c \in armed : conn[c].lib.mode = LibraryMode(conn[c].config)

\* A connection that verifies with BoringSSL always has the callback that asks
\* the verifier, and once the verifier is removed refuses instead of passing.
FailsClosed ==
    \A c \in open : BoringSSL /\ conn[c].lib.mode # "NONE" =>
        /\ conn[c].lib.callback
        /\ Accepted(c) /\ outcome[c].chain > 0 => outcome[c].called

\* SSLContext.setVerify: "SSL_CVERIFY_REQUIRED - The client has to present a
\* valid Certificate", with or without a verifier on the context.
\* The code does not keep to it: README.md, "Deviations".
RequiredOfEveryone ==
    \A c \in open : Accepted(c) /\ Level(c) = SSL_CVERIFY_REQUIRED => Verified(c)

\* SSLContext.setVerify: "The depth actually is the maximum number of
\* intermediate certificate issuers": a chain with no more issuers than that is
\* verified whole.
\* The code does not keep to it: README.md, "Deviations".
DepthCountsIssuers ==
    \A c \in open : outcome[c].called /\ outcome[c].chain - 1 <= conn[c].config.depth =>
        outcome[c].passed = outcome[c].chain

=============================================================================
