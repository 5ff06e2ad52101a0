------------------------- MODULE NegotiationProofs --------------------------
(***************************************************************************)
(* Proofs about what a handshake settles: whether the peer is accepted     *)
(* (VerifyConfig) and which application protocol is spoken                 *)
(* (ProtocolSelection).                                                    *)
(***************************************************************************)
EXTENDS VerifyConfig, ProtocolSelection, SequenceTheorems, WellFoundedInduction, TLAPS

\* What the library holds for a BoringSSL context: the callback together with
\* the verifier, and no verification without it.
LibraryInv ==
    BoringSSL => lib.callback = verifier /\ (~verifier => lib.mode = "NONE")

\* The inductive invariant.  LibraryInv is what makes newSSL hand a connection a
\* callback together with a mode that verifies.
VerifyInv == TypeOK /\ LibraryInv /\ LibraryAgrees /\ LevelEnforced /\ FailsClosed

\* tcn_set_verify_config keeps a configuration one, whatever the arguments, and
\* the mode it returns is one of the library's.
LEMMA ConfigTypes ==
    /\ \A config \in Configs, level \in Levels, depth \in Depths :
          UpdateConfig(config, level, depth) \in Configs
    /\ \A config \in Configs : LibraryMode(config) \in LibraryModes
BY DepthsAssumption
   DEF Configs, Levels, UpdateConfig, LibraryMode, LibraryModes, SSL_CVERIFY_IGNORED,
       SSL_CVERIFY_NONE, SSL_CVERIFY_OPTIONAL, SSL_CVERIFY_REQUIRED

\* The default configuration is one, and no verification is its mode.
LEMMA DefaultTypes ==
    DefaultConfig \in Configs /\ DefaultLib \in Libs /\ LibraryMode(DefaultConfig) = "NONE"
BY DEF DefaultConfig, DefaultLib, Configs, Libs, LibraryModes, LibraryMode, SSL_CVERIFY_NONE,
       SSL_CVERIFY_OPTIONAL, SSL_CVERIFY_REQUIRED

\* A new context verifies nothing and says so.
LEMMA VerifyInit == Init => VerifyInv
<1> SUFFICES ASSUME Init PROVE VerifyInv
    OBVIOUS
<1>1. TypeOK
    BY DefaultTypes DEF Init, TypeOK, NoOutcome
<1>2. LibraryInv /\ LibraryAgrees
    BY DefaultTypes DEF Init, LibraryInv, LibraryAgrees, DefaultLib
<1>3. LevelEnforced /\ FailsClosed
    BY DEF Init, LevelEnforced, FailsClosed
<1> QED
    BY <1>1, <1>2, <1>3 DEF VerifyInv

\* What a handshake may conclude, whichever callback ran.
Concluded(c) ==
    /\ outcome'[c].chain = 0 => outcome'[c].status = "refused" \/ conn[c].lib.mode \in {"NONE", "PEER"}
    /\ outcome'[c].chain > 0 /\ outcome'[c].status = "accepted" /\ conn[c].lib.mode # "NONE" =>
          outcome'[c].verdict = "X509_V_OK" /\ (BoringSSL => outcome'[c].called)

\* A handshake writes the outcome of its connection and nothing else.
HandshakeOf(c) ==
    /\ c \in open
    /\ \E o \in [status : {"none", "accepted", "refused"}, chain : Nat, passed : Nat,
                 called : BOOLEAN, verdict : Verdicts \cup {"none"}] :
          outcome' = [outcome EXCEPT ![c] = o]
    /\ Concluded(c)
    /\ UNCHANGED <<build, verify_config, verifier, lib, conn, open, armed>>

\* Every way a handshake ends is a HandshakeOf step.
LEMMA HandshakeSteps == \A c \in SSLs : TypeOK /\ Handshake(c) => HandshakeOf(c)
<1> SUFFICES ASSUME NEW c \in SSLs, TypeOK, Handshake(c) PROVE HandshakeOf(c)
    OBVIOUS
<1>0. /\ conn[c].config.depth \in Nat
      /\ BoringSSL \in BOOLEAN
      /\ conn[c].lib.mode \in LibraryModes
      /\ outcome \in [SSLs -> [status : {"none", "accepted", "refused"}, chain : Nat, passed : Nat,
                               called : BOOLEAN, verdict : Verdicts \cup {"none"}]]
    BY DEF TypeOK, Configs, Libs
<1>1. CASE NoCertificate(c)
    <2>1. c \in open /\ UNCHANGED <<build, verify_config, verifier, lib, conn, open, armed>>
        BY <1>1 DEF NoCertificate, Handshaking
    <2>2. PICK st \in {"accepted", "refused"} :
            /\ outcome' = [outcome EXCEPT ![c] = [status |-> st, chain |-> 0, passed |-> 0,
                                                  called |-> FALSE, verdict |-> "none"]]
            /\ st = "accepted" => conn[c].lib.mode \in {"NONE", "PEER"}
        BY <1>1 DEF NoCertificate, Finish, Accepts
    <2>3. Concluded(c)
        BY <1>0, <2>2 DEF Concluded
    <2> QED
        BY <2>1, <2>2, <2>3 DEF HandshakeOf
<1>2. ASSUME NEW chain \in Chains, VerifierGone(c, chain) PROVE HandshakeOf(c)
    <2>1. c \in open /\ UNCHANGED <<build, verify_config, verifier, lib, conn, open, armed>>
        BY <1>2 DEF VerifierGone, Handshaking
    <2>2. chain \in Nat /\ chain > 0 /\ get_certs(c, chain) \in Nat
        BY <1>0, <1>2, ChainsAssumption DEF VerifierGone, Presented, get_certs
    <2>3. outcome' = [outcome EXCEPT ![c] =
                [status |-> IF Accepts(c, chain, Result("X509_V_ERR_UNSPECIFIED", get_certs(c, chain), chain)) THEN "accepted" ELSE "refused",
                 chain |-> chain, passed |-> get_certs(c, chain), called |-> FALSE, verdict |-> "none"]]
        BY <1>2 DEF VerifierGone, Finish
    <2>4. Accepts(c, chain, Result("X509_V_ERR_UNSPECIFIED", get_certs(c, chain), chain)) => conn[c].lib.mode = "NONE"
        BY <2>2 DEF Accepts, Result
    <2>5. PICK st \in {"accepted", "refused"} :
            /\ outcome' = [outcome EXCEPT ![c] = [status |-> st, chain |-> chain, passed |-> get_certs(c, chain),
                                                  called |-> FALSE, verdict |-> "none"]]
            /\ st = "accepted" => conn[c].lib.mode = "NONE"
        BY <2>3, <2>4
    <2>6. Concluded(c)
        BY <1>0, <2>2, <2>5 DEF Concluded
    <2> QED
        BY <2>1, <2>2, <2>5, <2>6 DEF HandshakeOf
<1>3. ASSUME NEW chain \in Chains, NEW verdict \in Verdicts, CallVerifier(c, chain, verdict)
      PROVE  HandshakeOf(c)
    <2>1. c \in open /\ UNCHANGED <<build, verify_config, verifier, lib, conn, open, armed>>
        BY <1>3 DEF CallVerifier, Handshaking
    <2>2. chain \in Nat /\ chain > 0 /\ get_certs(c, chain) \in Nat
        BY <1>0, <1>3, ChainsAssumption DEF CallVerifier, Presented, get_certs
    <2>3. outcome' = [outcome EXCEPT ![c] =
                [status |-> IF Accepts(c, chain, Result(verdict, get_certs(c, chain), chain)) THEN "accepted" ELSE "refused",
                 chain |-> chain, passed |-> get_certs(c, chain), called |-> TRUE, verdict |-> verdict]]
        BY <1>3 DEF CallVerifier, Finish
    <2>4. Accepts(c, chain, Result(verdict, get_certs(c, chain), chain)) => conn[c].lib.mode = "NONE" \/ verdict = "X509_V_OK"
        BY <2>2 DEF Accepts, Result
    <2>5. PICK st \in {"accepted", "refused"} :
            /\ outcome' = [outcome EXCEPT ![c] = [status |-> st, chain |-> chain, passed |-> get_certs(c, chain),
                                                  called |-> TRUE, verdict |-> verdict]]
            /\ st = "accepted" => conn[c].lib.mode = "NONE" \/ verdict = "X509_V_OK"
        BY <2>3, <2>4
    <2>6. Concluded(c)
        BY <1>0, <2>2, <2>5 DEF Concluded
    <2> QED
        BY <2>1, <2>2, <2>5, <2>6 DEF HandshakeOf
<1>4. ASSUME NEW chain \in Chains, NEW verdict \in Verdicts, LibraryVerifies(c, chain, verdict)
      PROVE  HandshakeOf(c)
    <2>1. c \in open /\ UNCHANGED <<build, verify_config, verifier, lib, conn, open, armed>>
        BY <1>4 DEF LibraryVerifies, Handshaking
    <2>2. chain \in Nat /\ chain > 0
        BY <1>4, ChainsAssumption DEF LibraryVerifies, Presented
    <2>3. outcome' = [outcome EXCEPT ![c] =
                [status |-> IF (~BoringSSL /\ Accepts(c, chain, verdict)) THEN "accepted" ELSE "refused",
                 chain |-> chain, passed |-> 0, called |-> FALSE, verdict |-> verdict]]
        BY <1>4 DEF LibraryVerifies, Finish
    <2>4. (~BoringSSL /\ Accepts(c, chain, verdict)) => ~BoringSSL /\ (conn[c].lib.mode = "NONE" \/ verdict = "X509_V_OK")
        BY <2>2 DEF Accepts
    <2>5. PICK st \in {"accepted", "refused"} :
            /\ outcome' = [outcome EXCEPT ![c] = [status |-> st, chain |-> chain, passed |-> 0,
                                                  called |-> FALSE, verdict |-> verdict]]
            /\ st = "accepted" => ~BoringSSL /\ (conn[c].lib.mode = "NONE" \/ verdict = "X509_V_OK")
        BY <2>3, <2>4
    <2>6. Concluded(c)
        BY <1>0, <2>2, <2>5 DEF Concluded
    <2> QED
        BY <2>1, <2>2, <2>5, <2>6 DEF HandshakeOf
<1> QED
    BY <1>1, <1>2, <1>3, <1>4 DEF Handshake

\* Every step keeps the invariant.
LEMMA VerifyStep == VerifyInv /\ [Next]_vars => VerifyInv'
<1> SUFFICES ASSUME VerifyInv, [Next]_vars PROVE VerifyInv'
    OBVIOUS
<1> USE DEF VerifyInv, build
<1>1. ASSUME NEW level \in Levels, NEW depth \in Depths, SSLContext_setVerify(level, depth)
      PROVE  VerifyInv'
    <2> USE <1>1 DEF SSLContext_setVerify
    <2>1. verify_config' \in Configs /\ LibraryMode(verify_config') \in LibraryModes
        BY ConfigTypes DEF TypeOK
    <2>2. lib' \in Libs
        BY <2>1 DEF TypeOK, Libs
    <2>3. TypeOK'
        BY <2>1, <2>2 DEF TypeOK
    <2>4. LibraryInv'
        BY DEF LibraryInv, TypeOK, Libs
    <2>5. LibraryAgrees'
        BY DEF LibraryAgrees, TypeOK, Libs, LibraryMode
    <2>6. LevelEnforced' /\ FailsClosed'
        BY DEF LevelEnforced, FailsClosed, Accepted, Verified, Level
    <2> QED
        BY <2>3, <2>4, <2>5, <2>6
<1>2. CASE setCertVerifyCallback
    <2> USE <1>2 DEF setCertVerifyCallback
    <2>1. LibraryMode(verify_config) \in LibraryModes
        BY ConfigTypes DEF TypeOK
    <2>2. TypeOK'
        BY <2>1 DEF TypeOK, Libs
    <2>3. LibraryInv' /\ LibraryAgrees'
        BY DEF TypeOK, LibraryInv, LibraryAgrees, LibraryMode
    <2>4. LevelEnforced' /\ FailsClosed'
        BY DEF LevelEnforced, FailsClosed, Accepted, Verified, Level
    <2> QED
        BY <2>2, <2>3, <2>4
<1>3. CASE clearCertVerifyCallback
    <2> USE <1>3 DEF clearCertVerifyCallback
    <2>1. TypeOK'
        BY DEF TypeOK, Libs, LibraryModes
    <2>2. LibraryInv' /\ LibraryAgrees'
        BY DEF TypeOK, LibraryInv, LibraryAgrees, LibraryMode
    <2>3. LevelEnforced' /\ FailsClosed'
        BY DEF LevelEnforced, FailsClosed, Accepted, Verified, Level
    <2> QED
        BY <2>1, <2>2, <2>3
<1>4. ASSUME NEW c \in SSLs, newSSL(c) PROVE VerifyInv'
    <2> USE <1>4 DEF newSSL
    <2>1. TypeOK'
        BY DEF TypeOK, NoOutcome
    <2>2. LibraryInv'
        BY DEF LibraryInv
    <2>3. \A d \in SSLs : /\ d # c => conn'[d] = conn[d] /\ outcome'[d] = outcome[d]
                          /\ d = c => conn'[d].lib = lib /\ conn'[d].config = verify_config
                          /\ d = c => outcome'[d].status = "none"
        BY DEF TypeOK, NoOutcome
    <2>4. c \in armed' => verifier \/ ~BoringSSL
        BY DEF TypeOK
    <2>5. armed' \subseteq SSLs /\ \A d \in armed' : d # c => d \in armed
        BY DEF TypeOK
    <2>6. \A d \in armed' : conn'[d].lib.mode = LibraryMode(conn'[d].config)
        BY <2>3, <2>4, <2>5 DEF LibraryAgrees
    <2>7. LibraryAgrees'
        BY <2>6 DEF LibraryAgrees, LibraryMode
    <2>8. LevelEnforced'
        BY <2>3, <2>5 DEF LevelEnforced, Accepted, Verified, Level
    <2>9. FailsClosed'
        BY <2>3 DEF FailsClosed, LibraryInv, TypeOK, Accepted
    <2> QED
        BY <2>1, <2>2, <2>7, <2>8, <2>9
<1>5. ASSUME NEW c \in SSLs, freeSSL(c) PROVE VerifyInv'
    <2> USE <1>5 DEF freeSSL
    <2>1. TypeOK'
        BY DEF TypeOK, NoOutcome
    <2>2. LibraryInv' /\ LibraryAgrees'
        BY DEF LibraryInv, LibraryAgrees, LibraryMode
    <2>3. \A d \in SSLs : outcome'[d] = outcome[d] \/ outcome'[d].status = "none"
        BY DEF TypeOK, NoOutcome
    <2>4. LevelEnforced' /\ FailsClosed'
        BY <2>3 DEF LevelEnforced, FailsClosed, Accepted, Verified, Level, TypeOK
    <2> QED
        BY <2>1, <2>2, <2>4
<1>6. ASSUME NEW c \in SSLs, NEW level \in Levels, NEW depth \in Depths, SSL_setVerify(c, level, depth)
      PROVE  VerifyInv'
    <2> DEFINE config == UpdateConfig(conn[c].config, level, depth)
    <2>1. conn[c].config \in Configs /\ conn[c].lib \in Libs
        BY DEF TypeOK
    <2>2. config \in Configs /\ LibraryMode(config) \in LibraryModes
        BY <2>1, ConfigTypes
    <2>3. (BoringSSL \/ conn[c].lib.callback) \in BOOLEAN
        BY <2>1 DEF Libs, TypeOK
    <2> HIDE DEF config
    <2>4. conn' = [conn EXCEPT ![c] = [config |-> config,
                                       lib |-> [mode |-> LibraryMode(config),
                                                callback |-> BoringSSL \/ conn[c].lib.callback]]]
        BY <1>6 DEF SSL_setVerify, config
    <2>5. /\ outcome' = [outcome EXCEPT ![c] = NoOutcome] /\ armed' = armed \cup {c}
          /\ UNCHANGED <<build, verify_config, verifier, lib, open>>
        BY <1>6 DEF SSL_setVerify
    <2>6. TypeOK'
        BY <2>2, <2>3, <2>4, <2>5 DEF TypeOK, Libs, NoOutcome
    <2>7. \A d \in SSLs : /\ d # c => conn'[d] = conn[d] /\ outcome'[d] = outcome[d]
                          /\ d = c => conn'[d].lib.mode = LibraryMode(conn'[d].config)
                          /\ d = c /\ BoringSSL => conn'[d].lib.callback
                          /\ d = c => outcome'[d].status = "none"
        BY <2>4, <2>5 DEF TypeOK, NoOutcome
    <2>8. LibraryInv'
        BY <2>5 DEF LibraryInv
    <2>9. \A d \in armed' : conn'[d].lib.mode = LibraryMode(conn'[d].config)
        BY <2>5, <2>7 DEF LibraryAgrees, TypeOK
    <2>10. LibraryAgrees'
        BY <2>5, <2>9 DEF LibraryAgrees, LibraryMode
    <2>11. LevelEnforced' /\ FailsClosed'
        BY <2>5, <2>7 DEF LevelEnforced, FailsClosed, Accepted, Verified, Level, TypeOK
    <2> QED
        BY <2>6, <2>8, <2>10, <2>11
<1>7. ASSUME NEW c \in SSLs, Handshake(c) PROVE VerifyInv'
    <2>1. HandshakeOf(c)
        BY <1>7, HandshakeSteps
    <2>2. TypeOK'
        BY <2>1 DEF HandshakeOf, TypeOK
    <2>3. LibraryInv' /\ LibraryAgrees'
        BY <2>1 DEF HandshakeOf, LibraryInv, LibraryAgrees, LibraryMode
    <2>4. \A d \in SSLs : d # c => outcome'[d] = outcome[d]
        BY <2>1 DEF HandshakeOf, TypeOK
    <2>5. outcome'[c].chain \in Nat
        BY <2>2 DEF TypeOK
    <2>6. c \in armed => /\ Level(c) = SSL_CVERIFY_REQUIRED => conn[c].lib.mode = "PEER_OR_FAIL"
                         /\ Level(c) = SSL_CVERIFY_OPTIONAL => conn[c].lib.mode = "PEER"
        BY DEF LibraryAgrees, LibraryMode, Level, SSL_CVERIFY_REQUIRED, SSL_CVERIFY_OPTIONAL, SSL_CVERIFY_NONE
    <2>7. LevelEnforced'
        BY <2>1, <2>4, <2>5, <2>6
           DEF HandshakeOf, Concluded, LevelEnforced, Accepted, Verified, Level, TypeOK,
               SSL_CVERIFY_REQUIRED, SSL_CVERIFY_OPTIONAL
    <2>8. FailsClosed'
        BY <2>1, <2>4, <2>5 DEF HandshakeOf, Concluded, FailsClosed, Accepted, TypeOK
    <2> QED
        BY <2>2, <2>3, <2>7, <2>8
<1>8. CASE UNCHANGED vars
    <2> USE <1>8 DEF vars
    <2>1. TypeOK' /\ LibraryInv'
        BY DEF TypeOK, LibraryInv
    <2>2. LibraryAgrees'
        BY DEF LibraryAgrees, LibraryMode
    <2>3. LevelEnforced' /\ FailsClosed'
        BY DEF LevelEnforced, FailsClosed, Accepted, Verified, Level
    <2> QED
        BY <2>1, <2>2, <2>3
<1> QED
    BY <1>1, <1>2, <1>3, <1>4, <1>5, <1>6, <1>7, <1>8 DEF Next

\* The invariant holds in every reachable state.
LEMMA VerifyAlways == Spec => []VerifyInv
BY VerifyInit, VerifyStep, PTL DEF Spec

\* The configurations and the library's modes keep their types: a negative
\* depth is never stored, and "ignored" never becomes a level.
THEOREM TypeCorrect == Spec => []TypeOK
BY VerifyAlways, PTL DEF VerifyInv

\* The level of a connection is enforced by its handshakes, for every order in
\* which context, verifier and connection are configured.
THEOREM LevelCorrect == Spec => []LevelEnforced
BY VerifyAlways, PTL DEF VerifyInv

\* The mode in the library follows the level.
THEOREM LibraryCorrect == Spec => []LibraryAgrees
BY VerifyAlways, PTL DEF VerifyInv

\* With BoringSSL, a connection that verifies asks the verifier or refuses.
THEOREM ClosedCorrect == Spec => []FailsClosed
BY VerifyAlways, PTL DEF VerifyInv

-----------------------------------------------------------------------------
(* ProtocolSelection, for every list Java configures.                      *)

\* Induction over data is done by least counterexample: a set of numbers that
\* is not empty has a least one.
LEMMA LeastNat ==
    ASSUME NEW T \in SUBSET Nat, T # {}
    PROVE  \E n \in T : \A m \in T : n <= m
<1>1. PICK n \in T : \A m \in T : ~(<<m, n>> \in OpToRel(<, Nat))
    BY WFMin, NatLessThanWellFounded, Zenon
<1>2. \A m \in T : ~(m < n)
    BY <1>1 DEF OpToRel
<1> QED
    BY <1>2

\* f gives what protocolsToWireFormat has written after each of the first n
\* names of p.
Steps(f, p, n) == f = [k \in 0..n |-> IF k = 0 THEN << >> ELSE f[k - 1] \o Encode(p[k])]

\* There is such a function for every number of names.
LEMMA StepsExist ==
    ASSUME NEW p, NEW n \in Nat
    PROVE  \E f : Steps(f, p, n)
<1> DEFINE T == {m \in Nat : ~\E f : Steps(f, p, m)}
<1>1. CASE T = {}
    BY <1>1
<1>2. CASE T # {}
  <2>1. PICK m \in T : \A k \in T : m <= k
    BY <1>2, LeastNat
  <2> HIDE DEF T
  <2>0. m \in Nat /\ ~\E f : Steps(f, p, m)
    BY DEF T
  <2>2. m # 0
    <3>1. Steps([k \in 0..0 |-> << >>], p, 0)
      BY DEF Steps
    <3> QED
      BY <2>0, <3>1
  <2>3. PICK g : Steps(g, p, m - 1)
    <3>1. m - 1 \in Nat /\ m - 1 \notin T
      BY <2>0, <2>1, <2>2
    <3> QED
      BY <3>1 DEF T
  <2> DEFINE f == [k \in 0..m |-> IF k = m THEN g[m - 1] \o Encode(p[m]) ELSE g[k]]
  <2>4. Steps(f, p, m)
    <3>1. ASSUME NEW k \in 0..m PROVE f[k] = IF k = 0 THEN << >> ELSE f[k - 1] \o Encode(p[k])
      <4>1. CASE k = m
        BY <4>1, <2>0, <2>2
      <4>2. CASE k # m
        <5>1. k \in 0..(m-1)
          BY <4>2, <2>0, <2>2
        <5>2. g[k] = IF k = 0 THEN << >> ELSE g[k - 1] \o Encode(p[k])
          BY <5>1, <2>3 DEF Steps
        <5> QED
          BY <5>1, <5>2, <2>0
      <4> QED
        BY <4>1, <4>2
    <3> QED
      BY <3>1 DEF Steps
  <2> QED
    BY <2>0, <2>4
<1> QED
    BY <1>1, <1>2

\* Written satisfies its recursive definition.
LEMMA WrittenSteps ==
    ASSUME NEW p, Len(p) \in Nat
    PROVE  /\ DOMAIN Written(p) = 0..Len(p)
           /\ Written(p)[0] = << >>
           /\ \A k \in 1..Len(p) : Written(p)[k] = Written(p)[k - 1] \o Encode(p[k])
<1>1. \E f : f = [k \in 0..Len(p) |-> IF k = 0 THEN << >> ELSE f[k - 1] \o Encode(p[k])]
    BY StepsExist DEF Steps
<1>2. Written(p) = [k \in 0..Len(p) |-> IF k = 0 THEN << >> ELSE Written(p)[k - 1] \o Encode(p[k])]
    BY <1>1 DEF Written
<1> DEFINE W == Written(p)
           F(k) == IF k = 0 THEN << >> ELSE W[k - 1] \o Encode(p[k])
<1>3. W = [k \in 0..Len(p) |-> F(k)]
    BY <1>2
<1> HIDE DEF W
<1>4. DOMAIN W = 0..Len(p) /\ \A k \in 0..Len(p) : W[k] = F(k)
    <2> HIDE DEF F
    <2> QED
    BY <1>3
<1>5. W[0] = << >> /\ \A k \in 1..Len(p) : W[k] = W[k - 1] \o Encode(p[k])
    BY <1>4
<1> QED
    BY <1>4, <1>5 DEF W

\* A list Java can have set.
WireList(p) == p \in Seq(Seq(Byte)) /\ \A k \in 1..Len(p) : Len(p[k]) \in Byte

\* A name in wire format is bytes, whatever its length.
LEMMA EncodeBytes ==
    ASSUME NEW name \in Seq(Byte)
    PROVE  Encode(name) \in Seq(Byte)
<1>1. Len(name) % (UINT8_MAX + 1) \in Byte
  <2>1. PICK n \in Nat : n = Len(name)
    OBVIOUS
  <2>2. n % (UINT8_MAX + 1) >= 0 /\ n % (UINT8_MAX + 1) <= UINT8_MAX /\ n % (UINT8_MAX + 1) \in Int
    BY DEF UINT8_MAX
  <2>3. UINT8_MAX \in Int
    BY DEF UINT8_MAX
  <2> QED
    BY <2>1, <2>2, <2>3 DEF Byte
<1>2. <<Len(name) % (UINT8_MAX + 1)>> \o name \in Seq(Byte)
    BY <1>1
<1> QED
    BY <1>2 DEF Encode

\* A name of at most 255 bytes is written as its length and its bytes.
LEMMA EncodeType ==
    ASSUME NEW name \in Seq(Byte), Len(name) \in Byte
    PROVE  /\ Encode(name) \in Seq(Byte)
           /\ Len(Encode(name)) = Len(name) + 1
           /\ Encode(name)[1] = Len(name)
           /\ \A j \in 1..Len(name) : Encode(name)[j + 1] = name[j]
<1>1. Len(name) >= 0 /\ Len(name) <= UINT8_MAX
    BY DEF Byte
<1>2. Len(name) % (UINT8_MAX + 1) = Len(name)
    BY <1>1 DEF UINT8_MAX
<1>3. Fits(name)
    BY <1>1 DEF Fits, MAX_ALPN_NPN_PROTO_SIZE, UINT8_MAX
<1>4. Encode(name) = <<Len(name)>> \o name
    BY <1>2, <1>3 DEF Encode
<1> QED
    BY <1>4

\* What was written first stays in front.
Prefix(s, t) == Len(s) <= Len(t) /\ \A q \in 1..Len(s) : t[q] = s[q]

\* Writing on keeps what was written.
LEMMA PrefixOfConcat ==
    ASSUME NEW s \in Seq(Byte), NEW e \in Seq(Byte)
    PROVE  s \o e \in Seq(Byte) /\ Prefix(s, s \o e)
BY DEF Prefix

\* What lies in front of the front lies in front.
LEMMA PrefixTransitive ==
    ASSUME NEW r \in Seq(Byte), NEW s \in Seq(Byte), NEW t \in Seq(Byte),
           Prefix(r, s), Prefix(s, t)
    PROVE  Prefix(r, t)
BY DEF Prefix

\* Every stream begins with itself, and with nothing.
LEMMA PrefixReflexive ==
    ASSUME NEW s \in Seq(Byte)
    PROVE  Prefix(s, s) /\ Prefix(<< >>, s)
BY DEF Prefix

\* A name behind s, in memory that begins with both.
LEMMA NameBehind ==
    ASSUME NEW s \in Seq(Byte), NEW name \in Seq(Byte), Len(name) \in Byte, NEW t \in Seq(Byte),
           Prefix(s \o Encode(name), t)
    PROVE  /\ Len(s \o Encode(name)) = Len(s) + Len(name) + 1
           /\ Len(s) + Len(name) + 1 <= Len(t)
           /\ t[Len(s) + 1] = Len(name)
           /\ SubSeq(t, Len(s) + 2, Len(s) + 1 + Len(name)) = name
<1> DEFINE e == Encode(name)
<1>1. /\ e \in Seq(Byte) /\ Len(e) = Len(name) + 1 /\ e[1] = Len(name)
      /\ \A j \in 1..Len(name) : e[j + 1] = name[j]
    BY EncodeType
<1> HIDE DEF e
<1>2. /\ Len(s \o e) = Len(s) + Len(e)
      /\ \A q \in 1..Len(e) : (s \o e)[Len(s) + q] = e[q]
  <2>1. PICK d \in Seq(Byte) : d = e
    BY <1>1
  <2>2. /\ Len(s \o d) = Len(s) + Len(d)
        /\ \A q \in 1..Len(d) : (s \o d)[Len(s) + q] = d[q]
    BY ConcatProperties
  <2> QED
    BY <2>1, <2>2
<1>3. ASSUME NEW q \in 1..Len(e) PROVE t[Len(s) + q] = e[q]
  <2>1. Len(s) + q \in 1..Len(s \o e)
    BY <1>1, <1>2
  <2>2. t[Len(s) + q] = (s \o e)[Len(s) + q]
    BY <2>1 DEF Prefix, e
  <2> QED
    BY <1>2, <2>2
<1>4. t[Len(s) + 1] = Len(name)
    BY <1>1, <1>3
<1>5. \A j \in 1..Len(name) : t[Len(s) + 1 + j] = name[j]
    BY <1>1, <1>3
<1>6. Len(s) + Len(name) + 1 <= Len(t)
    BY <1>1, <1>2 DEF Prefix, e
<1>7. SubSeq(t, Len(s) + 2, Len(s) + 1 + Len(name)) = name
  <2> DEFINE u == SubSeq(t, Len(s) + 2, Len(s) + 1 + Len(name))
  <2>1. u \in Seq(Byte) /\ Len(u) = Len(name) /\ \A j \in 1..Len(name) : u[j] = t[Len(s) + 1 + j]
    BY <1>6
  <2> HIDE DEF u
  <2>2. u = name
    BY <1>5, <2>1, SeqEqual
  <2> QED
    BY <2>2 DEF u
<1> QED
    BY <1>1, <1>2, <1>4, <1>6, <1>7 DEF e

\* The stream only ever grows, and holds bytes.
LEMMA WrittenGrows ==
    ASSUME NEW p \in Seq(Seq(Byte))
    PROVE  \A k \in 0..Len(p) : /\ Written(p)[k] \in Seq(Byte)
                                /\ \A j \in 0..k : Prefix(Written(p)[j], Written(p)[k])
<1> DEFINE W == Written(p)
           Good(k) == W[k] \in Seq(Byte) /\ \A j \in 0..k : Prefix(W[j], W[k])
           T == {k \in 0..Len(p) : ~Good(k)}
<1>1. Len(p) \in Nat /\ \A k \in 1..Len(p) : p[k] \in Seq(Byte)
    OBVIOUS
<1>2. W[0] = << >> /\ \A k \in 1..Len(p) : W[k] = W[k - 1] \o Encode(p[k])
    BY <1>1, WrittenSteps
<1> HIDE DEF W, Good
<1>3. CASE T # {}
  <2>0. T \in SUBSET Nat
    BY <1>1
  <2>1. PICK k \in T : \A m \in T : k <= m
    BY <1>3, <2>0, LeastNat
  <2>2. k \in 0..Len(p) /\ ~Good(k)
    OBVIOUS
  <2>3. k # 0
    <3>1. W[0] \in Seq(Byte)
      BY <1>2
    <3>2. Good(0)
      BY <3>1, PrefixReflexive DEF Good
    <3> QED
      BY <3>2, <2>2
  <2>4. \A j \in 0..(k - 1) : Good(j)
    <3> SUFFICES ASSUME NEW j \in 0..(k - 1) PROVE Good(j)
      OBVIOUS
    <3>1. j \in 0..Len(p) /\ ~(k <= j)
      BY <1>1, <2>2
    <3> QED
      BY <2>1, <3>1
  <2>5. k \in 1..Len(p) /\ k - 1 \in 0..(k - 1)
    BY <1>1, <2>2, <2>3
  <2>6. W[k] = W[k - 1] \o Encode(p[k]) /\ Encode(p[k]) \in Seq(Byte) /\ W[k - 1] \in Seq(Byte)
    BY <1>1, <1>2, <2>4, <2>5, EncodeBytes DEF Good
  <2>7. W[k] \in Seq(Byte) /\ Prefix(W[k - 1], W[k])
    BY <2>6, PrefixOfConcat
  <2>8. ASSUME NEW j \in 0..k PROVE Prefix(W[j], W[k])
    <3>1. CASE j = k
      BY <3>1, <2>7, PrefixReflexive
    <3>2. CASE j \in 0..(k - 1)
      <4>1. W[j] \in Seq(Byte) /\ Prefix(W[j], W[k - 1])
        BY <3>2, <2>4, <2>5 DEF Good
      <4> QED
        BY <4>1, <2>6, <2>7, PrefixTransitive
    <3> QED
      BY <3>1, <3>2, <2>5
  <2> QED
    BY <2>2, <2>7, <2>8 DEF Good
<1>4. CASE T = {}
    BY <1>4 DEF Good, W
<1> QED
    BY <1>3, <1>4

\* Where the names of a list end in wire format.
Offset(p, k) == Len(Written(p)[k])

\* The k-th name lies where the walk looks for it, whatever follows the list.
LEMMA NameAt ==
    ASSUME NEW p, WireList(p), NEW t \in Seq(Byte), Prefix(protocolsToWireFormat(p), t),
           NEW k \in 1..Len(p)
    PROVE  /\ Offset(p, k - 1) \in Nat
           /\ Len(p[k]) \in Nat
           /\ Offset(p, k) = Offset(p, k - 1) + Len(p[k]) + 1
           /\ Offset(p, k) <= Offset(p, Len(p))
           /\ Offset(p, k) <= Len(t)
           /\ t[Offset(p, k - 1) + 1] = Len(p[k])
           /\ SubSeq(t, Offset(p, k - 1) + 2, Offset(p, k - 1) + 1 + Len(p[k])) = p[k]
<1>1. /\ Len(p) \in Nat /\ p[k] \in Seq(Byte) /\ Len(p[k]) \in Byte
      /\ k \in 0..Len(p) /\ k - 1 \in 0..Len(p) /\ Len(p) \in 0..Len(p)
    BY DEF WireList
<1>2. Written(p)[k] = Written(p)[k - 1] \o Encode(p[k])
    BY <1>1, WrittenSteps
<1>3. /\ Written(p)[k] \in Seq(Byte) /\ Written(p)[k - 1] \in Seq(Byte)
      /\ Written(p)[Len(p)] \in Seq(Byte) /\ Prefix(Written(p)[k], Written(p)[Len(p)])
    BY <1>1, WrittenGrows DEF WireList
<1>4. PICK s \in Seq(Byte), r \in Seq(Byte), w \in Seq(Byte), name \in Seq(Byte) :
        s = Written(p)[k - 1] /\ r = Written(p)[k] /\ w = Written(p)[Len(p)] /\ name = p[k]
    BY <1>1, <1>3
<1>5. Prefix(r, w) /\ Prefix(w, t) /\ Len(name) \in Byte /\ r = s \o Encode(name)
    BY <1>1, <1>2, <1>3, <1>4 DEF protocolsToWireFormat
<1>6. Prefix(r, t)
    BY <1>5, PrefixTransitive
<1>7. /\ Len(r) = Len(s) + Len(name) + 1
      /\ Len(s) + Len(name) + 1 <= Len(t)
      /\ t[Len(s) + 1] = Len(name)
      /\ SubSeq(t, Len(s) + 2, Len(s) + 1 + Len(name)) = name
    BY <1>5, <1>6, NameBehind
<1>8. Len(r) <= Len(w) /\ Len(s) \in Nat /\ Len(name) \in Nat
    BY <1>5 DEF Prefix
<1>9. Offset(p, k - 1) = Len(s) /\ Offset(p, k) = Len(r) /\ Offset(p, Len(p)) = Len(w)
    BY <1>4 DEF Offset
<1> QED
    BY <1>4, <1>7, <1>8, <1>9

\* Where the walk stands once it has passed the first k names of the list.
Walked(p, k) ==
    /\ supported_protos = Offset(p, k) + 1
    /\ i \in Nat /\ i <= Offset(p, k)
    /\ \A j \in 1..k : ~Contains(in, p[j])

\* The memory of an extension begins with the list set last, or was lost.
ListKept(x) ==
    /\ WireList(configured[x])
    /\ proto_len[x] = Len(protocolsToWireFormat(configured[x]))
    /\ proto_data[x] = << >> \/ Prefix(protocolsToWireFormat(configured[x]), proto_data[x])

\* The inductive invariant of the walk: the memory begins with the configured
\* list or was lost, and the walk stands at the end of a name, all names before
\* it not offered, as long as some configured name is.
WalkInv ==
    /\ configured \in [Extensions -> Seq(Seq(Byte))]
    /\ proto_len \in [Extensions -> Nat]
    /\ proto_data \in [Extensions -> Seq(Byte)]
    /\ ext \in Extensions
    /\ \A x \in Extensions : ListKept(x)
    /\ pc = "idle" => i = 0 /\ supported_protos = 1
    /\ pc = "scan" => \/ Common(ext) = {}
                      \/ \E k \in 0..(Len(configured[ext]) - 1) : Walked(configured[ext], k)
    /\ PreferredMatch

\* The format holds the length of a name in one byte.
ShortNames == \A list \in Lists : \A k \in 1..Len(list) : Len(list[k]) \in Byte

\* What setAlpnProtos0 and setNpnProtos0 are given is bytes, and begins at offset 0.
LEMMA WireType ==
    ASSUME NEW p \in Seq(Seq(Byte))
    PROVE  /\ protocolsToWireFormat(p) \in Seq(Byte)
           /\ Offset(p, 0) = 0
           /\ Offset(p, Len(p)) = Len(protocolsToWireFormat(p))
<1>1. Len(p) \in Nat
    OBVIOUS
<1>2. Written(p)[0] = << >>
    BY <1>1, WrittenSteps
<1>3. Len(p) \in 0..Len(p)
    BY <1>1
<1>4. Written(p)[Len(p)] \in Seq(Byte)
    BY <1>3, WrittenGrows
<1> QED
    BY <1>2, <1>4 DEF protocolsToWireFormat, Offset

\* Before a list is set there is none.
LEMMA WalkInit == SelectionInit => WalkInv
<1> SUFFICES ASSUME SelectionInit PROVE WalkInv
    OBVIOUS
<1>1. WireList(<< >>)
    BY DEF WireList
<1>2. Len(protocolsToWireFormat(<< >>)) = 0
  <2>1. Len(<< >>) = 0
    OBVIOUS
  <2> QED
    BY <1>1, <2>1, WireType DEF WireList
<1>3. \A x \in Extensions : ListKept(x)
    BY <1>1, <1>2 DEF SelectionInit, ListKept
<1> QED
    BY <1>3 DEF SelectionInit, WalkInv, PreferredMatch, Extensions

\* Setting a list leaves a block that begins with it.
LEMMA BlockBegins ==
    ASSUME NEW wire \in Seq(Byte), NEW old \in Seq(Byte), NEW block \in Blocks(wire, old)
    PROVE  block \in Seq(Byte) /\ Prefix(wire, block)
<1>1. PICK rest \in Junk \cup {SubSeq(old, Len(wire) + 1, Len(old))} : block = wire \o rest
    BY DEF Blocks
<1>2. SubSeq(old, Len(wire) + 1, Len(old)) \in Seq(Byte)
  <2>1. Len(wire) + 1 \in Int /\ Len(old) \in Int /\ \A q \in (Len(wire) + 1)..Len(old) : old[q] \in Byte
    OBVIOUS
  <2> QED
    BY <2>1, SubSeqProperties
<1>3. rest \in Seq(Byte)
    BY <1>1, <1>2, JunkAssumption
<1> QED
    BY <1>1, <1>3, PrefixOfConcat

\* setAlpnProtos0 and setNpnProtos0 leave a block that begins with the list.
LEMMA WalkSet ==
    ASSUME WalkInv, NEW x \in Extensions, NEW list, WireList(list), NEW behaviour,
           SetProtos(x, list, behaviour)
    PROVE  WalkInv'
<1> DEFINE wire == protocolsToWireFormat(list)
<1>1. wire \in Seq(Byte) /\ Len(wire) \in Nat /\ proto_data[x] \in Seq(Byte)
    BY WireType DEF WalkInv, WireList
<1>2. PICK block \in Blocks(wire, proto_data[x]) : proto_data' = [proto_data EXCEPT ![x] = block]
    BY DEF SetProtos
<1>3. block \in Seq(Byte) /\ Prefix(wire, block)
    BY <1>1, <1>2, BlockBegins
<1>4. list \in Seq(Seq(Byte))
    BY DEF WireList
<1>5. /\ pc = "idle" /\ pc' = pc /\ i' = i /\ supported_protos' = supported_protos /\ ext' = ext
      /\ proto_len' = [proto_len EXCEPT ![x] = Len(wire)]
      /\ configured' = [configured EXCEPT ![x] = list]
    BY DEF SetProtos, scan
<1> HIDE DEF wire
<1>6. /\ configured' \in [Extensions -> Seq(Seq(Byte))]
      /\ proto_len' \in [Extensions -> Nat]
      /\ proto_data' \in [Extensions -> Seq(Byte)]
    BY <1>1, <1>2, <1>3, <1>4, <1>5 DEF WalkInv
<1>7. ASSUME NEW y \in Extensions PROVE ListKept(y)'
  <2>1. CASE y = x
    <3>1. configured'[y] = list /\ proto_len'[y] = Len(wire) /\ proto_data'[y] = block
      BY <2>1, <1>2, <1>5 DEF WalkInv
    <3> QED
      BY <3>1, <1>3 DEF ListKept, wire
  <2>2. CASE y # x
    <3>1. configured'[y] = configured[y] /\ proto_len'[y] = proto_len[y] /\ proto_data'[y] = proto_data[y]
      BY <2>2, <1>2, <1>5 DEF WalkInv
    <3> QED
      BY <3>1 DEF ListKept, WalkInv
  <2> QED
    BY <2>1, <2>2
<1> QED
    BY <1>5, <1>6, <1>7 DEF WalkInv, PreferredMatch

\* A failed OPENSSL_malloc loses the block of one extension.
LEMMA WalkNoMemory ==
    ASSUME WalkInv, NEW x \in Extensions, SetProtosNoMemory(x)
    PROVE  WalkInv'
<1>1. /\ pc = "idle" /\ pc' = pc /\ i' = i /\ supported_protos' = supported_protos /\ ext' = ext
      /\ proto_len' = proto_len /\ configured' = configured
      /\ proto_data' = [proto_data EXCEPT ![x] = << >>]
    BY DEF SetProtosNoMemory, scan
<1>2. proto_data' \in [Extensions -> Seq(Byte)]
    BY <1>1 DEF WalkInv
<1>3. ASSUME NEW y \in Extensions PROVE ListKept(y)'
  <2>1. ListKept(y) /\ (proto_data'[y] = << >> \/ proto_data'[y] = proto_data[y])
    BY <1>1 DEF WalkInv
  <2> QED
    BY <2>1, <1>1 DEF ListKept
<1> QED
    BY <1>1, <1>2, <1>3 DEF WalkInv, PreferredMatch

\* The list announced by NPN is the configured one.
LEMMA WalkAnnounce == WalkInv /\ tcn_SSL_callback_next_protos => WalkInv'
<1> SUFFICES ASSUME WalkInv, tcn_SSL_callback_next_protos PROVE WalkInv'
    OBVIOUS
<1>1. /\ pc' \in {"announced", "crashed"} /\ ext' = ext
      /\ proto_len' = proto_len /\ configured' = configured /\ proto_data' = proto_data
      /\ pc' = "announced" => /\ proto_len["npn"] <= Len(proto_data["npn"])
                              /\ out' = SubSeq(proto_data["npn"], 1, proto_len["npn"])
    BY DEF tcn_SSL_callback_next_protos, settings
<1>2. "npn" \in Extensions /\ ListKept("npn")
    BY DEF Extensions, WalkInv
<1>3. PICK wire \in Seq(Byte), t \in Seq(Byte) :
        wire = protocolsToWireFormat(configured["npn"]) /\ t = proto_data["npn"]
    BY <1>2, WireType DEF ListKept, WalkInv
<1>4. proto_len["npn"] = Len(wire) /\ (t = << >> \/ Prefix(wire, t))
    BY <1>2, <1>3 DEF ListKept
<1>5. ASSUME Len(wire) <= Len(t) PROVE SubSeq(t, 1, Len(wire)) = wire
  <2>1. CASE t = << >>
    BY <1>5, <2>1
  <2>2. CASE Prefix(wire, t)
    <3>1. Len(wire) \in Nat /\ Len(t) \in Nat /\ \A q \in 1..Len(wire) : t[q] \in Byte
      BY <1>5
    <3> DEFINE u == SubSeq(t, 1, Len(wire))
    <3>2. u \in Seq(Byte) /\ Len(u) = Len(wire) /\ \A q \in 1..Len(wire) : u[q] = t[q]
      BY <3>1, SubSeqProperties
    <3> HIDE DEF u
    <3>3. u = wire
      BY <3>2, <2>2, SeqEqual DEF Prefix
    <3> QED
      BY <3>3 DEF u
  <2> QED
    BY <1>4, <2>1, <2>2
<1>6. PreferredMatch'
    BY <1>1, <1>3, <1>4, <1>5 DEF PreferredMatch
<1>7. \A x \in Extensions : ListKept(x)'
    BY <1>1 DEF WalkInv, ListKept
<1> QED
    BY <1>1, <1>6, <1>7 DEF WalkInv

\* Nothing of a list changes while a handshake walks it.
LEMMA KeptWhenSettingsKept ==
    ASSUME WalkInv, UNCHANGED settings
    PROVE  /\ (configured \in [Extensions -> Seq(Seq(Byte))])'
           /\ (proto_len \in [Extensions -> Nat])'
           /\ (proto_data \in [Extensions -> Seq(Byte)])'
           /\ (\A x \in Extensions : ListKept(x))'
BY DEF WalkInv, ListKept, settings

\* A handshake starts the walk before the first name.
LEMMA WalkStart ==
    ASSUME WalkInv, NEW x \in Extensions, NEW offer, StartSelect(x, offer)
    PROVE  WalkInv'
<1>1. /\ pc = "idle" /\ pc' = "scan" /\ ext' = x /\ UNCHANGED settings
      /\ i' = 0 /\ supported_protos' = 1
    BY DEF StartSelect, WalkInv
<1>2. WireList(configured'[x]) /\ Len(configured'[x]) \in Nat
  <2>1. WireList(configured[x]) /\ configured' = configured
    BY <1>1 DEF WalkInv, ListKept, settings
  <2> QED
    BY <2>1 DEF WireList
<1>3. Offset(configured'[x], 0) = 0
    BY <1>2, WireType DEF WireList
<1>4. Walked(configured[x], 0)'
    BY <1>1, <1>3 DEF Walked
<1>5. ASSUME Common(x)' # {} PROVE 0 \in 0..(Len(configured'[x]) - 1)
  <2>1. PICK k : k \in DOMAIN configured'[x]
    BY <1>5 DEF Common
  <2> QED
    BY <1>2, <2>1 DEF WireList
<1> QED
    BY <1>1, <1>4, <1>5, KeptWhenSettingsKept DEF WalkInv, PreferredMatch

\* What the walk reads after k names is the next name.
LEMMA WalkReads ==
    ASSUME WalkInv, Readable, NEW k \in 0..(Len(configured[ext]) - 1), Walked(configured[ext], k)
    PROVE  /\ k + 1 \in 1..Len(configured[ext])
           /\ target = configured[ext][k + 1]
           /\ target_proto_len = Len(configured[ext][k + 1])
           /\ Increment \in Nat
           /\ Increment <= Offset(configured[ext], k + 1)
           /\ NextName = Offset(configured[ext], k + 1) + 1
<1> DEFINE p == configured[ext]
<1>1. WireList(p) /\ Len(p) \in Nat /\ ListKept(ext)
  <2>1. ListKept(ext) /\ p \in Seq(Seq(Byte))
    BY DEF WalkInv
  <2> QED
    BY <2>1 DEF ListKept
<1>2. k + 1 \in 1..Len(p) /\ (k + 1) - 1 = k
    BY <1>1
<1>3. Offset(p, k) \in Nat
  <2>1. Written(p)[k] \in Seq(Byte)
    BY <1>1, WrittenGrows DEF WireList
  <2> QED
    BY <2>1 DEF Offset
<1>4. PICK t \in Seq(Byte) : t = memory
    BY DEF WalkInv, memory
<1>5. t # << >>
  <2>1. supported_protos \in Nat \ {0} /\ supported_protos <= Len(t)
    BY <1>3, <1>4 DEF Readable, Walked
  <2>2. t = << >> => Len(t) = 0
    OBVIOUS
  <2> QED
    BY <2>1, <2>2
<1>6. Prefix(protocolsToWireFormat(p), t)
    BY <1>1, <1>4, <1>5 DEF ListKept, memory
<1> HIDE DEF p
<1>7. /\ Len(p[k + 1]) \in Nat
      /\ Offset(p, k + 1) = Offset(p, k) + Len(p[k + 1]) + 1
      /\ t[Offset(p, k) + 1] = Len(p[k + 1])
      /\ SubSeq(t, Offset(p, k) + 2, Offset(p, k) + 1 + Len(p[k + 1])) = p[k + 1]
    BY <1>1, <1>2, <1>6, NameAt
<1>8. supported_protos = Offset(p, k) + 1 /\ i \in Nat /\ i <= Offset(p, k)
    BY DEF Walked, p
<1>9. target_proto_len = Len(p[k + 1])
    BY <1>4, <1>7, <1>8 DEF target_proto_len
<1>10. target = p[k + 1]
  <2>1. supported_protos + 1 = Offset(p, k) + 2
    BY <1>3, <1>8
  <2> QED
    BY <2>1, <1>4, <1>7, <1>8, <1>9 DEF target
<1>11. /\ Increment \in Nat
       /\ Increment <= Offset(p, k + 1)
       /\ NextName = Offset(p, k + 1) + 1
  <2>1. PICK a \in Nat, b \in Nat : a = Offset(p, k) /\ b = Len(p[k + 1])
    BY <1>3, <1>7
  <2>2. Increment = i + b /\ NextName = a + 1 + b + 1 /\ Offset(p, k + 1) = a + b + 1
    BY <2>1, <1>7, <1>8, <1>9 DEF Increment, NextName
  <2>3. i \in Nat /\ i <= a
    BY <2>1, <1>8
  <2> HIDE DEF p
  <2>4. i + b \in Nat /\ i + b <= a + b + 1 /\ a + 1 + b + 1 = (a + b + 1) + 1
    BY <2>3
  <2> QED
    BY <2>2, <2>4
<1> QED
    BY <1>2, <1>9, <1>10, <1>11 DEF p

\* A match after k names that are not offered is the preferred one.
LEMMA FirstIsPreferred ==
    ASSUME NEW x \in Extensions, WireList(configured[x]), NEW k \in 1..Len(configured[x]),
           Contains(in, configured[x][k]),
           \A j \in 1..(k - 1) : ~Contains(in, configured[x][j])
    PROVE  Preferred(x) = configured[x][k]
<1>1. DOMAIN configured[x] = 1..Len(configured[x]) /\ Len(configured[x]) \in Nat
    BY DEF WireList
<1>2. k \in Common(x)
    BY <1>1 DEF Common
<1>3. \A j \in Common(x) : j \in Nat /\ k <= j
    BY <1>1 DEF Common
<1>4. \A m \in Common(x) : (\A j \in Common(x) : m <= j) => m = k
    BY <1>2, <1>3
<1> DEFINE c == CHOOSE m \in Common(x) : \A j \in Common(x) : m <= j
<1>5. c \in Common(x) /\ \A j \in Common(x) : c <= j
    BY <1>2, <1>3
<1>6. c = k
    BY <1>4, <1>5
<1> QED
    BY <1>6 DEF Preferred

\* The match found is the first name the peer offers.
LEMMA WalkFound == WalkInv /\ FoundMatch => WalkInv'
<1> SUFFICES ASSUME WalkInv, FoundMatch PROVE WalkInv'
    OBVIOUS
<1>1. /\ pc = "scan" /\ Readable /\ Contains(in, target)
      /\ pc' = "done" /\ ret' = "OK" /\ out' = target
      /\ UNCHANGED settings /\ ext' = ext /\ in' = in
    BY DEF FoundMatch, Scanning, Return
<1>2. configured' = configured
    BY <1>1 DEF settings
<1>3. ASSUME Common(ext) # {} PROVE target = Preferred(ext)
  <2>1. PICK k \in 0..(Len(configured[ext]) - 1) : Walked(configured[ext], k)
    BY <1>1, <1>3 DEF WalkInv
  <2>2. k + 1 \in 1..Len(configured[ext]) /\ target = configured[ext][k + 1]
    BY <1>1, <2>1, WalkReads
  <2>3. (k + 1) - 1 = k
    BY <2>1
  <2>4. \A j \in 1..((k + 1) - 1) : ~Contains(in, configured[ext][j])
    BY <2>1, <2>3 DEF Walked
  <2>5. ext \in Extensions /\ WireList(configured[ext])
    BY DEF WalkInv, ListKept
  <2> QED
    BY <1>1, <2>2, <2>4, <2>5, FirstIsPreferred
<1>4. Common(ext)' = Common(ext) /\ Preferred(ext)' = Preferred(ext)
    BY <1>1, <1>2 DEF Common, Preferred
<1>5. PreferredMatch'
    BY <1>1, <1>3, <1>4 DEF PreferredMatch
<1> QED
    BY <1>1, <1>5, KeptWhenSettingsKept DEF WalkInv

\* A name that is not offered is passed; the one that is lies further on.
LEMMA WalkOn == WalkInv /\ NextSupported => WalkInv'
<1> SUFFICES ASSUME WalkInv, NextSupported PROVE WalkInv'
    OBVIOUS
<1>1. /\ pc = "scan" /\ pc' = "scan" /\ Readable /\ ~Contains(in, target)
      /\ i' = Increment /\ supported_protos' = NextName
      /\ UNCHANGED settings /\ ext' = ext /\ in' = in
    BY DEF NextSupported, Scanning
<1>2. configured' = configured
    BY <1>1 DEF settings
<1>3. Common(ext)' = Common(ext)
    BY <1>1, <1>2 DEF Common
<1>4. ASSUME Common(ext) # {}
      PROVE  \E k \in 0..(Len(configured[ext]) - 1) : Walked(configured[ext], k)'
  <2>1. PICK k \in 0..(Len(configured[ext]) - 1) : Walked(configured[ext], k)
    BY <1>1, <1>4 DEF WalkInv
  <2>2. /\ k + 1 \in 1..Len(configured[ext]) /\ target = configured[ext][k + 1]
        /\ Increment \in Nat /\ Increment <= Offset(configured[ext], k + 1)
        /\ NextName = Offset(configured[ext], k + 1) + 1
    BY <1>1, <2>1, WalkReads
  <2>3. \A j \in 1..(k + 1) : ~Contains(in, configured[ext][j])
    <3> SUFFICES ASSUME NEW j \in 1..(k + 1) PROVE ~Contains(in, configured[ext][j])
      OBVIOUS
    <3>1. CASE j = k + 1
      BY <1>1, <2>2, <3>1
    <3>2. CASE j \in 1..k
      BY <2>1, <3>2 DEF Walked
    <3> QED
      BY <3>1, <3>2
  <2>4. Len(configured[ext]) \in Nat /\ DOMAIN configured[ext] = 1..Len(configured[ext])
    BY DEF WalkInv
  <2>5. k + 1 # Len(configured[ext])
    BY <1>4, <2>3, <2>4 DEF Common
  <2>6. k + 1 \in 0..(Len(configured[ext]) - 1)
    BY <2>2, <2>4, <2>5
  <2>7. Walked(configured[ext], k + 1)'
    BY <1>1, <1>2, <2>2, <2>3 DEF Walked
  <2> QED
    BY <2>6, <2>7
<1>5. \/ Common(ext)' = {}
      \/ (\E k \in 0..(Len(configured[ext]) - 1) : Walked(configured[ext], k))'
    BY <1>1, <1>2, <1>3, <1>4
<1> QED
    BY <1>1, <1>5, KeptWhenSettingsKept DEF WalkInv, PreferredMatch

\* The loop does not end before the first name the peer offers.
LEMMA WalkEnds == WalkInv /\ NoMatch => WalkInv'
<1> SUFFICES ASSUME WalkInv, NoMatch PROVE WalkInv'
    OBVIOUS
<1>1. /\ pc = "scan" /\ pc' = "done" /\ i >= proto_len[ext]
      /\ UNCHANGED settings /\ ext' = ext /\ in' = in
    BY DEF NoMatch, Return
<1>2. configured' = configured
    BY <1>1 DEF settings
<1>3. Common(ext)' = Common(ext)
    BY <1>1, <1>2 DEF Common
<1>4. Common(ext) = {}
  <2> SUFFICES ASSUME Common(ext) # {} PROVE FALSE
    OBVIOUS
  <2>1. PICK k \in 0..(Len(configured[ext]) - 1) : Walked(configured[ext], k)
    BY <1>1 DEF WalkInv
  <2>2. WireList(configured[ext]) /\ Len(configured[ext]) \in Nat
    BY DEF WalkInv, ListKept
  <2>3. PICK wire \in Seq(Byte) : wire = protocolsToWireFormat(configured[ext])
    BY <2>2, WireType DEF WireList
  <2>4. k + 1 \in 1..Len(configured[ext]) /\ (k + 1) - 1 = k
    BY <2>1, <2>2
  <2>5. Prefix(protocolsToWireFormat(configured[ext]), wire)
    BY <2>3, PrefixReflexive
  <2>6. /\ Offset(configured[ext], k) \in Nat /\ Len(configured[ext][k + 1]) \in Nat
        /\ Offset(configured[ext], k + 1) = Offset(configured[ext], k) + Len(configured[ext][k + 1]) + 1
        /\ Offset(configured[ext], k + 1) <= Offset(configured[ext], Len(configured[ext]))
    BY <2>2, <2>4, <2>5, NameAt
  <2>7. proto_len[ext] = Offset(configured[ext], Len(configured[ext])) /\ proto_len[ext] \in Nat
    BY <2>2, WireType DEF WalkInv, ListKept
  <2>8. i \in Nat /\ i <= Offset(configured[ext], k)
    BY <2>1 DEF Walked
  <2> QED
    BY <1>1, <2>6, <2>7, <2>8
<1>5. PreferredMatch'
    BY <1>1, <1>3, <1>4 DEF PreferredMatch
<1> QED
    BY <1>1, <1>5, KeptWhenSettingsKept DEF WalkInv

\* Every step keeps the invariant.
LEMMA WalkStep == ShortNames /\ WalkInv /\ [SelectionNext]_selectionVars => WalkInv'
<1> SUFFICES ASSUME ShortNames, WalkInv, [SelectionNext]_selectionVars PROVE WalkInv'
    OBVIOUS
<1>0. "npn" \in Extensions /\ "alpn" \in Extensions
    BY DEF Extensions
<1>1. ASSUME NEW list \in Lists, NEW behaviour \in Behaviours,
             setNpnProtos0(list, behaviour) \/ setAlpnProtos0(list, behaviour)
      PROVE  WalkInv'
  <2>1. WireList(list)
    BY ListsAssumption DEF ShortNames, WireList
  <2> QED
    BY <1>0, <1>1, <2>1, WalkSet, WalkNoMemory DEF setNpnProtos0, setAlpnProtos0
<1>2. CASE tcn_SSL_callback_next_protos
    BY <1>2, WalkAnnounce
<1>3. ASSUME NEW offer \in Offers,
             \/ tcn_SSL_callback_select_next_proto(offer)
             \/ tcn_SSL_callback_alpn_select_proto(offer)
      PROVE  WalkInv'
    BY <1>0, <1>3, WalkStart DEF tcn_SSL_callback_select_next_proto, tcn_SSL_callback_alpn_select_proto
<1>4. CASE FoundMatch
    BY <1>4, WalkFound
<1>5. CASE NextSupported
    BY <1>5, WalkOn
<1>6. CASE Fault
  <2>1. pc' = "crashed" /\ UNCHANGED settings /\ ext' = ext
    BY <1>6 DEF Fault
  <2> QED
    BY <2>1, KeptWhenSettingsKept DEF WalkInv, PreferredMatch
<1>7. CASE NoMatch
    BY <1>7, WalkEnds
<1>8. CASE NextHandshake
  <2>1. pc' = "idle" /\ UNCHANGED settings /\ ext' = "alpn" /\ i' = 0 /\ supported_protos' = 1
    BY <1>8 DEF NextHandshake
  <2> QED
    BY <1>0, <2>1, KeptWhenSettingsKept DEF WalkInv, PreferredMatch
<1>9. CASE UNCHANGED selectionVars
  <2>1. /\ UNCHANGED settings /\ configured' = configured /\ pc' = pc /\ ext' = ext /\ in' = in
        /\ i' = i /\ supported_protos' = supported_protos /\ ret' = ret /\ out' = out
    BY <1>9 DEF selectionVars, settings, scan
  <2>2. PreferredMatch'
    BY <2>1 DEF WalkInv, PreferredMatch, Common, Preferred
  <2>3. Common(ext)' = Common(ext) /\ \A p, k : Walked(p, k) => Walked(p, k)'
    BY <2>1 DEF Common, Walked
  <2> QED
    BY <2>1, <2>2, <2>3, KeptWhenSettingsKept DEF WalkInv
<1> QED
    BY <1>1, <1>2, <1>3, <1>4, <1>5, <1>6, <1>7, <1>8, <1>9 DEF SelectionNext, select_next_proto

\* THEOREM.  Whatever earlier calls left in memory, select_next_proto selects the
\* first configured name the peer offers whenever there is one, and NPN announces
\* exactly the list set last (PreferredMatch), for all lists of names that the
\* format can hold.
THEOREM PreferredMatchCorrect ==
    ASSUME ShortNames
    PROVE  SelectionSpec => []PreferredMatch
<1>1. WalkInv => PreferredMatch
    BY DEF WalkInv
<1>2. WalkInv /\ [SelectionNext]_selectionVars => WalkInv'
    BY WalkStep
<1> QED
    BY <1>1, <1>2, WalkInit, PTL DEF SelectionSpec

\* While a configured name is offered, the name the walk looks at lies in the list.
LEMMA LooksInTheList ==
    ASSUME WalkInv, pc = "scan", Common(ext) # {}, memory # << >>
    PROVE  /\ supported_protos <= proto_len[ext]
           /\ supported_protos + target_proto_len <= proto_len[ext]
           /\ Readable
<1> DEFINE p == configured[ext]
<1>1. PICK k \in 0..(Len(p) - 1) : Walked(p, k)
    BY DEF WalkInv
<1>2. WireList(p) /\ Len(p) \in Nat /\ ListKept(ext)
  <2>1. ListKept(ext) /\ p \in Seq(Seq(Byte))
    BY DEF WalkInv
  <2> QED
    BY <2>1 DEF ListKept
<1>3. k + 1 \in 1..Len(p) /\ (k + 1) - 1 = k
    BY <1>1, <1>2
<1>4. PICK t \in Seq(Byte) : t = memory
    BY DEF WalkInv, memory
<1>5. Prefix(protocolsToWireFormat(p), t)
    BY <1>2, <1>4 DEF ListKept, memory
<1> HIDE DEF p
<1>6. /\ Offset(p, k) \in Nat /\ Len(p[k + 1]) \in Nat
      /\ Offset(p, k + 1) = Offset(p, k) + Len(p[k + 1]) + 1
      /\ Offset(p, k + 1) <= Offset(p, Len(p))
      /\ Offset(p, k + 1) <= Len(t)
      /\ t[Offset(p, k) + 1] = Len(p[k + 1])
    BY <1>2, <1>3, <1>5, NameAt
<1>7. proto_len[ext] = Offset(p, Len(p)) /\ proto_len[ext] \in Nat
    BY <1>2, WireType DEF WalkInv, ListKept, WireList, p
<1>8. supported_protos = Offset(p, k) + 1
    BY <1>1 DEF Walked
<1>9. target_proto_len = Len(p[k + 1])
    BY <1>4, <1>6, <1>8 DEF target_proto_len
<1>10. supported_protos <= Offset(p, k + 1) /\ supported_protos + target_proto_len = Offset(p, k + 1)
    BY <1>6, <1>8, <1>9
<1>11. Len(t) \in Nat /\ Offset(p, k + 1) \in Nat
    BY <1>6
<1>12. supported_protos <= proto_len[ext] /\ supported_protos + target_proto_len <= proto_len[ext]
  <2>1. supported_protos \in Nat /\ Offset(p, Len(p)) \in Nat
    BY <1>6, <1>7, <1>8
  <2> QED
    BY <2>1, <1>6, <1>7, <1>10, <1>11
<1>13. supported_protos <= Len(t) /\ supported_protos + target_proto_len <= Len(t)
  <2>1. supported_protos \in Nat
    BY <1>6, <1>8
  <2> QED
    BY <2>1, <1>6, <1>10, <1>11
<1> QED
    BY <1>4, <1>12, <1>13 DEF Readable

\* The peer offers nothing between handshakes, and a process that died had nothing in
\* common with its peer or had lost its list.
CrashInv ==
    /\ pc = "idle" => in = << >>
    /\ pc = "crashed" => Common(ext) = {} \/ memory = << >>

LEMMA CrashStep == WalkInv /\ CrashInv /\ [SelectionNext]_selectionVars => CrashInv'
<1> SUFFICES ASSUME WalkInv, CrashInv, [SelectionNext]_selectionVars PROVE CrashInv'
    OBVIOUS
<1>1. ASSUME NEW list \in Lists, NEW behaviour \in Behaviours,
             setNpnProtos0(list, behaviour) \/ setAlpnProtos0(list, behaviour)
      PROVE  CrashInv'
    BY <1>1 DEF setNpnProtos0, setAlpnProtos0, SetProtos, SetProtosNoMemory, scan, CrashInv
<1>2. CASE tcn_SSL_callback_next_protos
  <2>1. pc' \in {"announced", "crashed"} /\ in' = in /\ in = << >>
    BY <1>2 DEF tcn_SSL_callback_next_protos, CrashInv
  <2>2. \A x : ~Contains(in', x)
    BY <2>1 DEF Contains
  <2> QED
    BY <2>1, <2>2 DEF CrashInv, Common
<1>3. ASSUME NEW offer \in Offers,
             \/ tcn_SSL_callback_select_next_proto(offer)
             \/ tcn_SSL_callback_alpn_select_proto(offer)
      PROVE  CrashInv'
    BY <1>3 DEF tcn_SSL_callback_select_next_proto, tcn_SSL_callback_alpn_select_proto, StartSelect,
                CrashInv
<1>4. CASE FoundMatch \/ NextSupported \/ NoMatch \/ NextHandshake
  <2>1. pc' \in {"done", "scan"} \/ (pc' = "idle" /\ in' = << >>)
    BY <1>4 DEF FoundMatch, NextSupported, NoMatch, NextHandshake, Return, Scanning
  <2> QED
    BY <2>1 DEF CrashInv
<1>5. CASE Fault
  <2>1. /\ pc = "scan" /\ ~Readable /\ pc' = "crashed" /\ ext' = ext /\ in' = in
        /\ configured' = configured /\ proto_data' = proto_data
    BY <1>5 DEF Fault, Scanning, settings
  <2>2. Common(ext) = {} \/ memory = << >>
    BY <2>1, LooksInTheList
  <2> QED
    BY <2>1, <2>2 DEF CrashInv, Common, memory
<1>6. CASE UNCHANGED selectionVars
    BY <1>6 DEF selectionVars, settings, scan, CrashInv, Common, memory
<1> QED
    BY <1>1, <1>2, <1>3, <1>4, <1>5, <1>6 DEF SelectionNext, select_next_proto

\* THEOREM.  As long as the peer offers a configured name and the list is in memory,
\* select_next_proto reads no byte behind the list, although it counts too few, for
\* all lists of names that the format can hold and whatever earlier lists and the
\* allocator left behind them (StaysInTheList).
THEOREM StaysInTheListCorrect ==
    ASSUME ShortNames
    PROVE  SelectionSpec => []StaysInTheList
<1>1. SelectionInit => CrashInv
    BY DEF SelectionInit, CrashInv
<1>2. WalkInv /\ CrashInv => StaysInTheList
    BY LooksInTheList DEF CrashInv, StaysInTheList
<1>3. WalkInv /\ [SelectionNext]_selectionVars => WalkInv'
    BY WalkStep
<1> QED
    BY <1>1, <1>2, <1>3, WalkInit, CrashStep, PTL DEF SelectionSpec

-----------------------------------------------------------------------------
(* Type correctness, for names of any length.                              *)

\* What the type invariant needs to be inductive: the walk reads bytes, from the
\* first on.
BytesInv ==
    /\ SelectionTypeOK
    /\ proto_data \in [Extensions -> Seq(Byte)]
    /\ supported_protos # 0

\* A new context is zeroed.
LEMMA BytesInit == SelectionInit => BytesInv
BY DEF SelectionInit, BytesInv, SelectionTypeOK, Extensions, Behaviours, InitialBehaviour

\* setAlpnProtos0 and setNpnProtos0 store bytes, names too long included.
LEMMA BytesSet ==
    ASSUME BytesInv, NEW x \in Extensions, NEW list \in Lists, NEW behaviour \in Behaviours,
           SetProtos(x, list, behaviour)
    PROVE  BytesInv'
<1> DEFINE wire == protocolsToWireFormat(list)
<1>1. wire \in Seq(Byte) /\ Len(wire) \in Nat /\ proto_data[x] \in Seq(Byte)
    BY WireType, ListsAssumption DEF BytesInv
<1>2. PICK block \in Blocks(wire, proto_data[x]) : proto_data' = [proto_data EXCEPT ![x] = block]
    BY DEF SetProtos
<1>3. block \in Seq(Byte)
    BY <1>1, <1>2, BlockBegins
<1>4. /\ proto_len' = [proto_len EXCEPT ![x] = Len(wire)] /\ installed' = installed \cup {x}
      /\ UNCHANGED <<mode, failure_behavior, scan>>
    BY DEF SetProtos
<1> HIDE DEF wire
<1> QED
    BY <1>1, <1>2, <1>3, <1>4 DEF BytesInv, SelectionTypeOK, scan

\* The byte that holds a length moves the walk forward.
LEMMA BytesOn == BytesInv /\ NextSupported => BytesInv'
<1> SUFFICES ASSUME BytesInv, NextSupported PROVE BytesInv'
    OBVIOUS
<1>1. PICK t \in Seq(Byte) : t = memory
    BY DEF BytesInv, SelectionTypeOK, memory
<1>2. supported_protos \in 1..Len(t)
    BY <1>1 DEF NextSupported, Readable, BytesInv, SelectionTypeOK
<1>3. target_proto_len \in Nat
  <2>1. t[supported_protos] \in Byte
    BY <1>2
  <2>2. \A b \in Byte : b \in Nat
    BY DEF Byte, UINT8_MAX
  <2> QED
    BY <1>1, <2>1, <2>2 DEF target_proto_len
<1>4. Increment \in Nat /\ NextName \in Nat \ {0}
    BY <1>3 DEF Increment, NextName, BytesInv, SelectionTypeOK
<1>5. /\ i' = Increment /\ supported_protos' = NextName
      /\ UNCHANGED <<settings, pc, ext, in, ret, out>>
    BY DEF NextSupported
<1> QED
    BY <1>4, <1>5 DEF BytesInv, SelectionTypeOK, settings

\* Every step keeps the types.
LEMMA BytesStep == BytesInv /\ [SelectionNext]_selectionVars => BytesInv'
<1> SUFFICES ASSUME BytesInv, [SelectionNext]_selectionVars PROVE BytesInv'
    OBVIOUS
<1>0. "npn" \in Extensions /\ "alpn" \in Extensions
    BY DEF Extensions
<1>1. ASSUME NEW list \in Lists, NEW behaviour \in Behaviours,
             setNpnProtos0(list, behaviour) \/ setAlpnProtos0(list, behaviour)
      PROVE  BytesInv'
  <2>1. ASSUME NEW x \in Extensions, SetProtosNoMemory(x) PROVE BytesInv'
    BY <2>1 DEF SetProtosNoMemory, BytesInv, SelectionTypeOK, scan
  <2> QED
    BY <1>0, <1>1, <2>1, BytesSet DEF setNpnProtos0, setAlpnProtos0
<1>2. CASE tcn_SSL_callback_next_protos
    BY <1>2 DEF tcn_SSL_callback_next_protos, BytesInv, SelectionTypeOK, settings
<1>3. ASSUME NEW offer \in Offers,
             \/ tcn_SSL_callback_select_next_proto(offer)
             \/ tcn_SSL_callback_alpn_select_proto(offer)
      PROVE  BytesInv'
    BY <1>0, <1>3 DEF tcn_SSL_callback_select_next_proto, tcn_SSL_callback_alpn_select_proto,
                      StartSelect, BytesInv, SelectionTypeOK, settings
<1>4. CASE FoundMatch \/ Fault \/ NoMatch
    BY <1>4 DEF FoundMatch, Fault, NoMatch, Return, BytesInv, SelectionTypeOK, settings
<1>5. CASE NextSupported
    BY <1>5, BytesOn
<1>6. CASE NextHandshake
    BY <1>0, <1>6 DEF NextHandshake, BytesInv, SelectionTypeOK, settings
<1>7. CASE UNCHANGED selectionVars
    BY <1>7 DEF selectionVars, scan, BytesInv, SelectionTypeOK, settings
<1> QED
    BY <1>1, <1>2, <1>3, <1>4, <1>5, <1>6, <1>7 DEF SelectionNext, select_next_proto

\* THEOREM.  The fields of tcn_ssl_ctxt_t and the variables of select_next_proto
\* keep their types, for lists of names of any length: the walk never reads
\* before the block.
THEOREM SelectionTypeCorrect == SelectionSpec => []SelectionTypeOK
<1>1. BytesInv => SelectionTypeOK
    BY DEF BytesInv
<1> QED
    BY <1>1, BytesInit, BytesStep, PTL DEF SelectionSpec

=============================================================================
