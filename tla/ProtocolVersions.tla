-------------------------- MODULE ProtocolVersions --------------------------
(***************************************************************************)
(* Which versions of the protocol a context speaks (SSLContext.make in     *)
(* sslcontext.c) and which one a handshake settles on.  A version is the   *)
(* number of its bit in the protocol argument of make, a set of versions   *)
(* the argument itself.                                                    *)
(***************************************************************************)
EXTENDS Integers, FiniteSetsExt

SSLV2   == 0
SSLV3   == 1
TLSV1   == 2
TLSV1_1 == 3
TLSV1_2 == 4
TLSV1_3 == 5

Versions == SSLV2 .. TLSV1_3

\* The two names the C code knows.  Those of SSL.java also have TLSV1_3.
SSL_PROTOCOL_TLS == SSLV3 .. TLSV1_2
SSL_PROTOCOL_ALL == SSLV2 .. TLSV1_2

\* A build: the library, and the versions it was compiled with.
Libraries == {"BoringSSL", "OpenSSL", "legacy"}
Builds    == [library : Libraries, versions : SUBSET Versions]

\* A context that leaves the choice of the version to the handshake.
Flexible(build, protocol) ==
    \/ build.library # "legacy"
    \/ protocol \in {SSL_PROTOCOL_TLS, SSL_PROTOCOL_ALL}

\* The versions of the SSL_METHOD that make picks.  BoringSSL and OpenSSL since
\* 1.1.0 have one for all versions; otherwise it is the method of the highest
\* version asked for, and none of them ends in an exception.
method(build, protocol) ==
    LET known == protocol \cap SSL_PROTOCOL_ALL \cap build.versions IN
    CASE Flexible(build, protocol) -> build.versions
      [] ~Flexible(build, protocol) /\ known # {} -> {Max(known)}
      [] OTHER -> {}

\* Mutant: SSL_OP_NO_TLSv1_1 is not set.
SwitchedOffNotTLSv1_1(protocol) == (SSLV2 .. TLSV1_2) \ (protocol \cup {TLSV1_1})

\* The SSL_OP_NO options that make sets.
SwitchedOff(protocol) == (SSLV2 .. TLSV1_2) \ protocol

\* A client expresses a range only: the lowest versions without a gap.
LowestRange(versions) == {v \in versions : Min(versions) .. v \subseteq versions}

\* What a side of a connection accepts.  A server of OpenSSL needs no range.
Accepts(build, server, versions) ==
    IF server /\ build.library # "BoringSSL" THEN versions ELSE LowestRange(versions)

\* The version a handshake settles on, of those both sides accept.
Settled(build, client, server) ==
    LET both == Accepts(build, FALSE, client) \cap Accepts(build, TRUE, server)
    IN IF both = {} THEN {} ELSE {Max(both)}

Contiguous(versions) == LowestRange(versions) = versions

=============================================================================
