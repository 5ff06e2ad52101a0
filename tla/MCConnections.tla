--------------------------- MODULE MCConnections ----------------------------
(* A client and a server connection, two contexts, and seven programs.     *)
EXTENDS Connections, TLC

Of(library, versions) == [library |-> library, versions |-> versions]

Boring == Of("BoringSSL", TLSV1 .. TLSV1_3)
Open11 == Of("OpenSSL", TLSV1 .. TLSV1_3)
Legacy == Of("legacy", SSLV3 .. TLSV1_2)

\* SSL_PROTOCOL_TLS of SSL.java, which has a bit more than that of the C code.
JavaTLS == SSL_PROTOCOL_TLS \cup {TLSV1_3}

\* Programs about versions, and programs about OCSP.
Versioned(b, protocols) ==
    [build |-> b, protocols |-> protocols,
     modes |-> {"client", "server"}, uses |-> {"options"}, scarce |-> FALSE]
Stapling(b, modes, uses, scarce) ==
    [build |-> b, protocols |-> {JavaTLS}, modes |-> modes, uses |-> uses, scarce |-> scarce]

MCPrograms ==
    {Versioned(b, {{TLSV1, TLSV1_2}, JavaTLS}) : b \in {Boring, Open11}}
      \cup {Versioned(Legacy, {SSL_PROTOCOL_TLS, JavaTLS})}
      \cup {Stapling(b, Modes, {"ocsp"}, TRUE) : b \in {Boring, Open11}}
      \cup {Stapling(Open11, {"client", "server"}, {"ocsp", "disableOcsp"}, FALSE),
            Stapling(Open11, {"client", "server"}, {"ocsp", "any side"}, FALSE)}

MCOptions == {{TLSV1_2}, {TLSV1_3}}

Symmetry == Permutations(Ctxs) \cup Permutations(SSLs)
=============================================================================
