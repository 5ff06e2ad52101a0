------------------------- MODULE MCContextCallbacks -------------------------
EXTENDS ContextCallbacks, TLC

Program(callbacks, boringSSL, any) ==
    [callbacks |-> callbacks, BoringSSL |-> boringSSL, replaces |-> any, freesEarly |-> any,
     matchesLate |-> any]

\* Programs that set each callback of the two builds, one of them its first matcher
\* while connections run, and one that does as it likes meanwhile.
SmallPrograms ==
    {Program({"verifier", "private_key", "zlib"}, TRUE, FALSE),
     Program({"certificate", "keylog", "zstd"}, TRUE, FALSE),
     Program({"verifier", "sni", "certificate"}, FALSE, FALSE),
     [Program({"verifier", "sni"}, FALSE, FALSE) EXCEPT !.matchesLate = TRUE],
     Program({"cert_requested", "session_cache", "keylog"}, FALSE, FALSE),
     Program({"verifier", "keylog", "brotli"}, TRUE, TRUE)}

\* Nothing tells apart the objects, the references or the connections.
Interchangeable == Permutations(Objects) \cup Permutations(Handles) \cup Permutations(SSLs)
=============================================================================
