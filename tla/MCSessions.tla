----------------------------- MODULE MCSessions -----------------------------
(* Four programs, two connections and two sessions.                        *)
EXTENDS Sessions, TLC

OneOf(b, u, r) == [BoringSSL |-> b, up_ref |-> u, resizes |-> r]

MCPrograms == {OneOf(TRUE, TRUE, FALSE), OneOf(FALSE, TRUE, FALSE),
               OneOf(FALSE, FALSE, FALSE), OneOf(TRUE, TRUE, TRUE)}

Symmetry == Permutations(SSLs) \cup Permutations(Sessions)
=============================================================================
