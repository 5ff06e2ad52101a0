--------------------------- MODULE MCKeyMaterial ---------------------------
EXTENDS KeyMaterial

CONSTANTS c1, c2, c3, k1, k2

Program(boringSSL, calls, client, ec) ==
    [BoringSSL |-> boringSSL, calls |-> calls, client |-> client, ec |-> ec]

\* Certificates and keys of one type and of two.
OneType  == {}
TwoTypes == {c3, k2}

SmallPrograms ==
    {Program(FALSE, {"connection", "client"}, TRUE, OneType),
     Program(FALSE, {"connection", "deprecated"}, FALSE, OneType),
     Program(FALSE, {"connection", "deprecated"}, FALSE, TwoTypes),
     Program(FALSE, {"connection", "context"}, FALSE, OneType),
     Program(FALSE, {"connection", "pair"}, FALSE, OneType),
     Program(FALSE, {"connection", "pair"}, FALSE, TwoTypes),
     Program(FALSE, {"context"}, TRUE, OneType),
     Program(TRUE, {"connection", "credential"}, FALSE, OneType),
     Program(TRUE, {"credential", "attributes"}, FALSE, OneType)}

\* k1 belongs to two of the certificates, k2 to the third.
SmallFits == {<<c1, k1>>, <<c2, k1>>, <<c3, k2>>}

\* Certificates of one key are alike, and so are the passwords.
Alike == Permutations({c1, c2}) \cup Permutations(Passwords)
=============================================================================
