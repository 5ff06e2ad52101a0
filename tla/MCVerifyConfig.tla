--------------------------- MODULE MCVerifyConfig ---------------------------
EXTENDS VerifyConfig, TLC

\* A depth that is ignored and one that is not.
TwoDepths == {-1, 1}

\* Nothing tells the connections apart.
Interchangeable == Permutations(SSLs)
=============================================================================
