-------------------------- MODULE MCByteBufferBIO --------------------------
(* The BIO on a ring of a few bytes, for TLC.                              *)
EXTENDS ByteBufferBIO
=============================================================================
