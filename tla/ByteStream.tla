----------------------------- MODULE ByteStream -----------------------------
(***************************************************************************)
(* What the write side of the ByteBuffer BIO promises to TLS: a first-in   *)
(* first-out stream with a bounded queue in front of the sinks.  A write   *)
(* is queued whole, or goes straight to the sink when nothing is queued    *)
(* before it; queued bytes leave from the front, as many as fit.           *)
(***************************************************************************)
EXTENDS Integers, Sequences

CONSTANTS Capacity, MaxWrite

VARIABLES sent, pending, delivered

vars == <<sent, pending, delivered>>

\* The next n bytes of the stream.
Fresh(n) == [k \in 1 .. n |-> sent + k]

Init == sent = 0 /\ pending = << >> /\ delivered = << >>

Queue(n) ==
    /\ Len(pending) + n <= Capacity
    /\ pending' = pending \o Fresh(n)
    /\ sent' = sent + n
    /\ UNCHANGED delivered

Send(n) ==
    /\ pending = << >>
    /\ delivered' = delivered \o Fresh(n)
    /\ sent' = sent + n
    /\ UNCHANGED pending

Drain(n) ==
    /\ delivered' = delivered \o SubSeq(pending, 1, n)
    /\ pending' = SubSeq(pending, n + 1, Len(pending))
    /\ UNCHANGED sent

Next ==
    \/ \E n \in 1 .. MaxWrite : Queue(n) \/ Send(n)
    \/ \E n \in 1 .. Len(pending) : Drain(n)

Spec == Init /\ [][Next]_vars
=============================================================================
