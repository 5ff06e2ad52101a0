------------------------------ MODULE KeyRing -------------------------------
(***************************************************************************)
(* What the session ticket keys of a context promise to the handshakes     *)
(* that use them: a ring of keys that is replaced in one step, and looked  *)
(* up in one step at some moment of each call.                             *)
(***************************************************************************)
EXTENDS Integers, Sequences

CONSTANTS
    Threads,
    Keys,
    KeyLists,   \* the lists of keys a ring may be, primary key first
    NoOne       \* no key: of a call, one that issues a ticket

VARIABLES
    ring,   \* the keys in force
    call    \* of a thread: the call it makes, and what was decided about it

NoCall == [state |-> "none", name |-> NoOne, key |-> NoOne, renew |-> FALSE]

Asked(name) == [state |-> "asked", name |-> name, key |-> NoOne, renew |-> FALSE]

Init == ring = << >> /\ call = [t \in Threads |-> NoCall]

Rotate ==
    /\ ring' \in KeyLists
    /\ UNCHANGED call

Ask(t, name) ==
    /\ call[t] = NoCall /\ ring # << >>
    /\ call' = [call EXCEPT ![t] = Asked(name)]
    /\ UNCHANGED ring

InRing(name) == \E i \in 1 .. Len(ring) : ring[i] = name

\* A new ticket is issued under the primary key.  The ticket of a client is opened
\* with the key it names, if the ring has it, and renewed unless it is the primary.
Decision(name) ==
    LET used == IF name = NoOne THEN ring[1] ELSE IF InRing(name) THEN name ELSE NoOne
    IN  [state |-> "decided", name |-> name, key |-> used,
         renew |-> name # NoOne /\ used # NoOne /\ used # ring[1]]

Decide(t) ==
    /\ call[t].state = "asked"
    /\ call' = [call EXCEPT ![t] = Decision(@.name)]
    /\ UNCHANGED ring

Return(t) ==
    /\ call[t].state = "decided"
    /\ call' = [call EXCEPT ![t] = NoCall]
    /\ UNCHANGED ring

Next ==
    \/ Rotate
    \/ \E t \in Threads :
          \/ \E name \in Keys \cup {NoOne} : Ask(t, name)
          \/ Decide(t) \/ Return(t)

Spec == Init /\ [][Next]_<<ring, call>>

=============================================================================
