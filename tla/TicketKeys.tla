----------------------------- MODULE TicketKeys -----------------------------
(***************************************************************************)
(* The session ticket keys of an SSLContext (sslcontext.c): an array of    *)
(* keys that setSessionTicketKeys0 replaces while handshakes on other      *)
(* threads look keys up in it, behind the read-write lock c->mutex.        *)
(*                                                                         *)
(* A key is its name.  Its HMAC key and its AES key are secrets that only  *)
(* matter by which key they belong to, so they are that name too; Garbage  *)
(* stands for the contents of freed memory.  A thread makes one call of    *)
(* ssl_tlsext_ticket_key_cb or of setSessionTicketKeys0 at a time.         *)
(***************************************************************************)
EXTENDS Integers, Sequences

CONSTANTS
    Threads,
    Keys,         \* the names of keys
    KeyLists,     \* the lists of keys Java configures, primary key first
    Addresses,    \* where OPENSSL_malloc may put an array of keys
    Garbage,      \* what a read of freed memory returns
    NoOne,        \* no thread, no address, no key
    OpenSSL3,     \* whether the build is for OpenSSL 3 or later
    MaxTickets,   \* bound on the tickets presented or issued
    MaxRotations  \* bound on the calls of setSessionTicketKeys

ASSUME KeyListsAssumption == KeyLists \subseteq Seq(Keys) \ {<< >>}
ASSUME DistinctAssumption ==
    /\ Garbage \notin Keys
    /\ NoOne \notin Threads \cup Addresses \cup Keys
ASSUME BoundsAssumption ==
    OpenSSL3 \in BOOLEAN /\ MaxTickets \in Nat /\ MaxRotations \in Nat

VARIABLES
    heap,          \* the array at an address, << >> if the address is free
    ticket_keys,   \* c->ticket_keys
    ticket_keys_len,
    readers,       \* the threads that hold c->mutex for reading
    writer,        \* the thread that holds it for writing, or NoOne
    installed,     \* the ticket key callback is set on the SSL_CTX
    stats,         \* ticket_keys_new, _resume, _renew and _fail
    pc,            \* where a thread is in its call
    enc,           \* its call creates a ticket rather than retrieves one
    key_name,      \* the name in the ticket it was presented
    key,           \* its local copy of a key
    is_current_key,
    array,         \* the array a rotation has filled
    presented,     \* the handshake of this thread presented a ticket
    configured,    \* the list of keys in force
    seen,          \* the lists in force at some moment of a thread's call
    answer,        \* what the last call that finished told OpenSSL
    fresh,         \* tickets issued to clients that presented none
    rotations,     \* calls of setSessionTicketKeys so far
    tickets        \* calls of the ticket key callback so far

shared  == <<ticket_keys, ticket_keys_len, installed, configured, rotations, tickets>>
lock    == <<readers, writer>>
local   == <<enc, key_name, key, is_current_key, presented>>
results == <<stats, answer, fresh>>
vars    == <<heap, shared, lock, pc, local, array, seen, results>>

NoKey    == [name |-> NoOne, at |-> NoOne, index |-> 0]
NoAnswer == [ret |-> 0, enc |-> FALSE, asked |-> NoOne, name |-> NoOne, mac |-> NoOne, lists |-> {}]

Init ==
    /\ heap = [a \in Addresses |-> << >>]
    /\ ticket_keys = NoOne
    /\ ticket_keys_len = 0
    /\ readers = {}
    /\ writer = NoOne
    /\ installed = FALSE
    /\ stats = [new |-> 0, resume |-> 0, renew |-> 0, fail |-> 0]
    /\ pc = [t \in Threads |-> "idle"]
    /\ enc = [t \in Threads |-> FALSE]
    /\ key_name = [t \in Threads |-> NoOne]
    /\ key = [t \in Threads |-> NoKey]
    /\ is_current_key = [t \in Threads |-> FALSE]
    /\ array = [t \in Threads |-> NoOne]
    /\ presented = [t \in Threads |-> FALSE]
    /\ configured = << >>
    /\ seen = [t \in Threads |-> {}]
    /\ answer = NoAnswer
    /\ fresh = 0
    /\ rotations = 0
    /\ tickets = 0

Goto(t, from, to) == pc[t] = from /\ pc' = [pc EXCEPT ![t] = to]

-----------------------------------------------------------------------------
(* setSessionTicketKeys0.                                                  *)

\* The new array is allocated and filled outside the lock.  Without memory the
\* call throws and changes nothing.
FillKeys(t, keys, a) ==
    /\ rotations < MaxRotations
    /\ heap[a] = << >>
    /\ Goto(t, "idle", "filled")
    /\ heap' = [heap EXCEPT ![a] = keys]
    /\ array' = [array EXCEPT ![t] = a]
    /\ rotations' = rotations + 1
    /\ UNCHANGED <<ticket_keys, ticket_keys_len, installed, configured, tickets, lock, local, seen,
                   results>>

\* Mutant: the lock is taken whoever reads.
wrlockIgnoresReaders(t) ==
    /\ writer = NoOne
    /\ Goto(t, "filled", "locked")
    /\ writer' = t
    /\ UNCHANGED <<heap, shared, readers, local, array, seen, results>>

wrlock(t) ==
    /\ readers = {} /\ writer = NoOne
    /\ Goto(t, "filled", "locked")
    /\ writer' = t
    /\ UNCHANGED <<heap, shared, readers, local, array, seen, results>>

\* Mutant: the old array is never freed.
FreeOldKeysLeaks(t) ==
    /\ Goto(t, "locked", "freed")
    /\ UNCHANGED <<heap, shared, lock, local, array, seen, results>>

FreeOldKeys(t) ==
    /\ Goto(t, "locked", "freed")
    /\ heap' = IF ticket_keys = NoOne THEN heap ELSE [heap EXCEPT ![ticket_keys] = << >>]
    /\ UNCHANGED <<shared, lock, local, array, seen, results>>

\* c->ticket_keys_len and c->ticket_keys, the unlock, and the callback.
\* Mutant: the length is left as it was.
InstallKeysKeepsLength(t) ==
    /\ Goto(t, "freed", "idle")
    /\ ticket_keys_len' = IF ticket_keys = NoOne THEN Len(heap[array[t]]) ELSE ticket_keys_len
    /\ ticket_keys' = array[t]
    /\ configured' = heap[array[t]]
    /\ seen' = [u \in Threads |-> IF pc[u] = "idle" THEN seen[u]
                                  ELSE seen[u] \cup {heap[array[t]]}]
    /\ array' = [array EXCEPT ![t] = NoOne]
    /\ writer' = NoOne
    /\ installed' = TRUE
    /\ UNCHANGED <<heap, readers, local, results, rotations, tickets>>

InstallKeys(t) ==
    /\ Goto(t, "freed", "idle")
    /\ ticket_keys_len' = Len(heap[array[t]])
    /\ ticket_keys' = array[t]
    /\ configured' = heap[array[t]]
    /\ seen' = [u \in Threads |-> IF pc[u] = "idle" THEN seen[u]
                                  ELSE seen[u] \cup {heap[array[t]]}]
    /\ array' = [array EXCEPT ![t] = NoOne]
    /\ writer' = NoOne
    /\ installed' = TRUE
    /\ UNCHANGED <<heap, readers, local, results, rotations, tickets>>

-----------------------------------------------------------------------------
(* ssl_tlsext_ticket_key_cb.                                               *)

\* OpenSSL retrieves the ticket a client presents, issues one to a client that
\* presents none, or issues one after it looked at the client's.
Calls(t, isEnc, name) ==
    /\ installed
    /\ tickets < MaxTickets
    /\ tickets' = tickets + 1
    /\ Goto(t, "idle", "called")
    /\ isEnc \/ ~presented[t]
    /\ enc' = [enc EXCEPT ![t] = isEnc]
    /\ key_name' = [key_name EXCEPT ![t] = name]
    /\ presented' = [presented EXCEPT ![t] = @ \/ ~isEnc]
    /\ seen' = [seen EXCEPT ![t] = {configured}]
    /\ UNCHANGED <<heap, ticket_keys, ticket_keys_len, installed, configured, rotations, lock, key,
                   is_current_key, array, results>>

\* The handshake is over; the next one of this thread starts afresh.
NextHandshake(t) ==
    /\ pc[t] = "idle"
    /\ presented[t]
    /\ presented' = [presented EXCEPT ![t] = FALSE]
    /\ UNCHANGED <<heap, shared, lock, pc, enc, key_name, key, is_current_key, array, seen, results>>

rdlock(t) ==
    /\ writer = NoOne
    /\ Goto(t, "called", "reading")
    /\ readers' = readers \cup {t}
    /\ UNCHANGED <<heap, shared, writer, local, array, seen, results>>

\* The array as a reader finds it at c->ticket_keys.
KeyAt(i) == IF i <= Len(heap[ticket_keys]) THEN heap[ticket_keys][i] ELSE Garbage
CopyOf(i) == [name |-> KeyAt(i), at |-> ticket_keys, index |-> i]

\* The first key of the list; the list is never empty once the callback is set.
current_session_key(t) ==
    /\ Goto(t, "reading", IF ticket_keys_len > 0 THEN "found" ELSE "missed")
    /\ enc[t]
    /\ key' = [key EXCEPT ![t] = IF ticket_keys_len > 0 THEN CopyOf(1) ELSE @]
    /\ readers' = readers \ {t}
    /\ UNCHANGED <<heap, shared, writer, enc, key_name, is_current_key, presented, array, seen,
                   results>>

\* The positions the presented name is found at.
Matches(t) == {i \in 1 .. ticket_keys_len : KeyAt(i) = key_name[t]}

\* Mutant: whatever key is found counts as the current one.
find_session_keyCurrent(t) ==
    /\ Goto(t, "reading", IF Matches(t) # {} THEN "found" ELSE "missed")
    /\ ~enc[t]
    /\ \/ /\ Matches(t) = {}
          /\ UNCHANGED <<key, is_current_key>>
       \/ \E i \in Matches(t) :
             /\ \A j \in Matches(t) : i <= j
             /\ key' = [key EXCEPT ![t] = CopyOf(i)]
             /\ is_current_key' = [is_current_key EXCEPT ![t] = TRUE]
    /\ readers' = readers \ {t}
    /\ UNCHANGED <<heap, shared, writer, enc, key_name, presented, array, seen, results>>

find_session_key(t) ==
    /\ Goto(t, "reading", IF Matches(t) # {} THEN "found" ELSE "missed")
    /\ ~enc[t]
    /\ \/ /\ Matches(t) = {}
          /\ UNCHANGED <<key, is_current_key>>
       \/ \E i \in Matches(t) :
             /\ \A j \in Matches(t) : i <= j
             /\ key' = [key EXCEPT ![t] = CopyOf(i)]
             /\ is_current_key' = [is_current_key EXCEPT ![t] = (i = 1)]
    /\ readers' = readers \ {t}
    /\ UNCHANGED <<heap, shared, writer, enc, key_name, presented, array, seen, results>>

\* The HMAC key the MAC context is set up with.  From OpenSSL 3 on the copy of a key
\* does not hold it, but a parameter that points to it in the array copied from.
hmac_key(t) ==
    IF ~OpenSSL3 \/ key[t] = NoKey THEN key[t].name
    ELSE IF key[t].index <= Len(heap[key[t].at]) THEN heap[key[t].at][key[t].index]
    ELSE Garbage

\* The callback returns, and its locals are gone.
Answer(t, ret) ==
    /\ answer' = [ret |-> ret, enc |-> enc[t], asked |-> key_name[t], name |-> key[t].name,
                  mac |-> hmac_key(t), lists |-> seen[t]]
    /\ seen' = [seen EXCEPT ![t] = {}]
    /\ key' = [key EXCEPT ![t] = NoKey]
    /\ key_name' = [key_name EXCEPT ![t] = NoOne]
    /\ enc' = [enc EXCEPT ![t] = FALSE]
    /\ is_current_key' = [is_current_key EXCEPT ![t] = FALSE]
    /\ UNCHANGED <<heap, shared, lock, presented, array>>

\* enc: EVP_EncryptInit_ex and the MAC under the copied key.
IssueTicket(t) ==
    /\ Goto(t, "found", "idle")
    /\ enc[t]
    /\ stats' = [stats EXCEPT !.new = @ + 1]
    /\ fresh' = IF presented[t] THEN fresh ELSE fresh + 1
    /\ Answer(t, 1)

\* enc: RAND_bytes failed.
NoRandomness(t) ==
    /\ Goto(t, "found", "idle")
    /\ enc[t]
    /\ Answer(t, -1)
    /\ UNCHANGED <<stats, fresh>>

\* A ticket of an older key is accepted and renewed.  Mutant: never renewed.
AcceptTicketAsCurrent(t) ==
    /\ Goto(t, "found", "idle")
    /\ ~enc[t]
    /\ stats' = [stats EXCEPT !.resume = @ + 1]
    /\ Answer(t, 1)
    /\ UNCHANGED fresh

AcceptTicket(t) ==
    /\ Goto(t, "found", "idle")
    /\ ~enc[t]
    /\ \/ /\ ~is_current_key[t]
          /\ stats' = [stats EXCEPT !.renew = @ + 1]
          /\ Answer(t, 2)
       \/ /\ is_current_key[t]
          /\ stats' = [stats EXCEPT !.resume = @ + 1]
          /\ Answer(t, 1)
    /\ UNCHANGED fresh

RefuseTicket(t) ==
    /\ Goto(t, "missed", "idle")
    /\ stats' = IF enc[t] THEN stats ELSE [stats EXCEPT !.fail = @ + 1]
    /\ Answer(t, 0)
    /\ UNCHANGED fresh

-----------------------------------------------------------------------------
setSessionTicketKeys0(t) ==
    \/ \E keys \in KeyLists, a \in Addresses : FillKeys(t, keys, a)
    \/ wrlock(t)
    \/ FreeOldKeys(t)
    \/ InstallKeys(t)

ssl_tlsext_ticket_key_cb(t) ==
    \/ Calls(t, TRUE, NoOne)
    \/ \E name \in Keys : Calls(t, FALSE, name)
    \/ rdlock(t)
    \/ current_session_key(t)
    \/ find_session_key(t)
    \/ IssueTicket(t)
    \/ NoRandomness(t)
    \/ AcceptTicket(t)
    \/ RefuseTicket(t)

Next == \E t \in Threads : setSessionTicketKeys0(t) \/ ssl_tlsext_ticket_key_cb(t) \/ NextHandshake(t)

Spec == Init /\ [][Next]_vars

-----------------------------------------------------------------------------
(* What makes the ticket keys correct.                                     *)

Locations == {"idle", "filled", "locked", "freed", "called", "reading", "found", "missed"}

\* Type invariant of the ticket fields of tcn_ssl_ctxt_t and of the calls: a copied
\* key is a key that was configured, never the contents of freed memory.
TypeOK ==
    /\ heap \in [Addresses -> KeyLists \cup {<< >>}]
    /\ ticket_keys \in Addresses \cup {NoOne}
    /\ ticket_keys_len \in Nat
    /\ readers \subseteq Threads
    /\ writer \in Threads \cup {NoOne}
    /\ installed \in BOOLEAN
    /\ pc \in [Threads -> Locations]
    /\ enc \in [Threads -> BOOLEAN]
    /\ key_name \in [Threads -> Keys \cup {NoOne}]
    /\ key \in [Threads -> [name : Keys \cup {NoOne}, at : Addresses \cup {NoOne}, index : Nat]]
    /\ is_current_key \in [Threads -> BOOLEAN]
    /\ array \in [Threads -> Addresses \cup {NoOne}]
    /\ presented \in [Threads -> BOOLEAN]
    /\ configured \in KeyLists \cup {<< >>}
    /\ seen \in [Threads -> SUBSET (KeyLists \cup {<< >>})]

\* While a callback looks at c->ticket_keys, no rotation has freed it
\* (current_session_key and find_session_key against setSessionTicketKeys0).
NoUseAfterFree ==
    \A t \in Threads : pc[t] = "reading" =>
        ticket_keys # NoOne /\ heap[ticket_keys] # << >> /\ ticket_keys_len = Len(heap[ticket_keys])

\* A ticket is protected under the name, the AES key and the HMAC key of one and the
\* same key, and opened with those of the key it names, although the keys are
\* replaced between the lookup and their use: "Tickets dervied from the other keys
\* in the list will be accepted" (SSLContext.setSessionTicketKeys).
RightKey ==
    answer.ret \in {1, 2} =>
        /\ answer.name \in Keys
        /\ answer.mac = answer.name
        /\ ~answer.enc => answer.name = answer.asked

ListHas(list, name) == \E i \in 1 .. Len(list) : list[i] = name

\* Every call is answered as by one lookup in a list that was in force during the
\* call: issued under its primary key, resumed if the ticket names the primary key,
\* renewed if it names another, refused if it names none of them.
AnswersOneList ==
    answer # NoAnswer =>
        \E list \in answer.lists :
            /\ answer.enc => answer.ret \in {1, -1} /\ answer.name = list[1]
            /\ ~answer.enc =>
                  /\ answer.ret = 0 => ~ListHas(list, answer.asked)
                  /\ answer.ret = 1 => answer.asked = list[1]
                  /\ answer.ret = 2 => answer.asked # list[1] /\ ListHas(list, answer.asked)

\* Every array is c->ticket_keys or in the hands of a rotation: rotations that race
\* each other free each array once, and leak none (setSessionTicketKeys0).
ArraysOwned ==
    \A a \in Addresses : heap[a] # << >> => a = ticket_keys \/ \E t \in Threads : array[t] = a

\* The call of a thread as the abstract specification sees it.
AbstractCall(t) ==
    IF pc[t] \in {"called", "reading", "found", "missed"}
    THEN [state |-> IF pc[t] \in {"called", "reading"} THEN "asked" ELSE "decided",
          name  |-> key_name[t],
          key   |-> key[t].name,
          renew |-> pc[t] = "found" /\ ~enc[t] /\ ~is_current_key[t]]
    ELSE [state |-> "none", name |-> NoOne, key |-> NoOne, renew |-> FALSE]

Ring == INSTANCE KeyRing WITH ring <- configured, call <- [t \in Threads |-> AbstractCall(t)]

\* The array, its length and the lock implement a ring of keys that every rotation
\* replaces and every callback looks up in one step (setSessionTicketKeys0,
\* current_session_key, find_session_key).
ImplementsKeyRing == Ring!Spec

\* ticket_keys_new counts clients that "did not present a ticket and we issued a new
\* one" (ssl_private.h, tcn_ssl_ctxt_t).
\* The code does not keep to it: README.md, "Deviations".
NewMeansNoTicket == stats.new = fresh
=============================================================================
