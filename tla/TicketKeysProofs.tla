-------------------------- MODULE TicketKeysProofs --------------------------
(***************************************************************************)
(* Proofs about TicketKeys, for any number of threads, rotations and keys: *)
(* no callback reads a freed array, every callback is answered as by one   *)
(* atomic lookup, and before OpenSSL 3 with the secrets of one key.        *)
(***************************************************************************)
EXTENDS TicketKeys, TLAPS

\* A lookup finds the array that is in force: the lock keeps rotations out of the
\* section a reader is in, and readers out of the section a rotation is in.
LockInv ==
    /\ \A t \in Threads : t \in readers <=> pc[t] = "reading"
    /\ \A t \in Threads : writer = t <=> pc[t] \in {"locked", "freed"}
    /\ writer # NoOne => readers = {}

\* The arrays that rotations filled are theirs alone.  c->ticket_keys holds the list
\* in force but for the moment between its being freed and being replaced; only
\* then may OPENSSL_malloc give its address to another rotation.
Dangling == \E t \in Threads : pc[t] = "freed"
HeapInv ==
    /\ \A t \in Threads :
          array[t] # NoOne <=> pc[t] \in {"filled", "locked", "freed"}
    /\ \A t \in Threads : array[t] # NoOne => heap[array[t]] # << >>
    /\ \A t, u \in Threads : array[t] = array[u] /\ array[t] # NoOne => t = u
    /\ \A t \in Threads : array[t] # NoOne /\ array[t] = ticket_keys => Dangling
    /\ installed => ticket_keys # NoOne
    /\ ticket_keys # NoOne =>
          /\ configured # << >>
          /\ ticket_keys_len = Len(configured)
          /\ ~Dangling => heap[ticket_keys] = configured

\* What a callback took from the list, or did not find, was so in a list that was in
\* force during the call.
FoundIn(t, list) ==
    /\ list # << >>
    /\ IF enc[t] THEN key[t].name = list[1]
       ELSE /\ key[t].name = key_name[t]
            /\ IF is_current_key[t] THEN key_name[t] = list[1]
               ELSE key_name[t] # list[1] /\ ListHas(list, key_name[t])
ReaderInv ==
    \A t \in Threads :
        /\ pc[t] \in {"called", "reading"} => installed /\ configured \in seen[t]
        /\ pc[t] = "found" => key[t].name \in Keys /\ \E list \in seen[t] : FoundIn(t, list)
        /\ pc[t] = "missed" => ~enc[t] /\ \E list \in seen[t] : ~ListHas(list, key_name[t])

\* The lock is exclusive initially and after every step.
LEMMA LockStep == ASSUME TypeOK, LockInv, [Next]_vars PROVE LockInv'
  <1> USE DistinctAssumption
  <1>0. pc \in [Threads -> Locations]
    BY DEF TypeOK
  <1>1. CASE UNCHANGED vars \/ \E t \in Threads : NextHandshake(t)
    BY <1>1 DEF vars, NextHandshake, lock, LockInv
  <1>2. ASSUME NEW t \in Threads, NEW keys \in KeyLists, NEW a \in Addresses, FillKeys(t, keys, a)
        PROVE  LockInv'
    BY <1>0, <1>2 DEF FillKeys, Goto, lock, LockInv
  <1>3. ASSUME NEW t \in Threads, wrlock(t) PROVE LockInv'
    BY <1>0, <1>3 DEF wrlock, Goto, LockInv
  <1>4. ASSUME NEW t \in Threads, FreeOldKeys(t) PROVE LockInv'
    BY <1>0, <1>4 DEF FreeOldKeys, Goto, lock, LockInv
  <1>5. ASSUME NEW t \in Threads, InstallKeys(t) PROVE LockInv'
    BY <1>0, <1>5 DEF InstallKeys, Goto, LockInv
  <1>6. ASSUME NEW t \in Threads, NEW isEnc, NEW name, Calls(t, isEnc, name) PROVE LockInv'
    BY <1>0, <1>6 DEF Calls, Goto, lock, LockInv
  <1>7. ASSUME NEW t \in Threads, rdlock(t) PROVE LockInv'
    BY <1>0, <1>7 DEF rdlock, Goto, LockInv
  <1>8. ASSUME NEW t \in Threads, current_session_key(t) \/ find_session_key(t) PROVE LockInv'
    <2>1. /\ \E to \in {"found", "missed"} : Goto(t, "reading", to)
          /\ readers' = readers \ {t} /\ writer' = writer
      BY <1>8 DEF current_session_key, find_session_key
    <2> QED BY <1>0, <2>1 DEF Goto, LockInv
  <1>9. ASSUME NEW t \in Threads,
               IssueTicket(t) \/ NoRandomness(t) \/ AcceptTicket(t) \/ RefuseTicket(t)
        PROVE  LockInv'
    <2>1. /\ Goto(t, "found", "idle") \/ Goto(t, "missed", "idle")
          /\ UNCHANGED lock
      BY <1>9 DEF IssueTicket, NoRandomness, AcceptTicket, RefuseTicket, Answer
    <2> QED BY <1>0, <2>1 DEF Goto, lock, LockInv
  <1> QED
    BY <1>1, <1>2, <1>3, <1>4, <1>5, <1>6, <1>7, <1>8, <1>9
    DEF Next, setSessionTicketKeys0, ssl_tlsext_ticket_key_cb

\* A thread in a rotation's locked section is the writer, so at most one is.
LEMMA OneWriter ==
    ASSUME LockInv, NEW t \in Threads, NEW u \in Threads,
           pc[t] \in {"locked", "freed"}, pc[u] \in {"locked", "freed"}
    PROVE  t = u
  BY DEF LockInv

\* Every step keeps the arrays apart and c->ticket_keys in force.
LEMMA HeapStep == ASSUME TypeOK, LockInv, HeapInv, [Next]_vars PROVE HeapInv'
  <1> USE DistinctAssumption, KeyListsAssumption
  <1>0. /\ pc \in [Threads -> Locations]
        /\ heap \in [Addresses -> KeyLists \cup {<< >>}]
        /\ array \in [Threads -> Addresses \cup {NoOne}]
        /\ ticket_keys \in Addresses \cup {NoOne}
    BY DEF TypeOK
  <1>1. CASE UNCHANGED vars \/ \E t \in Threads : NextHandshake(t)
    BY <1>1 DEF vars, NextHandshake, shared, HeapInv, Dangling
  <1>2. ASSUME NEW t \in Threads, NEW keys \in KeyLists, NEW a \in Addresses, FillKeys(t, keys, a)
        PROVE  HeapInv'
    <2>1. /\ heap[a] = << >> /\ heap' = [heap EXCEPT ![a] = keys] /\ keys # << >>
          /\ pc[t] = "idle" /\ pc' = [pc EXCEPT ![t] = "filled"]
          /\ array' = [array EXCEPT ![t] = a]
          /\ UNCHANGED <<ticket_keys, ticket_keys_len, installed, configured>>
      BY <1>2 DEF FillKeys, Goto
    <2>2. Dangling' <=> Dangling
      BY <1>0, <2>1 DEF Dangling
    <2>3. ticket_keys # NoOne /\ ~Dangling => a # ticket_keys
      BY <2>1 DEF HeapInv
    <2>4. \A u \in Threads : array[u] # NoOne => array[u] # a
      BY <2>1 DEF HeapInv
    <2>5. /\ \A u \in Threads : array'[u] # NoOne <=> pc'[u] \in {"filled", "locked", "freed"}
          /\ \A u \in Threads : array'[u] # NoOne => heap'[array'[u]] # << >>
          /\ \A u, v \in Threads : array'[u] = array'[v] /\ array'[u] # NoOne => u = v
      BY <1>0, <2>1, <2>4 DEF HeapInv
    <2>6. \A u \in Threads : array'[u] # NoOne /\ array'[u] = ticket_keys' => Dangling'
      BY <1>0, <2>1, <2>2, <2>3 DEF HeapInv
    <2>7. installed' => ticket_keys' # NoOne
      BY <2>1 DEF HeapInv
    <2>8. ticket_keys' # NoOne =>
            /\ configured' # << >>
            /\ ticket_keys_len' = Len(configured')
            /\ ~Dangling' => heap'[ticket_keys'] = configured'
      BY <1>0, <2>1, <2>2, <2>3 DEF HeapInv
    <2> QED BY <2>5, <2>6, <2>7, <2>8 DEF HeapInv
  <1>3. ASSUME NEW t \in Threads, wrlock(t) PROVE HeapInv'
    <2>1. /\ pc[t] = "filled" /\ pc' = [pc EXCEPT ![t] = "locked"]
          /\ UNCHANGED <<heap, shared, array>>
      BY <1>3 DEF wrlock, Goto
    <2> QED BY <1>0, <2>1 DEF HeapInv, Dangling, shared
  <1>4. ASSUME NEW t \in Threads, FreeOldKeys(t) PROVE HeapInv'
    <2>1. /\ pc[t] = "locked" /\ pc' = [pc EXCEPT ![t] = "freed"]
          /\ heap' = IF ticket_keys = NoOne THEN heap ELSE [heap EXCEPT ![ticket_keys] = << >>]
          /\ UNCHANGED <<shared, array>>
      BY <1>4 DEF FreeOldKeys, Goto
    <2>2. Dangling' /\ ~Dangling
      BY <1>0, <2>1, OneWriter DEF Dangling
    <2>3. \A u \in Threads : array[u] # NoOne => heap'[array[u]] = heap[array[u]]
      BY <1>0, <2>1, <2>2 DEF HeapInv
    <2> QED BY <1>0, <2>1, <2>2, <2>3 DEF HeapInv, shared
  <1>5. ASSUME NEW t \in Threads, InstallKeys(t) PROVE HeapInv'
    <2>1. /\ pc[t] = "freed" /\ pc' = [pc EXCEPT ![t] = "idle"]
          /\ ticket_keys_len' = Len(heap[array[t]])
          /\ ticket_keys' = array[t]
          /\ configured' = heap[array[t]]
          /\ array' = [array EXCEPT ![t] = NoOne]
          /\ heap' = heap
      BY <1>5 DEF InstallKeys, Goto
    <2>2. array[t] # NoOne /\ heap[array[t]] # << >>
      BY <2>1 DEF HeapInv
    <2>3. ~Dangling'
      BY <1>0, <2>1, OneWriter DEF Dangling
    <2>4. \A u \in Threads : u # t => array'[u] = array[u] /\ pc'[u] = pc[u] /\ array[u] # array[t]
      BY <1>0, <2>1, <2>2 DEF HeapInv
    <2>5. array'[t] = NoOne /\ pc'[t] = "idle"
      BY <1>0, <2>1
    <2>6. /\ \A u \in Threads : array'[u] # NoOne <=> pc'[u] \in {"filled", "locked", "freed"}
          /\ \A u \in Threads : array'[u] # NoOne => heap'[array'[u]] # << >>
          /\ \A u, v \in Threads : array'[u] = array'[v] /\ array'[u] # NoOne => u = v
      BY <2>1, <2>4, <2>5 DEF HeapInv
    <2> QED BY <2>1, <2>2, <2>3, <2>4, <2>5, <2>6 DEF HeapInv
  <1>6. ASSUME NEW t \in Threads, NEW isEnc, NEW name, Calls(t, isEnc, name) PROVE HeapInv'
    <2>1. /\ pc[t] = "idle" /\ pc' = [pc EXCEPT ![t] = "called"]
          /\ UNCHANGED <<heap, ticket_keys, ticket_keys_len, installed, configured, array>>
      BY <1>6 DEF Calls, Goto
    <2> QED BY <1>0, <2>1 DEF HeapInv, Dangling
  <1>7. ASSUME NEW t \in Threads,
               \/ rdlock(t) \/ current_session_key(t) \/ find_session_key(t)
               \/ IssueTicket(t) \/ NoRandomness(t) \/ AcceptTicket(t) \/ RefuseTicket(t)
        PROVE  HeapInv'
    <2>1. /\ \E from \in {"called", "reading", "found", "missed"} :
               \E to \in {"reading", "found", "missed", "idle"} : Goto(t, from, to)
          /\ UNCHANGED <<heap, shared, array>>
      BY <1>7 DEF rdlock, current_session_key, find_session_key, IssueTicket, NoRandomness,
                  AcceptTicket, RefuseTicket, Answer
    <2>2. /\ pc[t] \notin {"filled", "locked", "freed"}
          /\ pc'[t] \notin {"filled", "locked", "freed"}
          /\ \A u \in Threads : u # t => pc'[u] = pc[u]
      BY <1>0, <2>1 DEF Goto
    <2> QED BY <1>0, <2>1, <2>2 DEF HeapInv, Dangling, shared
  <1> QED
    BY <1>1, <1>2, <1>3, <1>4, <1>5, <1>6, <1>7
    DEF Next, setSessionTicketKeys0, ssl_tlsext_ticket_key_cb

\* Once the callback is set and nothing is being replaced, a reader finds the list in
\* force at c->ticket_keys, key by key.
LEMMA ReaderSees ==
    ASSUME TypeOK, LockInv, HeapInv, ReaderInv, NEW t \in Threads, pc[t] = "reading"
    PROVE  /\ ticket_keys \in Addresses
           /\ heap[ticket_keys] = configured
           /\ configured \in Seq(Keys) \ {<< >>}
           /\ ticket_keys_len = Len(configured) /\ ticket_keys_len \in Nat \ {0}
           /\ \A i \in 1 .. ticket_keys_len : KeyAt(i) = configured[i] /\ KeyAt(i) \in Keys
  <1>1. ~Dangling
    BY DistinctAssumption DEF LockInv, Dangling
  <1>2. ticket_keys # NoOne
    BY DEF ReaderInv, HeapInv
  <1>3. heap[ticket_keys] = configured /\ configured # << >> /\ ticket_keys_len = Len(configured)
    BY <1>1, <1>2 DEF HeapInv
  <1>4. ticket_keys \in Addresses /\ configured \in Seq(Keys) \ {<< >>}
    BY <1>2, <1>3, KeyListsAssumption DEF TypeOK
  <1> QED BY <1>3, <1>4 DEF KeyAt

\* What current_session_key copies is the primary key of the list in force.
LEMMA CurrentKey ==
    ASSUME TypeOK, LockInv, HeapInv, ReaderInv, NEW t \in Threads, current_session_key(t)
    PROVE  /\ pc[t] = "reading" /\ pc' = [pc EXCEPT ![t] = "found"] /\ enc[t]
           /\ key' = [key EXCEPT ![t] = CopyOf(1)]
           /\ CopyOf(1).name = configured[1] /\ configured[1] \in Keys
  <1>1. pc[t] = "reading"
    BY DEF current_session_key, Goto
  <1>2. ticket_keys_len > 0 /\ 1 \in 1 .. ticket_keys_len
    BY <1>1, ReaderSees
  <1>3. KeyAt(1) = configured[1] /\ KeyAt(1) \in Keys
    BY <1>1, <1>2, ReaderSees
  <1> QED BY <1>1, <1>2, <1>3 DEF current_session_key, Goto, CopyOf

\* What find_session_key reports is so in the list in force.
LEMMA FindKey ==
    ASSUME TypeOK, LockInv, HeapInv, ReaderInv, NEW t \in Threads, find_session_key(t)
    PROVE  /\ pc[t] = "reading" /\ ~enc[t]
           /\ \/ /\ pc' = [pc EXCEPT ![t] = "missed"]
                 /\ ~ListHas(configured, key_name[t])
                 /\ UNCHANGED <<key, is_current_key>>
              \/ /\ pc' = [pc EXCEPT ![t] = "found"]
                 /\ key_name[t] \in Keys /\ ListHas(configured, key_name[t])
                 /\ \E i \in 1 .. ticket_keys_len :
                       /\ key' = [key EXCEPT ![t] = CopyOf(i)]
                       /\ CopyOf(i).name = key_name[t]
                       /\ is_current_key' = [is_current_key EXCEPT ![t] = (i = 1)]
                       /\ (i = 1) <=> (key_name[t] = configured[1])
  <1>1. pc[t] = "reading" /\ ~enc[t]
    BY DEF find_session_key, Goto
  <1>2. /\ ticket_keys_len = Len(configured) /\ ticket_keys_len \in Nat \ {0}
        /\ \A i \in 1 .. ticket_keys_len : KeyAt(i) = configured[i] /\ KeyAt(i) \in Keys
    BY <1>1, ReaderSees
  <1>3. CASE Matches(t) = {}
    <2>1. ~ListHas(configured, key_name[t])
      BY <1>2, <1>3 DEF Matches, ListHas
    <2> QED BY <1>1, <1>3, <2>1 DEF find_session_key, Goto
  <1>4. CASE Matches(t) # {}
    <2>1. PICK i \in Matches(t) :
             /\ \A j \in Matches(t) : i <= j
             /\ key' = [key EXCEPT ![t] = CopyOf(i)]
             /\ is_current_key' = [is_current_key EXCEPT ![t] = (i = 1)]
      BY <1>4 DEF find_session_key
    <2>2. i \in 1 .. ticket_keys_len /\ KeyAt(i) = key_name[t]
      BY <2>1 DEF Matches
    <2>3. key_name[t] \in Keys /\ ListHas(configured, key_name[t])
      BY <1>2, <2>2 DEF ListHas
    <2>4. (i = 1) <=> (key_name[t] = configured[1])
      <3>1. 1 \in 1 .. ticket_keys_len
        BY <1>2
      <3>2. key_name[t] = configured[1] => 1 \in Matches(t)
        BY <1>2, <3>1 DEF Matches
      <3> QED BY <1>2, <2>1, <2>2, <3>1, <3>2
    <2>5. CopyOf(i).name = key_name[t] /\ pc' = [pc EXCEPT ![t] = "found"]
      BY <1>4, <2>2 DEF CopyOf, find_session_key, Goto
    <2> QED BY <1>1, <2>1, <2>2, <2>3, <2>4, <2>5
  <1> QED BY <1>3, <1>4

\* The copies of threads other than the one that moves stay good, whatever list
\* comes into force.
LEMMA OthersKeepReading ==
    ASSUME ReaderInv, NEW u \in Threads,
           pc'[u] = pc[u], enc'[u] = enc[u], key'[u] = key[u], key_name'[u] = key_name[u],
           is_current_key'[u] = is_current_key[u], seen[u] \subseteq seen'[u],
           installed => installed',
           pc[u] \in {"called", "reading"} => configured' = configured \/ configured' \in seen'[u]
    PROVE  /\ pc'[u] \in {"called", "reading"} => installed' /\ configured' \in seen'[u]
           /\ pc'[u] = "found" => key'[u].name \in Keys /\ \E list \in seen'[u] : FoundIn(u, list)'
           /\ pc'[u] = "missed" => ~enc'[u] /\ \E list \in seen'[u] : ~ListHas(list, key_name'[u])
  BY DEF ReaderInv, FoundIn

\* Every step keeps what the callbacks hold true of a list they saw.
LEMMA ReaderStep ==
    ASSUME TypeOK, LockInv, HeapInv, ReaderInv, [Next]_vars PROVE ReaderInv'
  <1>0. /\ pc \in [Threads -> Locations]
        /\ enc \in [Threads -> BOOLEAN]
        /\ key \in [Threads -> [name : Keys \cup {NoOne}, at : Addresses \cup {NoOne}, index : Nat]]
        /\ key_name \in [Threads -> Keys \cup {NoOne}]
        /\ is_current_key \in [Threads -> BOOLEAN]
        /\ seen \in [Threads -> SUBSET (KeyLists \cup {<< >>})]
    BY DEF TypeOK
  <1>1. CASE UNCHANGED vars \/ \E t \in Threads : NextHandshake(t)
    BY <1>1 DEF vars, NextHandshake, shared, local, ReaderInv, FoundIn
  <1>2. ASSUME NEW t \in Threads,
               \/ wrlock(t) \/ FreeOldKeys(t)
               \/ \E keys \in KeyLists, a \in Addresses : FillKeys(t, keys, a)
        PROVE  ReaderInv'
    <2>1. /\ \E to \in {"filled", "locked", "freed"} : pc' = [pc EXCEPT ![t] = to]
          /\ UNCHANGED <<installed, configured, local, seen>>
      BY <1>2 DEF wrlock, FreeOldKeys, FillKeys, Goto, shared
    <2> QED BY <1>0, <2>1, OthersKeepReading DEF local, ReaderInv
  <1>3. ASSUME NEW t \in Threads, InstallKeys(t) PROVE ReaderInv'
    <2>1. /\ pc' = [pc EXCEPT ![t] = "idle"] /\ installed' = TRUE
          /\ configured' = heap[array[t]]
          /\ seen' = [u \in Threads |-> IF pc[u] = "idle" THEN seen[u]
                                        ELSE seen[u] \cup {heap[array[t]]}]
          /\ UNCHANGED local
      BY <1>3 DEF InstallKeys, Goto
    <2>2. \A u \in Threads : /\ seen[u] \subseteq seen'[u]
                            /\ pc[u] # "idle" => configured' \in seen'[u]
      BY <1>0, <2>1
    <2>3. ASSUME NEW u \in Threads, u # t
          PROVE  /\ pc'[u] \in {"called", "reading"} => installed' /\ configured' \in seen'[u]
                 /\ pc'[u] = "found" => key'[u].name \in Keys
                                        /\ \E list \in seen'[u] : FoundIn(u, list)'
                 /\ pc'[u] = "missed" => ~enc'[u]
                                         /\ \E list \in seen'[u] : ~ListHas(list, key_name'[u])
      BY <1>0, <2>1, <2>2, <2>3, OthersKeepReading DEF local
    <2> QED BY <1>0, <2>1, <2>3 DEF ReaderInv
  <1>4. ASSUME NEW t \in Threads, NEW isEnc \in BOOLEAN, NEW name, Calls(t, isEnc, name)
        PROVE  ReaderInv'
    <2>1. /\ pc' = [pc EXCEPT ![t] = "called"] /\ installed
          /\ enc' = [enc EXCEPT ![t] = isEnc]
          /\ key_name' = [key_name EXCEPT ![t] = name]
          /\ seen' = [seen EXCEPT ![t] = {configured}]
          /\ UNCHANGED <<installed, configured, key, is_current_key>>
      BY <1>4 DEF Calls, Goto
    <2> QED BY <1>0, <2>1, OthersKeepReading DEF ReaderInv
  <1>5. ASSUME NEW t \in Threads, rdlock(t) PROVE ReaderInv'
    <2>1. /\ pc[t] = "called" /\ pc' = [pc EXCEPT ![t] = "reading"]
          /\ UNCHANGED <<installed, configured, local, seen>>
      BY <1>5 DEF rdlock, Goto, shared
    <2> QED BY <1>0, <2>1, OthersKeepReading DEF local, ReaderInv
  <1>6. ASSUME NEW t \in Threads, current_session_key(t) PROVE ReaderInv'
    <2>1. /\ pc' = [pc EXCEPT ![t] = "found"] /\ enc[t] /\ pc[t] = "reading"
          /\ key' = [key EXCEPT ![t] = CopyOf(1)]
          /\ CopyOf(1).name = configured[1] /\ configured[1] \in Keys
          /\ UNCHANGED <<installed, configured, enc, key_name, is_current_key, seen>>
      BY <1>6, CurrentKey DEF current_session_key, shared
    <2>2. configured \in seen[t] /\ configured # << >>
      BY <2>1, ReaderSees DEF ReaderInv
    <2>3. FoundIn(t, configured)' /\ key'[t].name \in Keys
      BY <1>0, <2>1, <2>2 DEF FoundIn
    <2> QED BY <1>0, <2>1, <2>2, <2>3, OthersKeepReading DEF ReaderInv
  <1>7. ASSUME NEW t \in Threads, find_session_key(t) PROVE ReaderInv'
    <2>0. /\ UNCHANGED <<installed, configured, enc, key_name, seen>>
          /\ pc[t] = "reading" /\ ~enc[t]
      BY <1>7, FindKey DEF find_session_key, shared
    <2>1. configured \in seen[t] /\ configured # << >>
      BY <2>0, ReaderSees DEF ReaderInv
    <2>2. CASE /\ pc' = [pc EXCEPT ![t] = "missed"]
               /\ ~ListHas(configured, key_name[t])
               /\ UNCHANGED <<key, is_current_key>>
      BY <1>0, <2>0, <2>1, <2>2, OthersKeepReading DEF ReaderInv
    <2>3. CASE /\ pc' = [pc EXCEPT ![t] = "found"]
               /\ key_name[t] \in Keys /\ ListHas(configured, key_name[t])
               /\ \E i \in 1 .. ticket_keys_len :
                     /\ key' = [key EXCEPT ![t] = CopyOf(i)]
                     /\ CopyOf(i).name = key_name[t]
                     /\ is_current_key' = [is_current_key EXCEPT ![t] = (i = 1)]
                     /\ (i = 1) <=> (key_name[t] = configured[1])
      <3>1. /\ key'[t].name = key_name[t]
            /\ is_current_key'[t] <=> (key_name[t] = configured[1])
            /\ \A u \in Threads : u # t => key'[u] = key[u] /\ is_current_key'[u] = is_current_key[u]
        BY <1>0, <2>3
      <3>2. FoundIn(t, configured)'
        BY <2>0, <2>1, <2>3, <3>1 DEF FoundIn
      <3> QED BY <1>0, <2>0, <2>1, <2>3, <3>1, <3>2, OthersKeepReading DEF ReaderInv
    <2> QED BY <1>7, <2>2, <2>3, FindKey
  <1>8. ASSUME NEW t \in Threads,
               IssueTicket(t) \/ NoRandomness(t) \/ AcceptTicket(t) \/ RefuseTicket(t)
        PROVE  ReaderInv'
    <2>1. /\ pc' = [pc EXCEPT ![t] = "idle"]
          /\ seen' = [seen EXCEPT ![t] = {}]
          /\ key' = [key EXCEPT ![t] = NoKey]
          /\ key_name' = [key_name EXCEPT ![t] = NoOne]
          /\ enc' = [enc EXCEPT ![t] = FALSE]
          /\ is_current_key' = [is_current_key EXCEPT ![t] = FALSE]
          /\ UNCHANGED <<installed, configured>>
      BY <1>8 DEF IssueTicket, NoRandomness, AcceptTicket, RefuseTicket, Answer, Goto, shared
    <2> QED BY <1>0, <2>1, OthersKeepReading DEF ReaderInv
  <1> QED
    BY <1>1, <1>2, <1>3, <1>4, <1>5, <1>6, <1>7, <1>8
    DEF Next, setSessionTicketKeys0, ssl_tlsext_ticket_key_cb

\* Every step keeps the types; that a copied key is never garbage needs the lock.
LEMMA TypeStep ==
    ASSUME TypeOK, LockInv, HeapInv, ReaderInv, [Next]_vars PROVE TypeOK'
  <1> USE DistinctAssumption DEF Locations
  <1>1. CASE UNCHANGED vars \/ \E t \in Threads : NextHandshake(t)
    BY <1>1 DEF vars, NextHandshake, shared, lock, local, TypeOK
  <1>2. ASSUME NEW t \in Threads, NEW keys \in KeyLists, NEW a \in Addresses, FillKeys(t, keys, a)
        PROVE  TypeOK'
    BY <1>2 DEF FillKeys, Goto, lock, local, TypeOK
  <1>3. ASSUME NEW t \in Threads, wrlock(t) PROVE TypeOK'
    BY <1>3 DEF wrlock, Goto, shared, local, TypeOK
  <1>4. ASSUME NEW t \in Threads, FreeOldKeys(t) PROVE TypeOK'
    <2>1. heap' \in [Addresses -> KeyLists \cup {<< >>}]
      BY <1>4 DEF FreeOldKeys, TypeOK
    <2> QED BY <1>4, <2>1 DEF FreeOldKeys, Goto, shared, lock, local, TypeOK
  <1>5. ASSUME NEW t \in Threads, InstallKeys(t) PROVE TypeOK'
    <2>1. array[t] \in Addresses /\ heap[array[t]] \in KeyLists
      BY <1>5 DEF InstallKeys, Goto, HeapInv, TypeOK
    <2>2. Len(heap[array[t]]) \in Nat
      BY <2>1, KeyListsAssumption
    <2>3. seen' \in [Threads -> SUBSET (KeyLists \cup {<< >>})]
      BY <1>5, <2>1 DEF InstallKeys, TypeOK
    <2>4. installed' \in BOOLEAN
      BY <1>5 DEF InstallKeys
    <2> QED BY <1>5, <2>1, <2>2, <2>3, <2>4 DEF InstallKeys, Goto, local, TypeOK
  <1>6. ASSUME NEW t \in Threads, NEW isEnc \in BOOLEAN, NEW name \in Keys \cup {NoOne},
               Calls(t, isEnc, name)
        PROVE  TypeOK'
    <2>1. presented' \in [Threads -> BOOLEAN]
      BY <1>6 DEF Calls, TypeOK
    <2>2. enc' \in [Threads -> BOOLEAN]
      BY <1>6 DEF Calls, TypeOK
    <2>3. seen' \in [Threads -> SUBSET (KeyLists \cup {<< >>})]
      BY <1>6 DEF Calls, TypeOK
    <2> QED BY <1>6, <2>1, <2>2, <2>3 DEF Calls, Goto, lock, TypeOK
  <1>7. ASSUME NEW t \in Threads, rdlock(t) PROVE TypeOK'
    BY <1>7 DEF rdlock, Goto, shared, local, TypeOK
  <1>8. ASSUME NEW t \in Threads, current_session_key(t) PROVE TypeOK'
    <2>1. pc' = [pc EXCEPT ![t] = "found"] /\ key' = [key EXCEPT ![t] = CopyOf(1)]
          /\ CopyOf(1).name \in Keys
      BY <1>8, CurrentKey
    <2>2. CopyOf(1) \in [name : Keys \cup {NoOne}, at : Addresses \cup {NoOne}, index : Nat]
      BY <2>1 DEF CopyOf, TypeOK
    <2> QED BY <1>8, <2>1, <2>2 DEF current_session_key, shared, TypeOK
  <1>9. ASSUME NEW t \in Threads, find_session_key(t) PROVE TypeOK'
    <2>1. pc' \in [Threads -> Locations]
      <3>1. pc' = [pc EXCEPT ![t] = "missed"] \/ pc' = [pc EXCEPT ![t] = "found"]
        BY <1>9, FindKey
      <3> QED BY <3>1 DEF TypeOK
    <2>2. /\ key' \in [Threads -> [name : Keys \cup {NoOne}, at : Addresses \cup {NoOne},
                                   index : Nat]]
          /\ is_current_key' \in [Threads -> BOOLEAN]
      <3>1. CASE UNCHANGED <<key, is_current_key>>
        BY <3>1 DEF TypeOK
      <3>2. CASE \E i \in 1 .. ticket_keys_len :
                   /\ key' = [key EXCEPT ![t] = CopyOf(i)]
                   /\ CopyOf(i).name = key_name[t]
                   /\ is_current_key' = [is_current_key EXCEPT ![t] = (i = 1)]
        <4>1. PICK i \in 1 .. ticket_keys_len :
                   /\ key' = [key EXCEPT ![t] = CopyOf(i)]
                   /\ CopyOf(i).name = key_name[t]
                   /\ is_current_key' = [is_current_key EXCEPT ![t] = (i = 1)]
          BY <3>2
        <4>2. i \in Nat
          BY DEF TypeOK
        <4>3. CopyOf(i) \in [name : Keys \cup {NoOne}, at : Addresses \cup {NoOne}, index : Nat]
          BY <4>1, <4>2 DEF CopyOf, TypeOK
        <4>4. (i = 1) \in BOOLEAN
          OBVIOUS
        <4>5. is_current_key' \in [Threads -> BOOLEAN]
          BY <4>1, <4>4 DEF TypeOK
        <4> QED BY <4>1, <4>3, <4>5 DEF TypeOK
      <3> QED BY <1>9, <3>1, <3>2, FindKey
    <2> QED BY <1>9, <2>1, <2>2 DEF find_session_key, shared, TypeOK
  <1>10. ASSUME NEW t \in Threads,
                IssueTicket(t) \/ NoRandomness(t) \/ AcceptTicket(t) \/ RefuseTicket(t)
         PROVE  TypeOK'
    <2>1. /\ pc' = [pc EXCEPT ![t] = "idle"]
          /\ Answer(t, 1) \/ Answer(t, -1) \/ Answer(t, 0) \/ Answer(t, 2)
      BY <1>10 DEF IssueTicket, NoRandomness, AcceptTicket, RefuseTicket, Goto
    <2>2. seen' \in [Threads -> SUBSET (KeyLists \cup {<< >>})]
      BY <2>1 DEF Answer, TypeOK
    <2>3. key' \in [Threads -> [name : Keys \cup {NoOne}, at : Addresses \cup {NoOne}, index : Nat]]
      <3>1. NoKey \in [name : Keys \cup {NoOne}, at : Addresses \cup {NoOne}, index : Nat]
        BY DEF NoKey
      <3>2. key' = [key EXCEPT ![t] = NoKey]
        BY <2>1 DEF Answer
      <3>3. key \in [Threads -> [name : Keys \cup {NoOne}, at : Addresses \cup {NoOne}, index : Nat]]
        BY DEF TypeOK
      <3> QED BY <3>1, <3>2, <3>3, Zenon
    <2>4. enc' \in [Threads -> BOOLEAN] /\ is_current_key' \in [Threads -> BOOLEAN]
      BY <2>1 DEF Answer, TypeOK
    <2> QED BY <2>1, <2>2, <2>3, <2>4 DEF Answer, shared, lock, TypeOK
  <1> QED
    BY <1>1, <1>2, <1>3, <1>4, <1>5, <1>6, <1>7, <1>8, <1>9, <1>10
    DEF Next, setSessionTicketKeys0, ssl_tlsext_ticket_key_cb

-----------------------------------------------------------------------------
TicketInv == TypeOK /\ LockInv /\ HeapInv /\ ReaderInv

\* The invariant holds of the context SSLContext.make creates.
LEMMA TicketInit == Init => TicketInv
  <1> SUFFICES ASSUME Init PROVE TicketInv
    OBVIOUS
  <1>1. TypeOK
    <2>1. installed \in BOOLEAN /\ enc \in [Threads -> BOOLEAN]
          /\ is_current_key \in [Threads -> BOOLEAN] /\ presented \in [Threads -> BOOLEAN]
      BY DEF Init
    <2>2. seen \in [Threads -> SUBSET (KeyLists \cup {<< >>})]
      BY DEF Init
    <2>3. key \in [Threads -> [name : Keys \cup {NoOne}, at : Addresses \cup {NoOne}, index : Nat]]
      BY DEF Init, NoKey
    <2> QED BY <2>1, <2>2, <2>3 DEF Init, TypeOK, Locations
  <1>2. LockInv /\ HeapInv /\ ReaderInv
    BY DistinctAssumption DEF Init, LockInv, HeapInv, ReaderInv, Dangling
  <1> QED BY <1>1, <1>2 DEF TicketInv

\* The invariant is inductive.
LEMMA TicketStep == TicketInv /\ [Next]_vars => TicketInv'
  BY TypeStep, LockStep, HeapStep, ReaderStep DEF TicketInv

\* The invariant holds of every reachable state.
LEMMA TicketInvariant == Spec => []TicketInv
  BY TicketInit, TicketStep, PTL DEF Spec

\* The ticket fields keep their types; in particular no copied key is garbage.
THEOREM TypeCorrect == Spec => []TypeOK
  <1>1. TicketInv => TypeOK
    BY DEF TicketInv
  <1> QED BY <1>1, TicketInvariant, PTL

\* No callback looks at an array that a rotation freed, for any number of both.
THEOREM LookupsSafe == Spec => []NoUseAfterFree
  <1>1. TicketInv => NoUseAfterFree
    BY ReaderSees, DistinctAssumption DEF TicketInv, NoUseAfterFree
  <1> QED BY <1>1, TicketInvariant, PTL

\* An answer that is given now is right of a list in the call's lifetime.
LEMMA AnswerStep == TicketInv /\ AnswersOneList /\ [Next]_vars => AnswersOneList'
  <1> SUFFICES ASSUME TicketInv, AnswersOneList, [Next]_vars PROVE AnswersOneList'
    OBVIOUS
  <1>1. CASE answer' = answer
    BY <1>1 DEF AnswersOneList, NoAnswer, ListHas
  <1>2. ASSUME NEW t \in Threads, IssueTicket(t) \/ NoRandomness(t) PROVE AnswersOneList'
    <2>1. /\ pc[t] = "found" /\ enc[t]
          /\ answer'.ret \in {1, -1} /\ answer'.enc = enc[t]
          /\ answer'.name = key[t].name /\ answer'.lists = seen[t]
      BY <1>2 DEF IssueTicket, NoRandomness, Answer, Goto
    <2>2. PICK list \in seen[t] : FoundIn(t, list)
      BY <2>1 DEF TicketInv, ReaderInv
    <2> QED BY <2>1, <2>2 DEF FoundIn, AnswersOneList
  <1>3. ASSUME NEW t \in Threads, AcceptTicket(t) PROVE AnswersOneList'
    <2>1. /\ pc[t] = "found" /\ ~enc[t]
          /\ answer'.ret = IF is_current_key[t] THEN 1 ELSE 2
          /\ answer'.enc = enc[t]
          /\ answer'.asked = key_name[t] /\ answer'.lists = seen[t]
      BY <1>3 DEF AcceptTicket, Answer, Goto
    <2>2. PICK list \in seen[t] : FoundIn(t, list)
      BY <2>1 DEF TicketInv, ReaderInv
    <2>3. CASE is_current_key[t]
      BY <2>1, <2>2, <2>3 DEF FoundIn, AnswersOneList
    <2>4. CASE ~is_current_key[t]
      BY <2>1, <2>2, <2>4 DEF FoundIn, AnswersOneList
    <2> QED BY <2>3, <2>4
  <1>4. ASSUME NEW t \in Threads, RefuseTicket(t) PROVE AnswersOneList'
    <2>1. /\ pc[t] = "missed"
          /\ answer'.ret = 0 /\ answer'.enc = enc[t]
          /\ answer'.asked = key_name[t] /\ answer'.lists = seen[t]
      BY <1>4 DEF RefuseTicket, Answer, Goto
    <2>2. ~enc[t] /\ \E list \in seen[t] : ~ListHas(list, key_name[t])
      BY <2>1 DEF TicketInv, ReaderInv
    <2> QED BY <2>1, <2>2 DEF AnswersOneList
  <1>5. CASE \E t \in Threads : \/ setSessionTicketKeys0(t) \/ NextHandshake(t) \/ rdlock(t)
                                \/ current_session_key(t) \/ find_session_key(t)
                                \/ \E isEnc \in BOOLEAN, name \in Keys \cup {NoOne} : Calls(t, isEnc, name)
    <2>1. answer' = answer
      BY <1>5 DEF setSessionTicketKeys0, FillKeys, wrlock, FreeOldKeys, InstallKeys, NextHandshake,
                  rdlock, current_session_key, find_session_key, Calls, results
    <2> QED BY <1>1, <2>1
  <1>6. CASE UNCHANGED vars
    BY <1>1, <1>6 DEF vars, results
  <1> QED
    BY <1>2, <1>3, <1>4, <1>5, <1>6 DEF Next, ssl_tlsext_ticket_key_cb

\* Callbacks that race rotations are answered as by one atomic lookup each.
THEOREM AnswersCorrect == Spec => []AnswersOneList
  <1>1. Init => AnswersOneList
    BY DEF Init, AnswersOneList
  <1> QED BY <1>1, AnswerStep, TicketInvariant, PTL DEF Spec

\* Before OpenSSL 3 a ticket is made and opened with the secrets of one key.
THEOREM RightKeyCorrect == ASSUME ~OpenSSL3 PROVE Spec => []RightKey
  <1>1. Init => RightKey
    BY DEF Init, RightKey, NoAnswer
  <1>2. ASSUME TicketInv, RightKey, [Next]_vars PROVE RightKey'
    <2>1. CASE answer' = answer
      BY <1>2, <2>1 DEF RightKey
    <2>2. ASSUME NEW t \in Threads, IssueTicket(t) \/ NoRandomness(t) \/ AcceptTicket(t)
          PROVE  RightKey'
      <3>1. /\ pc[t] = "found"
            /\ answer'.name = key[t].name /\ answer'.mac = key[t].name
            /\ answer'.enc = enc[t] /\ answer'.asked = key_name[t]
        BY <2>2 DEF IssueTicket, NoRandomness, AcceptTicket, Answer, Goto, hmac_key
      <3>2. key[t].name \in Keys /\ (~enc[t] => key[t].name = key_name[t])
        BY <1>2, <3>1 DEF TicketInv, ReaderInv, FoundIn
      <3> QED BY <3>1, <3>2 DEF RightKey
    <2>3. ASSUME NEW t \in Threads, RefuseTicket(t) PROVE RightKey'
      BY <2>3 DEF RefuseTicket, Answer, RightKey
    <2>4. CASE \E t \in Threads : \/ setSessionTicketKeys0(t) \/ NextHandshake(t) \/ rdlock(t)
                                  \/ current_session_key(t) \/ find_session_key(t)
                                  \/ \E isEnc \in BOOLEAN, name \in Keys \cup {NoOne} :
                                        Calls(t, isEnc, name)
      <3>1. answer' = answer
        BY <2>4 DEF setSessionTicketKeys0, FillKeys, wrlock, FreeOldKeys, InstallKeys,
                    NextHandshake, rdlock, current_session_key, find_session_key, Calls, results
      <3> QED BY <2>1, <3>1
    <2>5. CASE UNCHANGED vars
      BY <2>1, <2>5 DEF vars, results
    <2> QED BY <1>2, <2>2, <2>3, <2>4, <2>5 DEF Next, ssl_tlsext_ticket_key_cb
  <1> QED BY <1>1, <1>2, TicketInvariant, PTL DEF Spec

-----------------------------------------------------------------------------
(* Ownership of the arrays.                                                *)

\* ArraysOwned is not inductive: a rotation that frees c->ticket_keys leaves the
\* pointer behind until it replaces it, and what the pointer names meanwhile must
\* be free, or the array of another rotation that got the address.
OwnedInv ==
    /\ ArraysOwned
    /\ Dangling /\ ticket_keys # NoOne /\ heap[ticket_keys] # << >> =>
          \E t \in Threads : array[t] = ticket_keys

\* Every step keeps each array with its owner: the one it frees is c->ticket_keys,
\* and the one it forgets becomes c->ticket_keys.
LEMMA OwnedStep == TicketInv /\ OwnedInv /\ [Next]_vars => OwnedInv'
  <1> SUFFICES ASSUME TicketInv, OwnedInv, [Next]_vars PROVE OwnedInv'
    OBVIOUS
  <1> USE DistinctAssumption
  <1>0. /\ heap \in [Addresses -> KeyLists \cup {<< >>}]
        /\ array \in [Threads -> Addresses \cup {NoOne}]
        /\ ticket_keys \in Addresses \cup {NoOne}
        /\ pc \in [Threads -> Locations]
    BY DEF TicketInv, TypeOK
  <1>1. CASE UNCHANGED <<heap, ticket_keys, array>> /\ (Dangling' => Dangling)
    BY <1>1 DEF OwnedInv, ArraysOwned
  <1>2. ASSUME NEW t \in Threads, NEW keys \in KeyLists, NEW a \in Addresses, FillKeys(t, keys, a)
        PROVE  OwnedInv'
    <2>1. /\ heap' = [heap EXCEPT ![a] = keys] /\ array' = [array EXCEPT ![t] = a]
          /\ ticket_keys' = ticket_keys /\ array[t] = NoOne
          /\ pc' = [pc EXCEPT ![t] = "filled"]
      BY <1>2 DEF FillKeys, Goto, TicketInv, HeapInv
    <2>2. \A b \in Addresses : (\E u \in Threads : array[u] = b) => \E u \in Threads : array'[u] = b
      BY <1>0, <2>1
    <2>3. array'[t] = a
      BY <1>0, <2>1
    <2>4. Dangling' => Dangling
      BY <1>0, <2>1 DEF Dangling
    <2>5. ArraysOwned'
      BY <1>0, <2>1, <2>2, <2>3 DEF OwnedInv, ArraysOwned
    <2> QED BY <1>0, <2>1, <2>2, <2>3, <2>4, <2>5 DEF OwnedInv
  <1>3. ASSUME NEW t \in Threads, FreeOldKeys(t) PROVE OwnedInv'
    <2>1. /\ heap' = IF ticket_keys = NoOne THEN heap ELSE [heap EXCEPT ![ticket_keys] = << >>]
          /\ UNCHANGED <<array, ticket_keys>>
      BY <1>3 DEF FreeOldKeys, shared
    <2> QED BY <1>0, <2>1 DEF OwnedInv, ArraysOwned
  <1>4. ASSUME NEW t \in Threads, InstallKeys(t) PROVE OwnedInv'
    <2>1. /\ pc[t] = "freed" /\ pc' = [pc EXCEPT ![t] = "idle"]
          /\ ticket_keys' = array[t]
          /\ array' = [array EXCEPT ![t] = NoOne] /\ heap' = heap
      BY <1>4 DEF InstallKeys, Goto
    <2>2. Dangling /\ ~Dangling'
      BY <1>0, <2>1, OneWriter DEF Dangling, TicketInv
    <2>3. \A a \in Addresses : heap[a] # << >> => \E u \in Threads : array[u] = a
      BY <1>0, <2>2 DEF OwnedInv, ArraysOwned
    <2>4. \A a \in Addresses, u \in Threads :
             array[u] = a => a = ticket_keys' \/ array'[u] = a
      BY <1>0, <2>1
    <2>5. ArraysOwned'
      BY <2>1, <2>3, <2>4 DEF ArraysOwned
    <2> QED BY <2>2, <2>5 DEF OwnedInv
  <1>5. ASSUME NEW t \in Threads, NEW isEnc, NEW name, Calls(t, isEnc, name) PROVE OwnedInv'
    BY <1>0, <1>1, <1>5 DEF Calls, Goto, Dangling
  <1>6. ASSUME NEW t \in Threads,
               \/ wrlock(t) \/ rdlock(t) \/ current_session_key(t) \/ find_session_key(t)
               \/ IssueTicket(t) \/ NoRandomness(t) \/ AcceptTicket(t) \/ RefuseTicket(t)
               \/ NextHandshake(t)
        PROVE  OwnedInv'
    <2>1. /\ UNCHANGED <<heap, ticket_keys, array>>
          /\ pc' = pc \/ \E to \in Locations \ {"freed"} : pc' = [pc EXCEPT ![t] = to]
      BY <1>6 DEF shared, wrlock, rdlock, current_session_key, find_session_key, IssueTicket,
                  NoRandomness, AcceptTicket, RefuseTicket, Answer, NextHandshake, Goto, Locations
    <2> QED BY <1>0, <1>1, <2>1 DEF Dangling
  <1>7. CASE UNCHANGED vars
    BY <1>1, <1>7 DEF vars, shared, Dangling
  <1> QED
    BY <1>2, <1>3, <1>4, <1>5, <1>6, <1>7 DEF Next, setSessionTicketKeys0, ssl_tlsext_ticket_key_cb

\* Rotations that race each other leak no array, however many there are.
THEOREM ArraysOwnedCorrect == Spec => []ArraysOwned
  <1>1. Init => OwnedInv
    BY DistinctAssumption DEF Init, OwnedInv, ArraysOwned
  <1>2. OwnedInv => ArraysOwned
    BY DEF OwnedInv
  <1> QED BY <1>1, <1>2, OwnedStep, TicketInvariant, PTL DEF Spec

-----------------------------------------------------------------------------
(* The refinement of KeyRing.                                              *)

\* A call that has not looked yet holds no key, and a call issues a ticket if and only
\* if it names none: what the mapping shows of a call is what it asked for.
CallInv ==
    \A t \in Threads :
        /\ pc[t] # "found" => key[t] = NoKey
        /\ pc[t] \in {"called", "reading", "found", "missed"} => (enc[t] <=> key_name[t] = NoOne)

\* Every step keeps what the mapping needs of the calls.
LEMMA CallStep == TicketInv /\ CallInv /\ [Next]_vars => CallInv'
  <1> SUFFICES ASSUME TicketInv, CallInv, [Next]_vars PROVE CallInv'
    OBVIOUS
  <1> USE DistinctAssumption
  <1>0. /\ pc \in [Threads -> Locations]
        /\ enc \in [Threads -> BOOLEAN]
        /\ key_name \in [Threads -> Keys \cup {NoOne}]
        /\ key \in [Threads -> [name : Keys \cup {NoOne}, at : Addresses \cup {NoOne}, index : Nat]]
    BY DEF TicketInv, TypeOK
  <1>1. CASE UNCHANGED vars \/ \E t \in Threads : NextHandshake(t)
    BY <1>1 DEF vars, local, NextHandshake, CallInv
  <1>2. ASSUME NEW t \in Threads, setSessionTicketKeys0(t) \/ rdlock(t) PROVE CallInv'
    <2>1. /\ UNCHANGED <<enc, key_name, key>>
          /\ \/ /\ pc[t] \in {"idle", "filled", "locked", "freed"}
                /\ \E to \in {"idle", "filled", "locked", "freed"} : pc' = [pc EXCEPT ![t] = to]
             \/ pc[t] = "called" /\ pc' = [pc EXCEPT ![t] = "reading"]
      BY <1>2 DEF setSessionTicketKeys0, FillKeys, wrlock, FreeOldKeys, InstallKeys, rdlock, local, Goto
    <2> QED BY <1>0, <2>1 DEF CallInv
  <1>3. ASSUME NEW t \in Threads, NEW isEnc \in BOOLEAN, NEW name \in Keys \cup {NoOne},
               isEnc <=> name = NoOne, Calls(t, isEnc, name)
        PROVE  CallInv'
    <2>1. /\ pc[t] = "idle" /\ pc' = [pc EXCEPT ![t] = "called"] /\ key' = key
          /\ enc' = [enc EXCEPT ![t] = isEnc] /\ key_name' = [key_name EXCEPT ![t] = name]
      BY <1>3 DEF Calls, Goto
    <2> QED BY <1>0, <1>3, <2>1 DEF CallInv
  <1>4. ASSUME NEW t \in Threads, current_session_key(t) PROVE CallInv'
    <2>1. /\ pc[t] = "reading" /\ pc' = [pc EXCEPT ![t] = "found"]
          /\ key' = [key EXCEPT ![t] = CopyOf(1)]
          /\ UNCHANGED <<enc, key_name>>
      BY <1>4, CurrentKey DEF TicketInv, current_session_key
    <2> QED BY <1>0, <2>1 DEF CallInv
  <1>5. ASSUME NEW t \in Threads, find_session_key(t) PROVE CallInv'
    <2>1. /\ pc[t] = "reading" /\ UNCHANGED <<enc, key_name>>
          /\ \/ pc' = [pc EXCEPT ![t] = "missed"] /\ key' = key
             \/ pc' = [pc EXCEPT ![t] = "found"] /\ \E k : key' = [key EXCEPT ![t] = k]
      BY <1>5, FindKey DEF TicketInv, find_session_key
    <2> QED BY <1>0, <2>1 DEF CallInv
  <1>6. ASSUME NEW t \in Threads,
               IssueTicket(t) \/ NoRandomness(t) \/ AcceptTicket(t) \/ RefuseTicket(t)
        PROVE  CallInv'
    <2>1. /\ pc' = [pc EXCEPT ![t] = "idle"] /\ key' = [key EXCEPT ![t] = NoKey]
          /\ enc' = [enc EXCEPT ![t] = FALSE] /\ key_name' = [key_name EXCEPT ![t] = NoOne]
      BY <1>6 DEF IssueTicket, NoRandomness, AcceptTicket, RefuseTicket, Answer, Goto
    <2> QED BY <1>0, <2>1 DEF CallInv
  <1> QED BY <1>1, <1>2, <1>3, <1>4, <1>5, <1>6 DEF Next, ssl_tlsext_ticket_key_cb

\* The steps of a call as the mapping shows them: only t's own call changes.
LEMMA MappedCall ==
    ASSUME NEW t \in Threads, TicketInv,
           \A u \in Threads \ {t} :
               /\ pc'[u] = pc[u] /\ enc'[u] = enc[u] /\ key'[u] = key[u]
               /\ key_name'[u] = key_name[u] /\ is_current_key'[u] = is_current_key[u]
    PROVE  [u \in Threads |-> AbstractCall(u)]'
             = [[u \in Threads |-> AbstractCall(u)] EXCEPT ![t] = AbstractCall(t)']
  <1>1. \A u \in Threads \ {t} : AbstractCall(u)' = AbstractCall(u)
    BY DEF AbstractCall
  <1> QED BY <1>1

\* Every step of the array and the lock is one step of the ring, or none of it.
LEMMA RingStep ==
    TicketInv /\ CallInv /\ [Next]_vars
      => [Ring!Next]_<<configured, [t \in Threads |-> AbstractCall(t)]>>
  <1> DEFINE mapped == [t \in Threads |-> AbstractCall(t)]
  <1> SUFFICES ASSUME TicketInv, CallInv, [Next]_vars
               PROVE  Ring!Next \/ UNCHANGED <<configured, mapped>>
    OBVIOUS
  <1> USE DistinctAssumption
  <1>0. /\ pc \in [Threads -> Locations]
        /\ enc \in [Threads -> BOOLEAN]
        /\ key_name \in [Threads -> Keys \cup {NoOne}]
        /\ key \in [Threads -> [name : Keys \cup {NoOne}, at : Addresses \cup {NoOne}, index : Nat]]
        /\ is_current_key \in [Threads -> BOOLEAN]
    BY DEF TicketInv, TypeOK
  <1>1. CASE UNCHANGED vars \/ \E t \in Threads : NextHandshake(t)
    BY <1>1 DEF vars, shared, local, NextHandshake, AbstractCall
  <1>2. ASSUME NEW t \in Threads,
               \/ wrlock(t) \/ FreeOldKeys(t)
               \/ \E keys \in KeyLists, a \in Addresses : FillKeys(t, keys, a)
        PROVE  UNCHANGED <<configured, mapped>>
    <2>1. /\ UNCHANGED <<configured, local>>
          /\ pc[t] \in {"idle", "filled", "locked"}
          /\ \E to \in {"filled", "locked", "freed"} : pc' = [pc EXCEPT ![t] = to]
      BY <1>2 DEF wrlock, FreeOldKeys, FillKeys, Goto, shared
    <2>2. \A u \in Threads : AbstractCall(u)' = AbstractCall(u)
      BY <1>0, <2>1 DEF local, AbstractCall
    <2> QED BY <2>1, <2>2
  <1>3. ASSUME NEW t \in Threads, InstallKeys(t) PROVE Ring!Next
    <2>1. /\ pc[t] = "freed" /\ pc' = [pc EXCEPT ![t] = "idle"]
          /\ configured' = heap[array[t]] /\ UNCHANGED local
      BY <1>3 DEF InstallKeys, Goto
    <2>2. configured' \in KeyLists
      BY <2>1 DEF TicketInv, HeapInv, TypeOK
    <2>3. \A u \in Threads : AbstractCall(u)' = AbstractCall(u)
      BY <1>0, <2>1 DEF local, AbstractCall
    <2>4. Ring!Rotate
      BY <2>2, <2>3 DEF Ring!Rotate
    <2> QED BY <2>4 DEF Ring!Next
  <1>4. ASSUME NEW t \in Threads, NEW isEnc \in BOOLEAN, NEW name \in Keys \cup {NoOne},
               Calls(t, isEnc, name)
        PROVE  Ring!Next
    <2>1. /\ pc[t] = "idle" /\ pc' = [pc EXCEPT ![t] = "called"] /\ installed
          /\ enc' = [enc EXCEPT ![t] = isEnc] /\ key_name' = [key_name EXCEPT ![t] = name]
          /\ UNCHANGED <<configured, key, is_current_key>>
      BY <1>4 DEF Calls, Goto
    <2>2. configured # << >>
      BY <2>1 DEF TicketInv, HeapInv
    <2>3. AbstractCall(t) = Ring!NoCall
      BY <1>0, <2>1 DEF AbstractCall, Ring!NoCall
    <2>4. pc'[t] = "called" /\ key_name'[t] = name /\ key'[t].name = NoOne
      BY <1>0, <2>1 DEF CallInv, NoKey
    <2>5. AbstractCall(t)' = Ring!Asked(name)
      BY <2>4 DEF AbstractCall, Ring!Asked
    <2>6. mapped' = [mapped EXCEPT ![t] = AbstractCall(t)']
      BY <1>0, <2>1, MappedCall
    <2>7. Ring!Ask(t, name)
      BY <2>1, <2>2, <2>3, <2>5, <2>6 DEF Ring!Ask
    <2> QED BY <2>7 DEF Ring!Next
  <1>5. ASSUME NEW t \in Threads, rdlock(t) PROVE UNCHANGED <<configured, mapped>>
    <2>1. /\ pc[t] = "called" /\ pc' = [pc EXCEPT ![t] = "reading"]
          /\ UNCHANGED <<configured, local>>
      BY <1>5 DEF rdlock, Goto, shared
    <2>2. \A u \in Threads : AbstractCall(u)' = AbstractCall(u)
      BY <1>0, <2>1 DEF local, AbstractCall
    <2> QED BY <2>1, <2>2
  <1>6. ASSUME NEW t \in Threads, current_session_key(t) PROVE Ring!Next
    <2>1. /\ pc[t] = "reading" /\ pc' = [pc EXCEPT ![t] = "found"] /\ enc[t]
          /\ key' = [key EXCEPT ![t] = CopyOf(1)]
          /\ CopyOf(1).name = configured[1] /\ configured[1] \in Keys
          /\ UNCHANGED <<configured, enc, key_name, is_current_key>>
      BY <1>6, CurrentKey DEF TicketInv, current_session_key, shared
    <2>2. key_name[t] = NoOne
      BY <2>1 DEF CallInv
    <2>3. AbstractCall(t).state = "asked" /\ AbstractCall(t).name = NoOne
      BY <2>1, <2>2 DEF AbstractCall
    <2>4. AbstractCall(t)' = Ring!Decision(NoOne)
      BY <1>0, <2>1, <2>2 DEF AbstractCall, Ring!Decision
    <2>5. mapped' = [mapped EXCEPT ![t] = AbstractCall(t)']
      BY <1>0, <2>1, MappedCall
    <2>6. Ring!Decide(t)
      BY <2>1, <2>3, <2>4, <2>5 DEF Ring!Decide
    <2> QED BY <2>6 DEF Ring!Next
  <1>7. ASSUME NEW t \in Threads, find_session_key(t) PROVE Ring!Next
    <2>0. /\ pc[t] = "reading" /\ ~enc[t] /\ key_name[t] \in Keys
          /\ configured \in Seq(Keys) \ {<< >>}
          /\ UNCHANGED <<configured, enc, key_name>>
      <3>1. pc[t] = "reading" /\ ~enc[t] /\ UNCHANGED <<configured, enc, key_name>>
        BY <1>7 DEF find_session_key, Goto, shared
      <3>2. key_name[t] \in Keys
        <4>1. key_name[t] # NoOne
          BY <3>1 DEF CallInv
        <4> QED BY <1>0, <4>1
      <3>3. configured \in Seq(Keys) \ {<< >>}
        BY <3>1, ReaderSees DEF TicketInv
      <3> QED BY <3>1, <3>2, <3>3
    <2>1. AbstractCall(t).state = "asked" /\ AbstractCall(t).name = key_name[t]
      BY <2>0 DEF AbstractCall
    <2>2. AbstractCall(t)' = Ring!Decision(key_name[t])
          /\ mapped' = [mapped EXCEPT ![t] = AbstractCall(t)']
      <3>1. CASE /\ pc' = [pc EXCEPT ![t] = "missed"]
                 /\ ~ListHas(configured, key_name[t])
                 /\ UNCHANGED <<key, is_current_key>>
        <4>1. ~Ring!InRing(key_name[t])
          BY <3>1 DEF ListHas, Ring!InRing
        <4>2. key[t].name = NoOne
          BY <2>0 DEF CallInv, NoKey
        <4>3. AbstractCall(t)' = Ring!Decision(key_name[t])
          BY <1>0, <2>0, <3>1, <4>1, <4>2 DEF AbstractCall, Ring!Decision
        <4> QED BY <1>0, <2>0, <3>1, <4>3, MappedCall
      <3>2. ASSUME NEW i \in 1 .. ticket_keys_len,
                   pc' = [pc EXCEPT ![t] = "found"],
                   ListHas(configured, key_name[t]),
                   key' = [key EXCEPT ![t] = CopyOf(i)],
                   CopyOf(i).name = key_name[t],
                   is_current_key' = [is_current_key EXCEPT ![t] = (i = 1)],
                   (i = 1) <=> (key_name[t] = configured[1])
            PROVE  AbstractCall(t)' = Ring!Decision(key_name[t])
                   /\ mapped' = [mapped EXCEPT ![t] = AbstractCall(t)']
        <4>1. Ring!InRing(key_name[t])
          BY <3>2 DEF ListHas, Ring!InRing
        <4>2. pc'[t] = "found" /\ key'[t].name = key_name[t]
              /\ (is_current_key'[t] <=> key_name[t] = configured[1])
          BY <1>0, <3>2
        <4>3. AbstractCall(t)' = Ring!Decision(key_name[t])
          BY <2>0, <4>1, <4>2 DEF AbstractCall, Ring!Decision
        <4>4. \A u \in Threads \ {t} : pc'[u] = pc[u] /\ key'[u] = key[u]
                                       /\ is_current_key'[u] = is_current_key[u]
          BY <1>0, <3>2
        <4> QED BY <2>0, <4>3, <4>4, MappedCall
      <3> QED BY <1>7, <3>1, <3>2, FindKey DEF TicketInv
    <2>3. Ring!Decide(t)
      BY <2>0, <2>1, <2>2 DEF Ring!Decide
    <2> QED BY <2>3 DEF Ring!Next
  <1>8. ASSUME NEW t \in Threads,
               IssueTicket(t) \/ NoRandomness(t) \/ AcceptTicket(t) \/ RefuseTicket(t)
        PROVE  Ring!Next
    <2>1. /\ pc[t] \in {"found", "missed"} /\ pc' = [pc EXCEPT ![t] = "idle"]
          /\ key' = [key EXCEPT ![t] = NoKey]
          /\ enc' = [enc EXCEPT ![t] = FALSE] /\ key_name' = [key_name EXCEPT ![t] = NoOne]
          /\ is_current_key' = [is_current_key EXCEPT ![t] = FALSE]
          /\ UNCHANGED configured
      BY <1>8 DEF IssueTicket, NoRandomness, AcceptTicket, RefuseTicket, Answer, Goto, shared
    <2>2. AbstractCall(t).state = "decided" /\ AbstractCall(t)' = Ring!NoCall
      BY <1>0, <2>1 DEF AbstractCall, Ring!NoCall
    <2>3. mapped' = [mapped EXCEPT ![t] = AbstractCall(t)']
      BY <1>0, <2>1, MappedCall
    <2>4. Ring!Return(t)
      BY <2>1, <2>2, <2>3 DEF Ring!Return
    <2> QED BY <2>4 DEF Ring!Next
  <1> QED
    BY <1>1, <1>2, <1>3, <1>4, <1>5, <1>6, <1>7, <1>8
    DEF Next, setSessionTicketKeys0, ssl_tlsext_ticket_key_cb

\* For any number of threads and rotations, the array behind the lock implements the
\* ring of keys: every rotation and every lookup takes effect in one step.
THEOREM KeyRingImplemented == Spec => ImplementsKeyRing
  <1>1. Init => Ring!Init
    BY DEF Init, Ring!Init, Ring!NoCall, AbstractCall
  <1>2. Init => CallInv
    BY DEF Init, CallInv
  <1>3. Spec => []CallInv
    BY <1>2, CallStep, TicketInvariant, PTL DEF Spec
  <1> QED BY <1>1, <1>3, RingStep, TicketInvariant, PTL DEF Spec, ImplementsKeyRing, Ring!Spec
=============================================================================
