----------------------- MODULE ContextCallbacksProofs -----------------------
(***************************************************************************)
(* Proofs about the callbacks of an SSLContext, for every set of programs, *)
(* objects, references and connections.                                    *)
(*                                                                         *)
(* RefsOwned counts references at every step of a setter, so it needs what *)
(* the setter's local variables mean at each of its program points         *)
(* (SetterInv, ArgInv) and that a reference is only ever stored in the     *)
(* slot it was made for (SlotsInv).  NoStaleCallback needs RefsOwned, and  *)
(* that what a connection has loaded is still what the slot holds          *)
(* (CallsInv).                                                             *)
(***************************************************************************)
EXTENDS ContextCallbacks, TLAPS

-----------------------------------------------------------------------------
(* References.                                                             *)

Own(s) == {s} \X Handles       \* the references made for a slot

LEMMA OwnFacts ==
    /\ NoRef \notin Refs
    /\ \A s \in Slots : Own(s) \subseteq Refs
    /\ \A s, t : Own(s) \cap Own(t) # {} => s = t
    /\ Null \notin Slots
  BY NullAssumption DEF NoRef, Refs, Own

LEMMA SlotNames == Setters \cap Compression = {} /\ Setters \subseteq Slots /\ Compression \subseteq Slots
  BY DEF Setters, Compression, Slots

\* A slot holds a reference made for it, with the method id of the class of the
\* object it refers to; a freed context holds none and nobody configures it.
SlotsInv ==
    /\ \A s \in Slots : slot[s] \in Own(s) \cup {NoRef}
    /\ \A s \in Slots : slot[s] # NoRef => method[s] = live[slot[s]]
    /\ ~alive => setter = Idle /\ \A s \in Slots : slot[s] = NoRef

\* The local variables of a setter at each of its program points.
SetterInv ==
    /\ setter.pc = "idle" => setter = Idle
    /\ setter.pc # "idle" =>
          setter.slot \in Slots /\ setter.old \in Own(setter.slot) \cup {NoRef}
    /\ setter.pc = "begun" =>
          /\ setter.old = slot[setter.slot] /\ setter.ref = NoRef
          /\ setter.obj = Null => setter.slot \in Setters
    /\ setter.pc \in {"stored", "called", "installed"} =>
          /\ setter.slot \in Setters /\ setter.ref = NoRef
          /\ setter.old # NoRef => setter.old # slot[setter.slot]
          /\ setter.obj = Null <=> slot[setter.slot] = NoRef
    /\ setter.pc \in {"referenced", "added"} =>
          /\ setter.slot \in Compression /\ setter.obj # Null
          /\ setter.ref \in Own(setter.slot) /\ setter.ref # slot[setter.slot]
          /\ live[setter.ref] = setter.obj

\* The library calls the slots that are filled, but for the slot of a setter that
\* is between its store and the call that sets or clears the C function.
LibInv ==
    /\ alive => \A s \in Slots :
          s # setter.slot \/ setter.pc \in {"begun", "called", "installed", "referenced"} =>
             (s \in lib <=> slot[s] # NoRef)
    /\ setter.pc = "stored" => (setter.slot \in lib <=> setter.old # NoRef)
    /\ setter.pc = "added" => setter.slot \in lib /\ slot[setter.slot] = NoRef

\* The references have owners, and at rest the library calls the filled slots.
Owned ==
    /\ \A r \in Refs : live[r] # Null <=> (\E s \in Slots : slot[s] = r) \/ r \in InHand
    /\ alive /\ setter.pc = "idle" => lib = {s \in Slots : slot[s] # NoRef}
    /\ ~alive => \A r \in Refs : live[r] = Null

\* The matcher's C function has its argument, but for the setter between its two calls.
ArgInv ==
    /\ alive /\ setter.pc # "called" => (arg <=> "sni" \in lib)
    /\ setter.pc = "called" => setter.slot = "sni" /\ (arg <=> setter.old # NoRef)

ContextInv == SlotsInv /\ SetterInv /\ LibInv /\ Owned

\* Of a program that replaces its callbacks, and sets its first matcher, between
\* connections and frees the context after them: what a connection has loaded is what
\* the slot holds.
CallsInv ==
    ~program.replaces /\ ~program.freesEarly /\ ~program.matchesLate =>
       /\ ssls # {} => alive
       /\ setter.old # NoRef \/ setter.slot = "sni" => ssls = {}
       /\ \A c \in SSLs : calling[c] # NoCall =>
             /\ c \in ssls /\ calling[c].slot \in Slots
             /\ calling[c].ref # NoRef /\ calling[c].ref = slot[calling[c].slot]
       /\ bad = {}

-----------------------------------------------------------------------------
(* The steps.                                                              *)

\* A setter begins on one of its slots, with an object unless it may take NULL.
Begins == \E s \in Slots, obj \in Objects \cup {Null} : (obj = Null => s \in Setters) /\ Begin(s, obj)

\* A connection calls, or returns from, Java.
Loads == \E c \in SSLs, s \in Slots : LoadCallback(c, s)

LEMMA Steps ==
    ASSUME Next
    PROVE  \/ Begins \/ Loads
           \/ Throw \/ StoreObject \/ StoreNull \/ SetOnLibrary \/ SetArg \/ DeleteOld
           \/ NewAlgorithmRef \/ RefusedByLibrary \/ AddToLibrary \/ StoreAlgorithm
           \/ \E c \in SSLs : newSSL(c) \/ freeSSL(c) \/ InvokeCallback(c)
           \/ ssl_context_cleanup
  <1>1. ASSUME NEW obj \in Objects \cup {Null},
               \/ setCertVerifyCallback(obj) \/ setCertRequestedCallback(obj)
               \/ setCertificateCallback(obj) \/ setPrivateKeyMethod0(obj)
               \/ setSSLSessionCache(obj) \/ setSniHostnameMatcher(obj) \/ setKeyLogCallback(obj)
        PROVE  Begins
    <2>1. \E s \in Setters : Begin(s, obj)
      BY <1>1 DEF setCertVerifyCallback, setCertRequestedCallback, setCertificateCallback,
                  setPrivateKeyMethod0, setSSLSessionCache, setSniHostnameMatcher, setKeyLogCallback,
                  Setters
    <2> QED BY <2>1, SlotNames DEF Begins
  <1>2. ASSUME NEW s \in Compression, NEW obj \in Objects, addCertificateCompressionAlgorithm0(s, obj)
        PROVE  Begins
    BY <1>2, SlotNames DEF Begins, addCertificateCompressionAlgorithm0
  <1>3. ASSUME NEW c \in SSLs,
               \/ verify_callback(c) \/ cert_requested(c) \/ certificate_cb(c) \/ tcn_private_key_java(c)
               \/ tcn_new_session_cb(c) \/ tcn_get_session_cb(c)
               \/ ssl_servername_cb(c) \/ keylog_cb(c) \/ compress(c) \/ decompress(c)
        PROVE  Loads
    <2>1. \E s \in Setters \cup Compression : LoadCallback(c, s)
      BY <1>3 DEF verify_callback, cert_requested, certificate_cb, tcn_private_key_java,
                  tcn_new_session_cb, tcn_get_session_cb, ssl_servername_cb, keylog_cb, compress,
                  decompress, Setters
    <2> QED BY <2>1, SlotNames DEF Loads
  <1> QED BY <1>1, <1>2, <1>3 DEF Next

-----------------------------------------------------------------------------
(* The type invariant.                                                     *)

\* A setter that has begun has a slot.
TypeInv == TypeOK /\ (setter.pc # "idle" => setter.slot \in Slots)

LEMMA TypeInit == ASSUME Init PROVE TypeInv
  BY DEF Init, TypeInv, TypeOK, Idle, NoCall

LEMMA TypeStep == ASSUME TypeInv, [Next]_vars PROVE TypeInv'
  <1> USE DEF TypeInv, TypeOK
  <1>1. \A r \in Refs \cup {NoRef} : Delete(r) \in [Refs -> Objects \cup {Null}]
    BY DEF Delete
  <1>2. Idle \in [pc : {"idle", "begun", "stored", "called", "installed", "referenced", "added"},
                  slot : Slots \cup {Null}, obj : Objects \cup {Null},
                  ref : Refs \cup {NoRef}, old : Refs \cup {NoRef}]
    BY DEF Idle
  <1>3. CASE Begins
    <2>1. PICK s \in Slots, obj \in Objects \cup {Null} : Begin(s, obj)
      BY <1>3 DEF Begins
    <2>2. slot[s] \in Refs \cup {NoRef}
      OBVIOUS
    <2> QED BY <2>1, <2>2 DEF Begin
  <1>4. CASE Loads
    <2>1. PICK c \in SSLs, s \in Slots : LoadCallback(c, s)
      BY <1>4 DEF Loads
    <2>2. bad' \subseteq {"null", "stale", "mismatch"}
      BY <2>1 DEF LoadCallback, NoContext
    <2>3. calling' \in [SSLs -> [slot : Slots \cup {Null}, ref : Refs \cup {NoRef}]]
      BY <2>1 DEF LoadCallback
    <2> QED BY <2>1, <2>2, <2>3 DEF LoadCallback
  <1>5. CASE Throw \/ DeleteOld \/ RefusedByLibrary
    <2>1. live' \in [Refs -> Objects \cup {Null}] /\ setter' = Idle
      BY <1>1, <1>5 DEF Throw, DeleteOld, RefusedByLibrary
    <2>2. setter'.pc = "idle"
      BY <2>1 DEF Idle
    <2> QED BY <1>2, <1>5, <2>1, <2>2 DEF Throw, DeleteOld, RefusedByLibrary
  <1>6. CASE StoreObject
    <2>1. \A r \in {setter.slot} \X Handles : setter.slot \in Setters => r \in Refs
      BY SlotNames DEF Refs
    <2> QED BY <1>6, <2>1 DEF StoreObject
  <1>7. CASE StoreNull
    BY <1>7 DEF StoreNull
  <1>8. CASE SetOnLibrary
    <2>1. lib' \subseteq Slots
      BY <1>8 DEF SetOnLibrary
    <2> QED BY <1>8, <2>1 DEF SetOnLibrary
  <1>16. CASE SetArg
    <2>1. arg' \in BOOLEAN
      BY <1>16 DEF SetArg
    <2> QED BY <1>16, <2>1 DEF SetArg
  <1>9. CASE NewAlgorithmRef
    <2>1. \A r \in {setter.slot} \X Handles : setter.slot \in Compression => r \in Refs
      BY SlotNames DEF Refs
    <2>2. PICK r \in {setter.slot} \X Handles :
             /\ live' = [live EXCEPT ![r] = setter.obj]
             /\ setter' = [setter EXCEPT !.pc = "referenced", !.ref = r]
      BY <1>9 DEF NewAlgorithmRef
    <2>3. r \in Refs /\ UNCHANGED <<program, alive, slot, method, lib, arg, ssls, calling, bad>>
      BY <1>9, <2>1 DEF NewAlgorithmRef
    <2>4. /\ setter' \in [pc : {"idle", "begun", "stored", "called", "installed", "referenced", "added"},
                        slot : Slots \cup {Null}, obj : Objects \cup {Null},
                        ref : Refs \cup {NoRef}, old : Refs \cup {NoRef}]
          /\ setter'.slot = setter.slot
      BY <2>2, <2>3
    <2>5. live' \in [Refs -> Objects \cup {Null}]
      BY <2>2
    <2>6. setter.slot \in Slots
      BY <1>9, SlotNames DEF NewAlgorithmRef
    <2> QED BY <2>3, <2>4, <2>5, <2>6
  <1>10. CASE AddToLibrary
    BY <1>10 DEF AddToLibrary
  <1>11. CASE StoreAlgorithm
    <2>1. live' \in [Refs -> Objects \cup {Null}] /\ setter' = Idle
      BY <1>1, <1>11 DEF StoreAlgorithm
    <2>2. slot' \in [Slots -> Refs \cup {NoRef}] /\ method' \in [Slots -> Objects \cup {Null}]
      BY <1>11 DEF StoreAlgorithm
    <2>3. setter'.pc = "idle"
      BY <2>1 DEF Idle
    <2> QED BY <1>2, <1>11, <2>1, <2>2, <2>3 DEF StoreAlgorithm
  <1>12. ASSUME NEW c \in SSLs, newSSL(c) \/ freeSSL(c)
         PROVE  TypeInv'
    BY <1>12 DEF newSSL, freeSSL
  <1>13. ASSUME NEW c \in SSLs, InvokeCallback(c)
         PROVE  TypeInv'
    BY <1>13 DEF InvokeCallback, Fault, NoCall
  <1>14. CASE ssl_context_cleanup
    BY <1>14 DEF ssl_context_cleanup
  <1>15. CASE UNCHANGED vars
    BY <1>15 DEF vars
  <1> QED BY Steps, <1>3, <1>4, <1>5, <1>6, <1>7, <1>8, <1>9, <1>10, <1>11, <1>12, <1>13, <1>14, <1>15, <1>16

\* The fields of tcn_ssl_ctxt_t, the JNI references and the program points of the
\* threads keep their types.
THEOREM TypeCorrect == Spec => []TypeOK
  <1>1. Spec => []TypeInv
    BY TypeInit, TypeStep, PTL DEF Spec
  <1> QED BY <1>1, PTL DEF TypeInv

-----------------------------------------------------------------------------
(* RefsOwned.                                                              *)

LEMMA ContextInit == ASSUME Init PROVE ContextInv
  <1>1. setter = Idle /\ setter.pc = "idle" /\ setter.ref = NoRef /\ setter.slot = Null
    BY DEF Init, Idle
  <1>2. \A r \in Refs : live[r] = Null /\ r \notin InHand
    BY <1>1, OwnFacts DEF Init, InHand
  <1>3. /\ \A s \in Slots : slot[s] = NoRef
        /\ alive /\ lib = {}
    BY DEF Init
  <1>4. SlotsInv /\ SetterInv /\ LibInv
    BY <1>1, <1>3 DEF SlotsInv, SetterInv, LibInv
  <1>5. Owned
    BY <1>1, <1>2, <1>3, OwnFacts DEF Owned
  <1> QED BY <1>4, <1>5 DEF ContextInv

LEMMA IdleNames == Null # "sni"
  BY OwnFacts DEF Slots, Setters

\* An idle thread has no reference in hand.
LEMMA IdleHand == ASSUME setter = Idle PROVE /\ setter.pc = "idle" /\ setter.slot = Null
                                             /\ setter.ref = NoRef /\ setter.old = NoRef
                                             /\ InHand = {NoRef}
  BY DEF Idle, InHand

LEMMA ContextBegins == ASSUME TypeInv, ContextInv, Begins PROVE ContextInv'
  <1>1. PICK s \in Slots, obj \in Objects \cup {Null} : (obj = Null => s \in Setters) /\ Begin(s, obj)
    BY DEF Begins
  <1>2. /\ setter' = [pc |-> "begun", slot |-> s, obj |-> obj, ref |-> NoRef, old |-> slot[s]]
        /\ alive /\ setter = Idle
        /\ UNCHANGED <<alive, slot, method, live, lib>>
    BY <1>1 DEF Begin, ContextInv, SetterInv
  <1>3. setter.pc = "idle" /\ setter.slot = Null /\ InHand = {NoRef}
    BY <1>2, IdleHand
  <1>4. InHand' = {NoRef}
    BY <1>2 DEF InHand
  <1>5. SlotsInv' /\ Owned'
    BY <1>2, <1>3, <1>4 DEF ContextInv, SlotsInv, Owned
  <1>6. SetterInv'
    BY <1>1, <1>2 DEF ContextInv, SlotsInv, SetterInv
  <1>7. LibInv'
    BY <1>2, <1>3, OwnFacts DEF ContextInv, LibInv
  <1> QED BY <1>5, <1>6, <1>7 DEF ContextInv

LEMMA ContextThrow == ASSUME TypeInv, ContextInv, Throw PROVE ContextInv'
  <1>1. /\ setter.pc = "begun" /\ setter' = Idle /\ UNCHANGED <<alive, slot, method, live, lib>>
        /\ setter.ref = NoRef /\ alive
    BY IdleHand DEF Throw, ContextInv, SetterInv, SlotsInv
  <1>2. setter'.pc = "idle" /\ setter'.slot = Null /\ setter'.ref = NoRef
    BY <1>1 DEF Idle
  <1>3. InHand = {NoRef} /\ InHand' = {NoRef}
    BY <1>1, <1>2 DEF InHand
  <1>4. SlotsInv' /\ SetterInv' /\ LibInv'
    BY <1>1, <1>2 DEF ContextInv, SlotsInv, SetterInv, LibInv
  <1>5. lib = {s \in Slots : slot[s] # NoRef}
    BY <1>1 DEF ContextInv, LibInv, TypeInv, TypeOK
  <1> QED BY <1>1, <1>2, <1>3, <1>4, <1>5 DEF ContextInv, Owned

LEMMA ContextStoreObject == ASSUME TypeInv, ContextInv, StoreObject PROVE ContextInv'
  <1> USE OwnFacts
  <1> DEFINE t == setter.slot
  <1>1. PICK r \in Own(t) : /\ live[r] = Null
                            /\ live' = [live EXCEPT ![r] = setter.obj]
                            /\ slot' = [slot EXCEPT ![t] = r]
    BY DEF StoreObject, Own
  <1>2. /\ setter.pc = "begun" /\ setter.obj # Null /\ t \in Setters /\ t \in Slots
        /\ setter' = [setter EXCEPT !.pc = "stored"]
        /\ method' = [method EXCEPT ![t] = setter.obj]
        /\ UNCHANGED <<alive, lib>> /\ alive
        /\ setter.ref = NoRef /\ setter.old = slot[t]
    BY SlotNames, IdleHand DEF StoreObject, ContextInv, SetterInv, SlotsInv
  <1>3. /\ setter'.pc = "stored" /\ setter'.slot = t /\ setter'.obj = setter.obj
        /\ setter'.ref = NoRef /\ setter'.old = slot[t]
    BY <1>2 DEF TypeInv, TypeOK
  <1>4. r \in Refs /\ r # NoRef /\ \A s \in Slots : slot[s] # r
    BY <1>1, <1>2 DEF ContextInv, Owned
  <1>5. /\ slot'[t] = r /\ \A s \in Slots \ {t} : slot'[s] = slot[s]
        /\ method'[t] = setter.obj /\ \A s \in Slots \ {t} : method'[s] = method[s]
        /\ live'[r] = setter.obj /\ \A q \in Refs \ {r} : live'[q] = live[q]
    BY <1>1, <1>2, <1>4 DEF TypeInv, TypeOK
  <1>6. InHand = {NoRef} /\ InHand' = {NoRef, slot[t]}
    BY <1>2, <1>3 DEF InHand
  <1> HIDE DEF t
  <1>7. SlotsInv'
    <2>1. \A s \in Slots : slot'[s] \in Own(s) \cup {NoRef}
      BY <1>1, <1>5 DEF ContextInv, SlotsInv
    <2>2. \A s \in Slots : slot'[s] # NoRef => method'[s] = live'[slot'[s]]
      BY <1>2, <1>4, <1>5 DEF ContextInv, SlotsInv, TypeInv, TypeOK
    <2> QED BY <1>2, <2>1, <2>2 DEF SlotsInv
  <1>8. SetterInv'
    BY <1>2, <1>3, <1>4, <1>5 DEF ContextInv, SlotsInv, SetterInv
  <1>9. LibInv'
    BY <1>2, <1>3, <1>5 DEF ContextInv, LibInv, t
  <1>10. Owned'
    <2>1. ASSUME NEW q \in Refs
          PROVE  live'[q] # Null <=> (\E s \in Slots : slot'[s] = q) \/ q \in InHand'
      <3>1. CASE q = r
        BY <1>2, <1>5, <3>1
      <3>2. CASE q # r
        BY <1>2, <1>5, <1>6, <3>2 DEF ContextInv, Owned
      <3> QED BY <3>1, <3>2
    <2> QED BY <1>2, <1>3, <2>1 DEF Owned
  <1> QED BY <1>7, <1>8, <1>9, <1>10 DEF ContextInv

LEMMA ContextStoreNull == ASSUME TypeInv, ContextInv, StoreNull PROVE ContextInv'
  <1> USE OwnFacts
  <1> DEFINE t == setter.slot
  <1>1. /\ setter.pc = "begun" /\ setter.obj = Null /\ t \in Setters /\ t \in Slots
        /\ setter' = [setter EXCEPT !.pc = "stored"]
        /\ slot' = [slot EXCEPT ![t] = NoRef]
        /\ method' = [method EXCEPT ![t] = Null]
        /\ UNCHANGED <<alive, lib, live>> /\ alive
        /\ setter.ref = NoRef /\ setter.old = slot[t]
    BY SlotNames, IdleHand DEF StoreNull, ContextInv, SetterInv, SlotsInv
  <1>2. /\ setter'.pc = "stored" /\ setter'.slot = t /\ setter'.obj = Null
        /\ setter'.ref = NoRef /\ setter'.old = slot[t]
    BY <1>1 DEF TypeInv, TypeOK
  <1>3. /\ slot'[t] = NoRef /\ \A s \in Slots \ {t} : slot'[s] = slot[s]
        /\ method'[t] = Null /\ \A s \in Slots \ {t} : method'[s] = method[s]
    BY <1>1 DEF TypeInv, TypeOK
  <1>4. InHand = {NoRef} /\ InHand' = {NoRef, slot[t]}
    BY <1>1, <1>2 DEF InHand
  <1> HIDE DEF t
  <1>5. SlotsInv'
    BY <1>1, <1>3 DEF ContextInv, SlotsInv
  <1>6. SetterInv'
    BY <1>1, <1>2, <1>3 DEF ContextInv, SlotsInv, SetterInv
  <1>7. LibInv'
    BY <1>1, <1>2, <1>3 DEF ContextInv, LibInv, t
  <1>8. Owned'
    <2>1. \A q \in Refs : live'[q] # Null <=> (\E s \in Slots : slot'[s] = q) \/ q \in InHand'
      BY <1>1, <1>3, <1>4 DEF ContextInv, Owned
    <2> QED BY <1>1, <1>2, <2>1 DEF Owned
  <1> QED BY <1>5, <1>6, <1>7, <1>8 DEF ContextInv

LEMMA ContextSetOnLibrary == ASSUME TypeInv, ContextInv, SetOnLibrary \/ SetArg PROVE ContextInv'
  <1>1. /\ UNCHANGED <<alive, slot, method, live>> /\ alive
        /\ setter.slot \in Slots
        /\ setter.pc \in {"stored", "called"}
        /\ lib' = lib \/ setter.pc = "stored"
    BY IdleHand DEF SetOnLibrary, SetArg, ContextInv, SlotsInv, TypeInv
  <1>2. /\ setter'.pc \in {"called", "installed"} /\ setter'.slot = setter.slot
        /\ setter'.obj = setter.obj /\ setter'.ref = setter.ref /\ setter'.old = setter.old
    BY DEF SetOnLibrary, SetArg, TypeInv, TypeOK
  <1>3. InHand' = InHand
    BY <1>1, <1>2 DEF InHand
  <1>4. SlotsInv' /\ SetterInv'
    BY <1>1, <1>2 DEF ContextInv, SlotsInv, SetterInv
  <1>5. /\ \A s \in Slots : s # setter.slot => (s \in lib' <=> s \in lib)
        /\ setter.slot \in lib' <=> slot[setter.slot] # NoRef
    BY <1>1 DEF ContextInv, LibInv, SetterInv, SetOnLibrary, SetArg
  <1>6. LibInv'
    BY <1>1, <1>2, <1>5 DEF ContextInv, LibInv
  <1>7. Owned'
    BY <1>1, <1>2, <1>3 DEF ContextInv, Owned
  <1> QED BY <1>4, <1>6, <1>7 DEF ContextInv

LEMMA ContextDeleteOld == ASSUME TypeInv, ContextInv, DeleteOld PROVE ContextInv'
  <1> USE OwnFacts
  <1>1. /\ setter.pc = "installed" /\ setter' = Idle /\ live' = Delete(setter.old)
        /\ UNCHANGED <<alive, slot, method, lib>> /\ alive
        /\ setter.slot \in Slots /\ setter.ref = NoRef
        /\ setter.old \in Own(setter.slot) \cup {NoRef}
        /\ setter.old # NoRef => setter.old # slot[setter.slot]
    BY IdleHand DEF DeleteOld, ContextInv, SlotsInv, SetterInv
  <1>2. setter'.pc = "idle" /\ setter'.slot = Null /\ setter'.ref = NoRef /\ InHand' = {NoRef}
    BY <1>1 DEF Idle, InHand
  <1>3. /\ \A q \in Refs \ {setter.old} : live'[q] = live[q]
        /\ setter.old \in Refs => live'[setter.old] = Null
    BY <1>1 DEF Delete, TypeInv, TypeOK
  <1>4. \A s \in Slots : slot[s] # NoRef => slot[s] # setter.old /\ slot[s] \in Refs
    BY <1>1 DEF ContextInv, SlotsInv
  <1>5. SlotsInv'
    BY <1>1, <1>3, <1>4 DEF ContextInv, SlotsInv
  <1>6. SetterInv'
    BY <1>1, <1>2 DEF SetterInv
  <1>7. LibInv' /\ lib = {s \in Slots : slot[s] # NoRef}
    BY <1>1, <1>2 DEF ContextInv, LibInv, TypeInv, TypeOK
  <1>8. InHand = {NoRef, setter.old}
    BY <1>1 DEF InHand
  <1>9. \A q \in Refs : live'[q] # Null <=> (\E s \in Slots : slot'[s] = q) \/ q \in InHand'
    BY <1>1, <1>2, <1>3, <1>4, <1>8 DEF ContextInv, Owned
  <1>10. Owned'
    BY <1>1, <1>7, <1>9 DEF Owned
  <1> QED BY <1>5, <1>6, <1>7, <1>10 DEF ContextInv

LEMMA ContextNewAlgorithmRef == ASSUME TypeInv, ContextInv, NewAlgorithmRef PROVE ContextInv'
  <1> USE OwnFacts
  <1> DEFINE t == setter.slot
  <1>1. PICK r \in Own(t) : /\ live[r] = Null
                            /\ live' = [live EXCEPT ![r] = setter.obj]
                            /\ setter' = [setter EXCEPT !.pc = "referenced", !.ref = r]
    BY DEF NewAlgorithmRef, Own
  <1>2. /\ setter.pc = "begun" /\ t \in Compression /\ t \in Slots /\ setter.obj # Null
        /\ UNCHANGED <<alive, slot, method, lib>> /\ alive
        /\ setter.ref = NoRef /\ setter.old = slot[t]
    BY SlotNames, IdleHand DEF NewAlgorithmRef, ContextInv, SetterInv, SlotsInv
  <1>3. /\ setter'.pc = "referenced" /\ setter'.slot = t /\ setter'.obj = setter.obj
        /\ setter'.ref = r /\ setter'.old = slot[t]
    BY <1>1, <1>2 DEF TypeInv, TypeOK
  <1>4. r \in Refs /\ r # NoRef /\ \A s \in Slots : slot[s] # r
    BY <1>1, <1>2 DEF ContextInv, Owned
  <1>5. live'[r] = setter.obj /\ \A q \in Refs \ {r} : live'[q] = live[q]
    BY <1>1, <1>2, <1>4 DEF TypeInv, TypeOK
  <1>6. InHand = {NoRef} /\ InHand' = {r}
    BY <1>2, <1>3 DEF InHand
  <1> HIDE DEF t
  <1>7. SlotsInv'
    BY <1>2, <1>4, <1>5 DEF ContextInv, SlotsInv
  <1>8. SetterInv'
    BY <1>1, <1>2, <1>3, <1>4, <1>5 DEF ContextInv, SlotsInv, SetterInv
  <1>9. LibInv'
    BY <1>2, <1>3 DEF ContextInv, LibInv, t
  <1>10. \A q \in Refs : live'[q] # Null <=> (\E s \in Slots : slot'[s] = q) \/ q \in InHand'
    BY <1>2, <1>4, <1>5, <1>6 DEF ContextInv, Owned
  <1>11. Owned'
    BY <1>2, <1>3, <1>10 DEF Owned
  <1> QED BY <1>7, <1>8, <1>9, <1>11 DEF ContextInv

LEMMA ContextRefusedByLibrary == ASSUME TypeInv, ContextInv, RefusedByLibrary PROVE ContextInv'
  <1> USE OwnFacts
  <1>1. /\ setter.pc = "referenced" /\ setter' = Idle /\ live' = Delete(setter.ref)
        /\ UNCHANGED <<alive, slot, method, lib>> /\ alive
        /\ setter.slot \in Slots /\ setter.ref \in Own(setter.slot) /\ setter.ref # slot[setter.slot]
    BY IdleHand DEF RefusedByLibrary, ContextInv, SlotsInv, SetterInv
  <1>2. setter'.pc = "idle" /\ setter'.slot = Null /\ setter'.ref = NoRef /\ InHand' = {NoRef}
    BY <1>1 DEF Idle, InHand
  <1>3. /\ \A q \in Refs \ {setter.ref} : live'[q] = live[q]
        /\ setter.ref \in Refs /\ live'[setter.ref] = Null
    BY <1>1 DEF Delete, TypeInv, TypeOK
  <1>4. \A s \in Slots : slot[s] # setter.ref /\ (slot[s] # NoRef => slot[s] \in Refs)
    BY <1>1 DEF ContextInv, SlotsInv
  <1>5. SlotsInv'
    BY <1>1, <1>3, <1>4 DEF ContextInv, SlotsInv
  <1>6. SetterInv'
    BY <1>1, <1>2 DEF SetterInv
  <1>7. LibInv' /\ lib = {s \in Slots : slot[s] # NoRef}
    BY <1>1, <1>2 DEF ContextInv, LibInv, TypeInv, TypeOK
  <1>8. InHand = {setter.ref}
    BY <1>1 DEF InHand
  <1>9. \A q \in Refs : live'[q] # Null <=> (\E s \in Slots : slot'[s] = q) \/ q \in InHand'
    BY <1>1, <1>2, <1>3, <1>4, <1>8 DEF ContextInv, Owned
  <1>10. Owned'
    BY <1>1, <1>7, <1>9 DEF Owned
  <1> QED BY <1>5, <1>6, <1>7, <1>10 DEF ContextInv

LEMMA ContextAddToLibrary == ASSUME TypeInv, ContextInv, AddToLibrary PROVE ContextInv'
  <1>1. /\ setter.pc = "referenced" /\ setter.slot \notin lib
        /\ setter' = [setter EXCEPT !.pc = "added"]
        /\ lib' = lib \cup {setter.slot}
        /\ UNCHANGED <<alive, slot, method, live>> /\ alive
    BY IdleHand DEF AddToLibrary, ContextInv, SlotsInv
  <1>2. /\ setter'.pc = "added" /\ setter'.slot = setter.slot /\ setter'.obj = setter.obj
        /\ setter'.ref = setter.ref /\ setter'.old = setter.old
    BY <1>1 DEF TypeInv, TypeOK
  <1>3. InHand' = InHand
    BY <1>1, <1>2 DEF InHand
  <1>4. SlotsInv' /\ SetterInv'
    BY <1>1, <1>2 DEF ContextInv, SlotsInv, SetterInv
  <1>5. LibInv'
    BY <1>1, <1>2 DEF ContextInv, LibInv, SetterInv
  <1>6. Owned'
    BY <1>1, <1>2, <1>3 DEF ContextInv, Owned
  <1> QED BY <1>4, <1>5, <1>6 DEF ContextInv

LEMMA ContextStoreAlgorithm == ASSUME TypeInv, ContextInv, StoreAlgorithm PROVE ContextInv'
  <1> USE OwnFacts
  <1> DEFINE t == setter.slot
  <1>1. /\ setter.pc = "added" /\ setter' = Idle /\ t \in Slots /\ slot[t] = NoRef /\ t \in lib
        /\ setter.ref \in Own(t) /\ setter.ref \in Refs /\ live[setter.ref] = setter.obj
        /\ UNCHANGED <<alive, lib>> /\ alive
    BY SlotNames, IdleHand DEF StoreAlgorithm, ContextInv, SlotsInv, SetterInv, LibInv
  <1>2. /\ live' = live
        /\ slot' = [slot EXCEPT ![t] = setter.ref]
        /\ method' = [method EXCEPT ![t] = setter.obj]
    BY <1>1 DEF StoreAlgorithm, Delete
  <1>3. setter'.pc = "idle" /\ setter'.slot = Null /\ setter'.ref = NoRef /\ InHand' = {NoRef}
    BY <1>1 DEF Idle, InHand
  <1>4. /\ slot'[t] = setter.ref /\ \A s \in Slots \ {t} : slot'[s] = slot[s]
        /\ method'[t] = setter.obj /\ \A s \in Slots \ {t} : method'[s] = method[s]
    BY <1>1, <1>2 DEF TypeInv, TypeOK
  <1>5. SlotsInv'
    BY <1>1, <1>2, <1>4 DEF ContextInv, SlotsInv
  <1>6. SetterInv'
    BY <1>1, <1>3 DEF SetterInv
  <1>7. LibInv' /\ lib' = {s \in Slots : slot'[s] # NoRef}
    BY <1>1, <1>3, <1>4 DEF ContextInv, LibInv, TypeInv, TypeOK
  <1>8. InHand = {setter.ref}
    BY <1>1 DEF InHand
  <1> HIDE DEF t
  <1>9. \A q \in Refs : live'[q] # Null <=> (\E s \in Slots : slot'[s] = q) \/ q \in InHand'
    BY <1>1, <1>2, <1>3, <1>4, <1>8 DEF ContextInv, Owned
  <1>10. Owned'
    BY <1>1, <1>7, <1>9 DEF Owned
  <1> QED BY <1>5, <1>6, <1>7, <1>10 DEF ContextInv

LEMMA ContextCleanup == ASSUME TypeInv, ContextInv, ssl_context_cleanup PROVE ContextInv'
  <1>1. /\ alive' = FALSE /\ setter = Idle /\ setter' = setter
        /\ \A s \in Slots : slot'[s] = NoRef
        /\ \A r \in Refs : live'[r] = IF \E s \in Slots : slot[s] = r THEN Null ELSE live[r]
    BY DEF ssl_context_cleanup, ContextInv, SetterInv
  <1>2. InHand = {NoRef} /\ InHand' = {NoRef} /\ setter.pc = "idle"
    BY <1>1, IdleHand DEF InHand
  <1>3. \A r \in Refs : live'[r] = Null
    BY <1>1, <1>2, OwnFacts DEF ContextInv, Owned
  <1>4. SlotsInv' /\ SetterInv' /\ LibInv'
    BY <1>1, <1>2 DEF SlotsInv, SetterInv, LibInv
  <1>5. Owned'
    BY <1>1, <1>2, <1>3, OwnFacts DEF Owned
  <1> QED BY <1>4, <1>5 DEF ContextInv

\* Every step keeps ContextInv.
LEMMA ContextStep == ASSUME TypeInv, ContextInv, [Next]_vars PROVE ContextInv'
  <1>1. CASE Loads \/ (\E c \in SSLs : newSSL(c) \/ freeSSL(c) \/ InvokeCallback(c)) \/ UNCHANGED vars
    <2>1. UNCHANGED <<alive, slot, method, live, lib, setter>>
      BY <1>1 DEF Loads, LoadCallback, newSSL, freeSSL, InvokeCallback, vars
    <2> QED BY <2>1 DEF ContextInv, SlotsInv, SetterInv, LibInv, Owned, InHand
  <1> QED BY <1>1, Steps, ContextBegins, ContextThrow, ContextStoreObject, ContextStoreNull,
             ContextSetOnLibrary, ContextDeleteOld, ContextNewAlgorithmRef, ContextRefusedByLibrary,
             ContextAddToLibrary, ContextStoreAlgorithm, ContextCleanup

LEMMA ArgInit == ASSUME Init PROVE ArgInv
  BY DEF Init, ArgInv, Idle

\* Every step keeps ArgInv.
LEMMA ArgStep == ASSUME TypeInv, ContextInv, ArgInv, [Next]_vars PROVE ArgInv'
  <1> USE DEF TypeInv, TypeOK
  <1>1. CASE Begins
    <2>1. alive' = alive /\ lib' = lib /\ arg' = arg /\ setter.pc = "idle" /\ setter'.pc = "begun"
      BY <1>1 DEF Begins, Begin
    <2> QED BY <2>1 DEF ArgInv
  <1>2. CASE Throw \/ RefusedByLibrary \/ DeleteOld \/ StoreAlgorithm
    <2>1. /\ alive' = alive /\ lib' = lib /\ arg' = arg /\ setter.pc # "called" /\ setter' = Idle
      BY <1>2 DEF Throw, RefusedByLibrary, DeleteOld, StoreAlgorithm
    <2> QED BY <2>1 DEF ArgInv, Idle
  <1>3. CASE StoreObject \/ StoreNull \/ NewAlgorithmRef
    <2>1. /\ alive' = alive /\ lib' = lib /\ arg' = arg /\ setter.pc # "called" /\ setter'.pc # "called"
      BY <1>3 DEF StoreObject, StoreNull, NewAlgorithmRef
    <2> QED BY <2>1 DEF ArgInv
  <1>4. CASE AddToLibrary
    <2>1. /\ alive' = alive /\ lib' = lib \cup {setter.slot} /\ arg' = arg
          /\ setter.pc = "referenced" /\ setter'.pc = "added"
      BY <1>4 DEF AddToLibrary
    <2>2. setter.slot # "sni"
      BY <2>1 DEF ContextInv, SetterInv, Compression
    <2> QED BY <2>1, <2>2 DEF ArgInv
  <1>5. CASE SetOnLibrary
    <2>1. /\ alive' = alive /\ arg' = arg /\ setter.pc = "stored"
          /\ setter'.slot = setter.slot /\ setter'.old = setter.old
          /\ setter'.pc = IF setter.slot = "sni" THEN "called" ELSE "installed"
          /\ setter.slot # "sni" => ("sni" \in lib' <=> "sni" \in lib)
      BY <1>5 DEF SetOnLibrary
    <2>2. alive
      BY <2>1, IdleHand DEF ContextInv, SlotsInv
    <2>3. arg <=> "sni" \in lib
      BY <2>1, <2>2 DEF ArgInv
    <2>4. setter.slot = "sni" => ("sni" \in lib <=> setter.old # NoRef)
      BY <2>1 DEF ContextInv, LibInv
    <2> QED BY <2>1, <2>3, <2>4 DEF ArgInv
  <1>6. CASE SetArg
    <2>1. /\ alive' = alive /\ lib' = lib /\ setter.pc = "called" /\ setter'.pc = "installed"
          /\ arg' = (setter.obj # Null)
      BY <1>6 DEF SetArg
    <2>2. setter.slot = "sni" /\ "sni" \in Slots /\ alive
      BY <2>1, IdleHand DEF ArgInv, Slots, Setters, ContextInv, SlotsInv
    <2>3. setter.obj # Null <=> "sni" \in lib
      BY <2>1, <2>2 DEF ContextInv, SetterInv, LibInv
    <2> QED BY <2>1, <2>3 DEF ArgInv
  <1>7. CASE Loads \/ (\E c \in SSLs : newSSL(c) \/ freeSSL(c) \/ InvokeCallback(c)) \/ UNCHANGED vars
    <2>1. UNCHANGED <<alive, lib, arg, setter>>
      BY <1>7 DEF Loads, LoadCallback, newSSL, freeSSL, InvokeCallback, vars
    <2> QED BY <2>1 DEF ArgInv
  <1>8. CASE ssl_context_cleanup
    <2>1. ~alive' /\ setter'.pc = "idle"
      BY <1>8 DEF ssl_context_cleanup
    <2> QED BY <2>1 DEF ArgInv
  <1> QED BY Steps, <1>1, <1>2, <1>3, <1>4, <1>5, <1>6, <1>7, <1>8

\* Whatever the callers do and wherever a setter throws, every global reference is
\* in the slot it was made for or in the hands of the setter, the C functions set on
\* the SSL_CTX are those of the filled slots, the matcher's with its argument, and a
\* freed context leaves none.
THEOREM RefsOwnedCorrect == Spec => []RefsOwned
  <1>1. Spec => [](TypeInv /\ ContextInv /\ ArgInv)
    BY TypeInit, TypeStep, ContextInit, ContextStep, ArgInit, ArgStep, PTL DEF Spec
  <1>2. ContextInv /\ ArgInv => RefsOwned
    BY DEF ContextInv, Owned, ArgInv, RefsOwned
  <1> QED BY <1>1, <1>2, PTL

-----------------------------------------------------------------------------
(* NoStaleCallback.                                                        *)

\* Every step keeps CallsInv.
LEMMA CallsStep == ASSUME TypeInv, ContextInv, ArgInv, CallsInv, [Next]_vars PROVE CallsInv'
  <1> USE OwnFacts
  <1>1. program' = program
    BY Steps DEF Begins, Begin, Loads, LoadCallback, Throw, StoreObject, StoreNull, SetOnLibrary,
                 SetArg, DeleteOld, NewAlgorithmRef, RefusedByLibrary, AddToLibrary, StoreAlgorithm, newSSL,
                 freeSSL, InvokeCallback, ssl_context_cleanup, vars
  <1> SUFFICES ASSUME ~program.replaces, ~program.freesEarly, ~program.matchesLate
               PROVE  /\ ssls' # {} => alive'
                      /\ setter'.old # NoRef \/ setter'.slot = "sni" => ssls' = {}
                      /\ \A c \in SSLs : calling'[c] # NoCall =>
                            /\ c \in ssls' /\ calling'[c].slot \in Slots
                            /\ calling'[c].ref # NoRef /\ calling'[c].ref = slot'[calling'[c].slot]
                      /\ bad' = {}
    BY <1>1 DEF CallsInv
  <1>2. /\ ssls # {} => alive
        /\ setter.old # NoRef \/ setter.slot = "sni" => ssls = {}
        /\ \A c \in SSLs : calling[c] # NoCall =>
              /\ c \in ssls /\ calling[c].slot \in Slots
              /\ calling[c].ref # NoRef /\ calling[c].ref = slot[calling[c].slot]
        /\ bad = {}
    BY DEF CallsInv
  <1>3. CASE Begins
    BY <1>2, <1>3 DEF Begins, Begin, MayBegin
  <1>4. CASE \/ Throw \/ DeleteOld \/ RefusedByLibrary \/ UNCHANGED vars
             \/ SetOnLibrary \/ SetArg \/ AddToLibrary \/ NewAlgorithmRef
    <2>1. UNCHANGED <<alive, slot, ssls, calling, bad>>
      BY <1>4 DEF Throw, DeleteOld, RefusedByLibrary, SetOnLibrary, SetArg, AddToLibrary,
                  NewAlgorithmRef, vars
    <2>2. CASE Throw \/ DeleteOld \/ RefusedByLibrary
      <3>1. setter'.old = NoRef /\ setter'.slot # "sni"
        BY <2>2, IdleNames DEF Throw, DeleteOld, RefusedByLibrary, Idle
      <3> QED BY <1>2, <2>1, <3>1
    <2>3. CASE SetOnLibrary \/ SetArg \/ AddToLibrary \/ NewAlgorithmRef \/ UNCHANGED vars
      <3>1. setter'.old = setter.old /\ setter'.slot = setter.slot
        BY <2>3 DEF SetOnLibrary, SetArg, AddToLibrary, NewAlgorithmRef, TypeInv, TypeOK, vars
      <3> QED BY <1>2, <2>1, <3>1
    <2> QED BY <1>4, <2>2, <2>3
  <1>5. CASE StoreObject \/ StoreNull \/ StoreAlgorithm
    <2>1. /\ UNCHANGED <<alive, ssls, calling, bad>>
          /\ \A s \in Slots \ {setter.slot} : slot'[s] = slot[s]
      BY <1>5 DEF StoreObject, StoreNull, StoreAlgorithm, TypeInv, TypeOK
    <2>2. setter'.old \in {setter.old, NoRef} /\ (setter'.slot = setter.slot \/ setter'.slot # "sni")
      BY <1>5, IdleNames DEF StoreObject, StoreNull, StoreAlgorithm, TypeInv, TypeOK, Idle
    <2>3. slot[setter.slot] = NoRef \/ setter.old = slot[setter.slot]
      BY <1>5 DEF StoreObject, StoreNull, StoreAlgorithm, ContextInv, SetterInv, LibInv
    <2>4. ASSUME NEW c \in SSLs, calling[c] # NoCall PROVE calling[c].slot # setter.slot
      BY <1>2, <2>3, <2>4
    <2> QED BY <1>2, <2>1, <2>2, <2>4
  <1>6. ASSUME NEW c \in SSLs, newSSL(c) PROVE CallsInv'
    <2>1. setter.pc # "idle" => setter.old = NoRef /\ setter.slot # "sni"
      BY <1>6 DEF newSSL, MayBegin
    <2>2. setter.pc = "idle" => setter.old = NoRef /\ setter.slot # "sni"
      BY IdleHand, IdleNames DEF ContextInv, SetterInv
    <2> QED BY <1>1, <1>2, <1>6, <2>1, <2>2 DEF newSSL, CallsInv
  <1>7. ASSUME NEW c \in SSLs, freeSSL(c) PROVE CallsInv'
    BY <1>1, <1>2, <1>7 DEF freeSSL, CallsInv
  <1>8. ASSUME NEW c \in SSLs, InvokeCallback(c) PROVE CallsInv'
    <2>1. /\ calling[c] # NoCall /\ c \in ssls /\ alive
          /\ calling' = [calling EXCEPT ![c] = NoCall]
          /\ bad' = bad \cup Fault(calling[c].slot, calling[c].ref)
          /\ UNCHANGED <<alive, slot, ssls, setter>>
      BY <1>2, <1>8 DEF InvokeCallback
    <2>2. PICK s \in Slots : s = calling[c].slot /\ calling[c].ref = slot[s] /\ slot[s] # NoRef
      BY <1>2, <2>1
    <2>3. slot[s] \in Refs /\ live[slot[s]] # Null /\ method[s] = live[slot[s]]
      BY <2>2 DEF ContextInv, SlotsInv, Owned
    <2>4. Fault(calling[c].slot, calling[c].ref) = {}
      BY <2>1, <2>2, <2>3 DEF Fault
    <2> QED BY <1>1, <1>2, <2>1, <2>4 DEF CallsInv, TypeInv, TypeOK
  <1>9. CASE Loads
    <2>1. PICK c \in SSLs, s \in Slots : LoadCallback(c, s)
      BY <1>9 DEF Loads
    <2>0. c \in ssls /\ alive /\ s \in lib /\ setter.slot # "sni"
      BY <1>2, <2>1 DEF LoadCallback
    <2>a. NoContext(s) = {}
      <3>1. setter.pc # "called"
        BY <2>0 DEF ArgInv
      <3> QED BY <2>0, <3>1 DEF ArgInv, NoContext
    <2>2. /\ c \in ssls /\ alive /\ calling[c] = NoCall /\ s \in lib
          /\ UNCHANGED <<alive, slot, ssls, setter, bad>>
      BY <2>0, <2>1, <2>a DEF LoadCallback
    <2>3. CASE calling' = calling
      BY <1>2, <2>2, <2>3
    <2>4. CASE calling' # calling
      <3>1. /\ calling' = [calling EXCEPT ![c] = [slot |-> s, ref |-> slot[s]]]
            /\ slot[s] # NoRef \/ s \notin NullChecked
        BY <2>1, <2>2, <2>4, <2>a DEF LoadCallback
      <3>2. slot[s] # NoRef
        <4>1. CASE s # setter.slot \/ setter.pc \in {"begun", "called", "installed", "referenced"}
          BY <2>2, <4>1 DEF ContextInv, LibInv
        <4>2. CASE s = setter.slot /\ setter.pc = "stored"
          BY <1>2, <2>2, <4>2 DEF ContextInv, LibInv
        <4>3. CASE s = setter.slot /\ setter.pc = "added"
          BY <3>1, <4>3 DEF ContextInv, SetterInv, NullChecked
        <4>4. setter.pc = "idle" => setter.slot = Null
          BY IdleHand DEF ContextInv, SetterInv
        <4>5. setter.pc \in {"idle", "begun", "stored", "called", "installed", "referenced", "added"}
          BY DEF TypeInv, TypeOK
        <4> QED BY <4>1, <4>2, <4>3, <4>4, <4>5
      <3>3. calling'[c] = [slot |-> s, ref |-> slot[s]] /\ \A d \in SSLs \ {c} : calling'[d] = calling[d]
        BY <3>1 DEF TypeInv, TypeOK
      <3> QED BY <1>2, <2>2, <3>2, <3>3
    <2> QED BY <2>3, <2>4
  <1>10. CASE ssl_context_cleanup
    <2>1. ssls = {} /\ UNCHANGED <<ssls, calling, bad, setter>>
      BY <1>10 DEF ssl_context_cleanup
    <2> QED BY <1>2, <2>1
  <1> QED BY <1>1, <1>3, <1>4, <1>5, <1>6, <1>7, <1>8, <1>9, <1>10, Steps DEF CallsInv

\* Of a program that replaces its callbacks, and sets its first matcher, between
\* connections and frees the context after them, no handshake passes NULL, a deleted
\* reference or the method id of another class to JNI, although the setters take no
\* lock and set every other callback for the first time while the handshake runs.
THEOREM NoStaleCallbackCorrect == Spec => []NoStaleCallback
  <1>1. Init => CallsInv
    BY IdleNames DEF Init, CallsInv, Idle
  <1>2. CallsInv => NoStaleCallback
    BY DEF CallsInv, NoStaleCallback
  <1>3. Spec => [](TypeInv /\ ContextInv /\ ArgInv /\ CallsInv)
    BY <1>1, TypeInit, TypeStep, ContextInit, ContextStep, ArgInit, ArgStep, CallsStep, PTL DEF Spec
  <1> QED BY <1>2, <1>3, PTL

=============================================================================
