--------------------------- MODULE HandshakeProofs ---------------------------
(***************************************************************************)
(* Proofs about what a handshake asks Java for, and what Java gives it.    *)
(*                                                                         *)
(* About SSLTasks, for every sequence of phases: the types, that Java's    *)
(* callback runs once per phase unless threads race for its task, that the *)
(* slot owns the only global reference, and that a handshake whose tasks   *)
(* are handed over never passes a certificate unapproved.                  *)
(*                                                                         *)
(* About KeyMaterial, for any number of objects and chains of any length:  *)
(* that every reference has an owner, that no count falls below zero, that *)
(* a context keeps no password of a call that failed, and that a           *)
(* connection presents the chain and the key it was given.                 *)
(***************************************************************************)
EXTENDS SSLTasks, KeyMaterial, FiniteSetTheorems, FunctionTheorems, SequenceTheorems, TLAPS

-----------------------------------------------------------------------------
(* SSLTasks.                                                               *)

\* The phases are indexed from 1, so NULL names none of them.
LEMMA NullIsNoPhase ==
    /\ NULL \notin P
    /\ P \subseteq Nat
    /\ Len(Phases) \in Nat
    /\ \A p \in P : Phases[p] \in Kinds
  BY PhasesAssumption DEF NULL, P

\* The Java code that runs does not change during the handshake.
LEMMA CallerFixed == ASSUME [Next]_vars PROVE caller' = caller
  <1>1. CASE Callback
    BY <1>1 DEF Callback, tcn_SSL_cert_custom_verify, certificate_cb, tcn_private_key_java,
                VerifyNotDone, VerifyTaken, VerifyUnable, VerifyOffloaded, VerifyCalled,
                CertNotDone, CertTaken, CertOffloaded, CertCalled, KeyOffloaded, KeyCalled,
                CompleteWithoutTasks, CompleteNotDone, CompleteTaken
  <1>2. CASE PeerFails \/ setUseTasks \/ getTask \/ freeSSL
    BY <1>2 DEF PeerFails, setUseTasks, getTask, freeSSL
  <1>3. CASE Executor
    BY <1>3 DEF Executor, runTask, onResult, Publish, completeCallback, runAgain
  <1>4. CASE UNCHANGED vars
    BY <1>4 DEF vars
  <1> QED BY <1>1, <1>2, <1>3, <1>4 DEF Next

\* What the Java callbacks can do, by kind, and the codes they become.
LEMMA CallbackTypes ==
    \A k \in Kinds :
        /\ CallbackResults(k) \subseteq Outcomes \ {"none"}
        /\ \A o \in Outcomes, s \in BOOLEAN :
              /\ ReturnValue(k, o) \in Nat
              /\ Issuer(ReturnValue(k, o), s) \in Nat
  BY DEF Kinds, CallbackResults, Answers, Outcomes, ReturnValue, Issuer, X509_V_OK,
         X509_V_ERR_UNSPECIFIED, X509_V_ERR_OTHER, X509_V_ERR_ISSUER

\* The type invariant holds of the state newSSL makes.
LEMMA TypeInit == Init => TypeOK
  <1> SUFFICES ASSUME Init PROVE TypeOK
    OBVIOUS
  <1>1. Phases # << >> => 1 \in P
    BY PhasesAssumption DEF P
  <1>2. /\ handshake \in {"running", "done", "failed"}
        /\ handshake = "running" => phase \in P
        /\ phase \in 1 .. Len(Phases) + 1
    BY <1>1, NullIsNoPhase DEF Init
  <1>3. use_tasks \in BOOLEAN /\ suspended \in BOOLEAN /\ consumed \in BOOLEAN
        /\ task_short \in BOOLEAN
    BY DEF Init
  <1>4. /\ visible \in [P -> SUBSET Fields]
        /\ outcome \in [P -> Outcomes]
        /\ calls \in [P -> Nat] /\ running \in [P -> Nat]
        /\ short \in [P -> BOOLEAN]
    BY DEF Init, Outcomes
  <1> QED BY <1>2, <1>3, <1>4 DEF Init, TypeOK, X509_V_OK

\* A handshake that passes a phase stays in the sequence of phases.
LEMMA PassTypes ==
    ASSUME TypeOK, handshake = "running", Pass
    PROVE  /\ handshake' \in {"running", "done"}
           /\ phase' \in 1 .. Len(Phases) + 1
           /\ handshake' = "running" => phase' \in P
           /\ suspended' \in BOOLEAN
           /\ alert' \in Nat
  <1>1. phase \in P /\ phase' = phase + 1 /\ alert' \in Nat /\ suspended' = FALSE
    BY DEF TypeOK, Pass
  <1>2. handshake' \in {"running", "done"} /\ (handshake' = "running" => phase # Len(Phases))
    BY DEF Pass
  <1>3. suspended' \in BOOLEAN
    BY <1>1
  <1>4. phase' \in 1 .. Len(Phases) + 1 /\ (phase # Len(Phases) => phase' \in P)
    BY <1>1, NullIsNoPhase DEF P
  <1> QED BY <1>1, <1>2, <1>3, <1>4

\* Suspending and failing keep the types of the handshake.
LEMMA StayTypes ==
    ASSUME TypeOK, NEW r \in Nat, Retry \/ FailWith(r) \/ Fail
    PROVE  /\ handshake' \in {"running", "done", "failed"}
           /\ phase' \in 1 .. Len(Phases) + 1
           /\ handshake' = "running" => phase' \in P
           /\ suspended' \in BOOLEAN
           /\ alert' \in Nat
  BY DEF TypeOK, Retry, Fail, FailWith

\* The value the handshake reads from the slot is a number.
LEMMA SlotReads ==
    ASSUME TypeOK, ssl_task # NULL
    PROVE  /\ returnValue \in Nat
           /\ \A s \in BOOLEAN : Issuer(returnValue, s) \in Nat
  <1>1. Phases[ssl_task] \in Kinds /\ outcome[ssl_task] \in Outcomes
    BY NullIsNoPhase DEF TypeOK
  <1>2. returnValue \in Nat
    BY <1>1, CallbackTypes DEF returnValue
  <1> QED BY <1>2 DEF Issuer, X509_V_ERR_ISSUER

\* Every step of the callbacks, of the executor and of the API keeps the types.
LEMMA TypeStep == ASSUME TypeOK, [Next]_vars PROVE TypeOK'
  <1> USE NullIsNoPhase, CallerFixed
  <1>1. CASE VerifyNotDone \/ CertNotDone \/ CompleteNotDone
    BY <1>1 DEF TypeOK, VerifyNotDone, CertNotDone, CompleteNotDone, Retry, slot, java, history
  <1>2. CASE VerifyTaken
    <2>1. Issuer(returnValue, task_short) \in Nat /\ handshake = "running"
      BY <1>2, SlotReads DEF VerifyTaken, Driven, TypeOK
    <2>2. Pass \/ FailWith(Issuer(returnValue, task_short))
      BY <1>2 DEF VerifyTaken, Verdict
    <2> QED
      BY <1>2, <2>1, <2>2, PassTypes, StayTypes
      DEF TypeOK, VerifyTaken, tcn_ssl_task_free, java, history
  <1>3. CASE \E isShort \in BOOLEAN : VerifyUnable(isShort)
    <2>1. PICK isShort \in BOOLEAN : VerifyUnable(isShort)
      BY <1>3
    <2>2. Issuer(X509_V_ERR_UNSPECIFIED, isShort) \in Nat
      BY DEF Issuer, X509_V_ERR_UNSPECIFIED, X509_V_ERR_ISSUER
    <2> QED
      BY <2>1, <2>2, StayTypes DEF TypeOK, VerifyUnable, slot, java, history
  <1>4. CASE \E isShort \in BOOLEAN : VerifyOffloaded(isShort)
    BY <1>4 DEF TypeOK, VerifyOffloaded, Driven, tcn_ssl_task_new, Retry, java
  <1>5. CASE \E isShort \in BOOLEAN, o \in CallbackResults("verify") : VerifyCalled(isShort, o)
    <2>1. PICK isShort \in BOOLEAN, o \in CallbackResults("verify") : VerifyCalled(isShort, o)
      BY <1>5
    <2>2. /\ o \in Outcomes
          /\ Issuer(ReturnValue("verify", o), isShort) \in Nat
          /\ X509_V_ERR_UNSPECIFIED \in Nat
      BY CallbackTypes DEF Kinds, X509_V_ERR_UNSPECIFIED
    <2>3. \/ Pass
          \/ FailWith(Issuer(ReturnValue("verify", o), isShort))
          \/ FailWith(X509_V_ERR_UNSPECIFIED)
      BY <2>1 DEF VerifyCalled, Verdict
    <2>4. handshake = "running" /\ phase \in P
      BY <2>1 DEF VerifyCalled, Driven, TypeOK
    <2>5. outcome' \in [P -> Outcomes] /\ calls' \in [P -> Nat] /\ short' \in [P -> BOOLEAN]
      BY <2>1, <2>2, <2>4 DEF TypeOK, VerifyCalled, CallJava
    <2>6. /\ handshake' \in {"running", "done", "failed"}
          /\ phase' \in 1 .. Len(Phases) + 1
          /\ handshake' = "running" => phase' \in P
          /\ suspended' \in BOOLEAN
          /\ alert' \in Nat
      BY <2>2, <2>3, <2>4, PassTypes, StayTypes
    <2> QED
      BY <2>1, <2>5, <2>6 DEF TypeOK, VerifyCalled, slot, java
  <1>6. CASE CertTaken \/ CompleteTaken
    <2>1. handshake = "running" /\ (Pass \/ Fail)
      BY <1>6 DEF CertTaken, CompleteTaken, Driven
    <2> QED
      BY <1>6, <2>1, PassTypes, StayTypes
      DEF TypeOK, CertTaken, CompleteTaken, tcn_ssl_task_free, java, history
  <1>7. CASE CertOffloaded \/ KeyOffloaded
    BY <1>7 DEF TypeOK, CertOffloaded, KeyOffloaded, Driven, tcn_ssl_task_new, Retry, Fail,
                FailWith, java, history
  <1>8. CASE \E o \in CallbackResults("cert") : CertCalled(o)
    <2>1. PICK o \in CallbackResults("cert") : CertCalled(o)
      BY <1>8
    <2>2. o \in Outcomes
      BY CallbackTypes DEF Kinds
    <2>3. handshake = "running" /\ phase \in P /\ (Pass \/ Fail)
      BY <2>1 DEF CertCalled, Driven, TypeOK
    <2>4. outcome' \in [P -> Outcomes] /\ calls' \in [P -> Nat]
      BY <2>1, <2>2, <2>3 DEF TypeOK, CertCalled, CallJava
    <2>5. /\ handshake' \in {"running", "done", "failed"}
          /\ phase' \in 1 .. Len(Phases) + 1
          /\ handshake' = "running" => phase' \in P
          /\ suspended' \in BOOLEAN
          /\ alert' \in Nat
      BY <2>3, PassTypes, StayTypes DEF TypeOK
    <2> QED
      BY <2>1, <2>4, <2>5 DEF TypeOK, CertCalled, slot, java
  <1>9. CASE KeyCalled
    BY <1>9 DEF TypeOK, KeyCalled, Fail, FailWith, engine, slot, java, history
  <1>10. CASE CompleteWithoutTasks
    <2>1. handshake = "running" /\ Pass
      BY <1>10 DEF CompleteWithoutTasks, Driven
    <2> QED
      BY <1>10, <2>1, PassTypes DEF TypeOK, CompleteWithoutTasks, slot, java, history
  <1>11. CASE PeerFails
    BY <1>11 DEF TypeOK, PeerFails, Fail, FailWith, slot, java, history
  <1>12. CASE setUseTasks \/ getTask \/ freeSSL
    BY <1>12 DEF TypeOK, setUseTasks, getTask, Handed, freeSSL, tcn_ssl_task_free, slot,
                 engine, java, history
  <1>13. CASE \E p \in P : runTask(p)
    <2>1. PICK p \in P : runTask(p)
      BY <1>13
    <2>2. calls[p] + 1 \in Nat /\ running[p] + 1 \in Nat
      BY DEF TypeOK
    <2>3. calls' \in [P -> Nat] /\ running' \in [P -> Nat]
      BY <2>1, <2>2 DEF TypeOK, runTask
    <2>4. didRun' \subseteq held /\ signalled' \subseteq didRun'
      BY <2>1 DEF TypeOK, runTask
    <2> QED BY <2>1, <2>3, <2>4 DEF TypeOK, runTask, slot, engine
  <1>14. CASE \E p \in P : \E o \in CallbackResults(Phases[p]) : onResult(p, o)
    <2>1. PICK p \in P : \E o \in CallbackResults(Phases[p]) : onResult(p, o)
      BY <1>14
    <2>2. PICK o \in CallbackResults(Phases[p]) : onResult(p, o)
      BY <2>1
    <2>3. o \in Outcomes
      BY CallbackTypes
    <2>4. outcome[p] \in Outcomes /\ running[p] \in Nat
      BY DEF TypeOK
    <2>5. outcome' \in [P -> Outcomes] /\ running' \in [P -> Nat]
      BY <2>2, <2>3, <2>4 DEF TypeOK, onResult
    <2> QED BY <2>2, <2>5 DEF TypeOK, onResult, slot, engine
  <1>15. CASE \E p \in P : \E f \in Fields : Publish(p, f)
    BY <1>15 DEF TypeOK, Publish, slot, engine, history
  <1>16. CASE \E p \in P : completeCallback(p) \/ runAgain(p)
    <2>1. PICK p \in P : completeCallback(p) \/ runAgain(p)
      BY <1>16
    <2>2. signalled' \subseteq didRun
      BY <2>1 DEF TypeOK, completeCallback, runAgain
    <2>3. Fields \in SUBSET Fields
      OBVIOUS
    <2>4. visible' \in [P -> SUBSET Fields]
      BY <2>1, <2>3, Zenon DEF TypeOK, completeCallback, runAgain
    <2> QED BY <2>1, <2>2, <2>4 DEF TypeOK, completeCallback, runAgain, slot, engine, history
  <1>17. CASE UNCHANGED vars
    BY <1>17 DEF TypeOK, vars, slot, engine, java, history
  <1> QED
    BY <1>1, <1>2, <1>3, <1>4, <1>5, <1>6, <1>7, <1>8, <1>9, <1>10, <1>11, <1>12, <1>13, <1>14,
       <1>15, <1>16, <1>17
    DEF Next, Callback, Executor, tcn_SSL_cert_custom_verify, certificate_cb,
        tcn_private_key_java

\* The slot, the tasks and the history keep their types for every handshake.
THEOREM TypeCorrect == Spec => []TypeOK
  BY TypeInit, TypeStep, PTL DEF Spec

-----------------------------------------------------------------------------
(* Java's callback runs once per phase.                                    *)

Running == status = "live" /\ handshake = "running"
Made    == held \cup ({ssl_task} \ {NULL})     \* the tasks that are or were around

\* A task belongs to a phase the handshake has reached.  The task of the current
\* phase is in the slot until its result is taken, so no callback can make or do
\* the work again; a phase without a task that was not passed was not called.
CalledInv ==
    /\ \A p \in Made : p <= phase
    /\ Running /\ phase \in Made =>
          ssl_task = phase /\ (Phases[phase] \in {"sign", "decrypt"} => suspended)
    /\ \A p \in P \ didRun : p > phase \/ (p = phase /\ handshake = "running") => calls[p] = 0
    /\ \A p \in Made \ didRun : calls[p] = 0
    /\ CalledOnce

\* Passing and failing move the handshake beyond its current phase.
LEMMA PhaseOver ==
    ASSUME TypeOK, handshake = "running", NEW r, Pass \/ FailWith(r) \/ Fail
    PROVE  /\ phase' >= phase
           /\ handshake' = "running" => phase' > phase
           /\ phase \in P /\ phase' \in Nat
  BY NullIsNoPhase DEF TypeOK, Pass, Fail, FailWith

\* A step that ends the current phase and makes no task keeps CalledInv.
LEMMA CalledWhenOver ==
    ASSUME TypeOK, CalledInv, handshake = "running",
           phase' \in Nat, phase' >= phase, handshake' = "running" => phase' > phase,
           Made' \subseteq Made, didRun' = didRun, calls' \in [P -> Nat], CalledOnce',
           \A p \in P \ {phase} : calls'[p] = calls[p],
           phase \in Made => calls' = calls
    PROVE  CalledInv'
  <1>1. phase \in Nat /\ Made \subseteq P /\ P \subseteq Nat
    BY NullIsNoPhase DEF TypeOK, Made
  <1>2. \A p \in Made' : p <= phase'
    BY <1>1 DEF CalledInv
  <1>3. Running' => phase' \notin Made'
    BY <1>1 DEF CalledInv, Running
  <1>4. \A p \in P \ didRun' : p > phase' \/ (p = phase' /\ handshake' = "running") => calls'[p] = 0
    BY <1>1 DEF CalledInv
  <1>5. \A p \in Made' \ didRun' : calls'[p] = 0
    BY <1>1 DEF CalledInv
  <1> QED BY <1>2, <1>3, <1>4, <1>5 DEF CalledInv

\* CalledInv survives every step, whether Java polls, toggles tasks, runs twice or races.
LEMMA CalledStep == ASSUME TypeOK, CalledInv, [Next]_vars PROVE CalledInv'
  <1> USE NullIsNoPhase
  <1>r. Races' = Races
    BY CallerFixed DEF Races
  <1>a. /\ held \subseteq P /\ didRun \subseteq held /\ Made \subseteq P
        /\ phase \in Nat /\ calls \in [P -> Nat]
    <2>1. phase \in 1 .. Len(Phases) + 1 /\ calls \in [P -> Nat]
      BY DEF TypeOK
    <2>2. held \subseteq P /\ didRun \subseteq held /\ Made \subseteq P
      BY DEF TypeOK, Made
    <2> QED BY <2>1, <2>2
  <1>1. CASE VerifyNotDone \/ CertNotDone \/ CompleteNotDone
    BY <1>1, <1>r DEF CalledInv, CalledOnce, Running, Made, VerifyNotDone, CertNotDone,
                CompleteNotDone, Retry, Driven, slot, java, history
  <1>2. CASE VerifyTaken \/ CertTaken \/ CompleteTaken
    <2>1. /\ handshake = "running"
          /\ \E r : Pass \/ FailWith(r) \/ Fail
          /\ UNCHANGED <<java, history>>
          /\ ssl_task' = NULL
      BY <1>2 DEF VerifyTaken, CertTaken, CompleteTaken, Verdict, Driven, tcn_ssl_task_free
    <2>2. Made' = held /\ UNCHANGED <<didRun, calls>>
      BY <2>1 DEF Made, java, history
    <2>3. /\ phase' >= phase /\ phase' \in Nat
          /\ handshake' = "running" => phase' > phase
      BY <2>1, PhaseOver
    <2>4. CalledOnce' /\ Made' \subseteq Made
      BY <1>r, <2>2 DEF CalledInv, CalledOnce, Made
    <2> QED BY <1>a, <1>r, <2>1, <2>2, <2>3, <2>4, CalledWhenOver
  <1>3. CASE (\E isShort \in BOOLEAN : VerifyUnable(isShort)) \/ PeerFails
    <2>1. handshake' = "failed" /\ UNCHANGED <<phase, slot, java, history>>
      BY <1>3 DEF VerifyUnable, PeerFails, Fail, FailWith
    <2> QED BY <1>a, <1>r, <2>1 DEF CalledInv, CalledOnce, Made, Running, slot, java, history
  <1>4. CASE (\E isShort \in BOOLEAN : VerifyOffloaded(isShort)) \/ CertOffloaded \/ KeyOffloaded
    <2>1. /\ Running /\ phase \in P
          /\ phase \notin Made
          /\ UNCHANGED <<java, calls, phase, status>>
      BY <1>4 DEF VerifyOffloaded, CertOffloaded, KeyOffloaded, Driven, Retry, Fail, FailWith,
                  CalledInv, Running, TypeOK, history, Kinds, Made
    <2>2. \/ ssl_task' = phase /\ suspended' = TRUE
          \/ ssl_task' \in {ssl_task, NULL} /\ handshake' = "failed"
      BY <1>4 DEF VerifyOffloaded, CertOffloaded, KeyOffloaded, Retry, Fail, FailWith,
                  tcn_ssl_task_new
    <2>3. CASE ssl_task' = phase /\ suspended' = TRUE
      <3>1. calls[phase] = 0 /\ Made' \subseteq Made \cup {phase} /\ handshake' = handshake
        BY <1>4, <1>a, <2>1, <2>3
        DEF CalledInv, Made, java, Running, VerifyOffloaded, CertOffloaded, KeyOffloaded, Retry,
            Fail, FailWith
      <3> QED BY <1>a, <1>r, <2>1, <2>3, <3>1 DEF CalledInv, CalledOnce, Running, java
    <2>4. CASE ssl_task' \in {ssl_task, NULL} /\ handshake' = "failed"
      BY <1>a, <1>r, <2>1, <2>4 DEF CalledInv, CalledOnce, Running, Made, java
    <2> QED BY <2>2, <2>3, <2>4
  <1>5. CASE \/ \E isShort \in BOOLEAN, o \in CallbackResults("verify") : VerifyCalled(isShort, o)
             \/ \E o \in CallbackResults("cert") : CertCalled(o)
    <2>1. /\ Running /\ phase \in P
          /\ phase \notin Made
          /\ \E r : Pass \/ FailWith(r) \/ Fail
          /\ calls' = [calls EXCEPT ![phase] = @ + 1]
          /\ UNCHANGED <<slot, java>>
      BY <1>5 DEF VerifyCalled, CertCalled, Driven, CallJava, Verdict, CalledInv, Running, TypeOK,
                  Made
    <2>2. Made' = Made /\ didRun' = didRun
      BY <2>1 DEF Made, slot, java
    <2>3. /\ phase' >= phase /\ phase' \in Nat
          /\ handshake' = "running" => phase' > phase
      BY <2>1, PhaseOver DEF Running
    <2>4. /\ calls[phase] = 0
          /\ calls' \in [P -> Nat]
          /\ \A p \in P \ {phase} : calls'[p] = calls[p]
      BY <1>a, <1>r, <2>1 DEF CalledInv, Running, Made
    <2>5. CalledOnce'
      BY <1>a, <1>r, <2>1, <2>4 DEF CalledInv, CalledOnce
    <2> QED BY <2>1, <2>2, <2>3, <2>4, <2>5, CalledWhenOver DEF Running
  <1>6. CASE KeyCalled
    BY <1>6, <1>r DEF CalledInv, CalledOnce, Running, Made, KeyCalled, Fail, FailWith, engine, slot,
                java, history
  <1>7. CASE CompleteWithoutTasks
    <2>1. Running /\ Pass /\ UNCHANGED <<slot, java, history>>
      BY <1>7 DEF CompleteWithoutTasks, Driven, Running
    <2>2. Made' = Made /\ UNCHANGED <<didRun, calls>>
      BY <2>1 DEF Made, slot, java, history
    <2>3. phase' > phase
      BY <1>a, <1>r, <2>1 DEF Pass
    <2>4. CalledOnce' /\ phase' \in Nat /\ phase' >= phase
      BY <1>a, <1>r, <2>1, <2>2 DEF CalledInv, CalledOnce, Pass
    <2> QED BY <1>a, <1>r, <2>1, <2>2, <2>3, <2>4, CalledWhenOver DEF Running
  <1>8. CASE setUseTasks \/ getTask \/ freeSSL
    <2>1. Made' \subseteq Made /\ UNCHANGED <<phase, handshake, suspended, didRun, calls>>
      BY <1>8 DEF setUseTasks, getTask, Handed, freeSSL, tcn_ssl_task_free, Made, slot, engine,
                  java, history
    <2>2. Running' => Running /\ ssl_task' = ssl_task
      BY <1>8 DEF setUseTasks, getTask, freeSSL, Running, slot, engine
    <2> QED BY <1>a, <1>r, <2>1, <2>2 DEF CalledInv, CalledOnce
  <1>9. CASE \E p \in P : runTask(p)
    <2>1. PICK p \in P : runTask(p)
      BY <1>9
    <2>2. Made' = Made /\ UNCHANGED <<Running, phase, handshake, suspended, ssl_task>>
      BY <2>1 DEF runTask, Made, Running, slot, engine
    <2>3. /\ p \in Made /\ didRun' = didRun \cup {p}
          /\ calls' = [calls EXCEPT ![p] = @ + 1]
          /\ p \in didRun => Races
      BY <2>1 DEF runTask, Made
    <2>4. \A q \in P \ didRun' : calls'[q] = calls[q]
      BY <1>a, <2>3
    <2>5. CalledOnce'
      BY <1>a, <1>r, <2>3 DEF CalledInv, CalledOnce
    <2> QED BY <1>a, <2>2, <2>3, <2>4, <2>5 DEF CalledInv
  <1>10. CASE \/ \E p \in P : \E o \in CallbackResults(Phases[p]) : onResult(p, o)
              \/ \E p \in P : \E f \in Fields : Publish(p, f)
              \/ \E p \in P : completeCallback(p) \/ runAgain(p)
    BY <1>10, <1>r DEF CalledInv, CalledOnce, Running, Made, onResult, Publish, completeCallback,
                 runAgain, slot, engine, java, history
  <1>11. CASE UNCHANGED vars
    BY <1>11, <1>r DEF CalledInv, CalledOnce, Running, Made, vars, slot, engine, java, history
  <1>12. CASE Callback
    BY <1>12, <1>1, <1>2, <1>3, <1>4, <1>5, <1>6, <1>7
    DEF Callback, tcn_SSL_cert_custom_verify, certificate_cb, tcn_private_key_java
  <1>13. CASE Executor
    BY <1>13, <1>9, <1>10 DEF Executor
  <1> QED BY <1>12, <1>13, <1>3, <1>8, <1>11 DEF Next

LEMMA CalledAlways == Spec => []CalledInv
  <1>1. Init => CalledInv
    BY NullIsNoPhase DEF Init, CalledInv, CalledOnce, Running, Made
  <1>2. TypeOK /\ CalledInv /\ [Next]_vars => CalledInv'
    BY CalledStep
  <1> QED BY <1>1, <1>2, TypeCorrect, PTL DEF Spec

\* Java's callback for a phase is called at most once, however the handshake is retried
\* and its tasks are toggled, fetched, polled and run again, as long as no two threads
\* run one task at the same time.
THEOREM CalledOnceCorrect == Spec => []CalledOnce
  <1>1. CalledInv => CalledOnce
    BY DEF CalledInv
  <1> QED BY <1>1, CalledAlways, PTL

\* A phase has an outcome, or a call of it that has not ended, only once it was called,
\* and both only where threads race.
RunInv ==
    /\ \A p \in P : calls[p] = 0 => outcome[p] = "none" /\ running[p] = 0
    /\ \A p \in P \ didRun : running[p] = 0
    /\ ~Races => \A p \in P : running[p] > 0 => running[p] = 1 /\ outcome[p] = "none"

LEMMA RunStep == ASSUME TypeOK, CalledInv, RunInv, [Next]_vars PROVE RunInv'
  <1> USE NullIsNoPhase
  <1>r. Races' = Races
    BY CallerFixed DEF Races
  <1>a. /\ calls \in [P -> Nat] /\ running \in [P -> Nat] /\ outcome \in [P -> Outcomes]
        /\ held \subseteq P
    BY DEF TypeOK
  <1>1. CASE UNCHANGED <<calls, running, outcome, didRun>>
    BY <1>r, <1>1 DEF RunInv
  <1>2. CASE \/ \E isShort \in BOOLEAN, o \in CallbackResults("verify") : VerifyCalled(isShort, o)
             \/ \E o \in CallbackResults("cert") : CertCalled(o)
    <2>1. PICK o : CallJava(o)
      BY <1>2 DEF VerifyCalled, CertCalled
    <2>2. /\ Running /\ phase \in P /\ phase \notin Made /\ UNCHANGED <<running, didRun>>
      BY <1>2 DEF VerifyCalled, CertCalled, Driven, CalledInv, Running, TypeOK, Made, java
    <2>3. calls[phase] = 0
      BY <2>2 DEF CalledInv, Running, Made, TypeOK
    <2>4. running[phase] = 0
      BY <2>2, <2>3 DEF RunInv
    <2> QED BY <1>a, <1>r, <2>1, <2>2, <2>4 DEF RunInv, CallJava
  <1>3. ASSUME NEW p \in P, runTask(p) PROVE RunInv'
    <2>1. /\ calls' = [calls EXCEPT ![p] = @ + 1] /\ running' = [running EXCEPT ![p] = @ + 1]
          /\ outcome' = outcome /\ p \in held /\ didRun' = didRun \cup {p}
          /\ p \in didRun => Races
      BY <1>3 DEF runTask
    <2>2. ~Races => calls[p] = 0
      BY <2>1 DEF CalledInv, Made
    <2>3. ~Races => running[p] = 0 /\ outcome[p] = "none"
      BY <2>2 DEF RunInv
    <2> QED BY <1>a, <1>r, <2>1, <2>3 DEF RunInv
  <1>4. ASSUME NEW p \in P, NEW o \in CallbackResults(Phases[p]), onResult(p, o) PROVE RunInv'
    <2>1. /\ running[p] > 0 /\ running' = [running EXCEPT ![p] = @ - 1] /\ UNCHANGED <<calls, didRun>>
          /\ \A q \in P : q # p => outcome'[q] = outcome[q]
      BY <1>a, <1>4 DEF onResult
    <2>2. calls[p] # 0
      BY <1>a, <2>1 DEF RunInv
    <2>3. ~Races => running'[p] = 0
      BY <1>a, <2>1 DEF RunInv
    <2> QED BY <1>a, <1>r, <2>1, <2>2, <2>3 DEF RunInv
  <1>5. CASE Callback
    BY <1>5, <1>1, <1>2
    DEF Callback, tcn_SSL_cert_custom_verify, certificate_cb, tcn_private_key_java,
        VerifyNotDone, VerifyTaken, VerifyUnable, VerifyOffloaded,
        CertNotDone, CertTaken, CertOffloaded, KeyOffloaded, KeyCalled,
        CompleteWithoutTasks, CompleteNotDone, CompleteTaken, java, history
  <1>6. CASE PeerFails \/ setUseTasks \/ getTask \/ freeSSL \/ UNCHANGED vars
    BY <1>1, <1>6 DEF PeerFails, setUseTasks, getTask, freeSSL, vars, java, history
  <1>7. CASE Executor
    BY <1>7, <1>1, <1>3, <1>4 DEF Executor, Publish, completeCallback, runAgain, history
  <1> QED BY <1>5, <1>6, <1>7 DEF Next

LEMMA RunAlways == Spec => []RunInv
  <1>1. Init => RunInv
    BY DEF Init, RunInv
  <1>2. TypeOK /\ CalledInv /\ RunInv /\ [Next]_vars => RunInv'
    BY RunStep
  <1> QED BY <1>1, <1>2, TypeCorrect, CalledAlways, PTL DEF Spec

-----------------------------------------------------------------------------
(* The slot, when use_tasks keeps its value during the handshake.          *)

\* A task is in the slot exactly while the handshake is suspended on it.
SlotInv ==
    /\ GlobalRefsOwned
    /\ ssl_task # NULL => Running /\ ssl_task = phase /\ suspended
    /\ Running /\ suspended => ssl_task # NULL /\ use_tasks

\* Every step keeps SlotInv: the callbacks that clear the slot end the suspension,
\* and the key callbacks, which do not look at the slot, only run unsuspended.
LEMMA SlotStep == ASSUME ~Toggles, TypeOK, SlotInv, [Next]_vars PROVE SlotInv'
  <1> USE NullIsNoPhase
  <1>1. CASE VerifyNotDone \/ CertNotDone \/ CompleteNotDone
    BY <1>1 DEF SlotInv, GlobalRefsOwned, Running, VerifyNotDone, CertNotDone, CompleteNotDone,
                Retry, Driven, slot
  <1>2. CASE VerifyTaken \/ CertTaken \/ CompleteTaken
    <2>1. ssl_task' = NULL /\ ref' = ref \ {ssl_task} /\ suspended' = FALSE
      BY <1>2 DEF VerifyTaken, CertTaken, CompleteTaken, Verdict, Pass, Fail, FailWith,
                  tcn_ssl_task_free
    <2> QED BY <2>1 DEF SlotInv, GlobalRefsOwned
  <1>3. CASE (\E isShort \in BOOLEAN : VerifyUnable(isShort)) \/ PeerFails
    <2>1. ssl_task = NULL
      BY <1>3 DEF VerifyUnable, PeerFails, SlotInv
    <2>2. suspended' = FALSE /\ UNCHANGED slot
      BY <1>3 DEF VerifyUnable, PeerFails, Fail, FailWith
    <2> QED BY <2>1, <2>2 DEF SlotInv, GlobalRefsOwned, slot
  <1>4. CASE (\E isShort \in BOOLEAN : VerifyOffloaded(isShort)) \/ CertOffloaded \/ KeyOffloaded
    <2>1. Running /\ ssl_task = NULL /\ use_tasks /\ phase \in P
      BY <1>4 DEF VerifyOffloaded, CertOffloaded, KeyOffloaded, Driven, Running, SlotInv, TypeOK
    <2>2. UNCHANGED <<status, use_tasks, phase>>
      BY <1>4 DEF VerifyOffloaded, CertOffloaded, KeyOffloaded, Retry, Fail, FailWith
    <2>3. \/ /\ ssl_task' = phase /\ ref' = ref \cup {phase}
             /\ suspended' = TRUE /\ handshake' = handshake
          \/ ssl_task' \in {ssl_task, NULL} /\ ref' = ref /\ suspended' = FALSE
      BY <1>4 DEF VerifyOffloaded, CertOffloaded, KeyOffloaded, Retry, Fail, FailWith,
                  tcn_ssl_task_new
    <2> QED BY <2>1, <2>2, <2>3 DEF SlotInv, GlobalRefsOwned, Running
  <1>5. CASE \/ \E isShort \in BOOLEAN, o \in CallbackResults("verify") : VerifyCalled(isShort, o)
             \/ \E o \in CallbackResults("cert") : CertCalled(o)
    <2>1. ssl_task = NULL /\ suspended' = FALSE /\ UNCHANGED slot
      BY <1>5 DEF VerifyCalled, CertCalled, Verdict, Pass, Fail, FailWith
    <2> QED BY <2>1 DEF SlotInv, GlobalRefsOwned, slot
  <1>6. CASE KeyCalled
    <2>1. ssl_task = NULL /\ ~suspended' /\ UNCHANGED slot
      BY <1>6 DEF KeyCalled, Fail, FailWith, engine, SlotInv
    <2> QED BY <2>1 DEF SlotInv, GlobalRefsOwned, slot
  <1>7. CASE CompleteWithoutTasks
    BY <1>7 DEF CompleteWithoutTasks, Driven, SlotInv, Running
  <1>8. CASE setUseTasks \/ getTask
    BY <1>8 DEF setUseTasks, getTask, SlotInv, GlobalRefsOwned, Running, slot, engine
  <1>9. CASE freeSSL
    BY <1>9 DEF freeSSL, tcn_ssl_task_free, SlotInv, GlobalRefsOwned, Running
  <1>10. CASE \/ \E p \in P : \E o \in CallbackResults(Phases[p]) : onResult(p, o)
              \/ \E p \in P : \E f \in Fields : Publish(p, f)
              \/ \E p \in P : runTask(p) \/ completeCallback(p) \/ runAgain(p)
    BY <1>10 DEF SlotInv, GlobalRefsOwned, Running, onResult, Publish, runTask,
                 completeCallback, runAgain, slot, engine
  <1>11. CASE UNCHANGED vars
    BY <1>11 DEF SlotInv, GlobalRefsOwned, Running, vars, slot, engine
  <1>12. CASE Callback
    BY <1>12, <1>1, <1>2, <1>3, <1>4, <1>5, <1>6, <1>7
    DEF Callback, tcn_SSL_cert_custom_verify, certificate_cb, tcn_private_key_java
  <1>13. CASE Executor
    BY <1>13, <1>10 DEF Executor
  <1> QED BY <1>12, <1>13, <1>3, <1>8, <1>9, <1>11 DEF Next

\* The slot is empty when an SSL is created.
LEMMA SlotInit == Init => SlotInv
  BY DEF Init, SlotInv, GlobalRefsOwned, Running

\* A caller keeps its habits, and with them the slot keeps its task.
LEMMA SlotAlways == Spec => [](~Toggles => SlotInv)
  <1> DEFINE Inv == ~Toggles => SlotInv
  <1>1. Init => Inv
    BY SlotInit
  <1>2. TypeOK /\ Inv /\ [Next]_vars => Inv'
    BY SlotStep, CallerFixed DEF Toggles
  <1> QED BY <1>1, <1>2, TypeCorrect, PTL DEF Spec

\* JNI's only global reference to a task is the slot's, and none outlives the SSL,
\* when setUseTasks is not called during the handshake.
THEOREM RefsCorrect == Spec => [](~Toggles => GlobalRefsOwned)
  <1>1. (~Toggles => SlotInv) => (~Toggles => GlobalRefsOwned)
    BY DEF SlotInv
  <1> QED BY <1>1, SlotAlways, PTL

\* A handshake uses its private key once: a server signs its key exchange or its
\* CertificateVerify, or decrypts the secret of the client; a client signs.
OneKeyOperation ==
    \A p, q \in P : Phases[p] \in {"sign", "decrypt"} /\ Phases[q] \in {"sign", "decrypt"} => p = q

\* Of callers that do call setUseTasks: what may be left in the slot by an earlier
\* phase is the task of the key operation.
LeftInv ==
    /\ GlobalRefsOwned
    /\ Running /\ ssl_task # NULL => ssl_task = phase \/ Phases[ssl_task] \in {"sign", "decrypt"}

LEMMA LeftStep == ASSUME OneKeyOperation, TypeOK, CalledInv, LeftInv, [Next]_vars PROVE LeftInv'
  <1> USE NullIsNoPhase
  <1>1. CASE VerifyNotDone \/ CertNotDone \/ CompleteNotDone
    BY <1>1 DEF LeftInv, GlobalRefsOwned, Running, VerifyNotDone, CertNotDone, CompleteNotDone,
                Retry, slot
  <1>2. CASE VerifyTaken \/ CertTaken \/ CompleteTaken
    <2>1. ssl_task' = NULL /\ ref' = ref \ {ssl_task}
      BY <1>2 DEF VerifyTaken, CertTaken, CompleteTaken, tcn_ssl_task_free
    <2> QED BY <2>1 DEF LeftInv, GlobalRefsOwned
  <1>3. CASE (\E isShort \in BOOLEAN : VerifyUnable(isShort)) \/ PeerFails
    <2>1. handshake' = "failed" /\ UNCHANGED slot
      BY <1>3 DEF VerifyUnable, PeerFails, Fail, FailWith
    <2> QED BY <2>1 DEF LeftInv, GlobalRefsOwned, Running, slot
  <1>4. CASE (\E isShort \in BOOLEAN : VerifyOffloaded(isShort)) \/ CertOffloaded \/ KeyOffloaded
    <2>1. Running /\ phase \in P
      BY <1>4 DEF VerifyOffloaded, CertOffloaded, KeyOffloaded, Driven, Running, TypeOK
    <2>2. ssl_task = NULL
      <3>1. CASE KeyOffloaded
        <4>1. Phases[phase] \in {"sign", "decrypt"} /\ ~suspended
          BY <3>1 DEF KeyOffloaded, Driven
        <4>2. ssl_task # phase
          BY <2>1, <4>1 DEF CalledInv, Made
        <4>3. ssl_task \in P \cup {NULL}
          BY DEF TypeOK
        <4> QED BY <2>1, <4>1, <4>2, <4>3 DEF LeftInv, OneKeyOperation
      <3> QED BY <1>4, <3>1 DEF VerifyOffloaded, CertOffloaded
    <2>3. \/ ssl_task' = phase /\ ref' = ref \cup {phase} /\ phase' = phase
          \/ ssl_task' \in {ssl_task, NULL} /\ ref' = ref
      BY <1>4 DEF VerifyOffloaded, CertOffloaded, KeyOffloaded, Retry, tcn_ssl_task_new
    <2> QED BY <2>1, <2>2, <2>3 DEF LeftInv, GlobalRefsOwned
  <1>5. CASE \/ \E isShort \in BOOLEAN, o \in CallbackResults("verify") : VerifyCalled(isShort, o)
             \/ \E o \in CallbackResults("cert") : CertCalled(o)
    <2>1. ssl_task = NULL /\ UNCHANGED slot
      BY <1>5 DEF VerifyCalled, CertCalled
    <2> QED BY <2>1 DEF LeftInv, GlobalRefsOwned, slot
  <1>6. CASE KeyCalled
    <2>1. UNCHANGED slot /\ (status' = "crashed" \/ handshake' = "failed")
      BY <1>6 DEF KeyCalled, Fail, FailWith
    <2> QED BY <2>1 DEF LeftInv, GlobalRefsOwned, Running, slot
  <1>7. CASE CompleteWithoutTasks
    <2>1. UNCHANGED slot /\ Running /\ Phases[phase] \in {"sign", "decrypt"}
      BY <1>7 DEF CompleteWithoutTasks, Driven, Running
    <2> QED BY <2>1 DEF LeftInv, GlobalRefsOwned, slot
  <1>8. CASE setUseTasks \/ getTask
    BY <1>8 DEF setUseTasks, getTask, LeftInv, GlobalRefsOwned, Running, slot, engine
  <1>9. CASE freeSSL
    BY <1>9 DEF freeSSL, tcn_ssl_task_free, LeftInv, GlobalRefsOwned
  <1>10. CASE \/ \E p \in P : \E o \in CallbackResults(Phases[p]) : onResult(p, o)
              \/ \E p \in P : \E f \in Fields : Publish(p, f)
              \/ \E p \in P : runTask(p) \/ completeCallback(p) \/ runAgain(p)
    BY <1>10 DEF LeftInv, GlobalRefsOwned, Running, onResult, Publish, runTask,
                 completeCallback, runAgain, slot, engine
  <1>11. CASE UNCHANGED vars
    BY <1>11 DEF LeftInv, GlobalRefsOwned, Running, vars, slot, engine
  <1>12. CASE Callback
    BY <1>12, <1>1, <1>2, <1>3, <1>4, <1>5, <1>6, <1>7
    DEF Callback, tcn_SSL_cert_custom_verify, certificate_cb, tcn_private_key_java
  <1>13. CASE Executor
    BY <1>13, <1>10 DEF Executor
  <1> QED BY <1>12, <1>13, <1>3, <1>8, <1>9, <1>11 DEF Next

\* JNI's only global reference to a task is the slot's although setUseTasks may be called
\* in the middle of a handshake, and leave a task behind: the key callbacks, which
\* overwrite the slot unread, find it empty.
THEOREM RefsToggledCorrect == ASSUME OneKeyOperation PROVE Spec => []GlobalRefsOwned
  <1>1. Init => LeftInv
    BY DEF Init, LeftInv, GlobalRefsOwned
  <1>2. TypeOK /\ CalledInv /\ LeftInv /\ [Next]_vars => LeftInv'
    BY LeftStep
  <1>3. LeftInv => GlobalRefsOwned
    BY DEF LeftInv
  <1> QED BY <1>1, <1>2, <1>3, TypeCorrect, CalledAlways, PTL DEF Spec

\* A retried callback finds the task of its own operation in the slot.
THEOREM SlotCorrect == Spec => []SlotIsThisPhases
  <1>1. (~Toggles => SlotInv) => SlotIsThisPhases
    BY DEF SlotInv, SlotIsThisPhases
  <1> QED BY <1>1, SlotAlways, PTL

-----------------------------------------------------------------------------
(* Certificates, when Java waits for its tasks and runs each of them once. *)

\* What other threads see of a task was written by its answer; a task that was
\* signalled is seen whole.
HandedOver ==
    /\ \A p \in P : visible[p] # {} => p \in didRun /\ Answered(p)
    /\ \A p \in signalled : visible[p] = Fields
    /\ Approved

\* Only "ok" becomes a verify result that passes, and only "ok" a certificate that does.
LEMMA OkPasses ==
    /\ \A o \in Answers("verify"), s \in BOOLEAN :
          Issuer(ReturnValue("verify", o), s) = X509_V_OK => o = "ok"
    /\ \A o \in Answers("cert") : ReturnValue("cert", o) # 0 => o = "ok"
    /\ \A k \in Kinds : "none" \notin Answers(k)
  BY DEF Answers, Issuer, ReturnValue, Kinds, X509_V_OK, X509_V_ERR_UNSPECIFIED, X509_V_ERR_OTHER,
         X509_V_ERR_ISSUER

\* A callback that finds a completed task reads the value the task's answer gave.
LEMMA ReadsAnswer ==
    ASSUME Waits, TypeOK, SlotInv, HandedOver, ssl_task # NULL, complete,
           Driven({"verify"}) \/ Driven({"cert"})
    PROVE  /\ ssl_task = phase /\ phase \in P
           /\ outcome[phase] \in Answers(Phases[phase])
           /\ returnValue = ReturnValue(Phases[phase], outcome[phase])
  <1>1. ssl_task = phase /\ suspended /\ phase \in P
    BY DEF SlotInv, TypeOK
  <1>2. outcome[phase] \in Answers(Phases[phase])
    BY <1>1 DEF HandedOver, complete, Answered
  <1>3. ~Threw(ssl_task)
    BY <1>1, <1>2, NullIsNoPhase DEF Threw, Answers, Driven
  <1>4. visible[phase] = Fields
    BY <1>1, <1>3 DEF Waits, Driven, HandedOver
  <1> QED BY <1>1, <1>2, <1>4 DEF returnValue, Fields

\* A step that passes at most the current phase, and that one by an approval,
\* keeps Approved.
LEMMA PassedStep ==
    ASSUME TypeOK, Approved,
           \A p \in P : outcome[p] = "ok" => p = phase \/ outcome'[p] = "ok",
           \/ phase' = phase
           \/ /\ phase' = phase + 1
              /\ phase \in P /\ Phases[phase] \in {"verify", "cert"} => outcome'[phase] = "ok"
    PROVE  Approved'
  <1>1. phase \in Nat /\ P \subseteq Nat
    BY NullIsNoPhase DEF TypeOK
  <1> QED BY <1>1 DEF Approved

\* Every step keeps HandedOver.
LEMMA HandedOverStep ==
    ASSUME Waits, TypeOK, CalledInv, RunInv, SlotInv, HandedOver, [Next]_vars
    PROVE  HandedOver'
  <1> USE NullIsNoPhase
  <1>1. CASE VerifyTaken
    <2>1. UNCHANGED <<java, outcome>>
      BY <1>1 DEF VerifyTaken, history
    <2>2. phase' = phase \/ (phase' = phase + 1 /\ outcome[phase] = "ok")
      <3>1. /\ Phases[phase] = "verify" /\ phase \in P
            /\ outcome[phase] \in Answers("verify")
            /\ returnValue = ReturnValue("verify", outcome[phase])
            /\ task_short \in BOOLEAN
        BY <1>1, ReadsAnswer DEF VerifyTaken, Driven, TypeOK
      <3>2. CASE Issuer(returnValue, task_short) = X509_V_OK
        BY <1>1, <3>1, <3>2, OkPasses DEF VerifyTaken, Verdict, Pass
      <3>3. CASE Issuer(returnValue, task_short) # X509_V_OK
        BY <1>1, <3>3 DEF VerifyTaken, Verdict, FailWith
      <3> QED BY <3>2, <3>3
    <2>3. Approved'
      BY <2>1, <2>2, PassedStep DEF HandedOver
    <2> QED BY <2>1, <2>3 DEF HandedOver, Answered, java
  <1>2. CASE CertTaken
    <2>1. UNCHANGED <<java, outcome>>
      BY <1>2 DEF CertTaken, history
    <2>2. phase' = phase \/ (phase' = phase + 1 /\ outcome[phase] = "ok")
      <3>1. /\ Phases[phase] = "cert" /\ phase \in P
            /\ outcome[phase] \in Answers("cert")
            /\ returnValue = ReturnValue("cert", outcome[phase])
        BY <1>2, ReadsAnswer DEF CertTaken, Driven
      <3>2. returnValue # 0 => outcome[phase] = "ok"
        BY <3>1, OkPasses
      <3> QED BY <1>2, <3>2 DEF CertTaken, Pass, Fail, FailWith
    <2>3. Approved'
      BY <2>1, <2>2, PassedStep DEF HandedOver
    <2> QED BY <2>1, <2>3 DEF HandedOver, Answered, java
  <1>3. CASE CompleteTaken \/ CompleteWithoutTasks
    <2>1. UNCHANGED <<java, outcome>>
      BY <1>3 DEF CompleteTaken, CompleteWithoutTasks, history
    <2>2. /\ Phases[phase] \in {"sign", "decrypt"}
          /\ phase' = phase \/ phase' = phase + 1
      BY <1>3 DEF CompleteTaken, CompleteWithoutTasks, Driven, Pass, Fail, FailWith
    <2>3. Approved'
      BY <2>1, <2>2, PassedStep DEF HandedOver
    <2> QED BY <2>1, <2>3 DEF HandedOver, Answered, java
  <1>4. CASE \/ VerifyNotDone \/ CertNotDone \/ CompleteNotDone \/ CertOffloaded
             \/ KeyOffloaded \/ KeyCalled \/ PeerFails
             \/ \E isShort \in BOOLEAN : VerifyUnable(isShort) \/ VerifyOffloaded(isShort)
    <2>1. UNCHANGED <<java, outcome, phase>>
      BY <1>4 DEF VerifyNotDone, CertNotDone, CompleteNotDone, CertOffloaded, KeyOffloaded,
                  KeyCalled, PeerFails, VerifyUnable, VerifyOffloaded, Retry, Fail, FailWith,
                  engine, history
    <2> QED BY <2>1 DEF HandedOver, Approved, Answered, java
  <1>5. CASE \E isShort \in BOOLEAN, o \in CallbackResults("verify") : VerifyCalled(isShort, o)
    <2>1. PICK isShort \in BOOLEAN, o \in CallbackResults("verify") : VerifyCalled(isShort, o)
      BY <1>5
    <2>2. /\ phase \in P /\ phase \notin didRun
          /\ UNCHANGED java
          /\ outcome' = [outcome EXCEPT ![phase] = o]
      BY <2>1 DEF VerifyCalled, CallJava, Driven, TypeOK, CalledInv, Running, Made
    <2>3. phase' = phase \/ (phase' = phase + 1 /\ o = "ok")
      <3>1. CASE o = "throws"
        BY <2>1, <3>1 DEF VerifyCalled, FailWith
      <3>2. CASE o # "throws" /\ Issuer(ReturnValue("verify", o), isShort) = X509_V_OK
        BY <2>1, <3>2, OkPasses DEF VerifyCalled, Verdict, Pass, CallbackResults
      <3>3. CASE o # "throws" /\ Issuer(ReturnValue("verify", o), isShort) # X509_V_OK
        BY <2>1, <3>3 DEF VerifyCalled, Verdict, FailWith
      <3> QED BY <3>1, <3>2, <3>3
    <2>4. Approved'
      BY <2>2, <2>3, PassedStep DEF HandedOver, TypeOK
    <2> QED BY <2>2, <2>4 DEF HandedOver, Answered, java, TypeOK
  <1>6. CASE \E o \in CallbackResults("cert") : CertCalled(o)
    <2>1. PICK o \in CallbackResults("cert") : CertCalled(o)
      BY <1>6
    <2>2. /\ phase \in P /\ phase \notin didRun
          /\ UNCHANGED java
          /\ outcome' = [outcome EXCEPT ![phase] = o]
      BY <2>1 DEF CertCalled, CallJava, Driven, TypeOK, CalledInv, Running, Made
    <2>3. phase' = phase \/ (phase' = phase + 1 /\ o = "ok")
      BY <2>1 DEF CertCalled, Pass, Fail, FailWith, CallbackResults, Answers
    <2>4. Approved'
      BY <2>2, <2>3, PassedStep DEF HandedOver, TypeOK
    <2> QED BY <2>2, <2>4 DEF HandedOver, Answered, java, TypeOK
  <1>7. CASE setUseTasks \/ getTask \/ freeSSL \/ \E p \in P : runTask(p)
    BY <1>7 DEF setUseTasks, getTask, freeSSL, runTask, HandedOver, Approved, Answered,
                engine, java, history
  <1>8. CASE \E p \in P : \E o \in CallbackResults(Phases[p]) : onResult(p, o)
    <2>1. PICK p \in P : \E o \in CallbackResults(Phases[p]) : onResult(p, o)
      BY <1>8
    <2>2. PICK o \in CallbackResults(Phases[p]) : onResult(p, o)
      BY <2>1
    <2>3. /\ outcome[p] = "none"
          /\ outcome' = [outcome EXCEPT ![p] = o]
          /\ UNCHANGED <<phase, didRun, visible, signalled>>
      BY <2>2 DEF onResult, engine, RunInv, Waits, TypeOK
    <2>4. Approved'
      BY <2>3, PassedStep DEF HandedOver, TypeOK
    <2>5. ~Answered(p)
      BY <2>3, OkPasses DEF Answered
    <2> QED BY <2>3, <2>4, <2>5 DEF HandedOver, Answered, TypeOK
  <1>9. CASE \E p \in P : \E f \in Fields : Publish(p, f)
    <2>1. PICK p \in P, f \in Fields : Publish(p, f)
      BY <1>9
    <2>2. /\ visible' = [visible EXCEPT ![p] = @ \cup {f}]
          /\ p \in didRun /\ Answered(p) /\ f \notin visible[p]
          /\ UNCHANGED <<didRun, signalled, outcome, phase>>
      BY <2>1 DEF Publish, history, engine
    <2>3. p \notin signalled
      BY <2>2 DEF HandedOver
    <2> QED BY <2>2, <2>3 DEF HandedOver, Answered, Approved, TypeOK
  <1>10. CASE \E p \in P : completeCallback(p) \/ runAgain(p)
    <2>1. PICK p \in P : completeCallback(p)
      BY <1>10 DEF runAgain, Waits
    <2> QED BY <2>1 DEF completeCallback, HandedOver, Answered, Approved, TypeOK, engine,
                        history
  <1>11. CASE UNCHANGED vars
    BY <1>11 DEF HandedOver, Answered, Approved, vars, engine, java, history
  <1>12. CASE Callback
    BY <1>12, <1>1, <1>2, <1>3, <1>4, <1>5, <1>6
    DEF Callback, tcn_SSL_cert_custom_verify, certificate_cb, tcn_private_key_java
  <1>13. CASE Executor
    BY <1>13, <1>7, <1>8, <1>9, <1>10 DEF Executor
  <1> QED BY <1>12, <1>13, <1>4, <1>7, <1>11 DEF Next

\* A handshake whose tasks are waited for and run once gets past a certificate only
\* with the approval of the Java callback for that certificate.
THEOREM PassedCorrect == Spec => []PassedByCallback
  <1> DEFINE Inv == Waits => SlotInv /\ HandedOver
  <1>1. Init => Inv
    BY SlotInit, NullIsNoPhase DEF Init, HandedOver, Approved
  <1>2. TypeOK /\ CalledInv /\ RunInv /\ Inv /\ [Next]_vars => Inv'
    <2> SUFFICES ASSUME TypeOK, CalledInv, RunInv, Inv, [Next]_vars, Waits' PROVE SlotInv' /\ HandedOver'
      OBVIOUS
    <2>1. Waits
      BY CallerFixed DEF Waits, Toggles, Polls, RunsAgain, Races
    <2>2. SlotInv'
      BY <2>1, SlotStep DEF Waits
    <2>3. HandedOver'
      BY <2>1, HandedOverStep
    <2> QED BY <2>2, <2>3
  <1>3. Inv => PassedByCallback
    BY DEF HandedOver, PassedByCallback
  <1> QED BY <1>1, <1>2, <1>3, TypeCorrect, CalledAlways, RunAlways, PTL DEF Spec

-----------------------------------------------------------------------------
(* The alert of a refused chain, whatever Java does that runs no task on   *)
(* two threads at once.                                                    *)

\* What other threads see of a task was written by its answer.  The phase the
\* handshake is in has no outcome unless its task was handed out; its task, while
\* in the slot, suspends it and remembers the length of its chain; and a handshake
\* that failed to verify a chain is rid of the task, which has been answered.
AlertInv ==
    /\ \A p \in P : visible[p] # {} => p \in didRun /\ Answered(p)
    /\ Running => \A p \in P \ held : p >= phase => outcome[p] = "none"
    /\ Running /\ ssl_task = phase =>
          suspended /\ (Phases[phase] = "verify" => task_short = short[phase])
    /\ handshake = "failed" /\ phase \in P /\ Phases[phase] = "verify" =>
          ssl_task # phase /\ (phase \in held => outcome[phase] # "none")
    /\ SameAlert

\* The outcome of a phase that is driven with another task in the slot, or none, is
\* still open.
LEMMA OutcomeOpen ==
    ASSUME TypeOK, CalledInv, AlertInv, Running, ssl_task # phase
    PROVE  phase \in P /\ phase \notin held /\ outcome[phase] = "none"
  <1>1. phase \in P /\ phase \in Nat /\ phase \notin held
    BY NullIsNoPhase DEF TypeOK, CalledInv, Running, Made
  <1> QED BY <1>1 DEF AlertInv

\* Passing a phase, with the slot kept or cleared, leaves the next one open.
LEMMA PassesOpen ==
    ASSUME TypeOK, CalledInv, AlertInv, Running, Pass, java' = java,
           ssl_task' \in {ssl_task, NULL},
           \A p \in P : p # phase => outcome'[p] = outcome[p],
           phase \in didRun => outcome' = outcome
    PROVE  AlertInv'
  <1> USE NullIsNoPhase
  <1>1. phase \in P /\ phase \in Nat /\ phase' = phase + 1 /\ handshake' \in {"done", "running"}
    BY DEF TypeOK, Pass, Running
  <1>2. \A p \in P : visible'[p] # {} => p \in didRun' /\ Answered(p)'
    BY DEF AlertInv, Answered, java
  <1>3. \A p \in P \ held' : p >= phase' => outcome'[p] = "none"
    BY <1>1 DEF AlertInv, java
  <1>4. ssl_task' # phase'
    <2>1. ssl_task # NULL => ssl_task \in P /\ ssl_task \in Nat /\ ssl_task <= phase
      BY DEF CalledInv, Made, TypeOK
    <2> QED BY <1>1, <2>1 DEF NULL
  <1> QED BY <1>1, <1>2, <1>3, <1>4 DEF AlertInv, SameAlert

\* Failing in a phase whose outcome is open, or that verifies no chain, sends the
\* alert of no answer.
LEMMA FailsOpen ==
    ASSUME TypeOK, AlertInv, handshake' = "failed", phase' = phase, java' = java,
           \A p \in P : p # phase => outcome'[p] = outcome[p],
           phase \in didRun => outcome' = outcome,
           \/ phase \in P => Phases[phase] # "verify"
           \/ ssl_task' # phase /\ phase \notin held /\ outcome'[phase] \notin Answers("verify")
    PROVE  AlertInv'
  <1>1. \A p \in P : visible'[p] # {} => p \in didRun' /\ Answered(p)'
    BY DEF AlertInv, Answered, java
  <1> QED BY <1>1 DEF AlertInv, SameAlert, Running, java

\* Every step keeps AlertInv.
LEMMA AlertStep ==
    ASSUME ~Races, TypeOK, CalledInv, RunInv, AlertInv, [Next]_vars
    PROVE  AlertInv'
  <1> USE NullIsNoPhase
  <1>0. "none" \notin Answers("verify") /\ "throws" \notin Answers("verify")
    BY DEF Answers
  <1>1. CASE VerifyNotDone \/ CertNotDone \/ CompleteNotDone
    <2>1. /\ UNCHANGED <<status, slot, java, history, handshake, phase, alert>>
          /\ suspended' = TRUE
      BY <1>1 DEF VerifyNotDone, CertNotDone, CompleteNotDone, Retry
    <2> QED BY <2>1 DEF AlertInv, SameAlert, Running, Answered, slot, java, history
  <1>2. CASE (\E isShort \in BOOLEAN : VerifyUnable(isShort)) \/ PeerFails
    <2>1. /\ Running /\ handshake' = "failed" /\ UNCHANGED <<slot, java, history, phase>>
          /\ ssl_task = NULL \/ ~suspended
      BY <1>2 DEF VerifyUnable, PeerFails, Driven, Fail, FailWith, Running
    <2>2. ssl_task # phase
      BY <2>1 DEF AlertInv, TypeOK, Running
    <2> QED BY <1>0, <2>1, <2>2, OutcomeOpen, FailsOpen DEF slot, history
  <1>3. CASE VerifyTaken
    <2>1. /\ Running /\ Phases[phase] = "verify" /\ phase \in P
          /\ ssl_task # NULL /\ "complete" \in visible[ssl_task]
          /\ UNCHANGED <<java, history>> /\ ssl_task' = NULL
          /\ Verdict(Issuer(returnValue, task_short))
      BY <1>3 DEF VerifyTaken, Driven, complete, Running, TypeOK, tcn_ssl_task_free
    <2>2. CASE Issuer(returnValue, task_short) = X509_V_OK
      BY <2>1, <2>2, PassesOpen DEF Verdict, history
    <2>3. CASE ssl_task # phase /\ Issuer(returnValue, task_short) # X509_V_OK
      BY <1>0, <2>1, <2>3, OutcomeOpen, FailsOpen DEF Verdict, FailWith, history
    <2>4. CASE ssl_task = phase /\ Issuer(returnValue, task_short) # X509_V_OK
      <3>1. /\ handshake' = "failed" /\ phase' = phase
            /\ alert' = Issuer(returnValue, task_short)
        BY <2>1, <2>4 DEF Verdict, FailWith
      <3>2. outcome[phase] \in Answers("verify") /\ task_short = short[phase]
        BY <2>1, <2>4 DEF AlertInv, Answered
      <3>3. returnValue = ReturnValue("verify", outcome[phase])
        BY <2>1, <2>4 DEF returnValue, Issuer, X509_V_OK, X509_V_ERR_UNSPECIFIED
      <3>4. SameAlert'
        BY <2>1, <3>1, <3>2, <3>3 DEF SameAlert, history
      <3>5. \A p \in P : visible'[p] # {} => p \in didRun' /\ Answered(p)'
        BY <2>1 DEF AlertInv, Answered, java, history
      <3> QED BY <1>0, <2>1, <3>1, <3>2, <3>4, <3>5 DEF AlertInv, Running, history
    <2> QED BY <2>2, <2>3, <2>4
  <1>4. CASE CertTaken \/ CompleteTaken \/ CompleteWithoutTasks
    <2>1. /\ Running /\ Phases[phase] # "verify"
          /\ Pass \/ Fail
          /\ ssl_task' \in {ssl_task, NULL} /\ UNCHANGED <<java, history>>
      BY <1>4 DEF CertTaken, CompleteTaken, CompleteWithoutTasks, Driven, Running, tcn_ssl_task_free,
                  slot
    <2> QED BY <2>1, PassesOpen, FailsOpen DEF Fail, FailWith, history
  <1>5. ASSUME NEW isShort \in BOOLEAN, VerifyOffloaded(isShort) PROVE AlertInv'
    <2>1. /\ Running /\ phase \in P
          /\ ssl_task' = phase /\ suspended' = TRUE
          /\ task_short' = isShort /\ short' = [short EXCEPT ![phase] = isShort]
          /\ UNCHANGED <<status, handshake, phase, java, outcome>>
      BY <1>5 DEF VerifyOffloaded, Driven, Running, TypeOK, tcn_ssl_task_new, Retry
    <2>2. short'[phase] = isShort
      BY <2>1 DEF TypeOK
    <2> QED BY <2>1, <2>2 DEF AlertInv, SameAlert, Running, Answered, java
  <1>6. CASE CertOffloaded \/ KeyOffloaded
    <2>1. /\ Running /\ Phases[phase] # "verify" /\ UNCHANGED <<status, java, history>>
          /\ \/ ssl_task' = phase /\ Retry
             \/ Fail
      BY <1>6 DEF CertOffloaded, KeyOffloaded, Driven, Running, tcn_ssl_task_new
    <2>2. CASE ssl_task' = phase /\ Retry
      BY <2>1, <2>2 DEF AlertInv, SameAlert, Running, Answered, java, history, Retry
    <2> QED BY <2>1, <2>2, FailsOpen DEF Fail, FailWith, history
  <1>7. ASSUME NEW isShort \in BOOLEAN, NEW o \in CallbackResults("verify"), VerifyCalled(isShort, o)
        PROVE  AlertInv'
    <2>1. /\ Running /\ phase \in P /\ ssl_task # phase
          /\ outcome' = [outcome EXCEPT ![phase] = o]
          /\ short' = [short EXCEPT ![phase] = isShort]
          /\ UNCHANGED <<ssl_task, java>>
      BY <1>7 DEF VerifyCalled, CallJava, Driven, Running, TypeOK, slot
    <2>2. /\ outcome'[phase] = o /\ short'[phase] = isShort
          /\ \A p \in P : p # phase => outcome'[p] = outcome[p]
          /\ phase \notin held /\ phase \notin didRun
      BY <2>1, OutcomeOpen DEF TypeOK
    <2>3. CASE o = "throws"
      BY <1>0, <1>7, <2>1, <2>2, <2>3, FailsOpen DEF VerifyCalled, FailWith
    <2>4. CASE o # "throws" /\ Issuer(ReturnValue("verify", o), isShort) = X509_V_OK
      BY <1>7, <2>1, <2>2, <2>4, PassesOpen DEF VerifyCalled, Verdict
    <2>5. CASE o # "throws" /\ Issuer(ReturnValue("verify", o), isShort) # X509_V_OK
      <3>1. /\ handshake' = "failed" /\ phase' = phase
            /\ alert' = Issuer(ReturnValue("verify", o), isShort)
        BY <1>7, <2>5 DEF VerifyCalled, Verdict, FailWith
      <3>2. SameAlert'
        BY <2>2, <3>1 DEF SameAlert
      <3>3. \A p \in P : visible'[p] # {} => p \in didRun' /\ Answered(p)'
        BY <2>1, <2>2 DEF AlertInv, Answered, java
      <3> QED BY <2>1, <2>2, <3>1, <3>2, <3>3 DEF AlertInv, Running, java
    <2> QED BY <2>3, <2>4, <2>5
  <1>8. ASSUME NEW o \in CallbackResults("cert"), CertCalled(o) PROVE AlertInv'
    <2>1. /\ Running /\ phase \in P /\ Phases[phase] # "verify" /\ ssl_task # phase
          /\ outcome' = [outcome EXCEPT ![phase] = o]
          /\ UNCHANGED <<ssl_task, java>>
          /\ Pass \/ Fail
      BY <1>8 DEF CertCalled, CallJava, Driven, Running, TypeOK, slot
    <2>2. /\ \A p \in P : p # phase => outcome'[p] = outcome[p]
          /\ phase \notin didRun
      BY <2>1, OutcomeOpen DEF TypeOK
    <2>3. CASE Pass
      BY <2>1, <2>2, <2>3, PassesOpen
    <2>4. CASE Fail
      BY <2>1, <2>2, <2>4, FailsOpen DEF Fail, FailWith
    <2> QED BY <2>1, <2>3, <2>4
  <1>9. CASE KeyCalled
    <2>1. /\ Phases[phase] # "verify" /\ UNCHANGED <<slot, java, history>>
          /\ (status' = "crashed" /\ UNCHANGED engine) \/ Fail
      BY <1>9 DEF KeyCalled, Driven
    <2>2. CASE status' = "crashed" /\ UNCHANGED engine
      BY <2>1, <2>2 DEF AlertInv, SameAlert, Running, Answered, slot, java, history, engine
    <2> QED BY <2>1, <2>2, FailsOpen DEF Fail, FailWith, history
  <1>10. CASE setUseTasks \/ UNCHANGED vars
    BY <1>10 DEF setUseTasks, vars, AlertInv, SameAlert, Running, Answered, slot, java, history, engine
  <1>11. CASE getTask
    <2>1. /\ held \subseteq held' /\ held' \subseteq held \cup {ssl_task}
          /\ UNCHANGED <<status, ssl_task, task_short, engine, didRun, visible, history>>
      BY <1>11 DEF getTask, Handed
    <2> QED BY <2>1 DEF AlertInv, SameAlert, Running, Answered, history, engine
  <1>12. CASE freeSSL
    <2>1. status' = "freed" /\ ssl_task' = NULL /\ UNCHANGED <<engine, java, history>>
      BY <1>12 DEF freeSSL, tcn_ssl_task_free
    <2> QED BY <2>1 DEF AlertInv, SameAlert, Running, Answered, java, history, engine
  <1>13. ASSUME NEW p \in P, runTask(p) \/ completeCallback(p) \/ runAgain(p) \/ \E f \in Fields : Publish(p, f)
         PROVE  AlertInv'
    <2>1. /\ UNCHANGED <<status, slot, engine, held, outcome, short>>
          /\ didRun \subseteq didRun'
          /\ visible' = visible \/ (p \in didRun /\ Answered(p) /\ \E v : visible' = [visible EXCEPT ![p] = v])
      BY <1>13 DEF runTask, completeCallback, runAgain, Publish, history
    <2>2. \A q \in P : visible'[q] # {} => q \in didRun' /\ Answered(q)'
      BY <2>1 DEF AlertInv, Answered, TypeOK
    <2> QED BY <2>1, <2>2 DEF AlertInv, SameAlert, Running, slot, engine
  <1>14. ASSUME NEW p \in P, NEW o \in CallbackResults(Phases[p]), onResult(p, o) PROVE AlertInv'
    <2>0. p \in didRun /\ outcome[p] = "none"
      BY <1>14 DEF onResult, RunInv, TypeOK, CalledInv
    <2>1. /\ p \in didRun /\ outcome[p] = "none" /\ outcome' = [outcome EXCEPT ![p] = o]
          /\ UNCHANGED <<status, slot, engine, held, didRun, visible, short>>
      BY <1>14, <2>0 DEF onResult, TypeOK
    <2>2. \A q \in P : q # p => outcome'[q] = outcome[q]
      BY <2>1 DEF TypeOK
    <2>3. visible[p] = {}
      BY <2>1, OkPasses DEF AlertInv, Answered
    <2>4. \A q \in P : visible'[q] # {} => q \in didRun' /\ Answered(q)'
      BY <2>1, <2>2, <2>3 DEF AlertInv, Answered, java
    <2>5. handshake = "failed" /\ phase \in P /\ Phases[phase] = "verify" => p # phase
      BY <2>1 DEF AlertInv, TypeOK
    <2> QED BY <2>1, <2>2, <2>4, <2>5 DEF AlertInv, SameAlert, Running, slot, engine, TypeOK
  <1>15. CASE Callback
    BY <1>15, <1>1, <1>2, <1>3, <1>4, <1>5, <1>6, <1>7, <1>8, <1>9
    DEF Callback, tcn_SSL_cert_custom_verify, certificate_cb, tcn_private_key_java
  <1>16. CASE Executor
    BY <1>16, <1>13, <1>14 DEF Executor
  <1> QED BY <1>2, <1>10, <1>11, <1>12, <1>15, <1>16 DEF Next

\* A chain is refused with the alert of Java's answer and of its own length, whether
\* the answer came from a task or a call and however the tasks are toggled, polled
\* and run again meanwhile, by one thread at a time.
THEOREM SameAlertCorrect == Spec => []SameAlert
  <1> DEFINE Inv == ~Races => AlertInv
  <1>1. Init => Inv
    BY NullIsNoPhase DEF Init, AlertInv, SameAlert, Running, Answered, NULL
  <1>2. TypeOK /\ CalledInv /\ RunInv /\ Inv /\ [Next]_vars => Inv'
    BY AlertStep, CallerFixed DEF Races
  <1>3. Inv => SameAlert
    BY DEF AlertInv, SameAlert
  <1> QED BY <1>1, <1>2, <1>3, TypeCorrect, CalledAlways, RunAlways, PTL DEF Spec

-----------------------------------------------------------------------------
(* KeyMaterial: counting the places that hold an object.                   *)

\* A bijection shows that two finite sets have as many elements.
LEMMA SameCardinality ==
    ASSUME NEW S, NEW T, IsFiniteSet(S), NEW f \in [S -> T],
           \A x, y \in S : f[x] = f[y] => x = y,
           \A t \in T : \E x \in S : f[x] = t
    PROVE  IsFiniteSet(T) /\ Cardinality(T) = Cardinality(S)
<1>1. f \in Bijection(S, T)
    BY DEF Bijection, Injection, Surjection, IsInjective
<1>2. ExistsBijection(S, T)
    BY <1>1, Zenon DEF ExistsBijection
<1> QED
    BY <1>2, FS_Bijection

\* Two disjoint finite sets together have the sum of their elements.
LEMMA DisjointUnion ==
    ASSUME NEW S, NEW T, IsFiniteSet(S), IsFiniteSet(T), S \cap T = {}
    PROVE  /\ IsFiniteSet(S \cup T)
           /\ Cardinality(S \cup T) = Cardinality(S) + Cardinality(T)
<1>1. Cardinality(S) \in Nat /\ Cardinality(T) \in Nat
    BY FS_CardinalityType
<1>2. Cardinality(S \cap T) = 0
    BY FS_EmptySet
<1>3. /\ IsFiniteSet(S \cup T)
      /\ Cardinality(S \cup T) = Cardinality(S) + Cardinality(T) - Cardinality(S \cap T)
    BY FS_Union, Zenon
<1> QED
    BY <1>1, <1>2, <1>3

\* The places of o in the sequence s.
Where(s, o) == {q \in DOMAIN s : s[q] = o}

\* A count is the size of a finite set of places.
LEMMA CountWhere ==
    ASSUME NEW S, NEW s \in Seq(S), NEW o
    PROVE  /\ Count(s, o) = Cardinality(Where(s, o))
           /\ IsFiniteSet(Where(s, o))
           /\ Count(s, o) \in Nat
<1>1. IsFiniteSet(1..Len(s))
    BY FS_Interval
<1>2. Where(s, o) \in SUBSET (1..Len(s))
    BY DEF Where
<1>3. IsFiniteSet(Where(s, o))
    BY <1>1, <1>2, FS_Subset
<1> QED
    BY <1>3, FS_CardinalityType DEF Where, Count

\* Nothing is held in an empty slot.
LEMMA CountNone ==
    ASSUME NEW o
    PROVE  Count(None, o) = 0
<1>1. {q \in DOMAIN None : None[q] = o} = {}
    BY DEF None
<1> QED
    BY <1>1, FS_EmptySet DEF Count

\* A sequence of one object counts one for it.
LEMMA CountOne ==
    ASSUME NEW x, NEW o
    PROVE  Count(<<x>>, o) = IF x = o THEN 1 ELSE 0
<1>1. {q \in DOMAIN <<x>> : <<x>>[q] = o} = IF x = o THEN {1} ELSE {}
    OBVIOUS
<1> QED
    BY <1>1, FS_EmptySet, FS_Singleton DEF Count

\* The counts of two sequences add up in their concatenation.
LEMMA CountConcat ==
    ASSUME NEW S, NEW s \in Seq(S), NEW t \in Seq(S), NEW o
    PROVE  Count(s \o t, o) = Count(s, o) + Count(t, o)
<1> DEFINE n == Len(s)
           Moved == {n + q : q \in Where(t, o)}
           f == [q \in Where(t, o) |-> n + q]
<1>1. n \in Nat /\ Where(s, o) \in SUBSET (1..n) /\ Where(t, o) \in SUBSET Nat
    BY DEF Where
<1>2. IsFiniteSet(Where(s, o)) /\ IsFiniteSet(Where(t, o))
    BY CountWhere
<1>3. /\ s \o t \in Seq(S) /\ Len(s \o t) = Len(s) + Len(t)
      /\ \A q \in 1..Len(s) : (s \o t)[q] = s[q]
      /\ \A q \in 1..Len(t) : (s \o t)[Len(s) + q] = t[q]
    BY ConcatProperties
<1>4. Where(s \o t, o) = Where(s, o) \cup Moved
  <2>1. ASSUME NEW q \in Where(s \o t, o) PROVE q \in Where(s, o) \cup Moved
    <3>1. q \in 1..(Len(s) + Len(t)) /\ (s \o t)[q] = o
      BY <1>3 DEF Where
    <3>2. CASE q <= Len(s)
      BY <1>3, <3>1, <3>2 DEF Where
    <3>3. CASE q > Len(s)
      <4>1. q - Len(s) \in 1..Len(t) /\ Len(s) + (q - Len(s)) = q
        BY <3>1, <3>3
      <4>2. t[q - Len(s)] = o
        BY <1>3, <3>1, <4>1
      <4>3. q - Len(s) \in Where(t, o)
        BY <4>1, <4>2 DEF Where
      <4> QED
        BY <4>1, <4>3
    <3> QED
      BY <3>1, <3>2, <3>3
  <2>2. ASSUME NEW q \in Where(s, o) PROVE q \in Where(s \o t, o)
    <3>1. q \in 1..Len(s) /\ s[q] = o
      BY DEF Where
    <3>2. q \in 1..Len(s \o t) /\ (s \o t)[q] = o
      BY <1>3, <3>1
    <3> QED
      BY <3>2, <1>3 DEF Where
  <2>3. ASSUME NEW q \in Where(t, o) PROVE n + q \in Where(s \o t, o)
    <3>1. q \in 1..Len(t) /\ t[q] = o
      BY DEF Where
    <3>2. n + q \in 1..Len(s \o t) /\ (s \o t)[n + q] = o
      BY <1>3, <3>1
    <3> QED
      BY <3>2, <1>3 DEF Where
  <2> QED
    BY <2>1, <2>2, <2>3
<1> HIDE DEF n
<1>5. Where(s, o) \cap Moved = {}
  <2>1. \A q \in Where(t, o) : q \in Nat /\ q >= 1
    BY DEF Where
  <2> QED
    BY <1>1, <2>1
<1>6. IsFiniteSet(Moved) /\ Cardinality(Moved) = Cardinality(Where(t, o))
  <2>1. /\ f \in [Where(t, o) -> Moved]
        /\ \A x, y \in Where(t, o) : f[x] = f[y] => x = y
        /\ \A u \in Moved : \E x \in Where(t, o) : f[x] = u
    BY <1>1
  <2> QED
    BY <1>2, <2>1, SameCardinality
<1>7. Cardinality(Where(s \o t, o)) = Cardinality(Where(s, o)) + Cardinality(Where(t, o))
    BY <1>2, <1>4, <1>5, <1>6, DisjointUnion
<1> QED
    BY <1>3, <1>7, CountWhere

\* A sequence counts what its first n members and the others count.
LEMMA CountSplit ==
    ASSUME NEW S, NEW s \in Seq(S), NEW n \in 0..Len(s), NEW o
    PROVE  /\ SubSeq(s, 1, n) \in Seq(S) /\ From(s, n + 1) \in Seq(S)
           /\ s = SubSeq(s, 1, n) \o From(s, n + 1)
           /\ Count(s, o) = Count(SubSeq(s, 1, n), o) + Count(From(s, n + 1), o)
<1>1. SubSeq(s, 1, n) \in Seq(S) /\ Len(SubSeq(s, 1, n)) = n
    OBVIOUS
<1>2. From(s, n + 1) \in Seq(S) /\ Len(From(s, n + 1)) = Len(s) - n
  <2>1. n + 1 \in Int /\ Len(s) \in Int /\ \A q \in (n + 1)..Len(s) : s[q] \in S
    OBVIOUS
  <2>2. /\ SubSeq(s, n + 1, Len(s)) \in Seq(S)
        /\ Len(SubSeq(s, n + 1, Len(s))) = IF n + 1 <= Len(s) THEN Len(s) - (n + 1) + 1 ELSE 0
    BY <2>1, SubSeqProperties
  <2> QED
    BY <2>2 DEF From
<1>3. s = SubSeq(s, 1, n) \o From(s, n + 1)
  <2>1. /\ 1 \in 1..(Len(s) + 1) /\ n \in (1 - 1)..Len(s) /\ Len(s) \in n..Len(s)
    OBVIOUS
  <2>2. SubSeq(s, 1, n) \o SubSeq(s, n + 1, Len(s)) = SubSeq(s, 1, Len(s))
    BY <2>1, ConcatAdjacentSubSeq, Zenon
  <2> QED
    BY <2>2, SubSeqFull DEF From
<1>4. Count(SubSeq(s, 1, n) \o From(s, n + 1), o)
        = Count(SubSeq(s, 1, n), o) + Count(From(s, n + 1), o)
    BY <1>1, <1>2, CountConcat, Zenon
<1> QED
    BY <1>1, <1>2, <1>3, <1>4

\* The places in the sequences of one member.
LEMMA PlacesOne ==
    ASSUME NEW S, NEW f, NEW x, f[x] \in Seq(S), NEW o
    PROVE  /\ IsFiniteSet(Places(f, {x}, o))
           /\ Cardinality(Places(f, {x}, o)) = Count(f[x], o)
<1> DEFINE W == Where(f[x], o)
           g == [q \in W |-> <<x, q>>]
<1>1. Places(f, {x}, o) = {x} \X W
    BY DEF Places, Where
<1>2. IsFiniteSet(W) /\ Count(f[x], o) = Cardinality(W)
    BY CountWhere
<1> HIDE DEF W
<1>3. /\ g \in [W -> {x} \X W]
      /\ \A y, z \in W : g[y] = g[z] => y = z
      /\ \A t \in {x} \X W : \E y \in W : g[y] = t
    OBVIOUS
<1>4. IsFiniteSet({x} \X W) /\ Cardinality({x} \X W) = Cardinality(W)
    BY <1>2, <1>3, SameCardinality
<1> QED
    BY <1>1, <1>2, <1>4

\* The places in the sequences of disjoint sets of members add up.
LEMMA PlacesUnion ==
    ASSUME NEW f, NEW D, NEW E, D \cap E = {}, NEW o,
           IsFiniteSet(Places(f, D, o)), IsFiniteSet(Places(f, E, o))
    PROVE  /\ IsFiniteSet(Places(f, D \cup E, o))
           /\ Cardinality(Places(f, D \cup E, o))
                = Cardinality(Places(f, D, o)) + Cardinality(Places(f, E, o))
<1>1. Places(f, D \cup E, o) = Places(f, D, o) \cup Places(f, E, o)
    BY DEF Places
<1>2. Places(f, D, o) \cap Places(f, E, o) = {}
    BY DEF Places
<1> QED
    BY <1>1, <1>2, DisjointUnion

\* A part of the places is finite too.
LEMMA PlacesSubset ==
    ASSUME NEW f, NEW D, NEW E \in SUBSET D, NEW o, IsFiniteSet(Places(f, D, o))
    PROVE  IsFiniteSet(Places(f, E, o))
<1>1. Places(f, E, o) \in SUBSET Places(f, D, o)
    BY DEF Places
<1> QED
    BY <1>1, FS_Subset

\* Only the sequences of the members matter.
LEMMA PlacesSame ==
    ASSUME NEW f, NEW g, NEW D, NEW o, \A x \in D : f[x] = g[x]
    PROVE  Places(f, D, o) = Places(g, D, o)
BY DEF Places

-----------------------------------------------------------------------------
\* The library calls work on a connection or on a context.
Stores == {"conn", "ctx"}

\* The slots of a connection and of a context.
SlotType == [cert : Seq(Certs), key : Seq(Keys), chain : Seq(Certs)]
ConnType == [live : BOOLEAN, type : KeyTypes, cert : Seq(Certs), key : Seq(Keys), chain : Seq(Certs),
             aside : SlotType, chainPerType : {TRUE},
             outCert : Seq(Certs), outKey : Seq(Keys), creds : Seq(Creds)]
CtxType  == [live : BOOLEAN, type : KeyTypes, cert : Seq(Certs), key : Seq(Keys), chain : Seq(Certs),
             aside : SlotType, chainPerType : {FALSE},
             password : Seq(Passwords), cas : BOOLEAN]
\* The slots of a store of this kind.
StoreType(kind) == IF kind = "conn" THEN ConnType ELSE CtxType

\* What a library call may come out with.  The counts are integers: that none is
\* negative is a result of the proof.
CallOutcomes(kind) == [refs : [Objects -> Int], store : StoreType(kind), ok : BOOLEAN, threw : BOOLEAN]

\* What the slots of one key type count for o, and what a store counts for it in the
\* slots the library calls change.
Current(s, o) == Count(s.cert, o) + Count(s.key, o) + Count(s.chain, o)
SlotCount(store, o) == Current(store, o) + Current(store.aside, o)

\* The library calls leave the other slots alone.
SameRest(kind, s, t) ==
    /\ t.live = s.live
    /\ kind = "conn" => t.outCert = s.outCert /\ t.outKey = s.outKey /\ t.creds = s.creds
    /\ kind = "ctx" => t.password = s.password /\ t.cas = s.cas

\* n comes out of m with as many references more or less as its slots hold more or less.
Balanced(kind, m, n) ==
    /\ n \in CallOutcomes(kind)
    /\ SameRest(kind, m.store, n.store)
    /\ \A o \in Objects : n.refs[o] - SlotCount(n.store, o) = m.refs[o] - SlotCount(m.store, o)

\* Certificates, keys, credentials and passwords are objects, and so in sequences.
LEMMA SeqOfObjects ==
    /\ Seq(Certs) \subseteq Seq(Objects)
    /\ Seq(Keys) \subseteq Seq(Objects)
    /\ Seq(Creds) \subseteq Seq(Objects)
    /\ Seq(Passwords) \subseteq Seq(Objects)
<1>1. ASSUME NEW S, S \subseteq Objects PROVE Seq(S) \subseteq Seq(Objects)
  <2> SUFFICES ASSUME NEW s \in Seq(S) PROVE s \in Seq(Objects)
    OBVIOUS
  <2>1. \A q \in 1..Len(s) : s[q] \in Objects
    BY <1>1
  <2> QED
    BY <2>1, IsASeq
<1> QED
    BY <1>1 DEF Objects

\* The facts about counts of sequences of objects that the proofs use throughout.
LEMMA CountObjects ==
    /\ None \in Seq(Objects)
    /\ \A x \in Objects : <<x>> \in Seq(Objects)
    /\ \A s \in Seq(Objects), o \in Objects : Count(s, o) \in Nat
    /\ \A s, t \in Seq(Objects) : s \o t \in Seq(Objects)
    /\ \A s, t \in Seq(Objects), o \in Objects : Count(s \o t, o) = Count(s, o) + Count(t, o)
    /\ \A o \in Objects : Count(None, o) = 0
<1>1. \A s \in Seq(Objects), o \in Objects : Count(s, o) \in Nat
    BY CountWhere
<1>2. \A s, t \in Seq(Objects), o \in Objects : Count(s \o t, o) = Count(s, o) + Count(t, o)
    BY CountConcat, Zenon
<1>3. \A s, t \in Seq(Objects) : s \o t \in Seq(Objects)
    BY ConcatProperties, Zenon
<1> QED
    BY <1>1, <1>2, <1>3, CountNone DEF None

\* What Up and Down do to each count.
LEMMA UpDown ==
    ASSUME NEW r \in [Objects -> Int], NEW s \in Seq(Objects)
    PROVE  /\ Up(r, s) \in [Objects -> Int] /\ Down(r, s) \in [Objects -> Int]
           /\ \A o \in Objects : Up(r, s)[o] = r[o] + Count(s, o)
           /\ \A o \in Objects : Down(r, s)[o] = r[o] - Count(s, o)
<1>1. \A o \in Objects : Count(s, o) \in Nat
    BY CountObjects
<1> QED
    BY <1>1 DEF Up, Down

\* The slots of either store are sequences of objects, whose counts are numbers.
LEMMA SlotsType ==
    ASSUME NEW kind \in Stores, NEW s \in StoreType(kind), NEW o \in Objects
    PROVE  /\ Count(s.cert, o) \in Nat /\ Count(s.key, o) \in Nat /\ Count(s.chain, o) \in Nat
           /\ s.cert \in Seq(Objects) /\ s.key \in Seq(Objects) /\ s.chain \in Seq(Objects)
           /\ s.cert \in Seq(Certs) /\ s.key \in Seq(Keys) /\ s.chain \in Seq(Certs)
           /\ s.aside \in SlotType /\ Current(s, o) \in Nat /\ Current(s.aside, o) \in Nat
<1>1. /\ s.cert \in Seq(Certs) /\ s.key \in Seq(Keys) /\ s.chain \in Seq(Certs)
      /\ s.aside \in SlotType
    BY DEF StoreType, ConnType, CtxType
<1>2. ASSUME NEW u, u.cert \in Seq(Certs), u.key \in Seq(Keys), u.chain \in Seq(Certs)
      PROVE  /\ Count(u.cert, o) \in Nat /\ Count(u.key, o) \in Nat /\ Count(u.chain, o) \in Nat
             /\ Current(u, o) \in Nat
  <2>1. Count(u.cert, o) \in Nat /\ Count(u.key, o) \in Nat /\ Count(u.chain, o) \in Nat
    BY <1>2, SeqOfObjects, CountObjects
  <2> QED
    BY <2>1 DEF Current
<1>3. /\ s.aside.cert \in Seq(Certs) /\ s.aside.key \in Seq(Keys) /\ s.aside.chain \in Seq(Certs)
    BY <1>1 DEF SlotType
<1>4. Current(s.aside, o) \in Nat
    BY <1>2, <1>3
<1>5. /\ Count(s.cert, o) \in Nat /\ Count(s.key, o) \in Nat /\ Count(s.chain, o) \in Nat
      /\ Current(s, o) \in Nat
    BY <1>1, <1>2
<1> QED
    BY <1>1, <1>4, <1>5, SeqOfObjects

\* A store holds some number of references to each object.
LEMMA SlotsNat ==
    ASSUME NEW kind \in Stores, NEW s \in StoreType(kind), NEW o \in Objects
    PROVE  SlotCount(s, o) \in Nat
<1>1. Current(s, o) \in Nat /\ Current(s.aside, o) \in Nat
    BY SlotsType
<1> QED
    BY <1>1 DEF SlotCount

\* Balanced calls one after the other are balanced.
LEMMA BalancedTransitive ==
    ASSUME NEW kind \in Stores, NEW m \in CallOutcomes(kind), NEW n, NEW p,
           Balanced(kind, m, n), Balanced(kind, n, p)
    PROVE  Balanced(kind, m, p)
BY DEF Balanced, SameRest

\* Only whether the call succeeded is different.
LEMMA BalancedSame ==
    ASSUME NEW kind \in Stores, NEW m \in CallOutcomes(kind), NEW n \in CallOutcomes(kind),
           n.refs = m.refs, n.store = m.store
    PROVE  Balanced(kind, m, n)
BY DEF Balanced, SameRest

\* A call that fails and changes nothing is balanced.
LEMMA BalancedFailed ==
    ASSUME NEW kind \in Stores, NEW m \in CallOutcomes(kind)
    PROVE  Balanced(kind, m, Failed(m)) /\ ~Failed(m).ok /\ Failed(m).threw = m.threw
<1>1. /\ Failed(m) \in CallOutcomes(kind) /\ Failed(m).refs = m.refs /\ Failed(m).store = m.store
      /\ ~Failed(m).ok /\ Failed(m).threw = m.threw
    BY DEF Failed, CallOutcomes
<1> QED
    BY <1>1, BalancedSame

\* Taking the references of s and giving up those of t.
LEMMA UpThenDown ==
    ASSUME NEW r \in [Objects -> Int], NEW s \in Seq(Objects), NEW t \in Seq(Objects)
    PROVE  /\ Down(Up(r, s), t) \in [Objects -> Int]
           /\ \A o \in Objects : Down(Up(r, s), t)[o] = r[o] + Count(s, o) - Count(t, o)
<1>1. /\ Up(r, s) \in [Objects -> Int]
      /\ \A o \in Objects : Up(r, s)[o] = r[o] + Count(s, o)
    BY UpDown
<1>2. /\ Down(Up(r, s), t) \in [Objects -> Int]
      /\ \A o \in Objects : Down(Up(r, s), t)[o] = Up(r, s)[o] - Count(t, o)
    BY <1>1, UpDown
<1>3. ASSUME NEW o \in Objects PROVE Down(Up(r, s), t)[o] = r[o] + Count(s, o) - Count(t, o)
  <2>1. Count(s, o) \in Nat /\ Count(t, o) \in Nat /\ r[o] \in Int
    BY CountObjects
  <2> QED
    BY <1>1, <1>2, <2>1
<1> QED
    BY <1>2, <1>3

\* A library call that replaces certificate, key and chain of the current type is balanced
\* if it takes the references of the new ones and gives up those of the old ones.
LEMMA BalancedByCounts ==
    ASSUME NEW kind \in Stores, NEW m \in CallOutcomes(kind), NEW n \in CallOutcomes(kind),
           SameRest(kind, m.store, n.store), n.store.aside = m.store.aside,
           NEW s \in Seq(Objects), NEW t \in Seq(Objects),
           n.refs = Down(Up(m.refs, s), t),
           \A o \in Objects : Current(n.store, o) + Count(t, o) = Current(m.store, o) + Count(s, o)
    PROVE  Balanced(kind, m, n)
<1>1. m.refs \in [Objects -> Int] /\ m.store \in StoreType(kind) /\ n.store \in StoreType(kind)
    BY DEF CallOutcomes
<1>2. ASSUME NEW o \in Objects
      PROVE  n.refs[o] - SlotCount(n.store, o) = m.refs[o] - SlotCount(m.store, o)
  <2>1. Down(Up(m.refs, s), t)[o] = m.refs[o] + Count(s, o) - Count(t, o) /\ m.refs[o] \in Int
    BY <1>1, UpThenDown
  <2>2. Count(s, o) \in Nat /\ Count(t, o) \in Nat
    BY CountObjects
  <2>3. SlotCount(m.store, o) \in Nat /\ SlotCount(n.store, o) \in Nat
    BY <1>1, SlotsNat
  <2>4. SlotCount(n.store, o) + Count(t, o) = SlotCount(m.store, o) + Count(s, o)
    <3> DEFINE p == Current(m.store, o)
               q == Current(n.store, o)
               w == Current(m.store.aside, o)
    <3>1. p \in Nat /\ q \in Nat /\ w \in Nat
      BY <1>1, SlotsType
    <3>2. q + Count(t, o) = p + Count(s, o)
      OBVIOUS
    <3>3. SlotCount(n.store, o) = q + w /\ SlotCount(m.store, o) = p + w
      BY DEF SlotCount
    <3> HIDE DEF p, q, w
    <3> QED
      <4> DEFINE e == Count(t, o)
                 f == Count(s, o)
      <4>1. e \in Nat /\ f \in Nat /\ q + e = p + f
        BY <2>2, <3>2
      <4>2. SlotCount(n.store, o) + e = (q + w) + e /\ SlotCount(m.store, o) + f = (p + w) + f
        BY <3>3
      <4> HIDE DEF e, f
      <4>3. (q + w) + e = (p + w) + f
        BY <3>1, <4>1
      <4> QED
        BY <4>2, <4>3 DEF e, f
  <2>5. n.refs[o] = m.refs[o] + Count(s, o) - Count(t, o)
    BY <2>1
  <2> QED
    BY <2>1, <2>2, <2>3, <2>4, <2>5
<1> QED
    BY <1>2 DEF Balanced

\* u is s with this certificate and this key of the current type, n is m with these counts
\* and this store.
StoreWith(s, c, k, u)   == u = [s EXCEPT !.cert = c, !.key = k]
OutcomeWith(m, r, u, n) == n = [m EXCEPT !.refs = r, !.store = u]

\* A call that sets the certificate and the key of the current type leaves the rest alone.
LEMMA StoreEdit ==
    ASSUME NEW kind \in Stores, NEW s \in StoreType(kind), NEW c \in Seq(Certs), NEW k \in Seq(Keys),
           NEW u, StoreWith(s, c, k, u)
    PROVE  /\ u \in StoreType(kind) /\ SameRest(kind, s, u)
           /\ u.cert = c /\ u.key = k /\ u.chain = s.chain /\ u.aside = s.aside /\ u.type = s.type
<1>1. CASE kind = "conn"
  <2>1. u \in ConnType
    BY <1>1 DEF StoreType, ConnType, StoreWith
  <2> QED
    BY <1>1, <2>1 DEF StoreType, ConnType, SameRest, StoreWith
<1>2. CASE kind = "ctx"
  <2>1. u \in CtxType
    BY <1>2 DEF StoreType, CtxType, StoreWith
  <2> QED
    BY <1>2, <2>1 DEF StoreType, CtxType, SameRest, StoreWith
<1> QED
    BY <1>1, <1>2 DEF Stores

\* To set one of the two is to set the other to what it is.
LEMMA StoreKeep ==
    ASSUME NEW kind \in Stores, NEW s \in StoreType(kind), NEW c, NEW k
    PROVE  /\ [s EXCEPT !.key = k] = [s EXCEPT !.cert = s.cert, !.key = k]
           /\ [s EXCEPT !.cert = c] = [s EXCEPT !.cert = c, !.key = s.key]
<1>1. CASE kind = "conn"
    BY <1>1 DEF StoreType, ConnType
<1>2. CASE kind = "ctx"
    BY <1>2 DEF StoreType, CtxType
<1> QED
    BY <1>1, <1>2 DEF Stores

\* An outcome with other counts and another store.
LEMMA OutcomeEdit ==
    ASSUME NEW kind, NEW m \in CallOutcomes(kind), NEW r \in [Objects -> Int], NEW u \in StoreType(kind),
           NEW n, OutcomeWith(m, r, u, n)
    PROVE  n \in CallOutcomes(kind) /\ n.refs = r /\ n.store = u /\ n.ok = m.ok /\ n.threw = m.threw
BY DEF CallOutcomes, OutcomeWith

\* What store s held for the key type that is not the current one of t.
Aside(s, t) == IF t.type = s.type THEN s.aside
               ELSE [cert |-> s.cert, key |-> s.key, chain |-> s.chain]

\* Making the slots of another type the current ones changes no reference; a connection
\* puts all of its slots aside.
LEMMA SelectBalanced ==
    ASSUME NEW kind \in Stores, NEW m \in CallOutcomes(kind), NEW t \in KeyTypes,
           NEW n, n = Select(m, t)
    PROVE  /\ Balanced(kind, m, n) /\ n \in CallOutcomes(kind)
           /\ n.ok = m.ok /\ n.threw = m.threw /\ n.store.type = t
           /\ kind = "conn" => n.store.aside = Aside(m.store, n.store)
           /\ m.store.type = t => n = m
<1>1. CASE m.store.type = t
    BY <1>1, BalancedSame DEF Select, Aside
<1>2. CASE m.store.type # t
  <2> DEFINE s == m.store
             u == s.aside
             per == s.chainPerType
             b == [cert |-> s.cert, key |-> s.key, chain |-> IF per THEN s.chain ELSE u.chain]
  <2>1. m.refs \in [Objects -> Int] /\ s \in StoreType(kind)
    BY DEF CallOutcomes
  <2>2. /\ s.cert \in Seq(Certs) /\ s.key \in Seq(Keys) /\ s.chain \in Seq(Certs)
        /\ u \in SlotType
    BY <2>1 DEF StoreType, ConnType, CtxType
  <2>3. u.cert \in Seq(Certs) /\ u.key \in Seq(Keys) /\ u.chain \in Seq(Certs)
    BY <2>2 DEF SlotType
  <2>4. b \in SlotType /\ b.cert = s.cert /\ b.key = s.key /\ b.chain = IF per THEN s.chain ELSE u.chain
    BY <2>2, <2>3 DEF SlotType
  <2> DEFINE d == IF per THEN u.chain ELSE s.chain
             w == [s EXCEPT !.type = t, !.cert = u.cert, !.key = u.key, !.chain = d, !.aside = b]
  <2>5. n = [m EXCEPT !.store = w] /\ d \in Seq(Certs)
    BY <1>2, <2>2, <2>3 DEF Select, Turned
  <2> HIDE DEF b, d
  <2>6. /\ n \in CallOutcomes(kind) /\ SameRest(kind, s, n.store) /\ n.refs = m.refs
        /\ n.ok = m.ok /\ n.threw = m.threw /\ n.store.type = t
        /\ n.store.cert = u.cert /\ n.store.key = u.key
        /\ n.store.chain = d /\ n.store.aside = b
    <3>1. /\ w \in StoreType(kind) /\ SameRest(kind, s, w)
          /\ w.type = t /\ w.cert = u.cert /\ w.key = u.key /\ w.chain = d /\ w.aside = b
      <4>1. CASE kind = "conn"
        <5>1. w \in ConnType
          BY <2>1, <2>3, <2>4, <2>5, <4>1 DEF StoreType, ConnType
        <5> QED
          BY <2>1, <4>1, <5>1 DEF StoreType, ConnType, SameRest
      <4>2. CASE kind = "ctx"
        <5>1. w \in CtxType
          BY <2>1, <2>3, <2>4, <2>5, <4>2 DEF StoreType, CtxType
        <5> QED
          BY <2>1, <4>2, <5>1 DEF StoreType, CtxType, SameRest
      <4> QED
        BY <4>1, <4>2 DEF Stores
    <3> HIDE DEF w
    <3>2. /\ n \in CallOutcomes(kind) /\ n.refs = m.refs /\ n.store = w
          /\ n.ok = m.ok /\ n.threw = m.threw
      BY <2>5, <3>1 DEF CallOutcomes
    <3> QED
      BY <3>1, <3>2
  <2>7. ASSUME NEW o \in Objects PROVE SlotCount(n.store, o) = SlotCount(s, o)
    <3> DEFINE c1 == Count(s.cert, o)
               k1 == Count(s.key, o)
               d1 == Count(s.chain, o)
               c2 == Count(u.cert, o)
               k2 == Count(u.key, o)
               d2 == Count(u.chain, o)
    <3>1. c1 \in Nat /\ k1 \in Nat /\ d1 \in Nat /\ c2 \in Nat /\ k2 \in Nat /\ d2 \in Nat
      BY <2>2, <2>3, SeqOfObjects, CountObjects
    <3>2. SlotCount(s, o) = (c1 + k1 + d1) + (c2 + k2 + d2)
      BY DEF SlotCount, Current
    <3>3. CASE per
      <4>1. SlotCount(n.store, o) = (c2 + k2 + d2) + (c1 + k1 + d1)
        BY <2>4, <2>6, <3>3 DEF SlotCount, Current, d
      <4> HIDE DEF c1, k1, d1, c2, k2, d2
      <4> QED
        BY <3>1, <3>2, <4>1
    <3>4. CASE ~per
      <4>1. SlotCount(n.store, o) = (c2 + k2 + d1) + (c1 + k1 + d2)
        BY <2>4, <2>6, <3>4 DEF SlotCount, Current, d
      <4> HIDE DEF c1, k1, d1, c2, k2, d2
      <4> QED
        BY <3>1, <3>2, <4>1
    <3> QED
      BY <3>3, <3>4
  <2>8. Balanced(kind, m, n)
    BY <2>6, <2>7 DEF Balanced
  <2>9. kind = "conn" => per
    BY <2>1 DEF StoreType, ConnType
  <2>10. kind = "conn" => n.store.aside = Aside(m.store, n.store)
    BY <1>2, <2>6, <2>9 DEF Aside, b
  <2> QED
    BY <1>2, <2>6, <2>8, <2>10
<1> QED
    BY <1>1, <1>2

\* SSL_use_certificate in the slots of its type: the new certificate is taken, the old one
\* and a key that does not belong to the new one are given up.
LEMMA SetCertificateBalanced ==
    ASSUME NEW kind \in Stores, NEW m \in CallOutcomes(kind), NEW c \in Certs,
           NEW n, n = SetCertificate(m, c)
    PROVE  /\ Balanced(kind, m, n)
           /\ n.threw = m.threw /\ n.store.cert = <<c>> /\ Agree(<<c>>, n.store.key)
           /\ n.store.aside = m.store.aside /\ n.store.type = m.store.type
<1> DEFINE dropped == IF Agree(<<c>>, m.store.key) THEN None ELSE m.store.key
           b == IF dropped = None THEN m.store.key ELSE None
           r == Down(Up(m.refs, <<c>>), m.store.cert \o dropped)
<1>1. n = [m EXCEPT !.refs = r, !.store.cert = <<c>>, !.store.key = b]
    BY DEF SetCertificate
<1>2. /\ m.refs \in [Objects -> Int] /\ m.store \in StoreType(kind)
    BY DEF CallOutcomes
<1>3. m.store.cert \in Seq(Objects) /\ m.store.key \in Seq(Objects) /\ m.store.key \in Seq(Keys)
    BY <1>2, SlotsType DEF Objects
<1>4. dropped \in {None, m.store.key} /\ Agree(<<c>>, b)
    BY DEF Agree
<1> HIDE DEF dropped
<1>5. /\ <<c>> \in Seq(Objects) /\ dropped \in Seq(Objects) /\ m.store.cert \o dropped \in Seq(Objects)
    BY <1>3, <1>4, CountObjects DEF Objects
<1>6. <<c>> \in Seq(Certs) /\ b \in Seq(Keys)
    BY <1>3 DEF None
<1>7. r \in [Objects -> Int]
    BY <1>2, <1>5, UpThenDown
<1> HIDE DEF r, b
<1>8. /\ n \in CallOutcomes(kind) /\ SameRest(kind, m.store, n.store)
      /\ n.refs = r /\ n.store.cert = <<c>> /\ n.store.key = b
      /\ n.store.aside = m.store.aside /\ n.store.type = m.store.type
      /\ n.store.chain = m.store.chain /\ n.threw = m.threw
  <2>0. PICK u : StoreWith(m.store, <<c>>, b, u)
    BY DEF StoreWith
  <2>1. OutcomeWith(m, r, u, n)
    BY <1>1, <2>0 DEF CallOutcomes, StoreWith, OutcomeWith
  <2>2. /\ u \in StoreType(kind) /\ SameRest(kind, m.store, u) /\ u.cert = <<c>> /\ u.key = b
        /\ u.chain = m.store.chain /\ u.aside = m.store.aside /\ u.type = m.store.type
    <3>1. ASSUME NEW d, d = <<c>>
          PROVE  /\ u \in StoreType(kind) /\ SameRest(kind, m.store, u) /\ u.cert = d /\ u.key = b
                 /\ u.chain = m.store.chain /\ u.aside = m.store.aside /\ u.type = m.store.type
      <4>1. d \in Seq(Certs) /\ StoreWith(m.store, d, b, u)
        BY <1>6, <2>0, <3>1
      <4> QED
        BY <1>2, <1>6, <4>1, StoreEdit
    <3> QED
      BY <3>1
  <2> QED
    <3>1. n \in CallOutcomes(kind) /\ n.refs = r /\ n.store = u /\ n.ok = m.ok /\ n.threw = m.threw
      BY <1>7, <2>1, <2>2, OutcomeEdit
    <3> QED
      BY <2>2, <3>1
<1>9. ASSUME NEW o \in Objects
      PROVE  Current(n.store, o) + Count(m.store.cert \o dropped, o) = Current(m.store, o) + Count(<<c>>, o)
  <2>1. /\ Count(m.store.cert, o) \in Nat /\ Count(m.store.key, o) \in Nat
        /\ Count(m.store.chain, o) \in Nat /\ Count(<<c>>, o) \in Nat /\ Count(None, o) = 0
        /\ Count(m.store.cert \o dropped, o) = Count(m.store.cert, o) + Count(dropped, o)
    BY <1>2, <1>3, <1>5, SlotsType, CountObjects
  <2>2. CASE dropped = None
    <3>1. n.store.key = m.store.key
      BY <1>8, <2>2 DEF b
    <3> QED
      BY <1>8, <2>1, <2>2, <3>1 DEF Current
  <2>3. CASE dropped # None
    <3>1. n.store.key = None /\ dropped = m.store.key
      BY <1>4, <1>8, <2>3 DEF b
    <3> QED
      BY <1>8, <2>1, <3>1 DEF Current
  <2> QED
    BY <2>2, <2>3
<1>10. Balanced(kind, m, n)
    BY <1>5, <1>8, <1>9, BalancedByCounts DEF r
<1> QED
    BY <1>4, <1>8, <1>10

\* c is the certificate of its type, with no key of another one, and store s gave it the
\* slots it has.
Placed(s, t, c) ==
    /\ t.cert = <<c>>
    /\ t.type = TypeOf(c)
    /\ Agree(<<c>>, t.key)
    /\ t.aside = Aside(s, t)

\* SSL_use_certificate: the slots of the certificate's type become the current ones and
\* take it.
LEMMA UseCertificateBalanced ==
    ASSUME NEW kind \in Stores, NEW m \in CallOutcomes(kind), NEW c \in Certs,
           NEW n \in UseCertificate(m, c)
    PROVE  /\ Balanced(kind, m, n)
           /\ n.threw = m.threw
           /\ kind = "conn" /\ n.ok => Placed(m.store, n.store, c)
<1>1. CASE n = Failed(m)
    BY <1>1, BalancedFailed
<1> DEFINE x == Select(m, TypeOf(c))
<1>2. CASE n = SetCertificate(x, c)
  <2>1. TypeOf(c) \in KeyTypes
    BY DEF TypeOf, KeyTypes
  <2>2. /\ Balanced(kind, m, x) /\ x \in CallOutcomes(kind) /\ x.threw = m.threw
        /\ x.store.type = TypeOf(c)
        /\ kind = "conn" => x.store.aside = Aside(m.store, x.store)
    BY <2>1, SelectBalanced
  <2> HIDE DEF x
  <2>3. /\ Balanced(kind, x, n)
        /\ n.threw = x.threw /\ n.store.cert = <<c>> /\ Agree(<<c>>, n.store.key)
        /\ n.store.aside = x.store.aside /\ n.store.type = x.store.type
    BY <1>2, <2>2, SetCertificateBalanced
  <2>4. Balanced(kind, m, n)
    BY <2>2, <2>3, BalancedTransitive
  <2> QED
    BY <2>2, <2>3, <2>4 DEF Placed, Aside
<1> QED
    BY <1>1, <1>2 DEF UseCertificate

\* The new key is taken and the old one of the current type given up.
LEMMA SetKeyBalanced ==
    ASSUME NEW kind \in Stores, NEW m \in CallOutcomes(kind), NEW k \in Keys,
           NEW n, n = SetKey(m, k)
    PROVE  /\ Balanced(kind, m, n)
           /\ n.threw = m.threw /\ n.store.cert = m.store.cert /\ n.store.key = <<k>>
           /\ n.store.aside = m.store.aside /\ n.store.type = m.store.type
<1>1. /\ m.refs \in [Objects -> Int] /\ m.store \in StoreType(kind)
      /\ m.store.cert \in Seq(Objects) /\ m.store.key \in Seq(Objects)
      /\ <<k>> \in Seq(Objects) /\ <<k>> \in Seq(Keys)
  <2>1. /\ m.refs \in [Objects -> Int] /\ m.store \in StoreType(kind)
    BY DEF CallOutcomes
  <2>2. m.store.cert \in Seq(Objects) /\ m.store.key \in Seq(Objects)
    BY <2>1, SlotsType DEF Objects
  <2> QED
    BY <2>1, <2>2, CountObjects DEF Objects
<1> DEFINE r == Down(Up(m.refs, <<k>>), m.store.key)
<1>2. n = [m EXCEPT !.refs = r, !.store.key = <<k>>]
    BY DEF SetKey
<1>3. r \in [Objects -> Int]
    BY <1>1, UpThenDown
<1> HIDE DEF r
<1>4. /\ n \in CallOutcomes(kind) /\ SameRest(kind, m.store, n.store)
      /\ n.refs = r /\ n.store.cert = m.store.cert /\ n.store.key = <<k>>
      /\ n.store.aside = m.store.aside /\ n.store.type = m.store.type
      /\ n.store.chain = m.store.chain /\ n.threw = m.threw
  <2>0. PICK u : StoreWith(m.store, m.store.cert, <<k>>, u)
    BY DEF StoreWith
  <2>1. OutcomeWith(m, r, u, n)
    <3>1. n = [m EXCEPT !.refs = r, !.store = [m.store EXCEPT !.key = <<k>>]]
      BY <1>2 DEF CallOutcomes
    <3> QED
      BY <1>1, <2>0, <3>1, StoreKeep DEF StoreWith, OutcomeWith
  <2>2. m.store.cert \in Seq(Certs)
    BY <1>1 DEF StoreType, ConnType, CtxType
  <2>3. /\ u \in StoreType(kind) /\ SameRest(kind, m.store, u) /\ u.cert = m.store.cert
        /\ u.key = <<k>> /\ u.chain = m.store.chain /\ u.aside = m.store.aside
        /\ u.type = m.store.type
    <3>1. ASSUME NEW d, d = <<k>>
          PROVE  /\ u \in StoreType(kind) /\ SameRest(kind, m.store, u) /\ u.cert = m.store.cert
                 /\ u.key = d /\ u.chain = m.store.chain /\ u.aside = m.store.aside
                 /\ u.type = m.store.type
      <4>1. d \in Seq(Keys) /\ StoreWith(m.store, m.store.cert, d, u)
        BY <2>0, <3>1
      <4> QED
        BY <1>1, <2>2, <4>1, StoreEdit
    <3> QED
      BY <3>1
  <2> QED
    <3>1. n \in CallOutcomes(kind) /\ n.refs = r /\ n.store = u /\ n.ok = m.ok /\ n.threw = m.threw
      BY <1>3, <2>1, <2>3, OutcomeEdit
    <3> QED
      BY <2>3, <3>1
<1>5. ASSUME NEW o \in Objects
      PROVE  Current(n.store, o) + Count(m.store.key, o) = Current(m.store, o) + Count(<<k>>, o)
  <2>1. /\ Count(m.store.cert, o) \in Nat /\ Count(m.store.key, o) \in Nat
        /\ Count(m.store.chain, o) \in Nat /\ Count(<<k>>, o) \in Nat
    BY <1>1, SlotsType, CountObjects
  <2> QED
    BY <1>4, <2>1 DEF Current
<1>6. Balanced(kind, m, n)
    BY <1>1, <1>4, <1>5, BalancedByCounts DEF r
<1> QED
    BY <1>4, <1>6

\* A dropped certificate gives up its reference.
LEMMA DropCertificateBalanced ==
    ASSUME NEW kind \in Stores, NEW m \in CallOutcomes(kind), NEW n, n = DropCertificate(m)
    PROVE  Balanced(kind, m, n) /\ n.threw = m.threw
<1>1. m.refs \in [Objects -> Int] /\ m.store \in StoreType(kind)
    BY DEF CallOutcomes
<1>2. m.store.cert \in Seq(Objects) /\ m.store.key \in Seq(Keys) /\ None \in Seq(Certs)
  <2>1. m.store.cert \in Seq(Certs) /\ m.store.key \in Seq(Keys)
    BY <1>1 DEF StoreType, ConnType, CtxType
  <2> QED
    BY <2>1, SeqOfObjects DEF None
<1> DEFINE r == Down(m.refs, m.store.cert)
<1>3. n = [m EXCEPT !.refs = r, !.store.cert = None]
    BY DEF DropCertificate
<1>4. /\ r \in [Objects -> Int]
      /\ \A o \in Objects : r[o] = m.refs[o] - Count(m.store.cert, o)
    BY <1>1, <1>2, UpDown
<1> HIDE DEF r
<1>5. /\ n \in CallOutcomes(kind) /\ SameRest(kind, m.store, n.store)
      /\ n.refs = r /\ n.store.cert = None /\ n.store.key = m.store.key
      /\ n.store.aside = m.store.aside
      /\ n.store.chain = m.store.chain /\ n.threw = m.threw
  <2>0. PICK u : StoreWith(m.store, None, m.store.key, u)
    BY DEF StoreWith
  <2>1. OutcomeWith(m, r, u, n)
    <3>1. n = [m EXCEPT !.refs = r, !.store = [m.store EXCEPT !.cert = None]]
      BY <1>3 DEF CallOutcomes
    <3> QED
      BY <1>1, <2>0, <3>1, StoreKeep DEF StoreWith, OutcomeWith
  <2>2. /\ u \in StoreType(kind) /\ SameRest(kind, m.store, u) /\ u.cert = None
        /\ u.key = m.store.key /\ u.chain = m.store.chain /\ u.aside = m.store.aside
    BY <1>1, <1>2, <2>0, StoreEdit
  <2> QED
    <3>1. n \in CallOutcomes(kind) /\ n.refs = r /\ n.store = u /\ n.ok = m.ok /\ n.threw = m.threw
      BY <1>4, <2>1, <2>2, OutcomeEdit
    <3> QED
      BY <2>2, <3>1
<1>6. ASSUME NEW o \in Objects
      PROVE  n.refs[o] - SlotCount(n.store, o) = m.refs[o] - SlotCount(m.store, o)
  <2> DEFINE w == Current(m.store.aside, o)
             x == Count(m.store.cert, o)
             y == Count(m.store.key, o)
             z == Count(m.store.chain, o)
             a == m.refs[o]
  <2>1. x \in Nat /\ y \in Nat /\ z \in Nat /\ w \in Nat /\ Count(None, o) = 0 /\ a \in Int
    BY <1>1, SlotsType, CountObjects
  <2>2. n.refs[o] = a - x
    BY <1>4, <1>5
  <2>3. SlotCount(n.store, o) = (0 + y + z) + w /\ SlotCount(m.store, o) = (x + y + z) + w
    BY <1>5, <2>1 DEF SlotCount, Current
  <2> HIDE DEF w, x, y, z, a
  <2>4. (a - x) - ((0 + y + z) + w) = a - ((x + y + z) + w)
    BY <2>1
  <2> QED
    BY <2>2, <2>3, <2>4 DEF a
<1> QED
    BY <1>5, <1>6 DEF Balanced

\* SSL_use_PrivateKey: the key goes to the slots of its type, or a certificate there that it
\* does not belong to is dropped.  A key of the current type leaves the rest as it is.
LEMMA UsePrivateKeyBalanced ==
    ASSUME NEW kind \in Stores, NEW m \in CallOutcomes(kind), NEW k \in Keys,
           NEW n \in UsePrivateKey(m, k)
    PROVE  /\ Balanced(kind, m, n)
           /\ n.threw = m.threw
           /\ n.ok /\ m.store.type = TypeOf(k) =>
                 /\ n.store.cert = m.store.cert /\ n.store.key = <<k>>
                 /\ n.store.aside = m.store.aside /\ n.store.type = m.store.type
<1> DEFINE x == Select(m, TypeOf(k))
           d == DropCertificate(x)
           e == Select(d, m.store.type)
<1>1. /\ Balanced(kind, m, x) /\ x \in CallOutcomes(kind) /\ x.threw = m.threw
      /\ m.store.type = TypeOf(k) => x = m
  <2>1. TypeOf(k) \in KeyTypes
    BY DEF TypeOf, KeyTypes
  <2> QED
    BY <2>1, SelectBalanced
<1>2. CASE n = Failed(m)
    BY <1>2, BalancedFailed
<1>3. CASE n = SetKey(x, k)
  <2> HIDE DEF x
  <2>1. /\ Balanced(kind, x, n)
        /\ n.threw = x.threw /\ n.store.cert = x.store.cert /\ n.store.key = <<k>>
        /\ n.store.aside = x.store.aside /\ n.store.type = x.store.type
    BY <1>1, <1>3, SetKeyBalanced
  <2>2. Balanced(kind, m, n)
    BY <1>1, <2>1, BalancedTransitive
  <2> QED
    BY <1>1, <2>1, <2>2
<1>4. CASE n = Failed(e)
  <2> HIDE DEF x
  <2>1. Balanced(kind, x, d) /\ d.threw = x.threw
    BY <1>1, DropCertificateBalanced
  <2>2. d \in CallOutcomes(kind)
    BY <2>1 DEF Balanced
  <2> HIDE DEF d
  <2>3. m.store.type \in KeyTypes
    BY DEF CallOutcomes, StoreType, ConnType, CtxType
  <2>4. Balanced(kind, d, e) /\ e \in CallOutcomes(kind) /\ e.threw = d.threw
    BY <2>2, <2>3, SelectBalanced
  <2> HIDE DEF e
  <2>5. Balanced(kind, e, n) /\ ~n.ok /\ n.threw = e.threw
    BY <1>4, <2>4, BalancedFailed
  <2>6. Balanced(kind, m, d)
    BY <1>1, <2>1, BalancedTransitive
  <2>7. Balanced(kind, m, e)
    BY <2>4, <2>6, BalancedTransitive
  <2>8. Balanced(kind, m, n)
    BY <2>5, <2>7, BalancedTransitive
  <2> QED
    BY <1>1, <2>1, <2>4, <2>5, <2>8
<1> QED
    BY <1>2, <1>3, <1>4 DEF UsePrivateKey

\* SSL_check_private_key changes no slot.
LEMMA CheckPrivateKeyBalanced ==
    ASSUME NEW kind \in Stores, NEW m \in CallOutcomes(kind), NEW n \in CheckPrivateKey(m)
    PROVE  Balanced(kind, m, n) /\ n.threw = m.threw /\ n.store = m.store
<1> DEFINE good == m.store.cert # None /\ m.store.key # None /\ Agree(m.store.cert, m.store.key)
<1>1. n = [m EXCEPT !.ok = good]
    BY DEF CheckPrivateKey
<1>2. good \in BOOLEAN
    OBVIOUS
<1> HIDE DEF good
<1>3. n \in CallOutcomes(kind) /\ n.refs = m.refs /\ n.store = m.store /\ n.threw = m.threw
    BY <1>1, <1>2 DEF CallOutcomes
<1> QED
    BY <1>3, BalancedSame

\* A call that changes only the chain.
LEMMA BalancedChain ==
    ASSUME NEW kind \in Stores, NEW m \in CallOutcomes(kind), NEW n \in CallOutcomes(kind),
           SameRest(kind, m.store, n.store),
           n.store.cert = m.store.cert, n.store.key = m.store.key, n.store.aside = m.store.aside,
           \A o \in Objects :
              n.refs[o] - Count(n.store.chain, o) = m.refs[o] - Count(m.store.chain, o)
    PROVE  Balanced(kind, m, n)
<1>1. /\ m.refs \in [Objects -> Int] /\ m.store \in StoreType(kind)
      /\ n.refs \in [Objects -> Int] /\ n.store \in StoreType(kind)
    BY DEF CallOutcomes
<1>2. ASSUME NEW o \in Objects
      PROVE  n.refs[o] - SlotCount(n.store, o) = m.refs[o] - SlotCount(m.store, o)
  <2>1. /\ Count(m.store.cert, o) \in Nat /\ Count(m.store.key, o) \in Nat
        /\ Count(m.store.chain, o) \in Nat /\ m.refs[o] \in Int
    BY <1>1, SlotsType
  <2>2. Count(n.store.chain, o) \in Nat /\ n.refs[o] \in Int
    BY <1>1, SlotsType
  <2>3. n.refs[o] - Count(n.store.chain, o) = m.refs[o] - Count(m.store.chain, o)
    OBVIOUS
  <2> DEFINE w == Current(m.store.aside, o)
  <2>4. /\ SlotCount(n.store, o)
             = (Count(m.store.cert, o) + Count(m.store.key, o) + Count(n.store.chain, o)) + w
        /\ SlotCount(m.store, o)
             = (Count(m.store.cert, o) + Count(m.store.key, o) + Count(m.store.chain, o)) + w
    BY DEF SlotCount, Current
  <2>5. w \in Nat
    BY <1>1, SlotsType
  <2> HIDE DEF w
  <2> QED
    BY <2>1, <2>2, <2>3, <2>4, <2>5
<1> QED
    BY <1>2 DEF Balanced

\* Clearing the chain gives up its references.
LEMMA ClearChainBalanced ==
    ASSUME NEW kind \in Stores, NEW m \in CallOutcomes(kind), NEW n \in ClearChain(m)
    PROVE  /\ Balanced(kind, m, n) /\ n.threw = m.threw
           /\ n.ok => n.store.cert = m.store.cert /\ n.store.key = m.store.key /\ n.store.chain = None
           /\ n.store.aside = m.store.aside /\ n.store.type = m.store.type
<1>1. CASE n = Failed(m)
  <2>1. n.store = m.store
    BY <1>1 DEF Failed, CallOutcomes
  <2> QED
    BY <1>1, <2>1, BalancedFailed
<1> DEFINE r == Down(m.refs, m.store.chain)
<1>2. CASE n = [m EXCEPT !.refs = r, !.store.chain = None]
  <2>1. /\ m.refs \in [Objects -> Int] /\ m.store \in StoreType(kind) /\ m.ok \in BOOLEAN
    BY DEF CallOutcomes
  <2>2. m.store.chain \in Seq(Objects)
    <3>1. m.store.chain \in Seq(Certs)
      BY <2>1 DEF StoreType, ConnType, CtxType
    <3> QED
      BY <3>1, SeqOfObjects
  <2>3. r \in [Objects -> Int] /\ \A o \in Objects : r[o] = m.refs[o] - Count(m.store.chain, o)
    BY <2>1, <2>2, UpDown
  <2> HIDE DEF r
  <2>4. /\ n \in CallOutcomes(kind) /\ SameRest(kind, m.store, n.store) /\ n.refs = r
        /\ n.store.cert = m.store.cert /\ n.store.key = m.store.key
        /\ n.store.aside = m.store.aside /\ n.store.type = m.store.type
        /\ n.store.chain = None /\ n.threw = m.threw
    <3>1. None \in Seq(Certs)
      BY DEF None
    <3>2. CASE kind = "conn"
      BY <1>2, <2>1, <2>3, <3>1, <3>2 DEF CallOutcomes, StoreType, ConnType, SameRest
    <3>3. CASE kind = "ctx"
      BY <1>2, <2>1, <2>3, <3>1, <3>3 DEF CallOutcomes, StoreType, CtxType, SameRest
    <3> QED
      BY <3>2, <3>3 DEF Stores
  <2>5. ASSUME NEW o \in Objects
        PROVE  n.refs[o] - Count(n.store.chain, o) = m.refs[o] - Count(m.store.chain, o)
    <3>1. /\ Count(n.store.chain, o) = 0 /\ Count(m.store.chain, o) \in Nat /\ m.refs[o] \in Int
      BY <2>1, <2>2, <2>4, CountObjects
    <3>2. n.refs[o] = m.refs[o] - Count(m.store.chain, o)
      BY <2>3, <2>4
    <3> QED
      BY <3>1, <3>2
  <2> QED
    BY <2>4, <2>5, BalancedChain
<1> QED
    BY <1>1, <1>2 DEF ClearChain

\* SSL_add1_chain_cert, up to the certificate that fails: each appended certificate has
\* a reference of its own.
LEMMA Add1ChainBalanced ==
    ASSUME NEW kind \in Stores, NEW m \in CallOutcomes(kind), NEW s \in Seq(Certs),
           NEW n \in Add1Chain(m, s)
    PROVE  /\ Balanced(kind, m, n) /\ n.threw = m.threw
           /\ n.store.cert = m.store.cert /\ n.store.key = m.store.key
           /\ n.store.aside = m.store.aside /\ n.store.type = m.store.type
           /\ n.ok => n.store.chain = m.store.chain \o s
<1>1. PICK z \in 0..Len(s) :
        n = [m EXCEPT !.refs = Up(@, SubSeq(s, 1, z)), !.store.chain = @ \o SubSeq(s, 1, z),
                      !.ok = z = Len(s)]
    BY DEF Add1Chain
<1>2. /\ m.refs \in [Objects -> Int] /\ m.store \in StoreType(kind)
    BY DEF CallOutcomes
<1>3. m.store.chain \in Seq(Certs)
    BY <1>2 DEF StoreType, ConnType, CtxType
<1> DEFINE p == SubSeq(s, 1, z)
           r == Up(m.refs, p)
           d == m.store.chain \o p
           ok == z = Len(s)
<1>4. p \in Seq(Certs) /\ (ok => p = s)
  <2>1. p \in Seq(Certs)
    OBVIOUS
  <2>2. ok => p = s
    BY SubSeqFull
  <2> QED
    BY <2>1, <2>2
<1>5. n = [m EXCEPT !.refs = r, !.store.chain = d, !.ok = ok]
    BY <1>1
<1>6. ok \in BOOLEAN
    OBVIOUS
<1> HIDE DEF p, ok
<1>7. r \in [Objects -> Int] /\ \A o \in Objects : r[o] = m.refs[o] + Count(p, o)
    BY <1>2, <1>4, SeqOfObjects, UpDown
<1>8. d \in Seq(Certs)
    BY <1>3, <1>4, ConcatProperties
<1> HIDE DEF r
<1>9. /\ n \in CallOutcomes(kind) /\ SameRest(kind, m.store, n.store) /\ n.refs = r /\ n.ok = ok
      /\ n.store.cert = m.store.cert /\ n.store.key = m.store.key
      /\ n.store.aside = m.store.aside /\ n.store.type = m.store.type
      /\ n.store.chain = d /\ n.threw = m.threw
  <2> HIDE DEF d
  <2>1. CASE kind = "conn"
    BY <1>2, <1>5, <1>6, <1>7, <1>8, <2>1 DEF CallOutcomes, StoreType, ConnType, SameRest
  <2>2. CASE kind = "ctx"
    BY <1>2, <1>5, <1>6, <1>7, <1>8, <2>2 DEF CallOutcomes, StoreType, CtxType, SameRest
  <2> QED
    BY <2>1, <2>2 DEF Stores
<1>10. ASSUME NEW o \in Objects
       PROVE  n.refs[o] - Count(n.store.chain, o) = m.refs[o] - Count(m.store.chain, o)
  <2>1. Count(d, o) = Count(m.store.chain, o) + Count(p, o)
    BY <1>3, <1>4, CountConcat
  <2>2. Count(m.store.chain, o) \in Nat /\ Count(p, o) \in Nat /\ m.refs[o] \in Int
    BY <1>2, <1>3, <1>4, CountWhere
  <2> HIDE DEF d
  <2>3. n.refs[o] = m.refs[o] + Count(p, o) /\ Count(n.store.chain, o) = Count(d, o)
    BY <1>7, <1>9
  <2> QED
    BY <2>1, <2>2, <2>3
<1>11. Balanced(kind, m, n)
    BY <1>9, <1>10, BalancedChain
<1> QED
    BY <1>4, <1>9, <1>11

\* SSL_add0_chain_cert, up to the certificate that fails: those appended are owned by the
\* chain, the refused one is freed.
LEMMA Add0ChainBalanced ==
    ASSUME NEW kind \in Stores, NEW m \in CallOutcomes(kind), NEW s \in Seq(Certs),
           NEW n \in Add0Chain(m, s)
    PROVE  Balanced(kind, m, n)
<1> DEFINE read(z) == SubSeq(s, 1, IF z = Len(s) THEN z ELSE z + 1)
<1>1. PICK z \in 0..Len(s) :
        n = [m EXCEPT !.refs = Down(Up(@, read(z)), From(read(z), z + 1)),
                      !.store.chain = @ \o SubSeq(s, 1, z), !.ok = z = Len(s)]
    BY DEF Add0Chain
<1>2. /\ m.refs \in [Objects -> Int] /\ m.store \in StoreType(kind)
    BY DEF CallOutcomes
<1>3. m.store.chain \in Seq(Certs)
    BY <1>2 DEF StoreType, ConnType, CtxType
<1> DEFINE R == read(z)
           p == SubSeq(s, 1, z)
           f == From(R, z + 1)
           r == Down(Up(m.refs, R), f)
           d == m.store.chain \o p
           ok == z = Len(s)
<1>4. R \in Seq(Certs) /\ z \in 0..Len(R) /\ SubSeq(R, 1, z) = p /\ p \in Seq(Certs)
  <2> DEFINE y == IF z = Len(s) THEN z ELSE z + 1
             u == SubSeq(R, 1, z)
  <2>1. y \in 0..Len(s) /\ z <= y /\ y \in Nat /\ z \in Nat /\ R = SubSeq(s, 1, y)
    OBVIOUS
  <2> HIDE DEF y, R
  <2>2. R \in Seq(Certs) /\ Len(R) = y /\ \A q \in 1..y : R[q] = s[q]
    BY <2>1
  <2>3. p \in Seq(Certs) /\ Len(p) = z /\ \A q \in 1..z : p[q] = s[q]
    OBVIOUS
  <2>4. u \in Seq(Certs) /\ Len(u) = z /\ \A q \in 1..z : u[q] = R[q]
    BY <2>1, <2>2
  <2> HIDE DEF u, p
  <2>5. u = p
    BY <2>1, <2>2, <2>3, <2>4, SeqEqual
  <2> QED
    BY <2>1, <2>2, <2>3, <2>5 DEF u
<1>5. n = [m EXCEPT !.refs = r, !.store.chain = d, !.ok = ok]
    BY <1>1
<1>6. ok \in BOOLEAN
    OBVIOUS
<1> HIDE DEF R, ok
<1>7. ASSUME NEW o PROVE f \in Seq(Certs) /\ Count(R, o) = Count(p, o) + Count(f, o)
  <2>1. /\ From(R, z + 1) \in Seq(Certs)
        /\ Count(R, o) = Count(SubSeq(R, 1, z), o) + Count(From(R, z + 1), o)
    BY <1>4, CountSplit, Zenon
  <2> QED
    BY <1>4, <2>1
<1> HIDE DEF p, f
<1>8. r \in [Objects -> Int] /\ \A o \in Objects : r[o] = m.refs[o] + Count(R, o) - Count(f, o)
  <2>1. R \in Seq(Objects) /\ f \in Seq(Objects)
    BY <1>4, <1>7, SeqOfObjects
  <2> QED
    BY <1>2, <2>1, UpThenDown
<1>9. d \in Seq(Certs)
    BY <1>3, <1>4, ConcatProperties
<1> HIDE DEF r
<1>10. /\ n \in CallOutcomes(kind) /\ SameRest(kind, m.store, n.store) /\ n.refs = r /\ n.ok = ok
      /\ n.store.cert = m.store.cert /\ n.store.key = m.store.key
      /\ n.store.aside = m.store.aside /\ n.store.type = m.store.type
      /\ n.store.chain = d /\ n.threw = m.threw
  <2> HIDE DEF d
  <2>1. CASE kind = "conn"
    BY <1>2, <1>5, <1>6, <1>8, <1>9, <2>1 DEF CallOutcomes, StoreType, ConnType, SameRest
  <2>2. CASE kind = "ctx"
    BY <1>2, <1>5, <1>6, <1>8, <1>9, <2>2 DEF CallOutcomes, StoreType, CtxType, SameRest
  <2> QED
    BY <2>1, <2>2 DEF Stores
<1>11. ASSUME NEW o \in Objects
       PROVE  n.refs[o] - Count(n.store.chain, o) = m.refs[o] - Count(m.store.chain, o)
  <2>1. Count(d, o) = Count(m.store.chain, o) + Count(p, o)
    BY <1>3, <1>4, CountConcat
  <2>2. Count(m.store.chain, o) \in Nat /\ Count(p, o) \in Nat /\ m.refs[o] \in Int
    BY <1>2, <1>3, <1>4, CountWhere
  <2>3. Count(f, o) \in Nat /\ Count(R, o) = Count(p, o) + Count(f, o)
    BY <1>7, CountWhere
  <2> HIDE DEF d
  <2>4. n.refs[o] = m.refs[o] + Count(R, o) - Count(f, o) /\ Count(n.store.chain, o) = Count(d, o)
    BY <1>8, <1>10
  <2> QED
    BY <2>1, <2>2, <2>3, <2>4
<1> QED
    BY <1>10, <1>11, BalancedChain

\* A chain is its first certificate and the rest.
LEMMA FirstAndRest ==
    ASSUME NEW S, NEW s \in Seq(S), s # None
    PROVE  /\ s[1] \in S /\ <<s[1]>> \in Seq(S) /\ From(s, 2) \in Seq(S)
           /\ <<s[1]>> \o From(s, 2) = s
           /\ \A o : Count(s, o) = Count(<<s[1]>>, o) + Count(From(s, 2), o)
<1>1. 1 \in 0..Len(s) /\ s[1] \in S /\ 1 + 1 = 2
    BY DEF None
<1>2. SubSeq(s, 1, 1) = <<s[1]>>
  <2> DEFINE u == SubSeq(s, 1, 1)
             v == <<s[1]>>
  <2>1. u \in Seq(S) /\ Len(u) = 1 /\ u[1] = s[1]
    BY <1>1
  <2>2. v \in Seq(S) /\ Len(v) = 1 /\ v[1] = s[1]
    BY <1>1
  <2> HIDE DEF u, v
  <2>3. u = v
    BY <2>1, <2>2, SeqEqual
  <2> QED
    BY <2>3 DEF u, v
<1>3. ASSUME NEW o
      PROVE  /\ From(s, 2) \in Seq(S) /\ s = <<s[1]>> \o From(s, 2)
             /\ Count(s, o) = Count(<<s[1]>>, o) + Count(From(s, 2), o)
  <2>1. /\ From(s, 1 + 1) \in Seq(S) /\ s = SubSeq(s, 1, 1) \o From(s, 1 + 1)
        /\ Count(s, o) = Count(SubSeq(s, 1, 1), o) + Count(From(s, 1 + 1), o)
    BY <1>1, CountSplit, Zenon
  <2> QED
    BY <1>1, <1>2, <2>1
<1> QED
    BY <1>1, <1>3

\* The store presents the chain s with the key k.
Presents(store, s, k) == store.cert \o store.chain = s /\ store.key = k

\* SSL_set_chain_and_key replaces everything or nothing; when it succeeds, the chain and
\* the key are those given.
LEMMA SetChainAndKeyBalanced ==
    ASSUME NEW kind \in Stores, NEW m \in CallOutcomes(kind), NEW s \in Seq(Certs), NEW k \in Seq(Keys),
           NEW n \in SetChainAndKey(m, s, k)
    PROVE  /\ Balanced(kind, m, n)
           /\ n.ok => Presents(n.store, s, k) /\ n.store.aside = m.store.aside
                      /\ n.store.type = m.store.type /\ Agree(n.store.cert, n.store.key)
<1>1. CASE n = Failed(m)
    BY <1>1, BalancedFailed
<1> DEFINE new == s \o k
           old == m.store.cert \o m.store.chain \o m.store.key
           r == Down(Up(m.refs, new), old)
           a == <<s[1]>>
           d == From(s, 2)
<1>2. CASE /\ s # None /\ Agree(s, k)
           /\ n = [m EXCEPT !.refs = r, !.store.cert = a, !.store.chain = d, !.store.key = k]
  <2>1. m.refs \in [Objects -> Int] /\ m.store \in StoreType(kind)
    BY DEF CallOutcomes
  <2>2. /\ a \in Seq(Certs) /\ d \in Seq(Certs) /\ a \o d = s
        /\ \A o : Count(s, o) = Count(a, o) + Count(d, o)
    BY <1>2, FirstAndRest
  <2>3. /\ m.store.cert \in Seq(Objects) /\ m.store.key \in Seq(Objects) /\ m.store.chain \in Seq(Objects)
    <3>1. m.store.cert \in Seq(Certs) /\ m.store.key \in Seq(Keys) /\ m.store.chain \in Seq(Certs)
      BY <2>1 DEF StoreType, ConnType, CtxType
    <3> QED
      BY <3>1, SeqOfObjects
  <2>4. s \in Seq(Objects) /\ k \in Seq(Objects)
    BY SeqOfObjects
  <2>5. /\ new \in Seq(Objects) /\ old \in Seq(Objects)
        /\ \A o \in Objects : Count(new, o) = Count(s, o) + Count(k, o)
        /\ \A o \in Objects : Count(old, o) = Count(m.store.cert, o) + Count(m.store.chain, o)
                                              + Count(m.store.key, o)
    <3>1. m.store.cert \o m.store.chain \in Seq(Objects)
      BY <2>3, CountObjects
    <3>2. new \in Seq(Objects) /\ old \in Seq(Objects)
      BY <2>3, <2>4, <3>1, CountObjects
    <3>3. ASSUME NEW o \in Objects
          PROVE  /\ Count(new, o) = Count(s, o) + Count(k, o)
                 /\ Count(old, o) = Count(m.store.cert, o) + Count(m.store.chain, o)
                                    + Count(m.store.key, o)
      <4>1. Count(new, o) = Count(s, o) + Count(k, o)
        BY <2>4, CountObjects
      <4>2. Count(m.store.cert \o m.store.chain, o) = Count(m.store.cert, o) + Count(m.store.chain, o)
        BY <2>3, CountObjects
      <4>3. Count(old, o) = Count(m.store.cert \o m.store.chain, o) + Count(m.store.key, o)
        BY <2>3, <3>1, CountObjects
      <4> QED
        BY <4>1, <4>2, <4>3
    <3> QED
      BY <3>2, <3>3
  <2> HIDE DEF new, old, a, d
  <2>6. r \in [Objects -> Int]
    BY <2>1, <2>5, UpThenDown
  <2> HIDE DEF r
  <2>7. /\ n \in CallOutcomes(kind) /\ SameRest(kind, m.store, n.store)
        /\ n.refs = r /\ n.store.cert = a /\ n.store.key = k /\ n.store.chain = d
        /\ n.store.aside = m.store.aside /\ n.store.type = m.store.type
    <3>2. CASE kind = "conn"
      BY <1>2, <2>1, <2>2, <2>6, <3>2 DEF CallOutcomes, StoreType, ConnType, SameRest
    <3>3. CASE kind = "ctx"
      BY <1>2, <2>1, <2>2, <2>6, <3>3 DEF CallOutcomes, StoreType, CtxType, SameRest
    <3> QED
      BY <3>2, <3>3 DEF Stores
  <2>8. ASSUME NEW o \in Objects
        PROVE  Current(n.store, o) + Count(old, o) = Current(m.store, o) + Count(new, o)
    <3>1. /\ Count(m.store.cert, o) \in Nat /\ Count(m.store.key, o) \in Nat
          /\ Count(m.store.chain, o) \in Nat /\ Count(a, o) \in Nat /\ Count(d, o) \in Nat
          /\ Count(k, o) \in Nat
      BY <2>2, <2>3, <2>4, SeqOfObjects, CountObjects
    <3>2. /\ Current(n.store, o) = Count(a, o) + Count(k, o) + Count(d, o)
          /\ Current(m.store, o) = Count(m.store.cert, o) + Count(m.store.key, o) + Count(m.store.chain, o)
      BY <2>7 DEF Current
    <3> QED
      BY <2>2, <2>5, <3>1, <3>2
  <2>9. Balanced(kind, m, n)
    BY <2>5, <2>7, <2>8, BalancedByCounts DEF r
  <2>10. Agree(a, k)
    BY <1>2 DEF Agree, a, None
  <2> QED
    BY <2>2, <2>7, <2>9, <2>10 DEF Presents
<1> QED
    BY <1>1, <1>2 DEF SetChainAndKey

\* An optional object is a sequence of at most one.
LEMMA OptionalType ==
    ASSUME NEW S, NEW T, S \subseteq T, NEW x \in Optional(S)
    PROVE  x \in Seq(T) /\ (x # None => x[1] \in T /\ x = <<x[1]>>)
<1>1. CASE x = None
    BY <1>1 DEF None
<1>2. ASSUME NEW y \in S, x = <<y>> PROVE x \in Seq(T) /\ x[1] \in T /\ x = <<x[1]>>
  <2>1. y \in T
    OBVIOUS
  <2>2. x[1] = y
    BY <1>2
  <2>3. <<y>> \in Seq(T)
    BY <2>1
  <2> QED
    BY <1>2, <2>1, <2>2, <2>3
<1> QED
    BY <1>1, <1>2 DEF Optional

\* Doing nothing is balanced.
LEMMA BalancedReflexive ==
    ASSUME NEW kind \in Stores, NEW m \in CallOutcomes(kind)
    PROVE  Balanced(kind, m, m)
BY BalancedSame

\* Reading a pair, using it and freeing it is balanced on every path.
LEMMA UsePairBalanced ==
    ASSUME NEW kind \in Stores, NEW m \in CallOutcomes(kind),
           NEW c \in Seq(Certs), c # None => c[1] \in Certs,
           NEW k \in Seq(Keys), k # None => k[1] \in Keys,
           NEW n \in UsePair(m, c, k)
    PROVE  Balanced(kind, m, n)
<1> DEFINE loaded    == [m EXCEPT !.refs = Up(@, c \o k)]
           certified == IF c = None THEN {Failed(loaded)} ELSE UseCertificate(loaded, c[1])
           keyed     == Then(certified, LAMBDA x : IF k = None THEN {Failed(x)}
                                                   ELSE UsePrivateKey(x, k[1]))
<1>1. PICK x \in Then(keyed, CheckPrivateKey) : n = [x EXCEPT !.refs = Down(@, c \o k)]
    BY DEF UsePair
<1>2. c \o k \in Seq(Objects)
    BY SeqOfObjects, CountObjects
<1>3. m.refs \in [Objects -> Int] /\ m.store \in StoreType(kind) /\ m.ok \in BOOLEAN
    BY DEF CallOutcomes
<1>4. /\ Up(m.refs, c \o k) \in [Objects -> Int]
      /\ \A o \in Objects : Up(m.refs, c \o k)[o] = m.refs[o] + Count(c \o k, o)
    BY <1>2, <1>3, UpDown
<1>5. loaded \in CallOutcomes(kind) /\ loaded.refs = Up(m.refs, c \o k) /\ loaded.store = m.store
    BY <1>4 DEF CallOutcomes
<1> HIDE DEF loaded
<1>6. \A y \in certified : Balanced(kind, loaded, y)
    BY <1>5, BalancedFailed, UseCertificateBalanced
<1> HIDE DEF certified
<1>7. ASSUME NEW y \in keyed PROVE Balanced(kind, loaded, y)
  <2>1. PICK z \in certified : IF z.ok THEN y \in (IF k = None THEN {Failed(z)} ELSE UsePrivateKey(z, k[1]))
                                       ELSE y = z
    BY <1>7 DEF Then
  <2>2. Balanced(kind, loaded, z) /\ z \in CallOutcomes(kind)
    BY <1>6, <2>1 DEF Balanced
  <2>3. Balanced(kind, z, y)
    BY <2>1, <2>2, BalancedFailed, BalancedReflexive, UsePrivateKeyBalanced
  <2> QED
    BY <1>5, <2>2, <2>3, BalancedTransitive
<1> HIDE DEF keyed
<1>8. Balanced(kind, loaded, x)
  <2>1. PICK z \in keyed : IF z.ok THEN x \in CheckPrivateKey(z) ELSE x = z
    BY <1>1 DEF Then
  <2>2. Balanced(kind, loaded, z) /\ z \in CallOutcomes(kind)
    BY <1>7, <2>1 DEF Balanced
  <2>3. Balanced(kind, z, x)
    BY <2>1, <2>2, BalancedReflexive, CheckPrivateKeyBalanced
  <2> QED
    BY <1>5, <2>2, <2>3, BalancedTransitive
<1>9. x \in CallOutcomes(kind) /\ x.refs \in [Objects -> Int] /\ x.store \in StoreType(kind)
    BY <1>8 DEF Balanced, CallOutcomes
<1>10. /\ Down(x.refs, c \o k) \in [Objects -> Int]
       /\ \A o \in Objects : Down(x.refs, c \o k)[o] = x.refs[o] - Count(c \o k, o)
    BY <1>2, <1>9, UpDown
<1>11. n \in CallOutcomes(kind) /\ n.refs = Down(x.refs, c \o k) /\ n.store = x.store
    BY <1>1, <1>9, <1>10 DEF CallOutcomes
<1>12. ASSUME NEW o \in Objects
       PROVE  n.refs[o] - SlotCount(n.store, o) = m.refs[o] - SlotCount(m.store, o)
  <2> DEFINE w == Count(c \o k, o)
             p == SlotCount(x.store, o)
             q == SlotCount(m.store, o)
             a == x.refs[o]
             b == m.refs[o]
  <2>1. n.refs[o] = a - w /\ SlotCount(n.store, o) = p
    BY <1>10, <1>11
  <2>2. loaded.refs[o] = b + w /\ SlotCount(loaded.store, o) = q
    BY <1>4, <1>5
  <2>3. a - p = loaded.refs[o] - SlotCount(loaded.store, o)
    BY <1>8 DEF Balanced
  <2>4. w \in Nat /\ p \in Nat /\ q \in Nat
    BY <1>2, <1>3, <1>9, CountObjects, SlotsNat
  <2>5. a \in Int /\ b \in Int
    BY <1>3, <1>9
  <2>6. a - p = (b + w) - q
    BY <2>2, <2>3
  <2> HIDE DEF w, p, q, a, b
  <2>7. (a - w) - p = b - q
    BY <2>4, <2>5, <2>6
  <2> QED
    BY <2>1, <2>7 DEF b, q
<1>13. SameRest(kind, m.store, n.store)
    BY <1>5, <1>8, <1>11 DEF Balanced
<1> QED
    BY <1>11, <1>12, <1>13 DEF Balanced

\* The certificate stays where it was put when the calls that follow change neither it, nor
\* the current type, nor what was put aside, and leave a key that belongs to it.
LEMMA PlacedKept ==
    ASSUME NEW s, NEW t, NEW u, NEW c, Placed(s, t, c),
           u.cert = t.cert, u.type = t.type, u.aside = t.aside, Agree(<<c>>, u.key)
    PROVE  Placed(s, u, c)
BY DEF Placed, Aside

\* A key that belongs to a chain is of the type of its first certificate.
LEMMA SameType ==
    ASSUME program \in Programs, NEW s \in Seq(Certs), s # None, NEW k \in Keys, Agree(s, <<k>>)
    PROVE  TypeOf(s[1]) = TypeOf(k) /\ Agree(<<s[1]>>, <<k>>)
<1>1. <<k>> # None /\ <<k>>[1] = k
    BY DEF None
<1>2. <<s[1], k>> \in Fits
    BY <1>1 DEF Agree
<1> DEFINE f == <<s[1], k>>
<1>3. f \in Fits /\ f[1] = s[1] /\ f[2] = k
    BY <1>2
<1> HIDE DEF f
<1>4. s[1] \in program.ec <=> k \in program.ec
    BY <1>3, FitsAssumption
<1> QED
    BY <1>2, <1>4 DEF TypeOf, Agree, None

\* setKeyMaterial with OpenSSL is balanced whichever of its calls fails, and when it
\* succeeds with a key that belongs to the chain the slots of its type have the chain and
\* the key that were given.
LEMMA OpenSSLBalanced ==
    ASSUME program \in Programs, NEW s \in Seq(Certs), NEW k \in Seq(Keys),
           k # None => k[1] \in Keys /\ k = <<k[1]>>,
           On(conn) \in CallOutcomes("conn"), NEW n \in setKeyMaterialOpenSSL(s, k)
    PROVE  /\ Balanced("conn", On(conn), n)
           /\ Succeeded(n) /\ Agree(s, k) =>
                 /\ s # None /\ Placed(conn, n.store, s[1])
                 /\ n.store.chain = From(s, 2)
                 /\ k # None => n.store.key = k
<1> DEFINE start     == On(conn)
           certified == IF s = None THEN {Failed(start)} ELSE UseCertificate(start, s[1])
           goesOn    == {[m EXCEPT !.ok = TRUE, !.threw = ~m.ok] : m \in certified}
           used      == Then(goesOn, LAMBDA m : UsePrivateKey(m, k[1]))
           keyed     == IF k = None THEN goesOn ELSE Then(used, CheckPrivateKey)
           cleared   == Then(keyed, ClearChain)
           B(m) == Balanced("conn", start, m) /\ m \in CallOutcomes("conn")
           C(m) == s # None /\ Placed(conn, m.store, s[1])
           K(m) == Agree(s, k) /\ ~m.threw => C(m) /\ (k # None => m.store.key = k)
<1>0. "conn" \in Stores /\ start \in CallOutcomes("conn") /\ start.ok /\ start.store = conn
    BY DEF Stores, On
<1>1. n \in Then(cleared, LAMBDA m : Add1Chain(m, From(s, 2)))
    BY DEF setKeyMaterialOpenSSL
<1>a. s # None => s[1] \in Certs /\ <<s[1]>> \o From(s, 2) = s
    BY FirstAndRest
<1>b. From(s, 2) \in Seq(Certs)
  <2>1. CASE s # None
    BY <2>1, FirstAndRest
  <2>2. CASE s = None
    BY <2>2 DEF None, From
  <2> QED
    BY <2>1, <2>2
<1> HIDE DEF start
<1>2. ASSUME NEW m \in certified
      PROVE  B(m) /\ (m.ok => C(m))
  <2>1. CASE s = None
    BY <1>0, <2>1, BalancedFailed DEF Balanced
  <2>2. CASE s # None
    <3>1. m \in UseCertificate(start, s[1])
      BY <2>2
    <3>2. /\ Balanced("conn", start, m)
          /\ m.ok => Placed(start.store, m.store, s[1])
      BY <1>0, <1>a, <2>2, <3>1, UseCertificateBalanced
    <3> QED
      BY <1>0, <2>2, <3>2 DEF Balanced
  <2> QED
    BY <2>1, <2>2
<1> HIDE DEF certified
<1>3. ASSUME NEW m \in goesOn PROVE B(m) /\ (~m.threw => C(m))
  <2>1. PICK x \in certified : m = [x EXCEPT !.ok = TRUE, !.threw = ~x.ok]
    OBVIOUS
  <2>2. B(x) /\ (x.ok => C(x))
    BY <1>2
  <2>3. m \in CallOutcomes("conn") /\ m.refs = x.refs /\ m.store = x.store /\ m.threw = ~x.ok
    BY <2>1, <2>2 DEF CallOutcomes
  <2>4. Balanced("conn", x, m)
    BY <1>0, <2>2, <2>3, BalancedSame
  <2>5. Balanced("conn", start, m)
    BY <1>0, <2>2, <2>4, BalancedTransitive
  <2> QED
    BY <2>2, <2>3, <2>5
<1> HIDE DEF goesOn
<1>4. ASSUME NEW m \in used, k # None
      PROVE  B(m) /\ (m.ok => K(m))
  <2>1. PICK x \in goesOn : IF x.ok THEN m \in UsePrivateKey(x, k[1]) ELSE m = x
    BY DEF Then
  <2>2. B(x) /\ (~x.threw => C(x))
    BY <1>3
  <2>3. CASE x.ok
    <3>1. /\ Balanced("conn", x, m) /\ m.threw = x.threw
          /\ m.ok /\ x.store.type = TypeOf(k[1]) =>
                /\ m.store.cert = x.store.cert /\ m.store.key = <<k[1]>>
                /\ m.store.aside = x.store.aside /\ m.store.type = x.store.type
      BY <1>0, <1>4, <2>1, <2>2, <2>3, UsePrivateKeyBalanced
    <3>2. Balanced("conn", start, m)
      BY <1>0, <2>2, <3>1, BalancedTransitive
    <3>3. ASSUME m.ok, Agree(s, k), ~m.threw PROVE C(m) /\ m.store.key = k
      <4>1. C(x)
        BY <2>2, <3>1, <3>3
      <4>2. TypeOf(s[1]) = TypeOf(k[1]) /\ Agree(<<s[1]>>, k)
        BY <1>4, <3>3, <4>1, SameType
      <4>3. x.store.type = TypeOf(s[1])
        BY <4>1 DEF Placed
      <4>4. /\ m.store.cert = x.store.cert /\ m.store.key = k
            /\ m.store.aside = x.store.aside /\ m.store.type = x.store.type
        BY <1>4, <3>1, <3>3, <4>2, <4>3
      <4>5. Placed(conn, m.store, s[1])
        BY <4>1, <4>2, <4>4, PlacedKept
      <4> QED
        BY <4>1, <4>4, <4>5
    <3> QED
      BY <3>1, <3>2, <3>3 DEF Balanced
  <2>4. CASE ~x.ok
    BY <2>1, <2>2, <2>4
  <2> QED
    BY <2>3, <2>4
<1> HIDE DEF used
<1>5. ASSUME NEW m \in keyed PROVE B(m) /\ (m.ok => K(m))
  <2>1. CASE k = None
    BY <1>3, <2>1
  <2>2. CASE k # None
    <3>1. PICK x \in used : IF x.ok THEN m \in CheckPrivateKey(x) ELSE m = x
      BY <2>2 DEF Then
    <3>2. B(x) /\ (x.ok => K(x))
      BY <1>4, <2>2
    <3>3. CASE x.ok
      <4>1. Balanced("conn", x, m) /\ m.threw = x.threw /\ m.store = x.store
        BY <1>0, <3>1, <3>2, <3>3, CheckPrivateKeyBalanced
      <4>2. Balanced("conn", start, m)
        BY <1>0, <3>2, <4>1, BalancedTransitive
      <4> QED
        BY <3>2, <3>3, <4>1, <4>2 DEF Balanced
    <3>4. CASE ~x.ok
      BY <3>1, <3>2, <3>4
    <3> QED
      BY <3>3, <3>4
  <2> QED
    BY <2>1, <2>2
<1> HIDE DEF keyed
<1>6. ASSUME NEW m \in cleared
      PROVE  B(m) /\ (m.ok => K(m) /\ m.store.chain = None)
  <2>1. PICK x \in keyed : IF x.ok THEN m \in ClearChain(x) ELSE m = x
    BY DEF Then
  <2>2. B(x) /\ (x.ok => K(x))
    BY <1>5
  <2>3. CASE x.ok
    <3>1. /\ Balanced("conn", x, m) /\ m.threw = x.threw
          /\ m.ok => m.store.cert = x.store.cert /\ m.store.key = x.store.key /\ m.store.chain = None
          /\ m.store.aside = x.store.aside /\ m.store.type = x.store.type
      BY <1>0, <2>1, <2>2, <2>3, ClearChainBalanced
    <3>2. Balanced("conn", start, m)
      BY <1>0, <2>2, <3>1, BalancedTransitive
    <3>3. m.ok /\ C(x) => C(m)
      <4>1. C(x) => Agree(<<s[1]>>, x.store.key)
        BY DEF Placed
      <4> QED
        BY <3>1, <4>1, PlacedKept
    <3> QED
      BY <2>2, <2>3, <3>1, <3>2, <3>3 DEF Balanced
  <2>4. CASE ~x.ok
    BY <2>1, <2>2, <2>4
  <2> QED
    BY <2>3, <2>4
<1> HIDE DEF cleared
<1>7. PICK x \in cleared : IF x.ok THEN n \in Add1Chain(x, From(s, 2)) ELSE n = x
    BY <1>1 DEF Then
<1>8. B(x) /\ (x.ok => K(x) /\ x.store.chain = None)
    BY <1>6
<1>9. CASE x.ok
  <2>1. /\ Balanced("conn", x, n) /\ n.threw = x.threw
        /\ n.store.cert = x.store.cert /\ n.store.key = x.store.key
        /\ n.store.aside = x.store.aside /\ n.store.type = x.store.type
        /\ n.ok => n.store.chain = x.store.chain \o From(s, 2)
    BY <1>0, <1>b, <1>7, <1>8, <1>9, Add1ChainBalanced
  <2>2. Balanced("conn", start, n)
    BY <1>0, <1>8, <2>1, BalancedTransitive
  <2>3. ASSUME Succeeded(n), Agree(s, k)
        PROVE  C(n) /\ n.store.chain = From(s, 2) /\ (k # None => n.store.key = k)
    <3>1. n.store.chain = From(s, 2)
      <4>1. None \o From(s, 2) = From(s, 2)
        BY <1>b, ConcatEmptySeq DEF None
      <4> QED
        BY <1>8, <1>9, <2>1, <2>3, <4>1 DEF Succeeded
    <3>2. C(x) /\ (k # None => x.store.key = k)
      BY <1>8, <1>9, <2>1, <2>3 DEF Succeeded
    <3>3. Agree(<<s[1]>>, x.store.key)
      BY <3>2 DEF Placed
    <3>4. Placed(conn, n.store, s[1])
      BY <2>1, <3>2, <3>3, PlacedKept
    <3> QED
      BY <2>1, <3>1, <3>2, <3>4
  <2> QED
    BY <2>2, <2>3 DEF start
<1>10. CASE ~x.ok
    BY <1>7, <1>8, <1>10 DEF Succeeded, start
<1> QED
    BY <1>9, <1>10

-----------------------------------------------------------------------------
\* What the slots of a connection that no library call changes count for o.
ConnRest(s, o) == Count(s.outCert, o) + Count(s.outKey, o) + Count(s.creds, o)

\* The references in the slots of both types of keys.
LEMMA SlotsSum ==
    ASSUME NEW kind \in Stores, NEW s \in StoreType(kind), NEW o \in Objects
    PROVE  /\ Slots(s) \in Seq(Objects) /\ Count(Slots(s), o) = SlotCount(s, o)
           /\ SlotCount(s, o) \in Nat
<1> DEFINE a == s.cert
           b == s.key
           c == s.chain
           d == s.aside.cert
           e == s.aside.key
           f == s.aside.chain
<1>1. a \in Seq(Objects) /\ b \in Seq(Objects) /\ c \in Seq(Objects) /\ s.aside \in SlotType
    BY SlotsType
<1>2. d \in Seq(Objects) /\ e \in Seq(Objects) /\ f \in Seq(Objects)
    BY <1>1, SeqOfObjects DEF SlotType
<1>3. Slots(s) = a \o b \o c \o d \o e \o f
    BY DEF Slots
<1>4. SlotCount(s, o) = (Count(a, o) + Count(b, o) + Count(c, o))
                        + (Count(d, o) + Count(e, o) + Count(f, o))
    BY DEF SlotCount, Current
<1> HIDE DEF a, b, c, d, e, f
<1>5. /\ a \o b \o c \o d \o e \o f \in Seq(Objects)
      /\ Count(a \o b \o c \o d \o e \o f, o)
           = Count(a, o) + Count(b, o) + Count(c, o) + Count(d, o) + Count(e, o) + Count(f, o)
  <2> DEFINE ab == a \o b
             abc == ab \o c
             abcd == abc \o d
             abcde == abcd \o e
             all == abcde \o f
  <2>1. ab \in Seq(Objects) /\ Count(ab, o) = Count(a, o) + Count(b, o)
    BY <1>1, CountObjects
  <2> HIDE DEF ab
  <2>2. abc \in Seq(Objects) /\ Count(abc, o) = Count(ab, o) + Count(c, o)
    BY <1>1, <2>1, CountObjects
  <2> HIDE DEF abc
  <2>3. abcd \in Seq(Objects) /\ Count(abcd, o) = Count(abc, o) + Count(d, o)
    BY <1>2, <2>2, CountObjects
  <2> HIDE DEF abcd
  <2>4. abcde \in Seq(Objects) /\ Count(abcde, o) = Count(abcd, o) + Count(e, o)
    BY <1>2, <2>3, CountObjects
  <2> HIDE DEF abcde
  <2>5. all \in Seq(Objects) /\ Count(all, o) = Count(abcde, o) + Count(f, o)
    BY <1>2, <2>4, CountObjects
  <2> HIDE DEF all
  <2>6. Count(all, o) = Count(a, o) + Count(b, o) + Count(c, o) + Count(d, o) + Count(e, o) + Count(f, o)
    BY <2>1, <2>2, <2>3, <2>4, <2>5
  <2>7. a \o b \o c \o d \o e \o f = all
    BY DEF all, abcde, abcd, abc, ab
  <2> QED
    BY <2>5, <2>6, <2>7, Zenon
<1>6. /\ Count(a, o) \in Nat /\ Count(b, o) \in Nat /\ Count(c, o) \in Nat
      /\ Count(d, o) \in Nat /\ Count(e, o) \in Nat /\ Count(f, o) \in Nat
    BY <1>1, <1>2, CountObjects
<1>7. Count(a, o) + Count(b, o) + Count(c, o) + Count(d, o) + Count(e, o) + Count(f, o)
        = (Count(a, o) + Count(b, o) + Count(c, o)) + (Count(d, o) + Count(e, o) + Count(f, o))
  <2> DEFINE i == Count(a, o)
             j == Count(b, o)
             k == Count(c, o)
             l == Count(d, o)
             m == Count(e, o)
             n == Count(f, o)
  <2>1. i \in Nat /\ j \in Nat /\ k \in Nat /\ l \in Nat /\ m \in Nat /\ n \in Nat
    BY <1>6
  <2> HIDE DEF i, j, k, l, m, n
  <2>2. i + j + k + l + m + n = (i + j + k) + (l + m + n)
    BY <2>1
  <2> QED
    BY <2>2 DEF i, j, k, l, m, n
<1>8. Count(Slots(s), o) = SlotCount(s, o)
    BY <1>3, <1>4, <1>5, <1>7, Zenon
<1>9. Slots(s) \in Seq(Objects)
    BY <1>3, <1>5, Zenon
<1> QED
    BY <1>8, <1>9, SlotsNat

\* The references of a connection, slot by slot.
LEMMA ConnSum ==
    ASSUME NEW s \in ConnType, NEW o \in Objects
    PROVE  /\ Count(Slots(s) \o s.outCert \o s.outKey \o s.creds, o)
                = SlotCount(s, o) + ConnRest(s, o)
           /\ SlotCount(s, o) \in Nat /\ ConnRest(s, o) \in Nat
           /\ Count(s.outCert, o) \in Nat /\ Count(s.outKey, o) \in Nat /\ Count(s.creds, o) \in Nat
<1> DEFINE a == Slots(s)
           d == s.outCert
           e == s.outKey
           f == s.creds
<1>1. a \in Seq(Objects) /\ Count(a, o) = SlotCount(s, o) /\ SlotCount(s, o) \in Nat
  <2>1. "conn" \in Stores /\ s \in StoreType("conn")
    BY DEF Stores, StoreType
  <2> QED
    BY <2>1, SlotsSum
<1>2. d \in Seq(Objects) /\ e \in Seq(Objects) /\ f \in Seq(Objects)
    BY SeqOfObjects DEF ConnType
<1>3. ConnRest(s, o) = Count(d, o) + Count(e, o) + Count(f, o)
    BY DEF ConnRest
<1> HIDE DEF a, d, e, f
<1>4. Count(a \o d \o e \o f, o) = Count(a, o) + Count(d, o) + Count(e, o) + Count(f, o)
  <2> DEFINE ad == a \o d
             ade == ad \o e
  <2>1. ad \in Seq(Objects) /\ Count(ad, o) = Count(a, o) + Count(d, o)
    BY <1>1, <1>2, CountObjects
  <2> HIDE DEF ad
  <2>2. ade \in Seq(Objects) /\ Count(ade, o) = Count(ad, o) + Count(e, o)
    BY <1>2, <2>1, CountObjects
  <2> HIDE DEF ade
  <2>3. Count(ade \o f, o) = Count(ade, o) + Count(f, o)
    BY <1>2, <2>2, CountObjects
  <2> QED
    BY <2>1, <2>2, <2>3 DEF ad, ade
<1>5. Count(d, o) \in Nat /\ Count(e, o) \in Nat /\ Count(f, o) \in Nat
    BY <1>2, CountObjects
<1>6. /\ Count(a \o d \o e \o f, o) = SlotCount(s, o) + ConnRest(s, o)
      /\ ConnRest(s, o) \in Nat
    BY <1>1, <1>3, <1>4, <1>5
<1> QED
    BY <1>1, <1>5, <1>6 DEF a, d, e, f

\* The references of a context, slot by slot.
LEMMA CtxSum ==
    ASSUME NEW s \in CtxType, NEW o \in Objects
    PROVE  /\ Slots(s) \o s.password \in Seq(Objects)
           /\ Count(Slots(s) \o s.password, o) = SlotCount(s, o) + Count(s.password, o)
           /\ SlotCount(s, o) \in Nat /\ Count(s.password, o) \in Nat
<1>1. Slots(s) \in Seq(Objects) /\ Count(Slots(s), o) = SlotCount(s, o) /\ SlotCount(s, o) \in Nat
  <2>1. "ctx" \in Stores /\ s \in StoreType("ctx")
    BY DEF Stores, StoreType
  <2> QED
    BY <2>1, SlotsSum
<1>2. s.password \in Seq(Objects)
    BY SeqOfObjects DEF CtxType
<1> DEFINE a == Slots(s)
           b == s.password
<1>3. a \in Seq(Objects) /\ b \in Seq(Objects)
    BY <1>1, <1>2
<1> HIDE DEF a, b
<1>4. a \o b \in Seq(Objects) /\ Count(a \o b, o) = Count(a, o) + Count(b, o) /\ Count(b, o) \in Nat
    BY <1>3, CountObjects
<1> QED
    BY <1>1, <1>4 DEF a, b

\* What a credential holds.
CredType == [key : Seq(Keys), chain : Seq(Certs), buffers : SUBSET BufferKinds]

\* The inductive invariant.
MaterialTyped ==
    /\ program \in Programs
    /\ refs \in [Objects -> Int]
    /\ DOMAIN chains \subseteq Handles
    /\ \A h \in DOMAIN chains : chains[h] \in Seq(Certs)
    /\ cut \subseteq DOMAIN chains
    /\ keys \subseteq Keys
    /\ javaCreds \in [Creds -> Nat]
    /\ cred \in [Creds -> CredType]
    /\ conn \in ConnType
    /\ ctx \in CtxType
    /\ accepted \in Seq(Passwords)
    /\ err \in {"none", "eof", "other"}
    /\ result \in {"ok", "failed"}

\* No connection, no slots; the two halves of a pair handed to the library come together.
ConnShape ==
    /\ ~conn.live => conn = NoConn
    /\ conn.outCert = None <=> conn.outKey = None

\* Only finitely many places hold an object, so that they can be counted.
FinitePlaces ==
    \A o \in Objects :
       /\ IsFiniteSet(Places(chains, DOMAIN chains, o))
       /\ IsFiniteSet(Places(CredHolds, Creds, o))
       /\ IsFiniteSet({c \in Creds : o \in cred[c].buffers})

\* The inductive invariant of key material.
MaterialInv == MaterialTyped /\ ConnShape /\ FinitePlaces /\ PasswordAccepted /\ RefsOwned

\* Each holder has some number of references.
LEMMA PartsNat ==
    ASSUME MaterialTyped, FinitePlaces, NEW o \in Objects
    PROVE  /\ HeldByConn(o) \in Nat /\ HeldByCtx(o) \in Nat
           /\ HeldByJava(o) \in Nat /\ HeldByCreds(Creds, o) \in Nat
<1>1. HeldByConn(o) \in Nat
  <2>1. conn \in ConnType
    BY DEF MaterialTyped
  <2>2. HeldByConn(o) = SlotCount(conn, o) + ConnRest(conn, o)
    BY <2>1, ConnSum DEF HeldByConn, ConnHolds
  <2>3. SlotCount(conn, o) \in Nat /\ ConnRest(conn, o) \in Nat
    BY <2>1, ConnSum
  <2> QED
    BY <2>2, <2>3
<1>2. HeldByCtx(o) \in Nat
  <2>1. ctx \in CtxType
    BY DEF MaterialTyped
  <2>2. HeldByCtx(o) = SlotCount(ctx, o) + Count(ctx.password, o)
    BY <2>1, CtxSum DEF HeldByCtx
  <2>3. SlotCount(ctx, o) \in Nat /\ Count(ctx.password, o) \in Nat
    BY <2>1, CtxSum
  <2> QED
    BY <2>2, <2>3
<1>3. HeldByJava(o) \in Nat
  <2>1. Cardinality(Places(chains, DOMAIN chains, o)) \in Nat
    BY FS_CardinalityType DEF FinitePlaces
  <2>2. o \in Creds => javaCreds[o] \in Nat
    BY DEF MaterialTyped
  <2> QED
    BY <2>1, <2>2 DEF HeldByJava
<1>4. HeldByCreds(Creds, o) \in Nat
  <2>1. /\ Cardinality(Places(CredHolds, Creds, o)) \in Nat
        /\ Cardinality({c \in Creds : o \in cred[c].buffers}) \in Nat
    BY FS_CardinalityType DEF FinitePlaces
  <2> QED
    BY <2>1 DEF HeldByCreds
<1> QED
    BY <1>1, <1>2, <1>3, <1>4

\* At the start nobody holds anything.
LEMMA MaterialStart == MaterialInit => MaterialInv
<1> SUFFICES ASSUME MaterialInit PROVE MaterialInv
    OBVIOUS
<1>1. MaterialTyped
  <2>1. None \in Seq(Certs) /\ None \in Seq(Keys) /\ None \in Seq(Creds) /\ None \in Seq(Passwords)
    BY DEF None
  <2>a. Empty \in SlotType /\ "rsa" \in KeyTypes
    BY <2>1 DEF Empty, SlotType, KeyTypes
  <2>2. conn \in ConnType
    BY <2>1, <2>a DEF MaterialInit, NoConn, ConnType
  <2>3. ctx \in CtxType
    BY <2>1, <2>a DEF MaterialInit, NoCtx, CtxType
  <2>4. cred \in [Creds -> CredType]
    BY <2>1 DEF MaterialInit, NoCred, CredType
  <2> QED
    BY <2>1, <2>2, <2>3, <2>4 DEF MaterialInit, MaterialTyped
<1>2. ConnShape /\ PasswordAccepted
    BY DEF MaterialInit, ConnShape, PasswordAccepted, NoConn, NoCtx
<1>3. ASSUME NEW o \in Objects
      PROVE  /\ Places(chains, DOMAIN chains, o) = {}
             /\ Places(CredHolds, Creds, o) = {}
             /\ {c \in Creds : o \in cred[c].buffers} = {}
  <2>1. Places(chains, DOMAIN chains, o) = {}
    BY DEF MaterialInit, Places
  <2>2. \A c \in Creds : CredHolds[c] = << >> \o << >>
    BY DEF MaterialInit, CredHolds, NoCred, None
  <2>3. << >> \o << >> = << >>
    OBVIOUS
  <2>4. \A c \in Creds : DOMAIN CredHolds[c] = {}
    BY <2>2, <2>3
  <2>5. Places(CredHolds, Creds, o) = {}
    BY <2>4 DEF Places
  <2>6. {c \in Creds : o \in cred[c].buffers} = {}
    BY DEF MaterialInit, NoCred
  <2> QED
    BY <2>1, <2>5, <2>6
<1>4. FinitePlaces
    BY <1>3, FS_EmptySet DEF FinitePlaces
<1>5. ASSUME NEW o \in Objects PROVE refs[o] = Owners(o)
  <2>1. HeldByConn(o) = 0
    <3>1. conn \in ConnType /\ conn.cert = None /\ conn.key = None /\ conn.chain = None
          /\ conn.aside = Empty /\ conn.outCert = None /\ conn.outKey = None /\ conn.creds = None
      BY <1>1 DEF MaterialTyped, MaterialInit, NoConn
    <3>2. HeldByConn(o) = SlotCount(conn, o) + ConnRest(conn, o)
      BY <3>1, ConnSum DEF HeldByConn, ConnHolds
    <3> QED
      BY <3>1, <3>2, CountNone DEF SlotCount, Current, Empty, ConnRest
  <2>2. HeldByCtx(o) = 0
    <3>1. ctx \in CtxType /\ ctx.cert = None /\ ctx.key = None /\ ctx.chain = None
          /\ ctx.aside = Empty /\ ctx.password = None
      BY <1>1 DEF MaterialTyped, MaterialInit, NoCtx
    <3>2. HeldByCtx(o) = SlotCount(ctx, o) + Count(ctx.password, o)
      BY <3>1, CtxSum DEF HeldByCtx
    <3> QED
      BY <3>1, <3>2, CountNone DEF SlotCount, Current, Empty
  <2>3. HeldByJava(o) = 0
    <3>1. Cardinality(Places(chains, DOMAIN chains, o)) = 0
      BY <1>3, FS_EmptySet
    <3> QED
      BY <3>1 DEF HeldByJava, MaterialInit
  <2>4. HeldByCreds(Creds, o) = 0
    <3>1. /\ Cardinality(Places(CredHolds, Creds, o)) = 0
          /\ Cardinality({c \in Creds : o \in cred[c].buffers}) = 0
      BY <1>3, FS_EmptySet
    <3> QED
      BY <3>1 DEF HeldByCreds
  <2>5. refs[o] = 0
    BY DEF MaterialInit
  <2> QED
    BY <2>1, <2>2, <2>3, <2>4, <2>5 DEF Owners
<1> QED
    BY <1>1, <1>2, <1>4, <1>5 DEF MaterialInv, RefsOwned

\* PartsNat as a state formula, to be used of the next state too.
PartsTyped ==
    MaterialTyped /\ FinitePlaces => \A o \in Objects :
        /\ HeldByConn(o) \in Nat /\ HeldByCtx(o) \in Nat
        /\ HeldByJava(o) \in Nat /\ HeldByCreds(Creds, o) \in Nat

\* It holds in every state.
LEMMA PartsAlways == PartsTyped
BY PartsNat DEF PartsTyped

\* What the count of o has more than it has holders.
Owed(o) == refs[o] - HeldByConn(o) - HeldByCtx(o) - HeldByJava(o) - HeldByCreds(Creds, o)

\* In a state of the invariant no object is owed anything.
LEMMA OwedNothing ==
    ASSUME MaterialInv, NEW o \in Objects
    PROVE  Owed(o) = 0
<1> DEFINE a == HeldByConn(o)
           b == HeldByCtx(o)
           c == HeldByJava(o)
           d == HeldByCreds(Creds, o)
<1>1. a \in Nat /\ b \in Nat /\ c \in Nat /\ d \in Nat
    BY PartsNat DEF MaterialInv
<1>2. refs[o] = a + b + c + d
    BY DEF MaterialInv, RefsOwned, Owners
<1> HIDE DEF a, b, c, d
<1>3. refs[o] - a - b - c - d = 0
    BY <1>1, <1>2
<1> QED
    BY <1>3 DEF Owed, a, b, c, d

\* A step that keeps what every object is owed keeps every reference owned.
LEMMA OwnedStep ==
    ASSUME MaterialInv, MaterialTyped', ConnShape', FinitePlaces', PasswordAccepted',
           \A o \in Objects : Owed(o)' = Owed(o)
    PROVE  MaterialInv'
<1>1. PartsTyped'
    BY PartsAlways, PTL
<1>2. ASSUME NEW o \in Objects PROVE refs'[o] = Owners(o)'
  <2> DEFINE a == HeldByConn(o)'
             b == HeldByCtx(o)'
             c == HeldByJava(o)'
             d == HeldByCreds(Creds, o)'
             r == refs'[o]
  <2>1. a \in Nat /\ b \in Nat /\ c \in Nat /\ d \in Nat
    BY <1>1 DEF PartsTyped
  <2>2. Owed(o)' = 0
    BY OwedNothing
  <2>3. r - a - b - c - d = 0
    BY <2>2 DEF Owed
  <2>4. r \in Int
    BY DEF MaterialTyped
  <2> HIDE DEF a, b, c, d, r
  <2>5. r = a + b + c + d
    BY <2>1, <2>3, <2>4
  <2> QED
    BY <2>5 DEF Owners, a, b, c, d, r
<1> QED
    BY <1>2 DEF MaterialInv, RefsOwned

\* The references of the slots of a connection, all of them.
ConnCount(s, o) == SlotCount(s, o) + ConnRest(s, o)
\* The references of the slots of a context, all of them.
CtxCount(s, o) == SlotCount(s, o) + Count(s.password, o)

\* A call that changes the connection alone.
LEMMA ConnStep ==
    ASSUME MaterialInv, UNCHANGED <<program, javaHeld, cred, ctx, accepted>>,
           refs' \in [Objects -> Int], conn' \in ConnType, ConnShape',
           err' \in {"none", "eof", "other"}, result' \in {"ok", "failed"},
           \A o \in Objects : refs'[o] - ConnCount(conn', o) = refs[o] - ConnCount(conn, o)
    PROVE  MaterialInv'
<1>1. /\ MaterialTyped'
    BY DEF MaterialInv, MaterialTyped, javaHeld
<1>2. FinitePlaces'
    BY DEF MaterialInv, FinitePlaces, CredHolds, javaHeld
<1>3. PasswordAccepted'
    BY DEF MaterialInv, PasswordAccepted
<1>4. ASSUME NEW o \in Objects PROVE Owed(o)' = Owed(o)
  <2> DEFINE a == ConnCount(conn, o)
             z == ConnCount(conn', o)
             b == HeldByCtx(o)
             c == HeldByJava(o)
             d == HeldByCreds(Creds, o)
             r == refs[o]
             t == refs'[o]
  <2>1. HeldByConn(o) = a /\ a \in Nat
    BY ConnSum DEF MaterialInv, MaterialTyped, HeldByConn, ConnHolds, ConnCount
  <2>2. HeldByConn(o)' = z /\ z \in Nat
    BY ConnSum DEF HeldByConn, ConnHolds, ConnCount
  <2>3. HeldByCtx(o)' = b /\ HeldByJava(o)' = c /\ HeldByCreds(Creds, o)' = d
    BY DEF HeldByCtx, HeldByJava, HeldByCreds, CredHolds, javaHeld
  <2>4. b \in Nat /\ c \in Nat /\ d \in Nat
    BY PartsNat DEF MaterialInv
  <2>5. r \in Int /\ t \in Int /\ t - z = r - a
    BY DEF MaterialInv, MaterialTyped
  <2>6. Owed(o) = r - a - b - c - d /\ Owed(o)' = t - z - b - c - d
    BY <2>1, <2>2, <2>3 DEF Owed
  <2> HIDE DEF a, z, b, c, d, r, t
  <2> QED
    BY <2>1, <2>2, <2>4, <2>5, <2>6
<1> QED
    BY <1>1, <1>2, <1>3, <1>4, OwnedStep

\* A call that changes the context alone.
LEMMA CtxStep ==
    ASSUME MaterialInv, UNCHANGED <<program, javaHeld, cred, conn>>,
           refs' \in [Objects -> Int], ctx' \in CtxType, accepted' \in Seq(Passwords),
           PasswordAccepted',
           err' \in {"none", "eof", "other"}, result' \in {"ok", "failed"},
           \A o \in Objects : refs'[o] - CtxCount(ctx', o) = refs[o] - CtxCount(ctx, o)
    PROVE  MaterialInv'
<1>1. /\ MaterialTyped'
    BY DEF MaterialInv, MaterialTyped, javaHeld
<1>2. FinitePlaces'
    BY DEF MaterialInv, FinitePlaces, CredHolds, javaHeld
<1>3. ConnShape'
    BY DEF MaterialInv, ConnShape
<1>4. ASSUME NEW o \in Objects PROVE Owed(o)' = Owed(o)
  <2> DEFINE a == HeldByConn(o)
             b == CtxCount(ctx, o)
             z == CtxCount(ctx', o)
             c == HeldByJava(o)
             d == HeldByCreds(Creds, o)
             r == refs[o]
             t == refs'[o]
  <2>1. HeldByCtx(o) = b /\ b \in Nat
    BY CtxSum DEF MaterialInv, MaterialTyped, HeldByCtx, CtxCount
  <2>2. HeldByCtx(o)' = z /\ z \in Nat
    BY CtxSum DEF HeldByCtx, CtxCount
  <2>3. HeldByConn(o)' = a /\ HeldByJava(o)' = c /\ HeldByCreds(Creds, o)' = d
    BY DEF HeldByConn, ConnHolds, HeldByJava, HeldByCreds, CredHolds, javaHeld
  <2>4. a \in Nat /\ c \in Nat /\ d \in Nat
    BY PartsNat DEF MaterialInv
  <2>5. r \in Int /\ t \in Int /\ t - z = r - b
    BY DEF MaterialInv, MaterialTyped
  <2>6. Owed(o) = r - a - b - c - d /\ Owed(o)' = t - a - z - c - d
    BY <2>1, <2>2, <2>3 DEF Owed
  <2> HIDE DEF a, z, b, c, d, r, t
  <2> QED
    BY <2>1, <2>2, <2>4, <2>5, <2>6
<1> QED
    BY <1>1, <1>2, <1>3, <1>4, OwnedStep

\* A call that changes what Java holds alone.
LEMMA JavaStep ==
    ASSUME MaterialInv, MaterialTyped', UNCHANGED <<cred, conn, ctx, accepted>>,
           \A o \in Objects : /\ IsFiniteSet(Places(chains', DOMAIN chains', o))
                              /\ HeldByJava(o)' \in Nat
                              /\ refs'[o] - HeldByJava(o)' = refs[o] - HeldByJava(o)
    PROVE  MaterialInv'
<1>1. FinitePlaces' /\ ConnShape' /\ PasswordAccepted'
    BY DEF MaterialInv, FinitePlaces, CredHolds, ConnShape, PasswordAccepted
<1>2. ASSUME NEW o \in Objects PROVE Owed(o)' = Owed(o)
  <2> DEFINE a == HeldByConn(o)
             b == HeldByCtx(o)
             c == HeldByJava(o)
             z == HeldByJava(o)'
             d == HeldByCreds(Creds, o)
             r == refs[o]
             t == refs'[o]
  <2>1. HeldByConn(o)' = a /\ HeldByCtx(o)' = b /\ HeldByCreds(Creds, o)' = d
    BY DEF HeldByConn, ConnHolds, HeldByCtx, HeldByCreds, CredHolds
  <2>2. a \in Nat /\ b \in Nat /\ c \in Nat /\ d \in Nat
    BY PartsNat DEF MaterialInv
  <2>3. z \in Nat /\ r \in Int /\ t \in Int /\ t - z = r - c
    BY DEF MaterialInv, MaterialTyped
  <2>4. Owed(o) = r - a - b - c - d /\ Owed(o)' = t - a - b - z - d
    BY <2>1 DEF Owed
  <2> HIDE DEF a, z, b, c, d, r, t
  <2> QED
    BY <2>2, <2>3, <2>4
<1> QED
    BY <1>1, <1>2, OwnedStep

\* A call that changes the contents of credentials alone.
LEMMA CredStep ==
    ASSUME MaterialInv, MaterialTyped', UNCHANGED <<javaHeld, conn, ctx, accepted>>,
           \A o \in Objects :
              /\ IsFiniteSet(Places(CredHolds', Creds, o))
              /\ IsFiniteSet({c \in Creds : o \in cred'[c].buffers})
              /\ HeldByCreds(Creds, o)' \in Nat
              /\ refs'[o] - HeldByCreds(Creds, o)' = refs[o] - HeldByCreds(Creds, o)
    PROVE  MaterialInv'
<1>1. FinitePlaces' /\ ConnShape' /\ PasswordAccepted'
    BY DEF MaterialInv, FinitePlaces, ConnShape, PasswordAccepted, javaHeld
<1>2. ASSUME NEW o \in Objects PROVE Owed(o)' = Owed(o)
  <2> DEFINE a == HeldByConn(o)
             b == HeldByCtx(o)
             c == HeldByJava(o)
             d == HeldByCreds(Creds, o)
             z == HeldByCreds(Creds, o)'
             r == refs[o]
             t == refs'[o]
  <2>1. HeldByConn(o)' = a /\ HeldByCtx(o)' = b /\ HeldByJava(o)' = c
    BY DEF HeldByConn, ConnHolds, HeldByCtx, HeldByJava, javaHeld
  <2>2. a \in Nat /\ b \in Nat /\ c \in Nat /\ d \in Nat
    BY PartsNat DEF MaterialInv
  <2>3. z \in Nat /\ r \in Int /\ t \in Int /\ t - z = r - d
    BY DEF MaterialInv, MaterialTyped
  <2>4. Owed(o) = r - a - b - c - d /\ Owed(o)' = t - a - b - c - z
    BY <2>1 DEF Owed
  <2> HIDE DEF a, z, b, c, d, r, t
  <2> QED
    BY <2>2, <2>3, <2>4
<1> QED
    BY <1>1, <1>2, OwnedStep

\* What the error queue and a result can be.
Errors == {"none", "eof", "other"}
Results == {"ok", "failed"}

\* A library call on the connection starts from its state.
LEMMA OnConn ==
    ASSUME MaterialInv
    PROVE  /\ On(conn) \in CallOutcomes("conn") /\ "conn" \in Stores
           /\ On(conn).refs = refs /\ On(conn).store = conn
BY DEF MaterialInv, MaterialTyped, On, CallOutcomes, StoreType, Stores

\* A library call on the context starts from its state.
LEMMA OnCtx ==
    ASSUME MaterialInv
    PROVE  /\ On(ctx) \in CallOutcomes("ctx") /\ "ctx" \in Stores
           /\ On(ctx).refs = refs /\ On(ctx).store = ctx
BY DEF MaterialInv, MaterialTyped, On, CallOutcomes, StoreType, Stores

\* A balanced outcome that becomes the state of the connection.
LEMMA ConnOutcome ==
    ASSUME MaterialInv, NEW n, Balanced("conn", On(conn), n),
           refs' = n.refs, conn' = n.store, conn.live,
           UNCHANGED <<program, javaHeld, cred, ctx, accepted>>,
           err' \in Errors, result' \in Results
    PROVE  MaterialInv'
<1>1. On(conn).refs = refs /\ On(conn).store = conn
    BY OnConn
<1>2. n.refs \in [Objects -> Int] /\ n.store \in ConnType
    BY DEF Balanced, CallOutcomes, StoreType
<1>3. /\ n.store.live = conn.live /\ n.store.outCert = conn.outCert
      /\ n.store.outKey = conn.outKey /\ n.store.creds = conn.creds
    BY <1>1 DEF Balanced, SameRest
<1>4. ConnShape'
    BY <1>3 DEF MaterialInv, ConnShape
<1>5. ASSUME NEW o \in Objects
      PROVE  refs'[o] - ConnCount(conn', o) = refs[o] - ConnCount(conn, o)
  <2> DEFINE r == refs[o]
             t == refs'[o]
             p == SlotCount(conn, o)
             q == SlotCount(conn', o)
             w == ConnRest(conn, o)
  <2>1. t - q = r - p
    BY <1>1 DEF Balanced
  <2>2. ConnRest(conn', o) = w
    BY <1>3 DEF ConnRest
  <2>3. p \in Nat /\ w \in Nat
    BY ConnSum DEF MaterialInv, MaterialTyped
  <2>4. q \in Nat
    BY <1>2, ConnSum
  <2>5. r \in Int /\ t \in Int
    BY <1>2 DEF MaterialInv, MaterialTyped
  <2>6. ConnCount(conn', o) = q + w /\ ConnCount(conn, o) = p + w
    BY <2>2 DEF ConnCount
  <2> HIDE DEF r, t, p, q, w
  <2>7. t - (q + w) = r - (p + w)
    BY <2>1, <2>3, <2>4, <2>5
  <2> QED
    BY <2>6, <2>7 DEF r, t
<1> QED
    BY <1>2, <1>4, <1>5, ConnStep DEF Errors, Results

\* setKeyMaterial keeps the invariant of key material.
LEMMA Step_setKeyMaterial ==
    ASSUME MaterialInv, NEW h, NEW k \in Optional(keys), setKeyMaterial(h, k)
    PROVE  MaterialInv'
<1>1. h \in DOMAIN chains /\ chains[h] \in Seq(Certs) /\ conn.live
    BY DEF setKeyMaterial, MaterialInv, MaterialTyped
<1>2. k \in Seq(Keys) /\ (k # None => k[1] \in Keys /\ k = <<k[1]>>)
    BY OptionalType DEF MaterialInv, MaterialTyped
<1>3. PICK m \in IF BoringSSL THEN SetChainAndKey(On(conn), chains[h], k)
                 ELSE setKeyMaterialOpenSSL(chains[h], k) :
        /\ refs' = m.refs /\ conn' = m.store /\ Returns(Succeeded(m))
        /\ UNCHANGED err \/ ClearErrors
    BY DEF setKeyMaterial
<1>4. Balanced("conn", On(conn), m)
  <2>1. program \in Programs
    BY DEF MaterialInv, MaterialTyped
  <2> QED
    BY <1>1, <1>2, <1>3, <2>1, OnConn, SetChainAndKeyBalanced, OpenSSLBalanced
<1>5. err' \in Errors /\ result' \in Results
    BY <1>3 DEF ClearErrors, Returns, MaterialInv, MaterialTyped, Errors, Results
<1>6. UNCHANGED <<program, javaHeld, cred, ctx, accepted>>
    BY DEF setKeyMaterial
<1> QED
    BY <1>1, <1>3, <1>4, <1>5, <1>6, ConnOutcome

\* SSL_setCertificateBio keeps the invariant of key material.
LEMMA Step_SSL_setCertificateBio ==
    ASSUME MaterialInv, SSL_setCertificateBio
    PROVE  MaterialInv'
<1>1. PICK p \in KeyFirst(tcn_load_pem_cert_bio, tcn_load_pem_key_bio) :
        \E m \in UsePair(On(conn), p[1], p[2]) :
          /\ refs' = m.refs /\ conn' = m.store /\ Returns(m.ok)
          /\ KeepsOrClears \/ ClearErrors
    BY DEF SSL_setCertificateBio
<1>2. PICK m \in UsePair(On(conn), p[1], p[2]) :
          /\ refs' = m.refs /\ conn' = m.store /\ Returns(m.ok)
          /\ KeepsOrClears \/ ClearErrors
    BY <1>1
<1>3. p[1] \in Optional(Fresh(Certs)) /\ p[2] \in Optional(Fresh(Keys))
    BY DEF KeyFirst, tcn_load_pem_cert_bio, tcn_load_pem_key_bio
<1>4. /\ p[1] \in Seq(Certs) /\ (p[1] # None => p[1][1] \in Certs)
      /\ p[2] \in Seq(Keys) /\ (p[2] # None => p[2][1] \in Keys)
  <2>1. Fresh(Certs) \subseteq Certs /\ Fresh(Keys) \subseteq Keys
    BY DEF Fresh
  <2> QED
    BY <1>3, <2>1, OptionalType
<1>5. Balanced("conn", On(conn), m)
    BY <1>2, <1>4, OnConn, UsePairBalanced
<1>6. err' \in Errors /\ result' \in Results
    BY <1>2 DEF ClearErrors, KeepsOrClears, Returns, MaterialInv, MaterialTyped, Errors, Results
<1>7. conn.live /\ UNCHANGED <<program, javaHeld, cred, ctx, accepted>>
    BY DEF SSL_setCertificateBio
<1> QED
    BY <1>2, <1>5, <1>6, <1>7, ConnOutcome

\* What a BIO yields is a sequence of certificates, after the first is skipped too.
LEMMA ReadableType ==
    ASSUME NEW s \in Readable, NEW skipfirst
    PROVE  s \in Seq(Certs) /\ Rest(s, skipfirst) \in Seq(Certs)
<1>1. s \in Seq(Certs)
    BY BoundAssumption DEF Readable, SeqOf, Fresh
<1>2. From(s, 2) \in Seq(Certs)
  <2>1. CASE s # None
    BY <1>1, <2>1, FirstAndRest
  <2>2. CASE s = None
    BY <2>2 DEF None, From
  <2> QED
    BY <2>1, <2>2
<1> QED
    BY <1>1, <1>2 DEF Rest

\* SSL_setCertificateChainBio keeps the invariant of key material.
LEMMA Step_SSL_setCertificateChainBio ==
    ASSUME MaterialInv, NEW s \in Readable, NEW wellFormed, NEW skipfirst,
           SSL_setCertificateChainBio(s, wellFormed, skipfirst)
    PROVE  MaterialInv'
<1>1. PICK m \in IF NoneToSkip(s, skipfirst) THEN {Failed(On(conn))}
                 ELSE Add0Chain(On(conn), Rest(s, skipfirst)) :
        refs' = m.refs /\ conn' = m.store /\ Returns(ReadToEnd(m, wellFormed))
    BY DEF SSL_setCertificateChainBio
<1>2. Rest(s, skipfirst) \in Seq(Certs)
    BY ReadableType
<1>3. Balanced("conn", On(conn), m)
    BY <1>1, <1>2, OnConn, BalancedFailed, Add0ChainBalanced
<1>4. err' \in Errors /\ result' \in Results
    BY <1>1 DEF SSL_setCertificateChainBio, ClearErrors, Returns, Errors, Results
<1>5. conn.live /\ UNCHANGED <<program, javaHeld, cred, ctx, accepted>>
    BY DEF SSL_setCertificateChainBio
<1> QED
    BY <1>1, <1>3, <1>4, <1>5, ConnOutcome

\* The pair handed to the library has its references, or no pair is handed over and none
\* is left, also when the reference to the key cannot be taken.
LEMMA HandOutCounts ==
    ASSUME NEW m \in CallOutcomes("conn"), NEW c \in Seq(Certs), c # None, NEW k \in Seq(Keys), k # None,
           m.store.outCert = None, m.store.outKey = None, NEW n \in HandOut(m, c, k)
    PROVE  /\ n \in CallOutcomes("conn") /\ n.store.live = m.store.live
           /\ n.store.outCert = None <=> n.store.outKey = None
           /\ \A o \in Objects : n.refs[o] - ConnCount(n.store, o) = m.refs[o] - ConnCount(m.store, o)
<1>1. m.refs \in [Objects -> Int] /\ m.store \in ConnType
    BY DEF CallOutcomes, StoreType
<1>2. c \in Seq(Objects) /\ k \in Seq(Objects) /\ c \o k \in Seq(Objects)
    BY SeqOfObjects, CountObjects
<1>3. CASE n = Failed(m)
    BY <1>3 DEF Failed, CallOutcomes
<1> DEFINE r == Down(Up(m.refs, c), c)
<1>4. CASE n = Failed([m EXCEPT !.refs = r])
  <2>1. r \in [Objects -> Int] /\ \A o \in Objects : r[o] = m.refs[o] + Count(c, o) - Count(c, o)
    BY <1>1, <1>2, UpThenDown
  <2> HIDE DEF r
  <2>2. n \in CallOutcomes("conn") /\ n.store = m.store /\ n.refs = r
    BY <1>4, <2>1 DEF Failed, CallOutcomes
  <2>3. ASSUME NEW o \in Objects
        PROVE  n.refs[o] - ConnCount(n.store, o) = m.refs[o] - ConnCount(m.store, o)
    <3>1. Count(c, o) \in Nat /\ m.refs[o] \in Int
      BY <1>1, <1>2, CountObjects
    <3>2. r[o] = m.refs[o]
      BY <2>1, <3>1
    <3> QED
      BY <2>2, <3>2
  <2> QED
    BY <2>2, <2>3
<1> DEFINE u == Up(m.refs, c \o k)
<1>5. CASE n = [m EXCEPT !.refs = u, !.store.outCert = c, !.store.outKey = k]
  <2>1. u \in [Objects -> Int] /\ \A o \in Objects : u[o] = m.refs[o] + Count(c \o k, o)
    BY <1>1, <1>2, UpDown
  <2> HIDE DEF u
  <2>2. /\ n \in CallOutcomes("conn") /\ n.refs = u /\ n.store.live = m.store.live
        /\ n.store.cert = m.store.cert /\ n.store.key = m.store.key /\ n.store.chain = m.store.chain
        /\ n.store.outCert = c /\ n.store.outKey = k /\ n.store.creds = m.store.creds
        /\ n.store.aside = m.store.aside
    BY <1>1, <1>5, <2>1 DEF CallOutcomes, StoreType, ConnType
  <2>3. ASSUME NEW o \in Objects
        PROVE  n.refs[o] - ConnCount(n.store, o) = m.refs[o] - ConnCount(m.store, o)
    <3> DEFINE a == m.refs[o]
               x == Count(c, o)
               y == Count(k, o)
               p == SlotCount(m.store, o)
               w == Count(m.store.creds, o)
    <3>1. Count(c \o k, o) = x + y /\ x \in Nat /\ y \in Nat
      BY <1>2, CountObjects
    <3>2. n.refs[o] = a + (x + y)
      BY <2>1, <2>2, <3>1
    <3>3. SlotCount(n.store, o) = p /\ ConnRest(n.store, o) = x + y + w
      BY <2>2 DEF SlotCount, Current, ConnRest
    <3>4. Count(None, o) = 0
      BY CountNone
    <3>5. ConnRest(m.store, o) = 0 + 0 + w
      BY <3>4 DEF ConnRest
    <3>6. p \in Nat /\ w \in Nat /\ a \in Int
      BY <1>1, ConnSum
    <3>7. ConnCount(n.store, o) = p + (x + y + w) /\ ConnCount(m.store, o) = p + (0 + 0 + w)
      BY <3>3, <3>5 DEF ConnCount
    <3> HIDE DEF a, x, y, p, w
    <3>8. (a + (x + y)) - (p + (x + y + w)) = a - (p + (0 + 0 + w))
      BY <3>1, <3>6
    <3> QED
      BY <3>2, <3>7, <3>8 DEF a
  <2> QED
    BY <2>2, <2>3
<1> QED
    BY <1>3, <1>4, <1>5 DEF HandOut

\* A balanced outcome of a connection keeps the difference of its counts.
LEMMA BalancedConnCount ==
    ASSUME NEW m \in CallOutcomes("conn"), NEW n, Balanced("conn", m, n), NEW o \in Objects
    PROVE  n.refs[o] - ConnCount(n.store, o) = m.refs[o] - ConnCount(m.store, o)
<1>1. /\ m.refs \in [Objects -> Int] /\ m.store \in ConnType
      /\ n.refs \in [Objects -> Int] /\ n.store \in ConnType
    BY DEF CallOutcomes, StoreType, Balanced
<1> DEFINE r == m.refs[o]
           t == n.refs[o]
           p == SlotCount(m.store, o)
           q == SlotCount(n.store, o)
           w == ConnRest(m.store, o)
<1>2. t - q = r - p
    BY DEF Balanced
<1>3. ConnRest(n.store, o) = w
    BY DEF Balanced, SameRest, ConnRest
<1>4. p \in Nat /\ w \in Nat /\ r \in Int
    BY <1>1, ConnSum
<1>5. q \in Nat /\ t \in Int
    BY <1>1, ConnSum
<1>6. ConnCount(n.store, o) = q + w /\ ConnCount(m.store, o) = p + w
    BY <1>3 DEF ConnCount
<1> HIDE DEF r, t, p, q, w
<1>7. t - (q + w) = r - (p + w)
    BY <1>2, <1>4, <1>5
<1> QED
    BY <1>6, <1>7 DEF r, t

\* setKeyMaterialClientSide keeps the invariant of key material.
LEMMA Step_setKeyMaterialClientSide ==
    ASSUME MaterialInv, NEW h, NEW k \in keys, setKeyMaterialClientSide(h, k)
    PROVE  MaterialInv'
<1> DEFINE s == chains[h]
           c == <<s[1]>>
           added == Add1Chain(On(conn), From(s, 2))
<1>1. /\ h \in DOMAIN chains /\ s \in Seq(Certs) /\ s # None /\ conn.live
      /\ conn.outCert = None /\ conn.outKey = None /\ k \in Keys
    BY DEF setKeyMaterialClientSide, MaterialInv, MaterialTyped, ConnShape
<1>2. s[1] \in Certs /\ c \in Seq(Certs) /\ From(s, 2) \in Seq(Certs)
    BY <1>1, FirstAndRest
<1>3. c # None /\ <<k>> # None /\ <<k>> \in Seq(Keys)
    BY <1>1 DEF None
<1>4. PICK m \in Then(added, LAMBDA x : HandOut(x, c, <<k>>)) :
        /\ refs' = m.refs /\ conn' = m.store /\ Returns(m.ok)
        /\ UNCHANGED err \/ ClearErrors
    BY DEF setKeyMaterialClientSide
<1> HIDE DEF added
<1>5. PICK x \in added : IF x.ok THEN m \in HandOut(x, c, <<k>>) ELSE m = x
    BY <1>4 DEF Then
<1>6. Balanced("conn", On(conn), x)
    BY <1>2, OnConn, Add1ChainBalanced DEF added
<1>7. /\ x \in CallOutcomes("conn") /\ x.store.live = conn.live
      /\ x.store.outCert = None /\ x.store.outKey = None
    BY <1>1, <1>6, OnConn DEF Balanced, SameRest
<1> HIDE DEF c
<1>8. /\ m \in CallOutcomes("conn") /\ m.store.live = x.store.live
      /\ m.store.outCert = None <=> m.store.outKey = None
      /\ \A o \in Objects : m.refs[o] - ConnCount(m.store, o) = x.refs[o] - ConnCount(x.store, o)
  <2>1. CASE x.ok
    BY <1>2, <1>3, <1>5, <1>7, <2>1, HandOutCounts
  <2>2. CASE ~x.ok
    BY <1>5, <1>7, <2>2
  <2> QED
    BY <2>1, <2>2
<1>9. ASSUME NEW o \in Objects
      PROVE  refs'[o] - ConnCount(conn', o) = refs[o] - ConnCount(conn, o)
  <2>1. x.refs[o] - ConnCount(x.store, o) = On(conn).refs[o] - ConnCount(On(conn).store, o)
    BY <1>6, OnConn, BalancedConnCount
  <2> QED
    BY <1>4, <1>8, <2>1, OnConn
<1>10. refs' \in [Objects -> Int] /\ conn' \in ConnType /\ ConnShape'
  <2>1. m.refs \in [Objects -> Int] /\ m.store \in ConnType
    BY <1>8 DEF CallOutcomes, StoreType
  <2> QED
    BY <1>1, <1>4, <1>7, <1>8, <2>1 DEF ConnShape
<1>11. err' \in {"none", "eof", "other"} /\ result' \in {"ok", "failed"}
    BY <1>4 DEF ClearErrors, Returns, MaterialInv, MaterialTyped
<1>12. UNCHANGED <<program, javaHeld, cred, ctx, accepted>>
    BY DEF setKeyMaterialClientSide
<1> QED
    BY <1>9, <1>10, <1>11, <1>12, ConnStep

\* client_cert_cb keeps the invariant of key material.
LEMMA Step_client_cert_cb ==
    ASSUME MaterialInv, client_cert_cb
    PROVE  MaterialInv'
<1> DEFINE c == conn.outCert
           k == conn.outKey
           certified == UseCertificate(On(conn), c[1])
<1>1. /\ conn \in ConnType /\ c \in Seq(Certs) /\ k \in Seq(Keys) /\ c # None /\ k # None
    BY DEF client_cert_cb, MaterialInv, MaterialTyped, ConnShape, ConnType
<1>2. c[1] \in Certs /\ k[1] \in Keys
    BY <1>1, FirstAndRest
<1>3. conn.live
  <2>1. NoConn.outCert = None
    BY DEF NoConn
  <2> QED
    BY <1>1, <2>1 DEF MaterialInv, ConnShape
<1>4. PICK m \in Then(certified, LAMBDA x : UsePrivateKey(x, k[1])) :
        /\ refs' = Down(m.refs, c \o k)
        /\ conn' = [m.store EXCEPT !.outCert = None, !.outKey = None]
        /\ Returns(m.ok)
    BY DEF client_cert_cb
<1> HIDE DEF certified
<1>5. PICK x \in certified : IF x.ok THEN m \in UsePrivateKey(x, k[1]) ELSE m = x
    BY <1>4 DEF Then
<1>6. Balanced("conn", On(conn), x)
    BY <1>2, OnConn, UseCertificateBalanced DEF certified
<1>7. x \in CallOutcomes("conn")
    BY <1>6 DEF Balanced
<1>8. Balanced("conn", x, m)
    BY <1>2, <1>5, <1>7, OnConn, BalancedReflexive, UsePrivateKeyBalanced
<1>9. Balanced("conn", On(conn), m)
    BY <1>6, <1>8, OnConn, BalancedTransitive
<1>10. /\ m.refs \in [Objects -> Int] /\ m.store \in ConnType /\ m.store.live = conn.live
       /\ m.store.outCert = c /\ m.store.outKey = k
    BY <1>9, OnConn DEF Balanced, SameRest, CallOutcomes, StoreType
<1>11. c \in Seq(Objects) /\ k \in Seq(Objects) /\ c \o k \in Seq(Objects)
    BY <1>1, SeqOfObjects, CountObjects
<1>12. /\ refs' \in [Objects -> Int]
       /\ \A o \in Objects : refs'[o] = m.refs[o] - Count(c \o k, o)
    BY <1>4, <1>10, <1>11, UpDown
<1> HIDE DEF c, k
<1>13. /\ conn' \in ConnType /\ conn'.live = m.store.live /\ conn'.cert = m.store.cert
       /\ conn'.key = m.store.key /\ conn'.chain = m.store.chain /\ conn'.creds = m.store.creds
       /\ conn'.outCert = None /\ conn'.outKey = None /\ conn'.aside = m.store.aside
  <2>1. None \in Seq(Certs) /\ None \in Seq(Keys)
    BY DEF None
  <2> QED
    BY <1>4, <1>10, <2>1 DEF ConnType
<1>14. ConnShape'
    BY <1>3, <1>10, <1>13 DEF ConnShape
<1>15. ASSUME NEW o \in Objects
       PROVE  refs'[o] - ConnCount(conn', o) = refs[o] - ConnCount(conn, o)
  <2> DEFINE a == m.refs[o]
             x1 == Count(c, o)
             y1 == Count(k, o)
             p == SlotCount(m.store, o)
             w == Count(m.store.creds, o)
             z == refs[o] - ConnCount(conn, o)
  <2>1. Count(c \o k, o) = x1 + y1 /\ x1 \in Nat /\ y1 \in Nat
    BY <1>11, CountObjects
  <2>2. refs'[o] = a - (x1 + y1)
    BY <1>12, <2>1
  <2>3. SlotCount(conn', o) = p
    BY <1>13 DEF SlotCount, Current
  <2>4. Count(None, o) = 0
    BY CountNone
  <2>5. ConnRest(conn', o) = 0 + 0 + w /\ ConnRest(m.store, o) = x1 + y1 + w
    BY <1>10, <1>13, <2>4 DEF ConnRest
  <2>6. p \in Nat /\ w \in Nat /\ a \in Int
    BY <1>10, ConnSum
  <2>7. ConnCount(conn', o) = p + (0 + 0 + w) /\ ConnCount(m.store, o) = p + (x1 + y1 + w)
    BY <2>3, <2>5 DEF ConnCount
  <2>8. a - ConnCount(m.store, o) = z
    BY <1>9, OnConn, BalancedConnCount
  <2> HIDE DEF a, x1, y1, p, w, z
  <2>9. (a - (x1 + y1)) - (p + (0 + 0 + w)) = a - (p + (x1 + y1 + w))
    BY <2>1, <2>6
  <2> QED
    BY <2>2, <2>7, <2>8, <2>9 DEF z
<1>16. err' \in {"none", "eof", "other"} /\ result' \in {"ok", "failed"}
    BY <1>4 DEF client_cert_cb, Returns, MaterialInv, MaterialTyped
<1>17. UNCHANGED <<program, javaHeld, cred, ctx, accepted>>
    BY DEF client_cert_cb
<1> QED
    BY <1>12, <1>13, <1>14, <1>15, <1>16, <1>17, ConnStep

\* An empty connection holds nothing.
LEMMA NoConnCount ==
    ASSUME NEW o \in Objects
    PROVE  NoConn \in ConnType /\ ConnCount(NoConn, o) = 0
<1>1. None \in Seq(Certs) /\ None \in Seq(Keys) /\ None \in Seq(Creds)
    BY DEF None
<1>2. Count(None, o) = 0
    BY CountNone
<1>3. Empty \in SlotType /\ "rsa" \in KeyTypes
    BY <1>1 DEF Empty, SlotType, KeyTypes
<1>4. Current(Empty, o) = 0 + 0 + 0
    BY <1>2 DEF Current, Empty
<1>5. NoConn \in ConnType
    BY <1>1, <1>3 DEF NoConn, ConnType
<1>6. SlotCount(NoConn, o) = 0
    BY <1>2, <1>4 DEF NoConn, SlotCount, Current
<1>7. ConnRest(NoConn, o) = 0
    BY <1>2 DEF NoConn, ConnRest
<1> QED
    BY <1>5, <1>6, <1>7 DEF ConnCount

\* newSSL keeps the invariant of key material.
LEMMA Step_newSSL ==
    ASSUME MaterialInv, newSSL
    PROVE  MaterialInv'
<1>1. /\ UNCHANGED <<program, javaHeld, cred, ctx, accepted, err>>
      /\ err' \in {"none", "eof", "other"} /\ result' \in {"ok", "failed"}
    BY DEF newSSL, Returns, MaterialInv, MaterialTyped
<1>2. /\ conn = NoConn /\ ctx \in CtxType /\ conn \in ConnType /\ refs \in [Objects -> Int]
      /\ ctx.cert \in Seq(Certs) /\ ctx.key \in Seq(Keys)
    BY DEF newSSL, MaterialInv, MaterialTyped, ConnShape, CtxType
<1> DEFINE c == ctx.cert
           k == ctx.key
           d == ctx.aside.cert
           e == ctx.aside.key
           all == c \o k \o d \o e
           u == Up(refs, all)
           b == [ctx.aside EXCEPT !.chain = None]
<1>3. CASE conn' = conn /\ refs' = refs
  <2>1. ConnShape'
    BY <1>3 DEF MaterialInv, ConnShape
  <2> QED
    BY <1>1, <1>2, <1>3, <2>1, ConnStep
<1>4. CASE /\ conn' = [NoConn EXCEPT !.live = TRUE, !.type = ctx.type, !.cert = c, !.key = k, !.aside = b]
           /\ refs' = u
  <2>0. ctx.aside \in SlotType /\ ctx.type \in KeyTypes
    BY <1>2 DEF CtxType
  <2>a. d \in Seq(Certs) /\ e \in Seq(Keys)
    BY <2>0 DEF SlotType
  <2>1. /\ c \in Seq(Objects) /\ k \in Seq(Objects) /\ d \in Seq(Objects) /\ e \in Seq(Objects)
        /\ all \in Seq(Objects)
    BY <1>2, <2>a, SeqOfObjects, CountObjects
  <2>2. u \in [Objects -> Int] /\ \A o \in Objects : u[o] = refs[o] + Count(all, o)
    BY <1>2, <2>1, UpDown
  <2>3. /\ conn' \in ConnType /\ conn'.live = TRUE /\ conn'.cert = c /\ conn'.key = k
        /\ conn'.chain = None /\ conn'.outCert = None /\ conn'.outKey = None /\ conn'.creds = None
        /\ conn'.aside.cert = d /\ conn'.aside.key = e /\ conn'.aside.chain = None
    <3>1. None \in Seq(Certs) /\ None \in Seq(Keys) /\ None \in Seq(Creds)
      BY DEF None
    <3>2. b \in SlotType /\ b.cert = d /\ b.key = e /\ b.chain = None
      BY <2>0, <3>1 DEF SlotType
    <3> HIDE DEF b
    <3>3. conn' \in ConnType
      BY <1>2, <1>4, <2>0, <3>1, <3>2 DEF NoConn, ConnType
    <3>4. /\ conn'.live = TRUE /\ conn'.cert = c /\ conn'.key = k /\ conn'.aside = b
          /\ conn'.chain = None /\ conn'.outCert = None /\ conn'.outKey = None /\ conn'.creds = None
      BY <1>4 DEF NoConn
    <3> QED
      BY <3>2, <3>3, <3>4
  <2>4. ConnShape'
    BY <2>3 DEF ConnShape
  <2>5. ASSUME NEW o \in Objects
        PROVE  refs'[o] - ConnCount(conn', o) = refs[o] - ConnCount(conn, o)
    <3> DEFINE x == Count(c, o)
               y == Count(k, o)
               v == Count(d, o)
               w == Count(e, o)
               r == refs[o]
    <3>1. Count(all, o) = x + y + v + w /\ x \in Nat /\ y \in Nat /\ v \in Nat /\ w \in Nat
      <4> DEFINE ck == c \o k
                 ckd == ck \o d
      <4>1. ck \in Seq(Objects) /\ Count(ck, o) = x + y
        BY <2>1, CountObjects
      <4> HIDE DEF ck
      <4>2. ckd \in Seq(Objects) /\ Count(ckd, o) = Count(ck, o) + v
        BY <2>1, <4>1, CountObjects
      <4> HIDE DEF ckd
      <4>3. Count(ckd \o e, o) = Count(ckd, o) + w
        BY <2>1, <4>2, CountObjects
      <4>4. x \in Nat /\ y \in Nat /\ v \in Nat /\ w \in Nat
        BY <2>1, CountObjects
      <4> QED
        BY <4>1, <4>2, <4>3, <4>4 DEF ck, ckd
    <3>2. r \in Int /\ refs'[o] = r + (x + y + v + w)
      BY <1>2, <1>4, <2>2, <3>1
    <3>3. Count(None, o) = 0
      BY CountNone
    <3>4. ConnCount(conn', o) = ((x + y + 0) + (v + w + 0)) + (0 + 0 + 0)
      BY <2>3, <3>3 DEF ConnCount, SlotCount, Current, ConnRest
    <3>5. ConnCount(conn, o) = 0
      BY <1>2, NoConnCount
    <3> HIDE DEF x, y, v, w, r
    <3>6. (r + (x + y + v + w)) - (((x + y + 0) + (v + w + 0)) + (0 + 0 + 0)) = r - 0
      BY <3>1, <3>2
    <3> QED
      BY <3>2, <3>4, <3>5, <3>6 DEF r
  <2>6. refs' \in [Objects -> Int]
    BY <1>4, <2>2
  <2> QED
    BY <1>1, <2>3, <2>4, <2>5, <2>6, ConnStep
<1> QED
    BY <1>3, <1>4 DEF newSSL

\* addCredential keeps the invariant of key material.
LEMMA Step_addCredential ==
    ASSUME MaterialInv, NEW cr \in Creds, addCredential(cr)
    PROVE  MaterialInv'
<1>1. /\ UNCHANGED <<program, javaHeld, cred, ctx, accepted>> /\ conn.live
      /\ err' \in {"none", "eof", "other"} /\ result' \in {"ok", "failed"}
    BY DEF addCredential, Returns, Oldest, MaterialInv, MaterialTyped
<1>2. /\ conn \in ConnType /\ refs \in [Objects -> Int] /\ conn.creds \in Seq(Creds)
      /\ cr \in Objects
    BY DEF MaterialInv, MaterialTyped, ConnType, Objects
<1> DEFINE cs == conn.creds
           one == <<cr>>
           u == Up(refs, one)
<1>3. CASE conn' = conn /\ refs' = refs
  <2>1. ConnShape'
    BY <1>3 DEF MaterialInv, ConnShape
  <2> QED
    BY <1>1, <1>2, <1>3, <2>1, ConnStep
<1>4. CASE conn' = [conn EXCEPT !.creds = Append(@, cr)] /\ refs' = u
  <2>1. cs \in Seq(Objects) /\ one \in Seq(Objects)
    BY <1>2, SeqOfObjects, CountObjects
  <2>2. u \in [Objects -> Int] /\ \A o \in Objects : u[o] = refs[o] + Count(one, o)
    BY <1>2, <2>1, UpDown
  <2>3. Append(cs, cr) = cs \o one /\ Append(cs, cr) \in Seq(Creds)
    BY <1>2, AppendIsConcat
  <2>4. /\ conn' \in ConnType /\ conn'.live = conn.live /\ conn'.cert = conn.cert
        /\ conn'.key = conn.key /\ conn'.chain = conn.chain /\ conn'.outCert = conn.outCert
        /\ conn'.outKey = conn.outKey /\ conn'.creds = cs \o one /\ conn'.aside = conn.aside
    BY <1>2, <1>4, <2>3 DEF ConnType
  <2>5. ConnShape'
    BY <1>1, <2>4 DEF MaterialInv, ConnShape
  <2> HIDE DEF one
  <2>6. ASSUME NEW o \in Objects
        PROVE  refs'[o] - ConnCount(conn', o) = refs[o] - ConnCount(conn, o)
    <3> DEFINE x == Count(one, o)
               y == Count(cs, o)
               r == refs[o]
               p == SlotCount(conn, o)
               a == Count(conn.outCert, o)
               b == Count(conn.outKey, o)
    <3>1. Count(cs \o one, o) = y + x /\ x \in Nat /\ y \in Nat
      BY <2>1, CountObjects
    <3>2. r \in Int /\ refs'[o] = r + x
      BY <1>2, <1>4, <2>2
    <3>3. p \in Nat /\ a \in Nat /\ b \in Nat
      BY <1>2, ConnSum
    <3>4. ConnCount(conn', o) = p + (a + b + (y + x)) /\ ConnCount(conn, o) = p + (a + b + y)
      BY <2>4, <3>1 DEF ConnCount, SlotCount, Current, ConnRest
    <3> HIDE DEF x, y, r, p, a, b
    <3>5. (r + x) - (p + (a + b + (y + x))) = r - (p + (a + b + y))
      BY <3>1, <3>2, <3>3
    <3> QED
      BY <3>2, <3>4, <3>5 DEF r
  <2>7. refs' \in [Objects -> Int]
    BY <1>4, <2>2
  <2> QED
    BY <1>1, <2>4, <2>5, <2>6, <2>7, ConnStep
<1> QED
    BY <1>3, <1>4 DEF addCredential

\* A balanced outcome of a context keeps the difference of its counts.
LEMMA BalancedCtxCount ==
    ASSUME NEW m \in CallOutcomes("ctx"), NEW n, Balanced("ctx", m, n), NEW o \in Objects
    PROVE  n.refs[o] - CtxCount(n.store, o) = m.refs[o] - CtxCount(m.store, o)
<1>1. /\ m.refs \in [Objects -> Int] /\ m.store \in CtxType
      /\ n.refs \in [Objects -> Int] /\ n.store \in CtxType
    BY DEF CallOutcomes, StoreType, Balanced
<1> DEFINE r == m.refs[o]
           t == n.refs[o]
           p == SlotCount(m.store, o)
           q == SlotCount(n.store, o)
           w == Count(m.store.password, o)
<1>2. t - q = r - p
    BY DEF Balanced
<1>3. n.store.password = m.store.password
    BY DEF Balanced, SameRest
<1>4. p \in Nat /\ w \in Nat /\ r \in Int
    BY <1>1, CtxSum
<1>5. q \in Nat /\ t \in Int
    BY <1>1, CtxSum
<1>6. CtxCount(n.store, o) = q + w /\ CtxCount(m.store, o) = p + w
    BY <1>3 DEF CtxCount
<1> HIDE DEF r, t, p, q, w
<1>7. t - (q + w) = r - (p + w)
    BY <1>2, <1>4, <1>5
<1> QED
    BY <1>6, <1>7 DEF r, t

\* A balanced outcome that becomes the state of the context.
LEMMA CtxOutcome ==
    ASSUME MaterialInv, NEW n, Balanced("ctx", On(ctx), n),
           refs' = n.refs, ctx' = n.store, UNCHANGED <<program, javaHeld, cred, conn, accepted>>,
           err' \in Errors, result' \in Results
    PROVE  MaterialInv'
<1>1. n.refs \in [Objects -> Int] /\ n.store \in CtxType
    BY DEF Balanced, CallOutcomes, StoreType
<1>2. PasswordAccepted'
    BY OnCtx DEF Balanced, SameRest, MaterialInv, PasswordAccepted
<1>3. ASSUME NEW o \in Objects
      PROVE  refs'[o] - CtxCount(ctx', o) = refs[o] - CtxCount(ctx, o)
  <2>1. n.refs[o] - CtxCount(n.store, o) = On(ctx).refs[o] - CtxCount(On(ctx).store, o)
    BY OnCtx, BalancedCtxCount
  <2> QED
    BY <2>1, OnCtx
<1>4. accepted' \in Seq(Passwords)
    BY DEF MaterialInv, MaterialTyped
<1> QED
    BY <1>1, <1>2, <1>3, <1>4, CtxStep DEF Errors, Results

\* SSLContext_setCertificateChainBio keeps the invariant of key material.
LEMMA Step_SSLContext_setCertificateChainBio ==
    ASSUME MaterialInv, NEW s \in Readable, NEW wellFormed, NEW skipfirst,
           SSLContext_setCertificateChainBio(s, wellFormed, skipfirst)
    PROVE  MaterialInv'
<1>1. PICK m \in IF NoneToSkip(s, skipfirst) THEN {On(ctx)}
                 ELSE Add0Chain(ExtraChainCleared, Rest(s, skipfirst)) :
        /\ refs' = m.refs /\ ctx' = m.store
        /\ Returns(ReadToEnd(m, wellFormed) /\ Rest(s, skipfirst) # None)
        /\ err' = IF ReadToEnd(m, wellFormed) /\ ~NoneToSkip(s, skipfirst) THEN "none"
                  ELSE LeftBehind(m, wellFormed)
    BY DEF SSLContext_setCertificateChainBio
<1>2. Rest(s, skipfirst) \in Seq(Certs)
    BY ReadableType
<1>3. ExtraChainCleared \in ClearChain(On(ctx))
    BY OnCtx DEF ExtraChainCleared, ClearChain
<1>4. Balanced("ctx", On(ctx), ExtraChainCleared)
    BY <1>3, OnCtx, ClearChainBalanced
<1>5. ExtraChainCleared \in CallOutcomes("ctx")
    BY <1>4 DEF Balanced
<1>6. Balanced("ctx", On(ctx), m)
  <2>1. CASE NoneToSkip(s, skipfirst)
    BY <1>1, <2>1, OnCtx, BalancedReflexive
  <2>2. CASE ~NoneToSkip(s, skipfirst)
    <3>1. Balanced("ctx", ExtraChainCleared, m)
      BY <1>1, <1>2, <1>5, <2>2, OnCtx, Add0ChainBalanced
    <3> QED
      BY <1>4, <3>1, OnCtx, BalancedTransitive
  <2> QED
    BY <2>1, <2>2
<1>7. err' \in Errors /\ result' \in Results
  <2>1. LeftBehind(m, wellFormed) \in Errors
    BY DEF LeftBehind, Oldest, EndOfRead, MaterialInv, MaterialTyped, Errors
  <2> QED
    BY <1>1, <2>1 DEF Returns, Errors, Results
<1>8. UNCHANGED <<program, javaHeld, cred, conn, accepted>>
    BY DEF SSLContext_setCertificateChainBio
<1> QED
    BY <1>1, <1>6, <1>7, <1>8, CtxOutcome

\* setCertificateChainFile keeps the invariant of key material.
LEMMA Step_setCertificateChainFile ==
    ASSUME MaterialInv, setCertificateChainFile
    PROVE  MaterialInv'
<1>1. Balanced("ctx", On(ctx), On(ctx))
    BY OnCtx, BalancedReflexive
<1>2. err' \in Errors /\ result' \in Results
    BY DEF setCertificateChainFile, Oldest, Returns, MaterialInv, MaterialTyped, Errors, Results
<1> QED
    BY <1>1, <1>2, OnCtx, CtxOutcome DEF setCertificateChainFile

\* setCACertificateBio keeps the invariant of key material.
LEMMA Step_setCACertificateBio ==
    ASSUME MaterialInv, NEW s \in Readable, NEW wellFormed, setCACertificateBio(s, wellFormed)
    PROVE  MaterialInv'
<1>a. CASE program.client /\ Returns(FALSE) /\ UNCHANGED <<ctx, err>>
  <2>1. Balanced("ctx", On(ctx), On(ctx))
    BY OnCtx, BalancedReflexive
  <2>2. err' \in Errors /\ result' \in Results
    BY <1>a DEF Returns, MaterialInv, MaterialTyped, Errors, Results
  <2> QED
    BY <1>a, <2>1, <2>2, OnCtx, CtxOutcome DEF setCACertificateBio
<1>b. CASE ~program.client
  <2>1. PICK n \in 0 .. Len(s) :
          /\ ctx' = [ctx EXCEPT !.cas = IF ~BoringSSL THEN @ \/ n > 0
                                        ELSE IF n = Len(s) THEN n > 0 ELSE @]
          /\ Returns(ReadToEnd([ok |-> n = Len(s)], wellFormed) /\ n > 0)
          /\ err' = IF ReadToEnd([ok |-> n = Len(s)], wellFormed) THEN "none"
                    ELSE LeftBehind([ok |-> n = Len(s)], wellFormed)
      BY <1>b DEF setCACertificateBio
  <2> DEFINE cas == IF ~BoringSSL THEN ctx.cas \/ n > 0 ELSE IF n = Len(s) THEN n > 0 ELSE ctx.cas
  <2>2. ctx \in CtxType /\ refs \in [Objects -> Int] /\ accepted \in Seq(Passwords)
      BY DEF MaterialInv, MaterialTyped
  <2>3. cas \in BOOLEAN
    <3>1. ctx.cas \in BOOLEAN
      BY <2>2 DEF CtxType
    <3>2. (ctx.cas \/ n > 0) \in BOOLEAN /\ (n > 0) \in BOOLEAN
      OBVIOUS
    <3> QED
      BY <3>1, <3>2, Zenon
  <2>4. ctx' = [ctx EXCEPT !.cas = cas]
      BY <2>1
  <2> HIDE DEF cas
  <2>5. /\ ctx' \in CtxType /\ ctx'.cert = ctx.cert /\ ctx'.key = ctx.key /\ ctx'.chain = ctx.chain
        /\ ctx'.password = ctx.password /\ ctx'.aside = ctx.aside
      BY <2>2, <2>3, <2>4 DEF CtxType
  <2>6. err' \in Errors /\ result' \in Results
    <3>1. LeftBehind([ok |-> n = Len(s)], wellFormed) \in Errors
      BY DEF LeftBehind, Oldest, EndOfRead, MaterialInv, MaterialTyped, Errors
    <3> QED
      BY <2>1, <3>1 DEF Returns, Errors, Results
  <2>7. UNCHANGED <<program, refs, javaHeld, cred, conn, accepted>>
      BY DEF setCACertificateBio
  <2>8. PasswordAccepted'
      BY <2>5, <2>7 DEF MaterialInv, PasswordAccepted
  <2>9. ASSUME NEW o \in Objects
        PROVE  refs'[o] - CtxCount(ctx', o) = refs[o] - CtxCount(ctx, o)
      BY <2>5, <2>7 DEF CtxCount, SlotCount, Current
  <2> QED
    BY <2>2, <2>5, <2>6, <2>7, <2>8, <2>9, CtxStep DEF Errors, Results
<1> QED
    BY <1>a, <1>b DEF setCACertificateBio

\* ssl_context_cleanup keeps the invariant of key material.
LEMMA Step_ssl_context_cleanup ==
    ASSUME MaterialInv, ssl_context_cleanup
    PROVE  MaterialInv'
<1> DEFINE all == Slots(ctx) \o ctx.password
<1>1. ctx \in CtxType /\ refs \in [Objects -> Int] /\ accepted \in Seq(Passwords)
    BY DEF MaterialInv, MaterialTyped
<1>2. all \in Seq(Objects)
  <2>1. "ocsp" \in Objects
    BY DEF Objects, BufferKinds
  <2> QED
    BY <1>1, <2>1, CtxSum
<1>3. refs' = Down(refs, all) /\ ctx' = [NoCtx EXCEPT !.live = FALSE]
    BY DEF ssl_context_cleanup
<1>4. refs' \in [Objects -> Int] /\ \A o \in Objects : refs'[o] = refs[o] - Count(all, o)
    BY <1>1, <1>2, <1>3, UpDown
<1>5. /\ ctx' \in CtxType /\ ctx'.cert = None /\ ctx'.key = None /\ ctx'.chain = None
      /\ ctx'.aside = Empty /\ ctx'.password = None
  <2>1. None \in Seq(Certs) /\ None \in Seq(Keys) /\ None \in Seq(Passwords)
    BY DEF None
  <2>2. Empty \in SlotType /\ "rsa" \in KeyTypes
    BY <2>1 DEF Empty, SlotType, KeyTypes
  <2> QED
    BY <1>3, <2>1, <2>2 DEF NoCtx, CtxType
<1>6. PasswordAccepted'
    BY <1>5 DEF PasswordAccepted
<1>7. ASSUME NEW o \in Objects
      PROVE  refs'[o] - CtxCount(ctx', o) = refs[o] - CtxCount(ctx, o)
  <2>1. Count(all, o) = CtxCount(ctx, o)
    BY <1>1, CtxSum DEF CtxCount
  <2>2. CtxCount(ctx', o) = 0
    <3>1. Current(ctx', o) = 0 + 0 + 0 /\ Count(ctx'.password, o) = 0
      BY <1>5, CountNone DEF Current
    <3>2. Current(ctx'.aside, o) = 0 + 0 + 0
      BY <1>5, CountNone DEF Current, Empty
    <3> QED
      BY <3>1, <3>2 DEF CtxCount, SlotCount
  <2>3. Count(all, o) \in Nat /\ refs[o] \in Int
    BY <1>1, <1>2, CountObjects
  <2> HIDE DEF all
  <2> QED
    BY <1>4, <2>1, <2>2, <2>3
<1>8. /\ UNCHANGED <<program, javaHeld, cred, conn, accepted>>
      /\ err' \in {"none", "eof", "other"} /\ result' \in {"ok", "failed"}
    BY DEF ssl_context_cleanup, Returns, MaterialInv, MaterialTyped
<1> QED
    BY <1>1, <1>4, <1>5, <1>6, <1>7, <1>8, CtxStep

\* free_and_reset_pass keeps one of the two passwords and gives up the other.
LEMMA KeepOne ==
    ASSUME NEW r \in [Objects -> Int], NEW kept \in Seq(Passwords), NEW dropped \in Seq(Passwords)
    PROVE  /\ Down(r, dropped) \in [Objects -> Int]
           /\ \A o \in Objects : Down(r, dropped)[o] - Count(kept, o)
                                   = r[o] - (Count(kept, o) + Count(dropped, o))
<1>1. kept \in Seq(Objects) /\ dropped \in Seq(Objects)
    BY SeqOfObjects
<1>2. /\ Down(r, dropped) \in [Objects -> Int]
      /\ \A o \in Objects : Down(r, dropped)[o] = r[o] - Count(dropped, o)
    BY <1>1, UpDown
<1>3. ASSUME NEW o \in Objects
      PROVE  Down(r, dropped)[o] - Count(kept, o) = r[o] - (Count(kept, o) + Count(dropped, o))
  <2> DEFINE x == Count(kept, o)
             y == Count(dropped, o)
             a == r[o]
  <2>1. x \in Nat /\ y \in Nat /\ a \in Int
    BY <1>1, CountObjects
  <2>2. Down(r, dropped)[o] = a - y
    BY <1>2
  <2> HIDE DEF x, y, a
  <2>3. (a - y) - x = a - (x + y)
    BY <2>1
  <2> QED
    BY <2>2, <2>3 DEF x, y, a
<1> QED
    BY <1>2, <1>3

\* The context came out as m with the references of taken besides its own, and its
\* password is now one of current and old, which are taken and the password it had.
PasswordMoved(m, taken, current, old, rv) ==
    /\ m \in CallOutcomes("ctx")
    /\ m.store.password = ctx.password
    /\ \A o \in Objects :
          m.refs[o] - CtxCount(m.store, o) = (refs[o] + Count(taken, o)) - CtxCount(ctx, o)
    /\ \A o \in Objects :
          Count(current, o) + Count(old, o) = Count(taken, o) + Count(ctx.password, o)
    /\ refs' = free_and_reset_pass(m.refs, current, old, rv).refs
    /\ ctx' = [m.store EXCEPT !.password = free_and_reset_pass(m.refs, current, old, rv).password]
    /\ accepted' \in Seq(Passwords)
    /\ (IF rv THEN current ELSE old) \in {None, accepted'}

\* Such a step keeps the invariant.
LEMMA PasswordStep ==
    ASSUME MaterialInv, NEW m, NEW taken \in Seq(Passwords),
           NEW current \in Seq(Passwords), NEW old \in Seq(Passwords), NEW rv \in BOOLEAN,
           PasswordMoved(m, taken, current, old, rv),
           UNCHANGED <<program, javaHeld, cred, conn>>, err' \in Errors, result' \in Results
    PROVE  MaterialInv'
<1>1. m.refs \in [Objects -> Int] /\ m.store \in CtxType /\ ctx \in CtxType /\ refs \in [Objects -> Int]
    BY DEF CallOutcomes, StoreType, MaterialInv, MaterialTyped, PasswordMoved
<1> DEFINE reset == free_and_reset_pass(m.refs, current, old, rv)
<1>2. /\ reset.refs \in [Objects -> Int] /\ reset.password \in Seq(Passwords)
      /\ reset.password = IF rv THEN current ELSE old
      /\ \A o \in Objects : reset.refs[o] - Count(reset.password, o)
                              = m.refs[o] - (Count(current, o) + Count(old, o))
  <2>1. CASE rv
    <3>1. reset.refs = Down(m.refs, old) /\ reset.password = current
      BY <2>1 DEF free_and_reset_pass
    <3>2. /\ Down(m.refs, old) \in [Objects -> Int]
          /\ \A o \in Objects : Down(m.refs, old)[o] - Count(current, o)
                                  = m.refs[o] - (Count(current, o) + Count(old, o))
      BY <1>1, KeepOne
    <3> QED
      BY <2>1, <3>1, <3>2
  <2>2. CASE ~rv
    <3>1. reset.refs = Down(m.refs, current) /\ reset.password = old
      BY <2>2 DEF free_and_reset_pass
    <3>2. /\ Down(m.refs, current) \in [Objects -> Int]
          /\ \A o \in Objects : Down(m.refs, current)[o] - Count(old, o)
                                  = m.refs[o] - (Count(old, o) + Count(current, o))
      BY <1>1, KeepOne
    <3>3. \A o \in Objects : Count(old, o) \in Nat /\ Count(current, o) \in Nat
      BY SeqOfObjects, CountObjects
    <3>4. \A o \in Objects : Count(old, o) + Count(current, o) = Count(current, o) + Count(old, o)
      BY <3>3
    <3> QED
      BY <2>2, <3>1, <3>2, <3>4
  <2> QED
    BY <2>1, <2>2
<1>3. refs' = reset.refs /\ ctx' = [m.store EXCEPT !.password = reset.password]
    BY DEF PasswordMoved
<1> HIDE DEF reset
<1>4. /\ ctx' \in CtxType /\ ctx'.cert = m.store.cert /\ ctx'.key = m.store.key
      /\ ctx'.chain = m.store.chain /\ ctx'.aside = m.store.aside /\ ctx'.password = reset.password
    BY <1>1, <1>2, <1>3 DEF CtxType
<1>5. PasswordAccepted'
    BY <1>2, <1>4 DEF PasswordAccepted, PasswordMoved
<1>6. ASSUME NEW o \in Objects
      PROVE  refs'[o] - CtxCount(ctx', o) = refs[o] - CtxCount(ctx, o)
  <2> DEFINE b == refs[o]
             a == m.refs[o]
             e == refs'[o]
             p == SlotCount(m.store, o)
             w == Count(ctx.password, o)
             z == Count(ctx'.password, o)
             g == Count(taken, o)
             x == Count(current, o) + Count(old, o)
             y == CtxCount(ctx, o)
  <2>1. CtxCount(m.store, o) = p + w /\ CtxCount(ctx', o) = p + z
    BY <1>4 DEF CtxCount, SlotCount, Current, PasswordMoved
  <2>2. p \in Nat /\ w \in Nat /\ z \in Nat /\ y \in Nat
    <3>1. p \in Nat /\ w \in Nat /\ SlotCount(ctx, o) \in Nat
      BY <1>1, CtxSum
    <3>2. z \in Nat
      BY <1>4, CtxSum
    <3> QED
      BY <3>1, <3>2 DEF CtxCount
  <2>3. g \in Nat
    BY SeqOfObjects, CountObjects
  <2>4. b \in Int /\ a \in Int /\ e \in Int
    BY <1>1, <1>2, <1>3
  <2>5. x = g + w
    BY DEF PasswordMoved
  <2>6. a - (p + w) = (b + g) - y
    BY <2>1 DEF PasswordMoved
  <2>7. e - z = a - x
    BY <1>2, <1>3, <1>4
  <2> HIDE DEF b, a, e, p, w, z, g, x, y
  <2>8. x \in Nat /\ e = a - x + z
    BY <2>2, <2>3, <2>4, <2>5, <2>7
  <2>9. a = b + x - y + p
    BY <2>2, <2>3, <2>4, <2>5, <2>6
  <2>10. e - (p + z) = b - y
    BY <2>2, <2>4, <2>8, <2>9
  <2> QED
    BY <2>1, <2>10 DEF b, e, y
<1>7. refs' \in [Objects -> Int] /\ accepted' \in Seq(Passwords)
    BY <1>2, <1>3 DEF PasswordMoved
<1> QED
    BY <1>4, <1>5, <1>6, <1>7, CtxStep DEF Errors, Results

\* setCertificate and setCertificateBio of a context with the pair p, used or refused.
LEMMA InstallPairStep ==
    ASSUME MaterialInv, NEW given \in Optional(Fresh(Passwords)), NEW pairs, NEW p \in pairs,
           p[1] \in Optional(Fresh(Certs)), p[2] \in Optional(Fresh(Keys)),
           NEW m \in UsePair([On(ctx) EXCEPT !.refs = Up(@, given)], p[1], p[2]),
           NEW current, current = (IF given = None THEN ctx.password ELSE given),
           NEW old, old = (IF given = None THEN None ELSE ctx.password),
           refs' = free_and_reset_pass(m.refs, current, old, m.ok).refs,
           ctx' = [m.store EXCEPT
                     !.password = free_and_reset_pass(m.refs, current, old, m.ok).password],
           accepted' = IF m.ok /\ given # None THEN given ELSE accepted,
           UNCHANGED <<program, javaHeld, cred, conn>>, err' \in Errors, result' \in Results
    PROVE  MaterialInv'
<1> DEFINE start == [On(ctx) EXCEPT !.refs = Up(@, given)]
           pw == ctx.password
<1>1. Fresh(Certs) \subseteq Certs /\ Fresh(Keys) \subseteq Keys /\ Fresh(Passwords) \subseteq Passwords
    BY DEF Fresh
<1>2. /\ p[1] \in Seq(Certs) /\ (p[1] # None => p[1][1] \in Certs)
      /\ p[2] \in Seq(Keys) /\ (p[2] # None => p[2][1] \in Keys)
      /\ given \in Seq(Passwords)
    BY <1>1, OptionalType
<1>3. /\ refs \in [Objects -> Int] /\ ctx \in CtxType /\ pw \in Seq(Passwords)
      /\ accepted \in Seq(Passwords) /\ pw \in {None, accepted}
    BY DEF MaterialInv, MaterialTyped, CtxType, PasswordAccepted
<1>4. given \in Seq(Objects) /\ pw \in Seq(Objects) /\ None \in Seq(Passwords)
    BY <1>2, <1>3, SeqOfObjects DEF None
<1>5. /\ Up(refs, given) \in [Objects -> Int]
      /\ \A o \in Objects : Up(refs, given)[o] = refs[o] + Count(given, o)
    BY <1>3, <1>4, UpDown
<1>6. start \in CallOutcomes("ctx") /\ start.refs = Up(refs, given) /\ start.store = ctx
    BY <1>5, OnCtx DEF CallOutcomes
<1> HIDE DEF start
<1>7. Balanced("ctx", start, m)
    BY <1>2, <1>6, OnCtx, UsePairBalanced DEF start
<1>8. m \in CallOutcomes("ctx") /\ m.store.password = pw /\ m.ok \in BOOLEAN
    BY <1>6, <1>7 DEF Balanced, SameRest, CallOutcomes
<1>9. ASSUME NEW o \in Objects
      PROVE  m.refs[o] - CtxCount(m.store, o) = (refs[o] + Count(given, o)) - CtxCount(ctx, o)
  <2>1. m.refs[o] - CtxCount(m.store, o) = start.refs[o] - CtxCount(start.store, o)
    BY <1>6, <1>7, BalancedCtxCount
  <2>2. start.refs[o] = refs[o] + Count(given, o)
    BY <1>5, <1>6
  <2>3. CtxCount(start.store, o) = CtxCount(ctx, o)
    BY <1>6
  <2> DEFINE a == start.refs[o]
             b == refs[o] + Count(given, o)
             x == CtxCount(start.store, o)
             y == CtxCount(ctx, o)
             z == m.refs[o] - CtxCount(m.store, o)
  <2>4. a = b /\ x = y /\ z = a - x
    BY <2>1, <2>2, <2>3
  <2> HIDE DEF a, b, x, y, z
  <2>5. z = b - y
    BY <2>4
  <2> QED
    BY <2>5 DEF z, b, y
<1>10. current \in Seq(Passwords) /\ old \in Seq(Passwords)
    BY <1>2, <1>3, <1>4
<1>11. ASSUME NEW o \in Objects
       PROVE  Count(current, o) + Count(old, o) = Count(given, o) + Count(pw, o)
  <2>1. Count(given, o) \in Nat /\ Count(pw, o) \in Nat /\ Count(None, o) = 0
    BY <1>4, CountObjects
  <2>2. CASE given = None
    BY <2>1, <2>2
  <2>3. CASE given # None
    BY <2>3
  <2> QED
    BY <2>2, <2>3
<1>12. accepted' \in Seq(Passwords) /\ (IF m.ok THEN current ELSE old) \in {None, accepted'}
    BY <1>2, <1>3
<1>13. PasswordMoved(m, given, current, old, m.ok)
    BY <1>8, <1>9, <1>11, <1>12 DEF PasswordMoved
<1> QED
    BY <1>2, <1>8, <1>10, <1>13, PasswordStep

\* setCertificate keeps the invariant of key material.
LEMMA Step_setCertificate ==
    ASSUME MaterialInv, NEW given \in Optional(Fresh(Passwords)), setCertificate(given)
    PROVE  MaterialInv'
<1> DEFINE pairs == KeyFirst(load_pem_cert, load_pem_key) \cup ssl_load_pkcs12
           current == IF given = None THEN ctx.password ELSE given
           old == IF given = None THEN None ELSE ctx.password
<1>1. UNCHANGED <<program, javaHeld, cred, conn>>
    BY DEF setCertificate, InstallPair
<1>2. PICK p \in pairs : \E m \in UsePair([On(ctx) EXCEPT !.refs = Up(@, given)], p[1], p[2]) :
        /\ refs' = free_and_reset_pass(m.refs, current, old, m.ok).refs
        /\ ctx' = [m.store EXCEPT !.password = free_and_reset_pass(m.refs, current, old, m.ok).password]
        /\ accepted' = IF m.ok /\ given # None THEN given ELSE accepted
        /\ Returns(m.ok) /\ (KeepsOrClears \/ TakeOneError)
    BY DEF setCertificate, InstallPair
<1>3. PICK m \in UsePair([On(ctx) EXCEPT !.refs = Up(@, given)], p[1], p[2]) :
        /\ refs' = free_and_reset_pass(m.refs, current, old, m.ok).refs
        /\ ctx' = [m.store EXCEPT !.password = free_and_reset_pass(m.refs, current, old, m.ok).password]
        /\ accepted' = IF m.ok /\ given # None THEN given ELSE accepted
        /\ Returns(m.ok) /\ (KeepsOrClears \/ TakeOneError)
    BY <1>2
<1>4. p[1] \in Optional(Fresh(Certs)) /\ p[2] \in Optional(Fresh(Keys))
    BY DEF KeyFirst, load_pem_cert, load_pem_key, ssl_load_pkcs12
<1>5. err' \in Errors /\ result' \in Results
    BY <1>3 DEF KeepsOrClears, TakeOneError, Returns, MaterialInv, MaterialTyped, Errors, Results
<1> HIDE DEF pairs
<1> QED
    BY <1>1, <1>3, <1>4, <1>5, InstallPairStep

\* SSLContext_setCertificateBio keeps the invariant of key material.
LEMMA Step_SSLContext_setCertificateBio ==
    ASSUME MaterialInv, NEW given \in Optional(Fresh(Passwords)), SSLContext_setCertificateBio(given)
    PROVE  MaterialInv'
<1> DEFINE pairs == KeyFirst(tcn_load_pem_cert_bio, tcn_load_pem_key_bio)
           current == IF given = None THEN ctx.password ELSE given
           old == IF given = None THEN None ELSE ctx.password
<1>1. UNCHANGED <<program, javaHeld, cred, conn>>
    BY DEF SSLContext_setCertificateBio, InstallPair
<1>2. PICK p \in pairs : \E m \in UsePair([On(ctx) EXCEPT !.refs = Up(@, given)], p[1], p[2]) :
        /\ refs' = free_and_reset_pass(m.refs, current, old, m.ok).refs
        /\ ctx' = [m.store EXCEPT !.password = free_and_reset_pass(m.refs, current, old, m.ok).password]
        /\ accepted' = IF m.ok /\ given # None THEN given ELSE accepted
        /\ Returns(m.ok) /\ (KeepsOrClears \/ ClearErrors)
    BY DEF SSLContext_setCertificateBio, InstallPair
<1>3. PICK m \in UsePair([On(ctx) EXCEPT !.refs = Up(@, given)], p[1], p[2]) :
        /\ refs' = free_and_reset_pass(m.refs, current, old, m.ok).refs
        /\ ctx' = [m.store EXCEPT !.password = free_and_reset_pass(m.refs, current, old, m.ok).password]
        /\ accepted' = IF m.ok /\ given # None THEN given ELSE accepted
        /\ Returns(m.ok) /\ (KeepsOrClears \/ ClearErrors)
    BY <1>2
<1>4. p[1] \in Optional(Fresh(Certs)) /\ p[2] \in Optional(Fresh(Keys))
    BY DEF KeyFirst, tcn_load_pem_cert_bio, tcn_load_pem_key_bio
<1>5. err' \in Errors /\ result' \in Results
    BY <1>3 DEF KeepsOrClears, ClearErrors, Returns, MaterialInv, MaterialTyped, Errors, Results
<1> HIDE DEF pairs
<1> QED
    BY <1>1, <1>3, <1>4, <1>5, InstallPairStep

\* NothingToInstall keeps the invariant of key material.
LEMMA Step_NothingToInstall ==
    ASSUME MaterialInv, NEW given \in Optional(Fresh(Passwords)), NothingToInstall(given)
    PROVE  MaterialInv'
<1> DEFINE current(x) == IF given = None THEN ctx.password ELSE x
           old == IF given = None THEN None ELSE ctx.password
           pw == ctx.password
<1>1. PICK copied \in Optional({given[i] : i \in DOMAIN given}) :
        /\ refs' = free_and_reset_pass(Up(refs, copied), current(copied), old, FALSE).refs
        /\ ctx' = [ctx EXCEPT !.password =
                     free_and_reset_pass(Up(refs, copied), current(copied), old, FALSE).password]
    BY DEF NothingToInstall
<1>2. /\ UNCHANGED <<program, javaHeld, cred, conn, accepted>>
      /\ err' \in Errors /\ result' \in Results
    BY DEF NothingToInstall, Returns, MaterialInv, MaterialTyped, Errors, Results
<1>3. given \in Seq(Passwords)
  <2>1. Fresh(Passwords) \subseteq Passwords
    BY DEF Fresh
  <2> QED
    BY <2>1, OptionalType
<1>4. copied \in Seq(Passwords) /\ (given = None => copied = None)
  <2>1. {given[i] : i \in DOMAIN given} \subseteq Passwords
    BY <1>3
  <2>2. given = None => {given[i] : i \in DOMAIN given} = {}
    BY DEF None
  <2>3. given = None => copied = None
    BY <2>2 DEF Optional
  <2> QED
    BY <2>1, <2>3, OptionalType
<1>5. /\ refs \in [Objects -> Int] /\ ctx \in CtxType /\ pw \in Seq(Passwords)
      /\ accepted \in Seq(Passwords) /\ pw \in {None, accepted}
    BY DEF MaterialInv, MaterialTyped, CtxType, PasswordAccepted
<1>6. copied \in Seq(Objects) /\ pw \in Seq(Objects) /\ None \in Seq(Passwords)
    BY <1>4, <1>5, SeqOfObjects DEF None
<1>7. /\ Up(refs, copied) \in [Objects -> Int]
      /\ \A o \in Objects : Up(refs, copied)[o] = refs[o] + Count(copied, o)
    BY <1>5, <1>6, UpDown
<1> DEFINE m == [On(ctx) EXCEPT !.refs = Up(refs, copied)]
<1>8. m \in CallOutcomes("ctx") /\ m.refs = Up(refs, copied) /\ m.store = ctx
    BY <1>7, OnCtx DEF CallOutcomes
<1>9. current(copied) \in Seq(Passwords) /\ old \in Seq(Passwords)
    BY <1>4, <1>5, <1>6
<1>10. ASSUME NEW o \in Objects
       PROVE  Count(current(copied), o) + Count(old, o) = Count(copied, o) + Count(pw, o)
  <2>1. Count(copied, o) \in Nat /\ Count(pw, o) \in Nat /\ Count(None, o) = 0
    BY <1>6, CountObjects
  <2>2. CASE given = None
    BY <1>4, <2>1, <2>2
  <2>3. CASE given # None
    BY <2>3
  <2> QED
    BY <2>2, <2>3
<1>11. (IF FALSE THEN current(copied) ELSE old) \in {None, accepted'} /\ accepted' \in Seq(Passwords)
    BY <1>2, <1>5
<1> HIDE DEF m
<1>12. ASSUME NEW o \in Objects
       PROVE  m.refs[o] - CtxCount(m.store, o) = (refs[o] + Count(copied, o)) - CtxCount(ctx, o)
  <2> DEFINE a == m.refs[o]
             b == refs[o] + Count(copied, o)
             x == CtxCount(m.store, o)
             y == CtxCount(ctx, o)
  <2>1. a = b
    BY <1>7, <1>8
  <2>2. x = y
    BY <1>8
  <2> HIDE DEF a, b, x, y
  <2>3. a - x = b - y
    BY <2>1, <2>2
  <2> QED
    BY <2>3 DEF a, b, x, y
<1> HIDE DEF current, old
<1>13. PasswordMoved(m, copied, current(copied), old, FALSE)
  <2>1. /\ refs' = free_and_reset_pass(m.refs, current(copied), old, FALSE).refs
        /\ ctx' = [m.store EXCEPT !.password =
                     free_and_reset_pass(m.refs, current(copied), old, FALSE).password]
    BY <1>1, <1>8
  <2> QED
    BY <1>8, <1>10, <1>11, <1>12, <2>1, Zenon DEF PasswordMoved
<1> QED
    BY <1>2, <1>4, <1>9, <1>13, PasswordStep

\* A call that changes the chains Java holds, and nothing else.
LEMMA ChainsStep ==
    ASSUME MaterialInv, MaterialTyped', UNCHANGED <<keys, javaCreds, cred, conn, ctx, accepted>>,
           \A o \in Objects :
              /\ IsFiniteSet(Places(chains', DOMAIN chains', o))
              /\ refs'[o] - Cardinality(Places(chains', DOMAIN chains', o))
                   = refs[o] - Cardinality(Places(chains, DOMAIN chains, o))
    PROVE  MaterialInv'
<1>1. ASSUME NEW o \in Objects
      PROVE  HeldByJava(o)' \in Nat /\ refs'[o] - HeldByJava(o)' = refs[o] - HeldByJava(o)
  <2> DEFINE a == Cardinality(Places(chains, DOMAIN chains, o))
             z == Cardinality(Places(chains', DOMAIN chains', o))
             k == IF o \in keys THEN 1 ELSE 0
             c == IF o \in Creds THEN javaCreds[o] ELSE 0
             r == refs[o]
             t == refs'[o]
  <2>1. a \in Nat /\ z \in Nat
    BY FS_CardinalityType DEF MaterialInv, FinitePlaces
  <2>2. k \in Nat /\ c \in Nat
    BY DEF MaterialInv, MaterialTyped
  <2>3. r \in Int /\ t \in Int /\ t - z = r - a
    BY DEF MaterialInv, MaterialTyped
  <2>4. HeldByJava(o) = a + k + c /\ HeldByJava(o)' = z + k + c
    BY DEF HeldByJava
  <2> HIDE DEF a, z, k, c, r, t
  <2>5. z + k + c \in Nat /\ t - (z + k + c) = r - (a + k + c)
    BY <2>1, <2>2, <2>3
  <2> QED
    BY <2>4, <2>5 DEF r, t
<1> QED
    BY <1>1, JavaStep

\* parseX509Chain keeps the invariant of key material.
LEMMA Step_parseX509Chain ==
    ASSUME MaterialInv, NEW h \in Handles, NEW s \in Readable, NEW wellFormed,
           parseX509Chain(h, s, wellFormed)
    PROVE  MaterialInv'
<1>1. s \in Seq(Certs) /\ s \in Seq(Objects)
    BY ReadableType, SeqOfObjects
<1>2. /\ refs \in [Objects -> Int] /\ DOMAIN chains \subseteq Handles /\ h \notin DOMAIN chains
      /\ \A x \in DOMAIN chains : chains[x] \in Seq(Certs)
    BY DEF MaterialInv, MaterialTyped, parseX509Chain
<1>3. /\ UNCHANGED <<program, keys, javaCreds, cred, conn, ctx, accepted>>
      /\ err' \in Errors /\ result' \in Results
    BY DEF parseX509Chain, ClearErrors, Returns, Errors, Results
<1> DEFINE u == Up(refs, s)
           d == Down(Up(refs, s), s)
           f == [x \in DOMAIN chains \cup {h} |-> IF x = h THEN s ELSE chains[x]]
<1>4. CASE refs' = u /\ chains' = f /\ cut' = (IF wellFormed THEN cut ELSE cut \cup {h})
  <2>1. u \in [Objects -> Int] /\ \A o \in Objects : u[o] = refs[o] + Count(s, o)
    BY <1>1, <1>2, UpDown
  <2> HIDE DEF u
  <2>2. /\ DOMAIN chains' = DOMAIN chains \cup {h} /\ chains'[h] = s
        /\ \A x \in DOMAIN chains : chains'[x] = chains[x]
    BY <1>2, <1>4
  <2>3. MaterialTyped'
    <3>1. DOMAIN chains' \subseteq Handles /\ \A x \in DOMAIN chains' : chains'[x] \in Seq(Certs)
      BY <1>1, <1>2, <2>2
    <3>2. cut' \subseteq DOMAIN chains'
      BY <1>4, <2>2 DEF MaterialInv, MaterialTyped
    <3>3. refs' \in [Objects -> Int]
      BY <1>4, <2>1
    <3> QED
      BY <1>3, <3>1, <3>2, <3>3 DEF MaterialInv, MaterialTyped, Errors, Results
  <2>4. ASSUME NEW o \in Objects
        PROVE  /\ IsFiniteSet(Places(chains', DOMAIN chains', o))
               /\ refs'[o] - Cardinality(Places(chains', DOMAIN chains', o))
                    = refs[o] - Cardinality(Places(chains, DOMAIN chains, o))
    <3> DEFINE D == DOMAIN chains
               a == Cardinality(Places(chains, D, o))
               x == Count(s, o)
               r == refs[o]
    <3>1. Places(chains', D, o) = Places(chains, D, o)
      BY <2>2, PlacesSame
    <3>2. IsFiniteSet(Places(chains, D, o)) /\ a \in Nat
      BY FS_CardinalityType DEF MaterialInv, FinitePlaces
    <3>3. /\ IsFiniteSet(Places(chains', {h}, o))
          /\ Cardinality(Places(chains', {h}, o)) = x
      BY <1>1, <2>2, PlacesOne
    <3>4. D \cap {h} = {}
      BY <1>2
    <3>5. /\ IsFiniteSet(Places(chains', D \cup {h}, o))
          /\ Cardinality(Places(chains', D \cup {h}, o)) = a + x
      BY <3>1, <3>2, <3>3, <3>4, PlacesUnion
    <3>6. x \in Nat /\ r \in Int /\ refs'[o] = r + x
      BY <1>1, <1>2, <1>4, <2>1, CountObjects
    <3> HIDE DEF a, x, r
    <3>7. (r + x) - (a + x) = r - a
      BY <3>2, <3>6
    <3> QED
      BY <2>2, <3>5, <3>6, <3>7 DEF a, r
  <2> QED
    BY <1>3, <2>3, <2>4, ChainsStep
<1>5. CASE refs' = d /\ UNCHANGED <<chains, cut>>
  <2>1. d \in [Objects -> Int] /\ \A o \in Objects : d[o] = refs[o] + Count(s, o) - Count(s, o)
    BY <1>1, <1>2, UpThenDown
  <2>2. ASSUME NEW o \in Objects PROVE d[o] = refs[o]
    <3>1. Count(s, o) \in Nat /\ refs[o] \in Int
      BY <1>1, <1>2, CountObjects
    <3> HIDE DEF d
    <3> QED
      BY <2>1, <3>1
  <2> HIDE DEF d
  <2>3. MaterialTyped'
    BY <1>3, <1>5, <2>1 DEF MaterialInv, MaterialTyped, Errors, Results
  <2>4. ASSUME NEW o \in Objects
        PROVE  /\ IsFiniteSet(Places(chains', DOMAIN chains', o))
               /\ refs'[o] - Cardinality(Places(chains', DOMAIN chains', o))
                    = refs[o] - Cardinality(Places(chains, DOMAIN chains, o))
    BY <1>5, <2>2 DEF MaterialInv, FinitePlaces
  <2> QED
    BY <1>3, <2>3, <2>4, ChainsStep
<1> QED
    BY <1>4, <1>5 DEF parseX509Chain

\* freeX509Chain keeps the invariant of key material.
LEMMA Step_freeX509Chain ==
    ASSUME MaterialInv, NEW h \in Handles, freeX509Chain(h)
    PROVE  MaterialInv'
<1> DEFINE s == chains[h]
           E == DOMAIN chains \ {h}
<1>1. h \in DOMAIN chains /\ s \in Seq(Certs) /\ refs \in [Objects -> Int]
    BY DEF MaterialInv, MaterialTyped, freeX509Chain
<1>2. s \in Seq(Objects)
    BY <1>1, SeqOfObjects
<1>3. /\ UNCHANGED <<program, keys, javaCreds, cred, conn, ctx, accepted, err>>
      /\ result' \in Results /\ refs' = Down(refs, s) /\ cut' = cut \ {h}
      /\ DOMAIN chains' = E /\ \A x \in E : chains'[x] = chains[x]
    BY DEF freeX509Chain, Returns, Results
<1> HIDE DEF s
<1>4. refs' \in [Objects -> Int] /\ \A o \in Objects : refs'[o] = refs[o] - Count(s, o)
    BY <1>1, <1>2, <1>3, UpDown
<1>5. MaterialTyped'
    BY <1>3, <1>4 DEF MaterialInv, MaterialTyped, Results
<1>6. ASSUME NEW o \in Objects
      PROVE  /\ IsFiniteSet(Places(chains', DOMAIN chains', o))
             /\ refs'[o] - Cardinality(Places(chains', DOMAIN chains', o))
                  = refs[o] - Cardinality(Places(chains, DOMAIN chains, o))
  <2> DEFINE D == DOMAIN chains
             a == Cardinality(Places(chains, E, o))
             x == Count(s, o)
             r == refs[o]
  <2>1. Places(chains', E, o) = Places(chains, E, o)
    BY <1>3, PlacesSame
  <2>2. IsFiniteSet(Places(chains, D, o))
    BY DEF MaterialInv, FinitePlaces
  <2>3. IsFiniteSet(Places(chains, E, o))
    BY <2>2, PlacesSubset
  <2>4. a \in Nat
    BY <2>3, FS_CardinalityType
  <2>5. IsFiniteSet(Places(chains, {h}, o)) /\ Cardinality(Places(chains, {h}, o)) = x
    BY <1>1, PlacesOne DEF s
  <2>6. E \cap {h} = {} /\ E \cup {h} = D
    BY <1>1
  <2>7. Cardinality(Places(chains, D, o)) = a + x
    BY <2>3, <2>5, <2>6, PlacesUnion
  <2>8. x \in Nat /\ r \in Int /\ refs'[o] = r - x
    BY <1>1, <1>2, <1>4, CountObjects
  <2> HIDE DEF a, x, r
  <2>9. (r - x) - a = r - (a + x)
    BY <2>4, <2>8
  <2>10. Cardinality(Places(chains', DOMAIN chains', o)) = a /\ IsFiniteSet(Places(chains', DOMAIN chains', o))
    BY <1>3, <2>1, <2>3 DEF a
  <2> QED
    BY <2>7, <2>8, <2>9, <2>10 DEF r
<1> QED
    BY <1>3, <1>5, <1>6, ChainsStep

\* Java holds nothing that is not allocated.
LEMMA FreshUnheld ==
    ASSUME MaterialInv, NEW o \in Objects, refs[o] = 0
    PROVE  o \notin keys /\ (o \in Creds => javaCreds[o] = 0)
<1> DEFINE a == HeldByConn(o)
           b == HeldByCtx(o)
           c == HeldByJava(o)
           d == HeldByCreds(Creds, o)
           x == Cardinality(Places(chains, DOMAIN chains, o))
           y == IF o \in keys THEN 1 ELSE 0
           z == IF o \in Creds THEN javaCreds[o] ELSE 0
<1>1. a \in Nat /\ b \in Nat /\ c \in Nat /\ d \in Nat
    BY PartsNat DEF MaterialInv
<1>2. a + b + c + d = 0
    BY DEF MaterialInv, RefsOwned, Owners
<1>3. x \in Nat
    BY FS_CardinalityType DEF MaterialInv, FinitePlaces
<1>4. y \in Nat /\ z \in Nat
    BY DEF MaterialInv, MaterialTyped
<1>5. c = x + y + z
    BY DEF HeldByJava
<1> HIDE DEF a, b, c, d, x, y, z
<1>6. c = 0
    BY <1>1, <1>2
<1>7. y = 0 /\ z = 0
    BY <1>3, <1>4, <1>5, <1>6
<1> QED
    BY <1>7 DEF y, z

\* A call that changes which keys Java holds, or how many references to credentials.
LEMMA HandlesStep ==
    ASSUME MaterialInv, MaterialTyped', UNCHANGED <<chains, cred, conn, ctx, accepted>>,
           \A o \in Objects :
              refs'[o] - ((IF o \in keys' THEN 1 ELSE 0) + (IF o \in Creds THEN javaCreds'[o] ELSE 0))
                = refs[o] - ((IF o \in keys THEN 1 ELSE 0) + (IF o \in Creds THEN javaCreds[o] ELSE 0))
    PROVE  MaterialInv'
<1>1. ASSUME NEW o \in Objects
      PROVE  HeldByJava(o)' \in Nat /\ refs'[o] - HeldByJava(o)' = refs[o] - HeldByJava(o)
  <2> DEFINE a == Cardinality(Places(chains, DOMAIN chains, o))
             k == IF o \in keys THEN 1 ELSE 0
             c == IF o \in Creds THEN javaCreds[o] ELSE 0
             l == IF o \in keys' THEN 1 ELSE 0
             d == IF o \in Creds THEN javaCreds'[o] ELSE 0
             r == refs[o]
             t == refs'[o]
  <2>1. a \in Nat
    BY FS_CardinalityType DEF MaterialInv, FinitePlaces
  <2>2. k \in Nat /\ c \in Nat /\ l \in Nat /\ d \in Nat
    BY DEF MaterialInv, MaterialTyped
  <2>3. r \in Int /\ t \in Int
    BY DEF MaterialInv, MaterialTyped
  <2>4. t - (l + d) = r - (k + c)
    OBVIOUS
  <2>5. HeldByJava(o) = a + k + c /\ HeldByJava(o)' = a + l + d
    BY DEF HeldByJava
  <2> HIDE DEF a, k, c, l, d, r, t
  <2>6. a + l + d \in Nat /\ t - (a + l + d) = r - (a + k + c)
    BY <2>1, <2>2, <2>3, <2>4
  <2> QED
    BY <2>5, <2>6 DEF r, t
<1>2. \A o \in Objects : IsFiniteSet(Places(chains', DOMAIN chains', o))
    BY DEF MaterialInv, FinitePlaces
<1> QED
    BY <1>1, <1>2, JavaStep

\* One reference more, or less, to x.
LEMMA OneReference ==
    ASSUME NEW r \in [Objects -> Int], NEW x \in Objects
    PROVE  /\ Up(r, <<x>>) \in [Objects -> Int] /\ Down(r, <<x>>) \in [Objects -> Int]
           /\ \A o \in Objects : Up(r, <<x>>)[o] = r[o] + (IF x = o THEN 1 ELSE 0)
           /\ \A o \in Objects : Down(r, <<x>>)[o] = r[o] - (IF x = o THEN 1 ELSE 0)
<1> DEFINE one == <<x>>
<1>1. one \in Seq(Objects)
    BY CountObjects
<1>2. \A o \in Objects : Count(one, o) = IF x = o THEN 1 ELSE 0
    BY CountOne
<1> HIDE DEF one
<1>3. /\ Up(r, one) \in [Objects -> Int] /\ Down(r, one) \in [Objects -> Int]
      /\ \A o \in Objects : Up(r, one)[o] = r[o] + Count(one, o)
      /\ \A o \in Objects : Down(r, one)[o] = r[o] - Count(one, o)
    BY <1>1, UpDown
<1> QED
    BY <1>2, <1>3 DEF one

\* NewKey keeps the invariant of key material.
LEMMA Step_NewKey ==
    ASSUME MaterialInv, NewKey
    PROVE  MaterialInv'
<1>1. /\ refs \in [Objects -> Int] /\ keys \subseteq Keys /\ Keys \subseteq Objects
      /\ UNCHANGED <<program, chains, cut, javaCreds, cred, conn, ctx, accepted>>
      /\ err' \in Errors /\ result' \in Results
    BY DEF MaterialInv, MaterialTyped, Objects, NewKey, Returns, ClearErrors, Errors, Results
<1>2. ASSUME NEW k \in Fresh(Keys), refs' = Up(refs, <<k>>), keys' = keys \cup {k}
      PROVE  MaterialInv'
  <2>1. k \in Keys /\ k \in Objects /\ refs[k] = 0
    BY <1>1 DEF Fresh
  <2>2. k \notin keys
    BY <2>1, FreshUnheld
  <2>3. /\ refs' \in [Objects -> Int]
        /\ \A o \in Objects : refs'[o] = refs[o] + (IF k = o THEN 1 ELSE 0)
    BY <1>1, <1>2, <2>1, OneReference
  <2>4. MaterialTyped'
    BY <1>1, <1>2, <2>1, <2>3 DEF MaterialInv, MaterialTyped, Errors, Results
  <2>5. ASSUME NEW o \in Objects
        PROVE  refs'[o] - ((IF o \in keys' THEN 1 ELSE 0) + (IF o \in Creds THEN javaCreds'[o] ELSE 0))
                 = refs[o] - ((IF o \in keys THEN 1 ELSE 0) + (IF o \in Creds THEN javaCreds[o] ELSE 0))
    <3> DEFINE c == IF o \in Creds THEN javaCreds[o] ELSE 0
    <3>1. c \in Nat /\ refs[o] \in Int
      BY <1>1 DEF MaterialInv, MaterialTyped
    <3>2. (IF o \in Creds THEN javaCreds'[o] ELSE 0) = c
      BY <1>1
    <3> HIDE DEF c
    <3>3. refs'[o] - ((IF o \in keys' THEN 1 ELSE 0) + c) = refs[o] - ((IF o \in keys THEN 1 ELSE 0) + c)
      BY <1>2, <2>2, <2>3, <3>1
    <3> QED
      BY <3>2, <3>3 DEF c
  <2> QED
    BY <1>1, <2>4, <2>5, HandlesStep
<1>3. CASE UNCHANGED <<refs, keys>>
  <2>1. MaterialTyped'
    BY <1>1, <1>3 DEF MaterialInv, MaterialTyped, Errors, Results
  <2> QED
    BY <1>1, <1>3, <2>1, HandlesStep
<1> QED
    BY <1>2, <1>3 DEF NewKey

\* freePrivateKey keeps the invariant of key material.
LEMMA Step_freePrivateKey ==
    ASSUME MaterialInv, NEW k \in keys, freePrivateKey(k)
    PROVE  MaterialInv'
<1>1. /\ refs \in [Objects -> Int] /\ k \in Objects /\ keys' = keys \ {k}
      /\ UNCHANGED <<program, chains, cut, javaCreds, cred, conn, ctx, accepted, err>>
      /\ result' \in Results /\ refs' = Down(refs, <<k>>)
    BY DEF MaterialInv, MaterialTyped, Objects, freePrivateKey, Returns, Results
<1>2. /\ refs' \in [Objects -> Int]
      /\ \A o \in Objects : refs'[o] = refs[o] - (IF k = o THEN 1 ELSE 0)
    BY <1>1, OneReference
<1>3. MaterialTyped'
    BY <1>1, <1>2 DEF MaterialInv, MaterialTyped, Results
<1>4. ASSUME NEW o \in Objects
      PROVE  refs'[o] - ((IF o \in keys' THEN 1 ELSE 0) + (IF o \in Creds THEN javaCreds'[o] ELSE 0))
               = refs[o] - ((IF o \in keys THEN 1 ELSE 0) + (IF o \in Creds THEN javaCreds[o] ELSE 0))
  <2> DEFINE c == IF o \in Creds THEN javaCreds[o] ELSE 0
  <2>1. c \in Nat /\ refs[o] \in Int
    BY <1>1 DEF MaterialInv, MaterialTyped
  <2>2. (IF o \in Creds THEN javaCreds'[o] ELSE 0) = c
    BY <1>1
  <2> HIDE DEF c
  <2>3. refs'[o] - ((IF o \in keys' THEN 1 ELSE 0) + c) = refs[o] - ((IF o \in keys THEN 1 ELSE 0) + c)
    BY <1>1, <1>2, <2>1
  <2> QED
    BY <2>2, <2>3 DEF c
<1> QED
    BY <1>1, <1>3, <1>4, HandlesStep

\* Java's references to credential x go up by one, with its count.
LEMMA CredTaken ==
    ASSUME MaterialInv, NEW x \in Creds, refs' = Up(refs, <<x>>),
           javaCreds' = [javaCreds EXCEPT ![x] = javaCreds[x] + 1],
           UNCHANGED <<program, chains, cut, keys, cred, conn, ctx, accepted>>,
           err' \in Errors, result' \in Results
    PROVE  MaterialInv'
<1>1. /\ refs \in [Objects -> Int] /\ x \in Objects /\ javaCreds \in [Creds -> Nat]
    BY DEF MaterialInv, MaterialTyped, Objects
<1>2. /\ refs' \in [Objects -> Int]
      /\ \A o \in Objects : refs'[o] = refs[o] + (IF x = o THEN 1 ELSE 0)
    BY <1>1, OneReference
<1>3. javaCreds' \in [Creds -> Nat]
    BY <1>1
<1>4. MaterialTyped'
    BY <1>2, <1>3 DEF MaterialInv, MaterialTyped, Errors, Results
<1>5. ASSUME NEW o \in Objects
      PROVE  refs'[o] - ((IF o \in keys' THEN 1 ELSE 0) + (IF o \in Creds THEN javaCreds'[o] ELSE 0))
               = refs[o] - ((IF o \in keys THEN 1 ELSE 0) + (IF o \in Creds THEN javaCreds[o] ELSE 0))
  <2> DEFINE c == IF o \in Creds THEN javaCreds[o] ELSE 0
             d == IF o \in Creds THEN javaCreds'[o] ELSE 0
             k == IF o \in keys THEN 1 ELSE 0
             e == IF x = o THEN 1 ELSE 0
             r == refs[o]
  <2>1. c \in Nat /\ k \in Nat /\ e \in Nat /\ r \in Int
    BY <1>1
  <2>2. d = c + e
    BY <1>1
  <2>3. refs'[o] = r + e /\ (IF o \in keys' THEN 1 ELSE 0) = k
    BY <1>2
  <2> HIDE DEF c, d, k, e, r
  <2>4. (r + e) - (k + d) = r - (k + c)
    BY <2>1, <2>2
  <2> QED
    BY <2>3, <2>4 DEF c, d, k, r
<1> QED
    BY <1>4, <1>5, HandlesStep

\* NewCred keeps the invariant of key material.
LEMMA Step_NewCred ==
    ASSUME MaterialInv, NewCred, err' \in Errors
    PROVE  MaterialInv'
<1>1. /\ UNCHANGED <<program, chains, cut, keys, cred, conn, ctx, accepted>>
      /\ result' \in Results
    BY DEF NewCred, Returns, Results
<1>2. ASSUME NEW c \in Fresh(Creds), refs' = Up(refs, <<c>>), javaCreds' = [javaCreds EXCEPT ![c] = 1]
      PROVE  MaterialInv'
  <2>1. c \in Creds /\ c \in Objects /\ refs[c] = 0
    BY DEF Fresh, Objects
  <2>2. javaCreds[c] = 0
    BY <2>1, FreshUnheld
  <2>3. javaCreds' = [javaCreds EXCEPT ![c] = javaCreds[c] + 1]
    BY <1>2, <2>2
  <2> QED
    BY <1>1, <1>2, <2>1, <2>3, CredTaken
<1>3. CASE UNCHANGED <<refs, javaCreds>>
  <2>1. MaterialTyped'
    BY <1>1, <1>3 DEF MaterialInv, MaterialTyped, Errors, Results
  <2> QED
    BY <1>1, <1>3, <2>1, HandlesStep
<1> QED
    BY <1>2, <1>3 DEF NewCred

\* upRef keeps the invariant of key material.
LEMMA Step_upRef ==
    ASSUME MaterialInv, NEW c \in Creds, upRef(c)
    PROVE  MaterialInv'
<1>1. /\ UNCHANGED <<program, chains, cut, keys, cred, conn, ctx, accepted, err>>
      /\ refs' = Up(refs, <<c>>) /\ javaCreds' = [javaCreds EXCEPT ![c] = javaCreds[c] + 1]
      /\ result' \in Results
    BY DEF upRef, Returns, Results
<1>2. err' \in Errors
    BY <1>1 DEF MaterialInv, MaterialTyped, Errors
<1> QED
    BY <1>1, <1>2, CredTaken

\* The places in what c holds and in what the other credentials hold.
LEMMA PlacesSplit ==
    ASSUME NEW f, NEW c \in Creds, NEW o, f[c] \in Seq(Objects),
           IsFiniteSet(Places(f, Creds \ {c}, o))
    PROVE  /\ IsFiniteSet(Places(f, Creds, o))
           /\ Cardinality(Places(f, Creds, o))
                = Cardinality(Places(f, Creds \ {c}, o)) + Count(f[c], o)
           /\ Cardinality(Places(f, Creds \ {c}, o)) \in Nat
<1> DEFINE E == Creds \ {c}
<1>1. E \cup {c} = Creds /\ E \cap {c} = {}
    OBVIOUS
<1>2. IsFiniteSet(Places(f, {c}, o)) /\ Cardinality(Places(f, {c}, o)) = Count(f[c], o)
    BY PlacesOne
<1>3. IsFiniteSet(Places(f, E, o)) /\ Cardinality(Places(f, E, o)) \in Nat
    BY FS_CardinalityType
<1> HIDE DEF E
<1>4. /\ IsFiniteSet(Places(f, E \cup {c}, o))
      /\ Cardinality(Places(f, E \cup {c}, o))
           = Cardinality(Places(f, E, o)) + Cardinality(Places(f, {c}, o))
  <2> DEFINE X == Places(f, E, o)
             Y == Places(f, {c}, o)
  <2>1. Places(f, E \cup {c}, o) = X \cup Y
    BY DEF Places
  <2>2. X \cap Y = {}
    BY <1>1 DEF Places
  <2>3. IsFiniteSet(X) /\ IsFiniteSet(Y)
    BY <1>2, <1>3
  <2> HIDE DEF X, Y
  <2>4. IsFiniteSet(X \cup Y) /\ Cardinality(X \cup Y) = Cardinality(X) + Cardinality(Y)
    BY <2>2, <2>3, DisjointUnion
  <2> QED
    BY <2>1, <2>4 DEF X, Y
<1> QED
    BY <1>1, <1>2, <1>3, <1>4 DEF E

\* A credential whose key or chain was replaced.
LEMMA CredMaterialStep ==
    ASSUME MaterialInv, NEW c \in Creds, NEW new \in CredType, new.buffers = cred[c].buffers,
           cred' = [cred EXCEPT ![c] = new], refs' \in [Objects -> Int],
           \A o \in Objects : refs'[o] - Count(new.key \o new.chain, o)
                                = refs[o] - Count(cred[c].key \o cred[c].chain, o),
           UNCHANGED <<program, javaHeld, conn, ctx, accepted>>, err' \in Errors, result' \in Results
    PROVE  MaterialInv'
<1>1. cred \in [Creds -> CredType] /\ cred' \in [Creds -> CredType]
    BY DEF MaterialInv, MaterialTyped
<1>2. MaterialTyped'
    BY <1>1 DEF MaterialInv, MaterialTyped, javaHeld, Errors, Results
<1>3. /\ CredHolds[c] = cred[c].key \o cred[c].chain /\ CredHolds'[c] = new.key \o new.chain
      /\ \A x \in Creds \ {c} : CredHolds'[x] = CredHolds[x]
      /\ \A x \in Creds : cred'[x].buffers = cred[x].buffers
    BY <1>1 DEF CredHolds
<1>4. CredHolds[c] \in Seq(Objects) /\ CredHolds'[c] \in Seq(Objects)
  <2>1. /\ cred[c].key \in Seq(Objects) /\ cred[c].chain \in Seq(Objects)
        /\ new.key \in Seq(Objects) /\ new.chain \in Seq(Objects)
    BY <1>1, SeqOfObjects DEF CredType
  <2> QED
    BY <1>3, <2>1, CountObjects
<1>5. ASSUME NEW o \in Objects
      PROVE  /\ IsFiniteSet(Places(CredHolds', Creds, o))
             /\ IsFiniteSet({x \in Creds : o \in cred'[x].buffers})
             /\ HeldByCreds(Creds, o)' \in Nat
             /\ refs'[o] - HeldByCreds(Creds, o)' = refs[o] - HeldByCreds(Creds, o)
  <2> DEFINE a == Cardinality(Places(CredHolds, Creds, o))
             z == Cardinality(Places(CredHolds', Creds, o))
             H == {x \in Creds : o \in cred[x].buffers}
             b == Cardinality(H)
             p == Count(CredHolds[c], o)
             q == Count(CredHolds'[c], o)
             r == refs[o]
             t == refs'[o]
  <2>1. {x \in Creds : o \in cred'[x].buffers} = H
    BY <1>3
  <2>2. IsFiniteSet(Places(CredHolds, Creds, o)) /\ IsFiniteSet(H)
    BY DEF MaterialInv, FinitePlaces
  <2>3. IsFiniteSet(Places(CredHolds', Creds, o)) /\ z = a - p + q
    <3> DEFINE f == CredHolds
               g == CredHolds'
               E == Creds \ {c}
               e == Cardinality(Places(f, E, o))
    <3>1. f[c] \in Seq(Objects) /\ g[c] \in Seq(Objects) /\ \A x \in E : f[x] = g[x]
      BY <1>3, <1>4
    <3>2. IsFiniteSet(Places(f, E, o))
      BY <2>2, PlacesSubset
    <3> HIDE DEF f, g
    <3>3. Places(f, E, o) = Places(g, E, o)
      BY <3>1, PlacesSame
    <3>4. Cardinality(Places(f, Creds, o)) = e + Count(f[c], o) /\ e \in Nat
      BY <3>1, <3>2, PlacesSplit
    <3>5. /\ IsFiniteSet(Places(g, Creds, o))
          /\ Cardinality(Places(g, Creds, o)) = Cardinality(Places(g, E, o)) + Count(g[c], o)
      BY <3>1, <3>2, <3>3, PlacesSplit
    <3>6. Cardinality(Places(g, Creds, o)) = e + Count(g[c], o)
      BY <3>3, <3>5
    <3>7. Count(f[c], o) \in Nat /\ Count(g[c], o) \in Nat
      BY <3>1, CountObjects
    <3> DEFINE x == Count(f[c], o)
               y == Count(g[c], o)
               u == Cardinality(Places(f, Creds, o))
               v == Cardinality(Places(g, Creds, o))
    <3>8. u = e + x /\ v = e + y /\ e \in Nat /\ x \in Nat /\ y \in Nat
      BY <3>4, <3>6, <3>7
    <3> HIDE DEF e, x, y, u, v
    <3>9. v = u - x + y
      BY <3>8
    <3> QED
      BY <3>5, <3>9 DEF f, g, x, y, u, v
  <2>4. a \in Nat /\ b \in Nat /\ z \in Nat
    BY <2>2, <2>3, FS_CardinalityType
  <2>5. p \in Nat /\ q \in Nat
    BY <1>4, CountObjects
  <2>6. r \in Int /\ t \in Int /\ t - q = r - p
    BY <1>3 DEF MaterialInv, MaterialTyped
  <2>7. HeldByCreds(Creds, o) = a + b /\ HeldByCreds(Creds, o)' = z + b
    BY <2>1 DEF HeldByCreds
  <2> HIDE DEF a, z, b, p, q, r, t, H
  <2>8. z + b \in Nat /\ t - (z + b) = r - (a + b)
    BY <2>3, <2>4, <2>5, <2>6
  <2> QED
    BY <2>1, <2>2, <2>3, <2>7, <2>8 DEF r, t
<1> QED
    BY <1>2, <1>5, CredStep

\* A set1 call that failed, or that kept nothing.
LEMMA CredUntouched ==
    ASSUME MaterialInv, UNCHANGED <<refs, cred, program, javaHeld, conn, ctx, accepted>>,
           err' \in Errors, result' \in Results
    PROVE  MaterialInv'
<1>1. Balanced("ctx", On(ctx), On(ctx))
    BY OnCtx, BalancedReflexive
<1> QED
    BY <1>1, OnCtx, CtxOutcome

\* setPrivateKey keeps the invariant of key material.
LEMMA Step_setPrivateKey ==
    ASSUME MaterialInv, NEW c \in Creds, NEW k \in keys, setPrivateKey(c, k)
    PROVE  MaterialInv'
<1>1. UNCHANGED <<program, javaHeld, conn, ctx, accepted>> /\ err' \in Errors /\ result' \in Results
    BY DEF setPrivateKey, Configure, TakeOneError, Returns, MaterialInv, MaterialTyped, Errors, Results
<1> DEFINE new == [cred[c] EXCEPT !.key = <<k>>]
           one == <<k>>
           key == cred[c].key
           chain == cred[c].chain
<1>2. /\ cred[c] \in CredType /\ k \in Keys /\ refs \in [Objects -> Int]
    BY DEF MaterialInv, MaterialTyped
<1>3. one \in Seq(Keys) /\ key \in Seq(Keys) /\ chain \in Seq(Certs)
    BY <1>2 DEF CredType
<1>4. one \in Seq(Objects) /\ key \in Seq(Objects) /\ chain \in Seq(Objects)
    BY <1>3, SeqOfObjects
<1>5. /\ new \in CredType /\ new.key = one /\ new.chain = chain
      /\ new.buffers = cred[c].buffers
    BY <1>2, <1>3 DEF CredType
<1> HIDE DEF new, one
<1>6. /\ Down(Up(refs, one), key) \in [Objects -> Int]
      /\ \A o \in Objects : Down(Up(refs, one), key)[o] = refs[o] + Count(one, o) - Count(key, o)
    BY <1>2, <1>4, UpThenDown
<1>7. ASSUME NEW o \in Objects
      PROVE  Down(Up(refs, one), key)[o] - Count(new.key \o new.chain, o)
               = refs[o] - Count(key \o chain, o)
  <2> DEFINE x == Count(one, o)
             y == Count(key, o)
             z == Count(chain, o)
             r == refs[o]
  <2>1. x \in Nat /\ y \in Nat /\ z \in Nat /\ r \in Int
    BY <1>2, <1>4, CountObjects
  <2>2. Count(one \o chain, o) = x + z /\ Count(key \o chain, o) = y + z
    BY <1>4, CountObjects
  <2>3. Down(Up(refs, one), key)[o] = r + x - y /\ new.key \o new.chain = one \o chain
    BY <1>5, <1>6
  <2> HIDE DEF x, y, z, r
  <2>4. (r + x - y) - (x + z) = r - (y + z)
    BY <2>1
  <2> QED
    BY <2>2, <2>3, <2>4 DEF r
<1>8. CASE refs' = Down(Up(refs, one), key) /\ cred' = [cred EXCEPT ![c] = new]
    BY <1>1, <1>5, <1>6, <1>7, <1>8, CredMaterialStep
<1>9. CASE UNCHANGED <<refs, cred>>
    BY <1>1, <1>9, CredUntouched
<1> QED
    BY <1>8, <1>9 DEF setPrivateKey, Configure, new, one

\* setCertChain keeps the invariant of key material.
LEMMA Step_setCertChain ==
    ASSUME MaterialInv, NEW c \in Creds, NEW h \in Handles, setCertChain(c, h)
    PROVE  MaterialInv'
<1>1. UNCHANGED <<program, javaHeld, conn, ctx, accepted>> /\ err' \in Errors /\ result' \in Results
    BY DEF setCertChain, Configure, TakeOneError, Returns, MaterialInv, MaterialTyped, Errors, Results
<1> DEFINE new == [cred[c] EXCEPT !.chain = chains[h]]
           s == chains[h]
           key == cred[c].key
           chain == cred[c].chain
<1>2. /\ cred[c] \in CredType /\ s \in Seq(Certs) /\ refs \in [Objects -> Int]
    BY DEF MaterialInv, MaterialTyped, setCertChain
<1>3. key \in Seq(Keys) /\ chain \in Seq(Certs)
    BY <1>2 DEF CredType
<1>4. s \in Seq(Objects) /\ key \in Seq(Objects) /\ chain \in Seq(Objects)
    BY <1>2, <1>3, SeqOfObjects
<1>5. /\ new \in CredType /\ new.key = key /\ new.chain = s
      /\ new.buffers = cred[c].buffers
    BY <1>2, <1>3 DEF CredType
<1> HIDE DEF new, s
<1>6. /\ Down(Up(refs, s), chain) \in [Objects -> Int]
      /\ \A o \in Objects : Down(Up(refs, s), chain)[o] = refs[o] + Count(s, o) - Count(chain, o)
    BY <1>2, <1>4, UpThenDown
<1>7. ASSUME NEW o \in Objects
      PROVE  Down(Up(refs, s), chain)[o] - Count(new.key \o new.chain, o)
               = refs[o] - Count(key \o chain, o)
  <2> DEFINE x == Count(s, o)
             y == Count(key, o)
             z == Count(chain, o)
             r == refs[o]
  <2>1. x \in Nat /\ y \in Nat /\ z \in Nat /\ r \in Int
    BY <1>2, <1>4, CountObjects
  <2>2. Count(key \o s, o) = y + x /\ Count(key \o chain, o) = y + z
    BY <1>4, CountObjects
  <2>3. Down(Up(refs, s), chain)[o] = r + x - z /\ new.key \o new.chain = key \o s
    BY <1>5, <1>6
  <2> HIDE DEF x, y, z, r
  <2>4. (r + x - z) - (y + x) = r - (y + z)
    BY <2>1
  <2> QED
    BY <2>2, <2>3, <2>4 DEF r
<1>8. CASE refs' = Down(Up(refs, s), chain) /\ cred' = [cred EXCEPT ![c] = new]
    BY <1>1, <1>5, <1>6, <1>7, <1>8, CredMaterialStep
<1>9. CASE UNCHANGED <<refs, cred>>
    BY <1>1, <1>9, CredUntouched
<1> QED
    BY <1>8, <1>9 DEF setCertChain, Configure, new, s

\* setSigningAlgorithmPrefs and setTrustAnchorId: the library copies the bytes.
LEMMA Step_Copied ==
    ASSUME MaterialInv, NEW c \in Creds, Configure(c, TRUE, refs, cred[c])
    PROVE  MaterialInv'
<1>1. UNCHANGED <<program, javaHeld, conn, ctx, accepted>> /\ err' \in Errors /\ result' \in Results
    BY DEF Configure, TakeOneError, Returns, MaterialInv, MaterialTyped, Errors, Results
<1>2. UNCHANGED <<refs, cred>>
    BY DEF Configure, MaterialInv, MaterialTyped
<1> QED
    BY <1>1, <1>2, CredUntouched

\* A credential has one buffer of each kind: the new one takes the place of the old.
LEMMA Step_SetBuffer ==
    ASSUME MaterialInv, NEW c \in Creds, NEW kind \in BufferKinds, SetBuffer(c, kind)
    PROVE  MaterialInv'
<1>1. UNCHANGED <<program, javaHeld, conn, ctx, accepted>> /\ err' \in Errors /\ result' \in Results
    BY DEF SetBuffer, Configure, TakeOneError, Returns, MaterialInv, MaterialTyped, Errors, Results
<1> DEFINE one == <<kind>>
           had == kind \in cred[c].buffers
           old == IF had THEN one ELSE None
           new == [cred[c] EXCEPT !.buffers = @ \cup {kind}]
           r1 == Down(Up(refs, one), old)
           r2 == Down(Up(r1, one), one)
<1>2. cred \in [Creds -> CredType] /\ cred[c] \in CredType /\ refs \in [Objects -> Int] /\ kind \in Objects
    BY DEF MaterialInv, MaterialTyped, Objects
<1>3. one \in Seq(Objects) /\ old \in Seq(Objects)
    BY <1>2, CountObjects
<1>4. /\ new \in CredType /\ new.key = cred[c].key /\ new.chain = cred[c].chain
      /\ new.buffers = cred[c].buffers \cup {kind}
    BY <1>2 DEF CredType
<1>5. \A o \in Objects : Count(one, o) = IF kind = o THEN 1 ELSE 0
    BY CountOne
<1>6. \A o \in Objects : Count(old, o) = IF had /\ kind = o THEN 1 ELSE 0
    BY <1>5, CountNone
<1> HIDE DEF one, old, new
<1>7. r1 \in [Objects -> Int] /\ \A o \in Objects : r1[o] = refs[o] + Count(one, o) - Count(old, o)
    BY <1>2, <1>3, UpThenDown
<1> HIDE DEF r1
<1>8. r2 \in [Objects -> Int] /\ \A o \in Objects : r2[o] = r1[o] + Count(one, o) - Count(one, o)
    BY <1>3, <1>7, UpThenDown
<1> HIDE DEF r2
<1>9. CASE refs' = r2 /\ cred' = [cred EXCEPT ![c] = new]
  <2>1. cred' \in [Creds -> CredType]
    BY <1>2, <1>4, <1>9
  <2>2. MaterialTyped'
    BY <1>1, <1>8, <1>9, <2>1 DEF MaterialInv, MaterialTyped, javaHeld, Errors, Results
  <2>3. CredHolds' = CredHolds
    BY <1>2, <1>4, <1>9 DEF CredHolds
  <2>4. ASSUME NEW o \in Objects
        PROVE  /\ IsFiniteSet(Places(CredHolds', Creds, o))
               /\ IsFiniteSet({x \in Creds : o \in cred'[x].buffers})
               /\ HeldByCreds(Creds, o)' \in Nat
               /\ refs'[o] - HeldByCreds(Creds, o)' = refs[o] - HeldByCreds(Creds, o)
    <3> DEFINE H == {x \in Creds : o \in cred[x].buffers}
               G == {x \in Creds : o \in cred'[x].buffers}
               a == Cardinality(Places(CredHolds, Creds, o))
               b == Cardinality(H)
               d == Cardinality(G)
               r == refs[o]
               e == IF kind = o /\ ~had THEN 1 ELSE 0
    <3>1. IsFiniteSet(Places(CredHolds, Creds, o)) /\ IsFiniteSet(H)
      BY DEF MaterialInv, FinitePlaces
    <3>2. IsFiniteSet(G) /\ d = b + e
      <4>1. CASE kind = o
        <5>1. G = H \cup {c}
          BY <1>2, <1>4, <1>9, <4>1
        <5>2. c \in H <=> had
          BY <4>1
        <5> HIDE DEF G, H, had
        <5>3. IsFiniteSet(H \cup {c})
          BY <3>1, FS_AddElement
        <5>4. Cardinality(H \cup {c}) = IF c \in H THEN Cardinality(H) ELSE Cardinality(H) + 1
          BY <3>1, FS_AddElement
        <5>5. Cardinality(H) \in Nat
          BY <3>1, FS_CardinalityType
        <5> QED
          BY <4>1, <5>1, <5>2, <5>3, <5>4, <5>5
      <4>2. CASE kind # o
        <5>1. G = H
          BY <1>2, <1>4, <1>9, <4>2
        <5>2. b \in Nat
          BY <3>1, FS_CardinalityType
        <5> HIDE DEF G, H, had
        <5> QED
          BY <3>1, <4>2, <5>1, <5>2
      <4> QED
        BY <4>1, <4>2
    <3>3. a \in Nat /\ b \in Nat /\ d \in Nat
      BY <3>1, <3>2, FS_CardinalityType
    <3>4. r \in Int /\ e \in Nat
      BY <1>2
    <3>5. refs'[o] = r + e
      <4> HIDE DEF had
      <4>1. r1[o] = r + (IF kind = o THEN 1 ELSE 0) - (IF had /\ kind = o THEN 1 ELSE 0)
        BY <1>5, <1>6, <1>7
      <4>2. r2[o] = r1[o] + (IF kind = o THEN 1 ELSE 0) - (IF kind = o THEN 1 ELSE 0)
        BY <1>5, <1>8
      <4>3. r1[o] \in Int
        BY <1>7
      <4> QED
        BY <1>9, <3>4, <4>1, <4>2, <4>3
    <3>6. HeldByCreds(Creds, o) = a + b /\ HeldByCreds(Creds, o)' = a + d
      BY <2>3 DEF HeldByCreds
    <3> HIDE DEF a, b, d, r, e, G, H
    <3>7. a + d \in Nat /\ (r + e) - (a + d) = r - (a + b)
      BY <3>2, <3>3, <3>4
    <3> QED
      BY <2>3, <3>1, <3>2, <3>5, <3>6, <3>7 DEF r, G
  <2> QED
    BY <1>1, <2>2, <2>4, CredStep
<1>10. CASE UNCHANGED <<refs, cred>>
    BY <1>1, <1>10, CredUntouched
<1> QED
    BY <1>9, <1>10 DEF SetBuffer, Configure, new, one, old, r1, r2

\* What the credentials hold is less by what the freed ones held.
LEMMA FreedCreds ==
    ASSUME MaterialTyped, FinitePlaces, NEW dead \in SUBSET Creds, NEW o \in Objects,
           cred' = [c \in Creds |-> IF c \in dead THEN NoCred ELSE cred[c]]
    PROVE  /\ IsFiniteSet(Places(CredHolds', Creds, o))
           /\ IsFiniteSet({c \in Creds : o \in cred'[c].buffers})
           /\ HeldByCreds(dead, o) \in Nat
           /\ HeldByCreds(Creds, o)' \in Nat
           /\ HeldByCreds(Creds, o) = HeldByCreds(Creds, o)' + HeldByCreds(dead, o)
<1> DEFINE left == Creds \ dead
           Held(D) == Places(CredHolds, D, o)
           B(D) == {c \in D : o \in cred[c].buffers}
<1>1. left \cup dead = Creds /\ left \cap dead = {}
    OBVIOUS
<1>2. IsFiniteSet(Held(Creds)) /\ IsFiniteSet(B(Creds))
    BY DEF FinitePlaces
<1>3. /\ Held(left) \cup Held(dead) = Held(Creds) /\ Held(left) \cap Held(dead) = {}
      /\ B(left) \cup B(dead) = B(Creds) /\ B(left) \cap B(dead) = {}
    BY DEF Places
<1>4. Places(CredHolds', Creds, o) = Held(left)
  <2>1. \A c \in dead : DOMAIN CredHolds'[c] = {}
    <3>1. << >> \o << >> = << >>
      OBVIOUS
    <3>2. \A c \in dead : CredHolds'[c] = << >> \o << >>
      BY DEF CredHolds, NoCred, None
    <3> QED
      BY <3>1, <3>2
  <2>2. \A c \in left : CredHolds'[c] = CredHolds[c]
    BY DEF CredHolds
  <2> QED
    BY <1>1, <2>1, <2>2 DEF Places
<1>5. {c \in Creds : o \in cred'[c].buffers} = B(left)
    BY DEF NoCred
<1>6. /\ IsFiniteSet(Held(left)) /\ IsFiniteSet(Held(dead)) /\ IsFiniteSet(B(left)) /\ IsFiniteSet(B(dead))
  <2> HIDE DEF Held, B
  <2>1. Held(left) \in SUBSET Held(Creds) /\ Held(dead) \in SUBSET Held(Creds)
        /\ B(left) \in SUBSET B(Creds) /\ B(dead) \in SUBSET B(Creds)
    BY <1>3
  <2> QED
    BY <1>2, <2>1, FS_Subset
<1> DEFINE p == Cardinality(Held(left))
           q == Cardinality(Held(dead))
           b == Cardinality(B(left))
           d == Cardinality(B(dead))
<1>7. p \in Nat /\ q \in Nat /\ b \in Nat /\ d \in Nat
    BY <1>6, FS_CardinalityType
<1>8. Cardinality(Held(Creds)) = p + q /\ Cardinality(B(Creds)) = b + d
  <2> HIDE DEF Held, B
  <2>1. Cardinality(Held(left) \cup Held(dead)) = p + q
    BY <1>3, <1>6, DisjointUnion
  <2>2. Cardinality(B(left) \cup B(dead)) = b + d
    BY <1>3, <1>6, DisjointUnion
  <2> QED
    BY <1>3, <2>1, <2>2
<1>9. /\ HeldByCreds(dead, o) = q + d /\ HeldByCreds(Creds, o) = (p + q) + (b + d)
      /\ HeldByCreds(Creds, o)' = p + b
  <2>1. HeldByCreds(Creds, o)' = Cardinality(Places(CredHolds', Creds, o))
                                 + Cardinality({c \in Creds : o \in cred'[c].buffers})
    BY DEF HeldByCreds
  <2>2. HeldByCreds(Creds, o)' = p + b
    BY <1>4, <1>5, <2>1
  <2>3. HeldByCreds(dead, o) = q + d
    BY DEF HeldByCreds
  <2>4. HeldByCreds(Creds, o) = Cardinality(Held(Creds)) + Cardinality(B(Creds))
    BY DEF HeldByCreds
  <2> QED
    BY <1>8, <2>2, <2>3, <2>4
<1> HIDE DEF p, q, b, d
<1>10. q + d \in Nat /\ p + b \in Nat /\ (p + q) + (b + d) = (p + b) + (q + d)
    BY <1>7
<1> QED
    BY <1>4, <1>5, <1>6, <1>9, <1>10

\* SSL_freeSSL keeps the invariant of key material.
LEMMA Step_SSL_freeSSL ==
    ASSUME MaterialInv, SSL_freeSSL
    PROVE  MaterialInv'
<1> DEFINE cs == conn.creds
           base == Down(refs, ConnHolds)
           down == Down(base, cs)
           dead == {c \in Creds : Count(cs, c) > 0 /\ down[c] = 0}
<1>1. /\ UNCHANGED <<program, javaHeld, ctx, accepted, err>> /\ conn' = NoConn /\ result' \in Results
    BY DEF SSL_freeSSL, Returns, Results
<1>2. /\ refs' = [o \in Objects |-> down[o] - HeldByCreds(dead, o)]
      /\ cred' = [c \in Creds |-> IF c \in dead THEN NoCred ELSE cred[c]]
    BY DEF SSL_freeSSL, FreeCreds
<1>3. conn \in ConnType /\ refs \in [Objects -> Int] /\ MaterialTyped /\ FinitePlaces /\ cred \in [Creds -> CredType]
    BY DEF MaterialInv, MaterialTyped
<1>4. cs \in Seq(Objects) /\ ConnHolds \in Seq(Objects)
  <2>1. conn.outCert \in Seq(Objects) /\ conn.outKey \in Seq(Objects) /\ cs \in Seq(Objects)
    BY <1>3, SeqOfObjects DEF ConnType
  <2>2. Slots(conn) \in Seq(Objects)
    <3>1. "ocsp" \in Objects /\ "conn" \in Stores /\ conn \in StoreType("conn")
      BY <1>3 DEF Objects, BufferKinds, Stores, StoreType
    <3> QED
      BY <3>1, SlotsSum
  <2> QED
    BY <2>1, <2>2, CountObjects DEF ConnHolds
<1>5. base \in [Objects -> Int] /\ \A o \in Objects : base[o] = refs[o] - Count(ConnHolds, o)
    BY <1>3, <1>4, UpDown
<1> HIDE DEF base
<1>6. down \in [Objects -> Int] /\ \A o \in Objects : down[o] = base[o] - Count(cs, o)
    BY <1>4, <1>5, UpDown
<1>7. dead \in SUBSET Creds
    OBVIOUS
<1> HIDE DEF down, dead
<1>8. ASSUME NEW o \in Objects
      PROVE  /\ IsFiniteSet(Places(CredHolds', Creds, o))
             /\ IsFiniteSet({c \in Creds : o \in cred'[c].buffers})
             /\ HeldByCreds(dead, o) \in Nat /\ HeldByCreds(Creds, o)' \in Nat
             /\ HeldByCreds(Creds, o) = HeldByCreds(Creds, o)' + HeldByCreds(dead, o)
    BY <1>2, <1>3, <1>7, FreedCreds
<1>9. refs' \in [Objects -> Int] /\ \A o \in Objects : refs'[o] = down[o] - HeldByCreds(dead, o)
  <2>1. \A o \in Objects : down[o] \in Int
    BY <1>6
  <2>2. \A o \in Objects : HeldByCreds(dead, o) \in Nat
    BY <1>8
  <2>3. \A o \in Objects : down[o] - HeldByCreds(dead, o) \in Int
    BY <2>1, <2>2
  <2> QED
    BY <1>2, <2>3
<1>10. NoConn \in ConnType /\ NoCred \in CredType
  <2>1. None \in Seq(Certs) /\ None \in Seq(Keys) /\ "ocsp" \in Objects
    BY DEF None, Objects, BufferKinds
  <2> QED
    BY <2>1, NoConnCount DEF NoCred, CredType
<1>11. cred' \in [Creds -> CredType]
    BY <1>2, <1>3, <1>10
<1>12. MaterialTyped'
    BY <1>1, <1>9, <1>10, <1>11 DEF MaterialInv, MaterialTyped, javaHeld, Results
<1>13. FinitePlaces'
    BY <1>1, <1>8 DEF MaterialInv, FinitePlaces, javaHeld
<1>14. ConnShape' /\ PasswordAccepted'
    BY <1>1 DEF ConnShape, NoConn, MaterialInv, PasswordAccepted
<1>15. ASSUME NEW o \in Objects PROVE Owed(o)' = Owed(o)
  <2> DEFINE r == refs[o]
             x == Count(ConnHolds, o)
             y == Count(cs, o)
             b == HeldByCtx(o)
             j == HeldByJava(o)
             d == HeldByCreds(Creds, o)
             e == HeldByCreds(Creds, o)'
             f == HeldByCreds(dead, o)
  <2>1. r \in Int /\ x \in Nat /\ y \in Nat /\ HeldByConn(o) = x + y
    BY <1>3, <1>4, CountObjects DEF HeldByConn
  <2>2. b \in Nat /\ j \in Nat
    BY PartsNat DEF MaterialInv
  <2>3. e \in Nat /\ f \in Nat /\ d = e + f
    BY <1>8
  <2>4. refs'[o] = ((r - x) - y) - f
    BY <1>5, <1>6, <1>9
  <2>5. HeldByCtx(o)' = b /\ HeldByJava(o)' = j
    BY <1>1 DEF HeldByCtx, HeldByJava, javaHeld
  <2>6. HeldByConn(o)' = 0
    <3>1. HeldByConn(o)' = ConnCount(NoConn, o)
      BY <1>1, <1>10, ConnSum DEF HeldByConn, ConnHolds, ConnCount
    <3> QED
      BY <3>1, NoConnCount
  <2>7. /\ Owed(o)' = ((((r - x) - y) - f) - 0 - b - j) - e
        /\ Owed(o) = r - (x + y) - b - j - d
    BY <2>1, <2>4, <2>5, <2>6 DEF Owed
  <2> HIDE DEF r, x, y, b, j, d, e, f
  <2>8. ((((r - x) - y) - f) - 0 - b - j) - e = r - (x + y) - b - j - d
    BY <2>1, <2>2, <2>3
  <2> QED
    BY <2>7, <2>8
<1> QED
    BY <1>12, <1>13, <1>14, <1>15, OwnedStep

\* SSLCredential_free keeps the invariant of key material.
LEMMA Step_SSLCredential_free ==
    ASSUME MaterialInv, NEW c \in Creds, SSLCredential_free(c)
    PROVE  MaterialInv'
<1> DEFINE down == Down(refs, <<c>>)
           dead == {x \in Creds : Count(<<c>>, x) > 0 /\ down[x] = 0}
<1>1. /\ UNCHANGED <<program, chains, cut, keys, conn, ctx, accepted, err>> /\ result' \in Results
      /\ javaCreds[c] > 0 /\ javaCreds' = [javaCreds EXCEPT ![c] = javaCreds[c] - 1]
    BY DEF SSLCredential_free, Returns, Results
<1>2. /\ refs' = [o \in Objects |-> down[o] - HeldByCreds(dead, o)]
      /\ cred' = [x \in Creds |-> IF x \in dead THEN NoCred ELSE cred[x]]
    BY DEF SSLCredential_free, FreeCreds
<1>3. /\ refs \in [Objects -> Int] /\ MaterialTyped /\ FinitePlaces /\ cred \in [Creds -> CredType]
      /\ javaCreds \in [Creds -> Nat] /\ c \in Objects
    BY DEF MaterialInv, MaterialTyped, Objects
<1>4. down \in [Objects -> Int] /\ \A o \in Objects : down[o] = refs[o] - (IF c = o THEN 1 ELSE 0)
    BY <1>3, OneReference
<1>5. dead \in SUBSET Creds
    OBVIOUS
<1> HIDE DEF down, dead
<1>6. ASSUME NEW o \in Objects
      PROVE  /\ IsFiniteSet(Places(CredHolds', Creds, o))
             /\ IsFiniteSet({x \in Creds : o \in cred'[x].buffers})
             /\ HeldByCreds(dead, o) \in Nat /\ HeldByCreds(Creds, o)' \in Nat
             /\ HeldByCreds(Creds, o) = HeldByCreds(Creds, o)' + HeldByCreds(dead, o)
    BY <1>2, <1>3, <1>5, FreedCreds
<1>7. refs' \in [Objects -> Int] /\ \A o \in Objects : refs'[o] = down[o] - HeldByCreds(dead, o)
  <2>1. \A o \in Objects : down[o] \in Int
    BY <1>4
  <2>2. \A o \in Objects : HeldByCreds(dead, o) \in Nat
    BY <1>6
  <2>3. \A o \in Objects : down[o] - HeldByCreds(dead, o) \in Int
    BY <2>1, <2>2
  <2> QED
    BY <1>2, <2>3
<1>8. NoCred \in CredType
  <2>1. None \in Seq(Certs) /\ None \in Seq(Keys)
    BY DEF None
  <2> QED
    BY <2>1 DEF NoCred, CredType
<1>9. cred' \in [Creds -> CredType] /\ javaCreds' \in [Creds -> Nat]
    BY <1>1, <1>2, <1>3, <1>8
<1>10. MaterialTyped'
    BY <1>1, <1>7, <1>9 DEF MaterialInv, MaterialTyped, Results
<1>11. FinitePlaces'
    BY <1>1, <1>6 DEF MaterialInv, FinitePlaces
<1>12. ConnShape' /\ PasswordAccepted'
    BY <1>1 DEF ConnShape, MaterialInv, PasswordAccepted
<1>13. ASSUME NEW o \in Objects PROVE Owed(o)' = Owed(o)
  <2> DEFINE r == refs[o]
             i == IF c = o THEN 1 ELSE 0
             a == HeldByConn(o)
             b == HeldByCtx(o)
             p == Cardinality(Places(chains, DOMAIN chains, o))
             k == IF o \in keys THEN 1 ELSE 0
             n == IF o \in Creds THEN javaCreds[o] ELSE 0
             m == IF o \in Creds THEN javaCreds'[o] ELSE 0
             d == HeldByCreds(Creds, o)
             e == HeldByCreds(Creds, o)'
             f == HeldByCreds(dead, o)
  <2>1. r \in Int /\ i \in Nat /\ k \in Nat
    BY <1>3
  <2>2. a \in Nat /\ b \in Nat
    BY PartsNat DEF MaterialInv
  <2>3. p \in Nat
    BY <1>3, FS_CardinalityType DEF FinitePlaces
  <2>4. n \in Nat /\ m = n - i
    BY <1>1, <1>3
  <2>5. e \in Nat /\ f \in Nat /\ d = e + f
    BY <1>6
  <2>6. refs'[o] = (r - i) - f
    BY <1>4, <1>7
  <2>7. HeldByConn(o)' = a /\ HeldByCtx(o)' = b
    BY <1>1 DEF HeldByConn, ConnHolds, HeldByCtx
  <2>8. HeldByJava(o) = p + k + n /\ HeldByJava(o)' = p + k + m
    BY <1>1 DEF HeldByJava
  <2>9. /\ Owed(o)' = ((r - i) - f) - a - b - (p + k + m) - e
        /\ Owed(o) = r - a - b - (p + k + n) - d
    BY <2>6, <2>7, <2>8 DEF Owed
  <2> HIDE DEF r, i, a, b, p, k, n, m, d, e, f
  <2>10. ((r - i) - f) - a - b - (p + k + m) - e = r - a - b - (p + k + n) - d
    BY <2>1, <2>2, <2>3, <2>4, <2>5
  <2> QED
    BY <2>9, <2>10
<1> QED
    BY <1>10, <1>11, <1>12, <1>13, OwnedStep

\* Every step keeps the invariant of key material.
LEMMA MaterialStep == MaterialInv /\ [MaterialNext]_materialVars => MaterialInv'
<1> SUFFICES ASSUME MaterialInv, [MaterialNext]_materialVars PROVE MaterialInv'
    OBVIOUS
<1>1. CASE Connection
    BY <1>1, Step_parseX509Chain, Step_freeX509Chain, Step_NewKey, Step_freePrivateKey,
       Step_newSSL, Step_SSL_freeSSL, Step_setKeyMaterial
       DEF Connection, parsePrivateKey, loadPrivateKeyFromEngine
<1>2. CASE Client
    BY <1>2, Step_setKeyMaterialClientSide, Step_client_cert_cb DEF Client
<1>3. CASE Deprecated
    BY <1>3, Step_SSL_setCertificateBio, Step_SSL_setCertificateChainBio DEF Deprecated
<1>4. CASE Context
    BY <1>4, Step_SSLContext_setCertificateChainBio, Step_setCertificateChainFile,
       Step_setCACertificateBio DEF Context
<1>5. CASE \E p \in Optional(Fresh(Passwords)) : Pair(p)
    BY <1>5, Step_setCertificate, Step_SSLContext_setCertificateBio, Step_NothingToInstall DEF Pair
<1>6. CASE ssl_context_cleanup
    BY <1>6, Step_ssl_context_cleanup
<1>7. CASE newX509 \/ newDelegated
  <2>1. NewCred /\ err' \in Errors
    BY <1>7 DEF newX509, newDelegated, TakeOneError, MaterialInv, MaterialTyped, Errors
  <2> QED
    BY <2>1, Step_NewCred
<1>8. CASE \E c \in Creds : Credential(c)
    BY <1>8, Step_upRef, Step_SSLCredential_free, Step_setPrivateKey, Step_setCertChain,
       Step_addCredential DEF Credential
<1>9. CASE \E c \in Creds : Attributes(c)
  <2>1. "ocsp" \in BufferKinds /\ "sct" \in BufferKinds /\ "properties" \in BufferKinds
        /\ "delegated" \in BufferKinds
    BY DEF BufferKinds
  <2> QED
    BY <1>9, <2>1, Step_SetBuffer, Step_Copied
       DEF Attributes, setOcspResponse, setSignedCertTimestampList, setCertificateProperties,
           setDelegatedCredential, setSigningAlgorithmPrefs, setTrustAnchorId
<1>10. CASE UNCHANGED materialVars
  <2>1. UNCHANGED <<refs, cred, program, javaHeld, conn, ctx, accepted>> /\ UNCHANGED <<err, result>>
    BY <1>10 DEF materialVars
  <2>2. err' \in Errors /\ result' \in Results
    BY <2>1 DEF MaterialInv, MaterialTyped, Errors, Results
  <2> QED
    BY <2>1, <2>2, CredUntouched
<1> QED
    BY <1>1, <1>2, <1>3, <1>4, <1>5, <1>6, <1>7, <1>8, <1>9, <1>10 DEF MaterialNext

\* The invariant of key material holds throughout.
LEMMA MaterialAlways == MaterialSpec => []MaterialInv
BY MaterialStart, MaterialStep, PTL DEF MaterialSpec

\* Every object has exactly as many references as there are holders of it, for any number
\* of certificates, keys, credentials and passwords and chains of any length, whichever
\* library call of whichever setter fails (ssl.c, sslcontext.c, sslcredential.c).
THEOREM RefsOwnedCorrect == MaterialSpec => []RefsOwned
<1>1. MaterialInv => RefsOwned
    BY DEF MaterialInv
<1> QED
    BY <1>1, MaterialAlways, PTL

\* The password of a context is that of the last call that succeeded with one, or none:
\* free_and_reset_pass never leaves the password of a call that failed.
THEOREM PasswordAcceptedCorrect == MaterialSpec => []PasswordAccepted
<1>1. MaterialInv => PasswordAccepted
    BY DEF MaterialInv
<1> QED
    BY <1>1, MaterialAlways, PTL

\* The handles and slots are typed, and no count falls below zero: no object is freed
\* more often than it was taken, however the setters fail.
THEOREM MaterialTypeCorrect == MaterialSpec => []MaterialTypeOK
<1>1. MaterialInv => MaterialTypeOK
  <2> SUFFICES ASSUME MaterialInv PROVE MaterialTypeOK
    OBVIOUS
  <2>1. refs \in [Objects -> Nat]
    <3>1. ASSUME NEW o \in Objects PROVE refs[o] \in Nat
      <4> DEFINE a == HeldByConn(o)
                 b == HeldByCtx(o)
                 c == HeldByJava(o)
                 d == HeldByCreds(Creds, o)
      <4>1. a \in Nat /\ b \in Nat /\ c \in Nat /\ d \in Nat
        BY PartsNat DEF MaterialInv
      <4>2. refs[o] = a + b + c + d
        BY DEF MaterialInv, RefsOwned, Owners
      <4> HIDE DEF a, b, c, d
      <4> QED
        BY <4>1, <4>2
    <3>2. refs \in [Objects -> Int]
      BY DEF MaterialInv, MaterialTyped
    <3> QED
      BY <3>1, <3>2
  <2>2. \A c \in Creds : /\ cred[c].key \in Seq(Keys)
                         /\ cred[c].chain \in Seq(Certs)
                         /\ cred[c].buffers \subseteq BufferKinds
    BY DEF MaterialInv, MaterialTyped, CredType
  <2>a. conn.aside \in SlotType /\ ctx.aside \in SlotType
    BY DEF MaterialInv, MaterialTyped, ConnType, CtxType
  <2>3. /\ {conn.cert, conn.chain, conn.aside.cert, conn.aside.chain, conn.outCert,
            ctx.cert, ctx.chain, ctx.aside.cert, ctx.aside.chain} \subseteq Seq(Certs)
        /\ {conn.key, conn.aside.key, conn.outKey, ctx.key, ctx.aside.key} \subseteq Seq(Keys)
        /\ {conn.type, ctx.type} \subseteq KeyTypes
        /\ conn.creds \in Seq(Creds)
        /\ {ctx.password, accepted} \subseteq Seq(Passwords)
    BY <2>a DEF MaterialInv, MaterialTyped, ConnType, CtxType, SlotType
  <2>4. conn.live \in BOOLEAN /\ ctx.live \in BOOLEAN /\ ctx.cas \in BOOLEAN
    BY DEF MaterialInv, MaterialTyped, ConnType, CtxType
  <2> QED
    BY <2>1, <2>2, <2>3, <2>4 DEF MaterialInv, MaterialTyped, MaterialTypeOK
<1> QED
    BY <1>1, MaterialAlways, PTL

\* What a setKeyMaterial that returned ok with a key of the chain leaves.
Presented(s, k) ==
    /\ conn'.cert \o conn'.chain = s
    /\ k # None => conn'.key = k
    /\ Agree(conn'.cert, conn'.key)
    /\ conn'.aside = AsideBefore
    /\ conn'.creds = conn.creds

\* A setKeyMaterial that returns ok leaves the chain and the key it was given.
LEMMA PresentsStep ==
    ASSUME MaterialInv, result' = "ok", NEW h \in DOMAIN chains, NEW k \in Optional(keys),
           setKeyMaterial(h, k), Agree(chains[h], k)
    PROVE  Presented(chains[h], k)
<1> DEFINE s == chains[h]
<1>1. s \in Seq(Certs) /\ program \in Programs
    BY DEF MaterialInv, MaterialTyped
<1>2. k \in Seq(Keys) /\ (k # None => k[1] \in Keys /\ k = <<k[1]>>)
    BY OptionalType DEF MaterialInv, MaterialTyped
<1>3. PICK m \in IF BoringSSL THEN SetChainAndKey(On(conn), s, k) ELSE setKeyMaterialOpenSSL(s, k) :
        refs' = m.refs /\ conn' = m.store /\ Returns(Succeeded(m))
    BY DEF setKeyMaterial
<1>4. Succeeded(m) /\ m.ok
    BY <1>3 DEF Returns, Succeeded
<1>5. /\ On(conn) \in CallOutcomes("conn") /\ "conn" \in Stores /\ On(conn).store = conn
      /\ Agree(s, k)
    BY OnConn
<1>6. conn'.aside = AsideBefore <=> conn'.aside = Aside(conn, conn')
    BY DEF AsideBefore, Aside
<1> HIDE DEF s
<1>7. CASE BoringSSL
  <2> DEFINE start == On(conn)
  <2>1. m \in SetChainAndKey(start, s, k) /\ start \in CallOutcomes("conn") /\ start.store = conn
    BY <1>3, <1>5, <1>7
  <2> HIDE DEF start
  <2>2. /\ Balanced("conn", start, m)
        /\ Presents(m.store, s, k) /\ m.store.aside = start.store.aside
        /\ m.store.type = start.store.type /\ Agree(m.store.cert, m.store.key)
    BY <1>1, <1>2, <1>4, <1>5, <2>1, SetChainAndKeyBalanced
  <2>3. m.store.creds = conn.creds
    BY <2>1, <2>2 DEF Balanced, SameRest
  <2>4. conn'.aside = Aside(conn, conn')
    BY <1>3, <2>1, <2>2 DEF Aside
  <2>5. conn'.cert \o conn'.chain = s /\ conn'.key = k
    BY <1>3, <2>2 DEF Presents
  <2> QED
    BY <1>3, <1>6, <2>2, <2>3, <2>4, <2>5 DEF Presented, s
<1>8. CASE ~BoringSSL
  <2>1. m \in setKeyMaterialOpenSSL(s, k)
    BY <1>3, <1>8
  <2>2. /\ Balanced("conn", On(conn), m)
        /\ s # None /\ Placed(conn, m.store, s[1])
        /\ m.store.chain = From(s, 2)
        /\ k # None => m.store.key = k
    BY <1>1, <1>2, <1>4, <1>5, <2>1, OpenSSLBalanced
  <2>3. m.store.creds = conn.creds
    BY <1>5, <2>2 DEF Balanced, SameRest
  <2>4. /\ conn'.aside = Aside(conn, conn') /\ conn'.cert = <<s[1]>> /\ Agree(<<s[1]>>, conn'.key)
    BY <1>3, <2>2 DEF Placed
  <2>5. <<s[1]>> \o From(s, 2) = s
    BY <1>1, <2>2, FirstAndRest
  <2>6. conn'.cert \o conn'.chain = s
    BY <1>3, <2>2, <2>4, <2>5
  <2> QED
    BY <1>3, <1>6, <2>2, <2>3, <2>4, <2>6 DEF Presented, s
<1> QED
    BY <1>7, <1>8

\* After a setKeyMaterial that succeeded with a key that belongs to the chain, the slots of
\* the chain's key type hold exactly that chain and that key, for chains of any length and
\* whatever an earlier call left in them; the slots of the other type and the credentials
\* are as they were.
THEOREM PresentsWholeCorrect == MaterialSpec => PresentsWhole
<1>1. MaterialInv /\ [MaterialNext]_materialVars =>
        [result' = "ok" /\ conn.live /\ UNCHANGED <<javaHeld, cred, ctx>> =>
           \A h \in DOMAIN chains, k \in Optional(keys) :
              setKeyMaterial(h, k) /\ Agree(chains[h], k) =>
                 /\ conn'.cert \o conn'.chain = chains[h]
                 /\ k # None => conn'.key = k
                 /\ Agree(conn'.cert, conn'.key)
                 /\ conn'.aside = AsideBefore
                 /\ conn'.creds = conn.creds]_materialVars
  <2> SUFFICES ASSUME MaterialInv, result' = "ok", NEW h \in DOMAIN chains, NEW k \in Optional(keys),
                      setKeyMaterial(h, k), Agree(chains[h], k)
               PROVE  Presented(chains[h], k)
    BY Zenon DEF Presented
  <2> QED
    BY PresentsStep
<1> QED
    BY <1>1, MaterialAlways, PTL DEF MaterialSpec, PresentsWhole
=============================================================================
