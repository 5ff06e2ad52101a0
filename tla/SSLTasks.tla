------------------------------ MODULE SSLTasks ------------------------------
(***************************************************************************)
(* The callbacks by which a handshake asks Java for a certificate verdict, *)
(* for a certificate or for a private key operation (sslcontext.c), and    *)
(* the task slot of an SSL (ssl.c, tcn_ssl_state_t) through which they are *)
(* offloaded: the callback puts an SSLTask in the slot and suspends the    *)
(* handshake, SSL.getTask hands the task out, some thread runs it, and the *)
(* retried handshake takes the result out of the slot.                     *)
(*                                                                         *)
(* BoringSSL runs the phases of a handshake in the order Phases and calls  *)
(* the callback of the current phase whenever the handshake is driven.  A  *)
(* phase makes at most one task, so a task is named by its phase.          *)
(***************************************************************************)
EXTENDS Integers, Sequences

CONSTANTS
    Phases,      \* the callbacks of this handshake, in order
    Callers      \* what the Java code around it may do, each a set of habits

Kinds == {"verify", "cert", "sign", "decrypt"}

ASSUME PhasesAssumption == Phases \in Seq(Kinds)
ASSUME CallersAssumption ==
    Callers \subseteq SUBSET {"toggles", "throws", "polls", "runs again", "races", "casts"}

P    == 1 .. Len(Phases)
NULL == 0

MaxRuns == 2     \* bound: the threads that find didRun of one task unset

VARIABLES
    caller,      \* the habits of the Java code that runs
    status,      \* of the SSL: "live", "freed", or "crashed" with the process
    use_tasks,   \* of the SSLContext
    handshake,   \* "running", "done" or "failed"
    phase,       \* the phase the handshake is in
    suspended,   \* its callback asked to be retried
    ssl_task,    \* state->ssl_task: the task's phase, or NULL
    consumed,    \* state->ssl_task->consumed
    task_short,  \* state->task_array_len < state->task_chain_num
    ref,         \* the tasks JNI holds a global reference to
    held,        \* the tasks SSL.getTask handed to Java
    didRun,      \* the tasks whose runTask was started
    running,     \* how many calls of a task's runTask have not ended
    visible,     \* the fields of a task other threads see written
    signalled,   \* the tasks whose completeCallback ran
    outcome,     \* what Java's callback for a phase did
    calls,       \* how often it was called
    short,       \* the chain of the phase does not fit the verify depth
    alert        \* the verify result behind the alert that is sent

slot    == <<ssl_task, consumed, task_short, ref>>
engine  == <<handshake, phase, suspended, alert>>
java    == <<held, didRun, running, visible, signalled>>
history == <<outcome, calls, short>>
vars    == <<caller, status, use_tasks, slot, engine, java, history>>

Toggles   == "toggles" \in caller      \* SSLContext.setUseTasks is called during the handshake
Throws    == "throws" \in caller       \* a verifier or an async key method may throw
Polls     == "polls" \in caller        \* the handshake is driven before the task is done
RunsAgain == "runs again" \in caller   \* a task may be run a second time
Races     == "races" \in caller        \* a task may be run on two threads at once
Casts     == "casts" \in caller        \* tasks are fetched with SSL.getAsyncTask

Fields == {"returnValue", "resultBytes", "complete"}

\* The results of the Java callbacks.  Whatever handle throws is an answer
\* (CertificateCallbackTask); what verify or an async sign throws is not.
Answers(kind) ==
    CASE kind = "verify" -> {"ok", "unspecified", "other"}
      [] kind = "cert"   -> {"ok", "throws"}
      [] OTHER           -> {"ok", "null", "long", "error"}
CallbackResults(kind) == Answers(kind) \cup (IF Throws THEN {"throws"} ELSE {})

X509_V_OK              == 0
X509_V_ERR_UNSPECIFIED == 1
X509_V_ERR_OTHER       == 23
X509_V_ERR_ISSUER      == 20    \* UNABLE_TO_GET_ISSUER_CERT_LOCALLY

\* What onResult is given: a verify result, or 1 for success and 0 for failure.
\* Mutant: a result outside the verify codes.
ReturnValueNegative(kind, o) ==
    CASE kind = "verify" /\ o = "ok"          -> X509_V_OK
      [] kind = "verify" /\ o = "unspecified" -> X509_V_ERR_UNSPECIFIED
      [] kind = "verify" /\ o = "other"       -> -1
      [] kind # "verify" /\ o \in {"throws", "error"} -> 0
      [] OTHER                                -> 1

ReturnValue(kind, o) ==
    CASE kind = "verify" /\ o = "ok"          -> X509_V_OK
      [] kind = "verify" /\ o = "unspecified" -> X509_V_ERR_UNSPECIFIED
      [] kind = "verify" /\ o = "other"       -> X509_V_ERR_OTHER
      [] kind # "verify" /\ o \in {"throws", "error"} -> 0
      [] OTHER                                -> 1

Init ==
    /\ caller \in Callers
    /\ status = "live"
    /\ use_tasks \in BOOLEAN
    /\ handshake = IF Phases = << >> THEN "done" ELSE "running"
    /\ phase = 1
    /\ suspended = FALSE
    /\ ssl_task = NULL
    /\ consumed = FALSE
    /\ task_short = FALSE
    /\ ref = {}
    /\ held = {}
    /\ didRun = {}
    /\ running = [p \in P |-> 0]
    /\ visible = [p \in P |-> {}]
    /\ signalled = {}
    /\ outcome = [p \in P |-> "none"]
    /\ calls = [p \in P |-> 0]
    /\ short = [p \in P |-> FALSE]
    /\ alert = X509_V_OK

-----------------------------------------------------------------------------
(* The slot.                                                               *)

\* tcn_ssl_task_new, stored in the slot whatever the slot held.
\* Mutant: consumed is left as malloc found it.
tcn_ssl_task_newConsumed ==
    /\ ssl_task' = phase
    /\ consumed' = TRUE
    /\ ref' = ref \cup {phase}

tcn_ssl_task_new ==
    /\ ssl_task' = phase
    /\ consumed' = FALSE
    /\ ref' = ref \cup {phase}

\* Mutants: the global reference is kept; the slot is not cleared.
tcn_ssl_task_freeLeaks ==
    /\ ssl_task' = NULL
    /\ consumed' = FALSE
    /\ UNCHANGED ref

tcn_ssl_task_freeDangles ==
    /\ ref' = ref \ {ssl_task}
    /\ UNCHANGED <<ssl_task, consumed>>

tcn_ssl_task_free ==
    /\ ssl_task' = NULL
    /\ consumed' = FALSE
    /\ ref' = ref \ {ssl_task}

\* The fields of the task in the slot, as the thread of the handshake reads them.
\* They are not volatile: until it is handed over, a write may not show.
complete    == "complete" \in visible[ssl_task]
returnValue == IF "returnValue" \in visible[ssl_task]
               THEN ReturnValue(Phases[ssl_task], outcome[ssl_task]) ELSE 0
resultBytes == IF "resultBytes" \in visible[ssl_task]
               THEN outcome[ssl_task] ELSE "null"

-----------------------------------------------------------------------------
(* What a callback tells the handshake.                                    *)

Retry == suspended' = TRUE /\ UNCHANGED <<handshake, phase, alert>>

Pass ==
    /\ suspended' = FALSE
    /\ phase' = phase + 1
    /\ handshake' = IF phase = Len(Phases) THEN "done" ELSE "running"
    /\ UNCHANGED alert

FailWith(result) ==
    /\ suspended' = FALSE
    /\ handshake' = "failed"
    /\ alert' = result
    /\ UNCHANGED phase

Fail == FailWith(alert)

\* runTask ended in an exception: no answer, no completeCallback.
Threw(p) == outcome[p] = "throws" /\ Phases[p] # "cert"

\* Java drives the handshake and its current callback is one of kinds.  It waits
\* for a suspended task unless it polls.
Driven(kinds) ==
    /\ status = "live"
    /\ handshake = "running"
    /\ Phases[phase] \in kinds
    /\ suspended => Polls \/ ssl_task \in signalled \/ Threw(ssl_task)

\* The callback runs its Java counterpart itself, which does o.
CallJava(o) ==
    /\ outcome' = [outcome EXCEPT ![phase] = o]
    /\ calls' = [calls EXCEPT ![phase] = @ + 1]

-----------------------------------------------------------------------------
(* tcn_SSL_cert_custom_verify.                                             *)

Verdict(result) == IF result = X509_V_OK THEN Pass ELSE FailWith(result)

\* An unknown failure of a shortened chain is a missing issuer.
Issuer(result, isShort) ==
    IF result = X509_V_ERR_UNSPECIFIED /\ isShort THEN X509_V_ERR_ISSUER ELSE result

VerifyNotDone ==
    /\ Driven({"verify"})
    /\ ssl_task # NULL /\ ~complete
    /\ Retry
    /\ UNCHANGED <<caller, status, use_tasks, slot, java, history>>

VerifyTaken ==
    /\ Driven({"verify"})
    /\ ssl_task # NULL /\ complete
    /\ Verdict(Issuer(returnValue, task_short))
    /\ tcn_ssl_task_free
    /\ UNCHANGED <<caller, status, use_tasks, task_short, java, history>>

\* No chain, no memory for its byte arrays, no verifier, or no memory for a task.
VerifyUnable(isShort) ==
    /\ Driven({"verify"})
    /\ ssl_task = NULL
    /\ FailWith(Issuer(X509_V_ERR_UNSPECIFIED, isShort))
    /\ UNCHANGED <<caller, status, use_tasks, slot, java, history>>

\* Mutant: the length of the chain is not remembered.
VerifyOffloadedForgets(isShort) ==
    /\ Driven({"verify"})
    /\ ssl_task = NULL
    /\ use_tasks
    /\ tcn_ssl_task_new
    /\ short' = [short EXCEPT ![phase] = isShort]
    /\ Retry
    /\ UNCHANGED <<caller, status, use_tasks, task_short, java, outcome, calls>>

VerifyOffloaded(isShort) ==
    /\ Driven({"verify"})
    /\ ssl_task = NULL
    /\ use_tasks
    /\ tcn_ssl_task_new
    /\ task_short' = isShort
    /\ short' = [short EXCEPT ![phase] = isShort]
    /\ Retry
    /\ UNCHANGED <<caller, status, use_tasks, java, outcome, calls>>

VerifyCalled(isShort, o) ==
    /\ Driven({"verify"})
    /\ ssl_task = NULL
    /\ ~use_tasks
    /\ CallJava(o)
    /\ short' = [short EXCEPT ![phase] = isShort]
    /\ IF o = "throws" THEN FailWith(X509_V_ERR_UNSPECIFIED)
       ELSE Verdict(Issuer(ReturnValue("verify", o), isShort))
    /\ UNCHANGED <<caller, status, use_tasks, slot, java>>

tcn_SSL_cert_custom_verify ==
    \/ VerifyNotDone
    \/ VerifyTaken
    \/ \E isShort \in BOOLEAN :
          \/ VerifyUnable(isShort)
          \/ VerifyOffloaded(isShort)
          \/ \E o \in CallbackResults("verify") : VerifyCalled(isShort, o)

-----------------------------------------------------------------------------
(* certificate_cb.                                                         *)

CertNotDone ==
    /\ Driven({"cert"})
    /\ ssl_task # NULL /\ ~complete
    /\ Retry
    /\ UNCHANGED <<caller, status, use_tasks, slot, java, history>>

CertTaken ==
    /\ Driven({"cert"})
    /\ ssl_task # NULL /\ complete
    /\ IF returnValue = 0 THEN Fail ELSE Pass
    /\ tcn_ssl_task_free
    /\ UNCHANGED <<caller, status, use_tasks, task_short, java, history>>

CertOffloaded ==
    /\ Driven({"cert"})
    /\ ssl_task = NULL
    /\ use_tasks
    /\ \/ tcn_ssl_task_new /\ Retry
       \/ Fail /\ UNCHANGED <<ssl_task, consumed, ref>>
    /\ UNCHANGED <<caller, status, use_tasks, task_short, java, history>>

CertCalled(o) ==
    /\ Driven({"cert"})
    /\ ssl_task = NULL
    /\ ~use_tasks
    /\ CallJava(o)
    /\ IF o = "throws" THEN Fail ELSE Pass
    /\ UNCHANGED <<caller, status, use_tasks, slot, java, short>>

certificate_cb ==
    \/ CertNotDone
    \/ CertTaken
    \/ CertOffloaded
    \/ \E o \in CallbackResults("cert") : CertCalled(o)

-----------------------------------------------------------------------------
(* tcn_private_key_sign_java and tcn_private_key_decrypt_java, which differ  *)
(* only in the Java method, and tcn_private_key_complete_java.             *)

\* The slot is not looked at: a task that cannot be made clears it.
KeyOffloaded ==
    /\ Driven({"sign", "decrypt"})
    /\ ~suspended
    /\ use_tasks
    /\ \/ tcn_ssl_task_new /\ Retry
       \/ Fail /\ UNCHANGED <<ssl_task, consumed, ref>>
       \/ Fail /\ ssl_task' = NULL /\ consumed' = FALSE /\ UNCHANGED ref
    /\ UNCHANGED <<caller, status, use_tasks, task_short, java, history>>

\* The method looked up is the asynchronous one: it returns nothing and takes a
\* callback that is not passed.  JNI leaves the effect undefined.
KeyCalled ==
    /\ Driven({"sign", "decrypt"})
    /\ ~suspended
    /\ ~use_tasks
    /\ \/ status' = "crashed" /\ UNCHANGED engine
       \/ Fail /\ UNCHANGED status
    /\ UNCHANGED <<caller, use_tasks, slot, java, history>>

\* The tasks were turned off meanwhile: success, with nothing put in out.
CompleteWithoutTasks ==
    /\ Driven({"sign", "decrypt"})
    /\ suspended
    /\ ~use_tasks
    /\ Pass
    /\ UNCHANGED <<caller, status, use_tasks, slot, java, history>>

CompleteNotDone ==
    /\ Driven({"sign", "decrypt"})
    /\ suspended
    /\ use_tasks
    /\ ssl_task # NULL /\ ~complete
    /\ Retry
    /\ UNCHANGED <<caller, status, use_tasks, slot, java, history>>

\* No task, null bytes, or more than max_out: failure.  returnValue is not read.
CompleteTaken ==
    /\ Driven({"sign", "decrypt"})
    /\ suspended
    /\ use_tasks
    /\ ssl_task # NULL => complete
    /\ IF ssl_task = NULL \/ resultBytes \in {"null", "long"} THEN Fail ELSE Pass
    /\ tcn_ssl_task_free
    /\ UNCHANGED <<caller, status, use_tasks, task_short, java, history>>

tcn_private_key_java ==
    \/ KeyOffloaded
    \/ KeyCalled
    \/ CompleteWithoutTasks
    \/ CompleteNotDone
    \/ CompleteTaken

-----------------------------------------------------------------------------
(* The peer and the rest of the API.                                       *)

\* The handshake fails for a reason that has nothing to do with the callbacks.
PeerFails ==
    /\ status = "live"
    /\ handshake = "running"
    /\ ~suspended
    /\ Fail
    /\ UNCHANGED <<caller, status, use_tasks, slot, java, history>>

setUseTasks ==
    /\ Toggles
    /\ status = "live"
    /\ use_tasks' = ~use_tasks
    /\ UNCHANGED <<caller, status, slot, engine, java, history>>

\* SSL.getAsyncTask casts what getTask returned, and throws for a task that is not
\* an AsyncTask.
CastFails == Casts /\ Phases[ssl_task] \in {"verify", "cert"}

Handed == IF CastFails THEN {} ELSE {ssl_task}

getTask ==
    /\ status = "live"
    /\ ssl_task # NULL /\ ~consumed
    /\ consumed' = TRUE
    /\ held' = held \cup Handed
    /\ UNCHANGED <<caller, status, use_tasks, ssl_task, task_short, ref, engine,
                   didRun, running, visible, signalled, history>>

\* free_ssl_state frees the task that is still in the slot.  Mutant: only the state.
freeSSLKeepsTask ==
    /\ status = "live"
    /\ status' = "freed"
    /\ ssl_task' = NULL
    /\ UNCHANGED <<caller, use_tasks, consumed, ref, task_short, engine, java, history>>

freeSSL ==
    /\ status = "live"
    /\ status' = "freed"
    /\ tcn_ssl_task_free
    /\ UNCHANGED <<caller, use_tasks, task_short, engine, java, history>>

-----------------------------------------------------------------------------
(* SSLTask.run, on whatever thread Java chooses, and also after freeSSL.    *)

\* The first half of run: didRun is looked at, set, and the Java callback called.
\* Nothing orders these accesses between threads, so one that runs a task while
\* another does may find didRun unset as well.  Mutant: it is not looked at.
runTaskTwice(p) ==
    /\ p \in held
    /\ didRun' = didRun \cup {p}
    /\ calls' = [calls EXCEPT ![p] = @ + 1]
    /\ running' = [running EXCEPT ![p] = @ + 1]
    /\ UNCHANGED <<caller, status, use_tasks, slot, engine, held, visible, signalled,
                   outcome, short>>

runTask(p) ==
    /\ p \in held
    /\ p \in didRun => Races /\ calls[p] < MaxRuns
    /\ didRun' = didRun \cup {p}
    /\ calls' = [calls EXCEPT ![p] = @ + 1]
    /\ running' = [running EXCEPT ![p] = @ + 1]
    /\ UNCHANGED <<caller, status, use_tasks, slot, engine, held, visible, signalled,
                   outcome, short>>

\* The Java callback ends, at once or later and on another thread.  When it throws
\* into runTask, onResult is never called; of two racing calls the later answer is
\* the one that stays.
onResult(p, o) ==
    /\ running[p] > 0
    /\ running' = [running EXCEPT ![p] = @ - 1]
    /\ outcome' = [outcome EXCEPT ![p] = IF o \in Answers(Phases[p]) \/ @ = "none" THEN o ELSE @]
    /\ UNCHANGED <<caller, status, use_tasks, slot, engine, held, didRun, visible, signalled,
                   calls, short>>

Answered(p) == outcome[p] \in Answers(Phases[p])

\* One of onResult's writes shows to other threads, in no particular order.
Publish(p, f) ==
    /\ p \in didRun
    /\ Answered(p)
    /\ f \notin visible[p]
    /\ visible' = [visible EXCEPT ![p] = @ \cup {f}]
    /\ UNCHANGED <<caller, status, use_tasks, slot, engine, held, didRun, running, signalled, history>>

\* onResult ends in completeCallback.run(), which hands the writes over.
\* Mutant: the callback runs before returnValue is written.
completeCallbackEarly(p) ==
    /\ p \in didRun \ signalled
    /\ Answered(p)
    /\ visible' = [visible EXCEPT ![p] = @ \cup {"complete"}]
    /\ signalled' = signalled \cup {p}
    /\ UNCHANGED <<caller, status, use_tasks, slot, engine, held, didRun, running, history>>

completeCallback(p) ==
    /\ p \in didRun
    /\ p \in signalled => visible[p] # Fields
    /\ Answered(p)
    /\ visible' = [visible EXCEPT ![p] = Fields]
    /\ signalled' = signalled \cup {p}
    /\ UNCHANGED <<caller, status, use_tasks, slot, engine, held, didRun, running, history>>

\* A second run only calls the completeCallback it is given.
runAgain(p) ==
    /\ RunsAgain
    /\ p \in didRun \ signalled
    /\ signalled' = signalled \cup {p}
    /\ UNCHANGED <<caller, status, use_tasks, slot, engine, held, didRun, running, visible, history>>

-----------------------------------------------------------------------------
Callback == tcn_SSL_cert_custom_verify \/ certificate_cb \/ tcn_private_key_java

Executor ==
    \E p \in P :
        \/ runTask(p)
        \/ \E o \in CallbackResults(Phases[p]) : onResult(p, o)
        \/ \E f \in Fields : Publish(p, f)
        \/ completeCallback(p)
        \/ runAgain(p)

Next == Callback \/ PeerFails \/ setUseTasks \/ getTask \/ freeSSL \/ Executor

Spec == Init /\ [][Next]_vars

\* "After the task was run we should retry the operation": Java keeps driving the
\* handshake, takes and runs the tasks, and its callbacks end.
Fairness ==
    /\ WF_vars(Callback)
    /\ WF_vars(getTask)
    /\ \A p \in P : /\ WF_vars(p \notin didRun /\ runTask(p))
                    /\ WF_vars(\E o \in CallbackResults(Phases[p]) : onResult(p, o))
                    /\ WF_vars(completeCallback(p))

FairSpec == Spec /\ Fairness

-----------------------------------------------------------------------------
(* What makes the callbacks correct.                                       *)

Outcomes == {"none", "ok", "unspecified", "other", "throws", "null", "long", "error"}

\* Type invariant of tcn_ssl_state_t, of the SSLTask objects and of the history:
\* the slot only names tasks of this handshake.
TypeOK ==
    /\ caller \in Callers
    /\ status \in {"live", "freed", "crashed"}
    /\ use_tasks \in BOOLEAN
    /\ handshake \in {"running", "done", "failed"}
    /\ phase \in 1 .. Len(Phases) + 1
    /\ handshake = "running" => phase \in P
    /\ suspended \in BOOLEAN
    /\ ssl_task \in P \cup {NULL}
    /\ consumed \in BOOLEAN
    /\ task_short \in BOOLEAN
    /\ ref \subseteq P
    /\ held \subseteq P
    /\ didRun \subseteq held
    /\ running \in [P -> Nat]
    /\ signalled \subseteq didRun
    /\ visible \in [P -> SUBSET Fields]
    /\ outcome \in [P -> Outcomes]
    /\ calls \in [P -> Nat]
    /\ short \in [P -> BOOLEAN]
    /\ alert \in Nat

\* JNI holds a global reference to the task in the slot and to no other, so none
\* outlives its SSL: every path that takes a result, and freeSSL, deletes it, and
\* the key callbacks, which overwrite the slot unread, find it empty.
GlobalRefsOwned == ref = {ssl_task} \ {NULL}

\* Java's callback for a phase is called at most once, however often the handshake
\* is retried and the task is fetched or run again, and although setUseTasks may
\* change between the calls.  Two threads that run one task at the same time are
\* outside: SSLTask.run does not keep them apart.
CalledOnce == ~Races => \A p \in P : calls[p] <= 1

\* didRun keeps a task from being run twice on whatever threads run it (SSLTask.run).
\* The code does not keep to it: README.md, "Deviations".
CalledOnceByAnyThreads == \A p \in P : calls[p] <= 1

\* While the handshake waits, and setUseTasks is not called, the slot holds the task of the operation it waits
\* for: "Let's check if we retried the operation and so have stored a sslTask that
\* runs the certificiate callback" (tcn_SSL_cert_custom_verify).
SlotIsThisPhases ==
    ~Toggles /\ handshake = "running" /\ ssl_task # NULL => ssl_task = phase /\ suspended

\* Java waits for a task before it drives the handshake, and runs it once.
Waits == ~Toggles /\ ~Polls /\ ~RunsAgain /\ ~Races

Approved == \A p \in P : p < phase /\ Phases[p] \in {"verify", "cert"} => outcome[p] = "ok"

\* When Java waits for its tasks, the handshake gets past a certificate only with
\* the approval of the Java callback for that very certificate, never on a
\* default, an early, a stale or another task's value
\* (tcn_SSL_cert_custom_verify, certificate_cb).
PassedByCallback == Waits => Approved

\* A refused chain is refused for the same reason with a task as without one,
\* although the length of the chain is remembered across the suspension and other
\* phases' tasks are still running.
SameAlert ==
    ~Races /\ handshake = "failed" /\ phase \in P /\ Phases[phase] = "verify"
      /\ outcome[phase] \in Answers("verify") =>
        alert = Issuer(ReturnValue("verify", outcome[phase]), short[phase])

\* A private key operation that failed fails the handshake: "Return 0 as this
\* signals back that the operation failed" (SSLPrivateKeyMethodTask.onError).
\* The code does not keep to it: README.md, "Deviations".
SignedByMethod ==
    \A p \in P : p < phase /\ Phases[p] \in {"sign", "decrypt"} => outcome[p] = "ok"

\* completeCallback "is run once the task was run and completed" (AsyncTask).
\* The code does not keep to it: README.md, "Deviations".
SignalMeansComplete == \A p \in signalled : Answered(p)

\* Without tasks the key callbacks end in success or failure like the others.
\* The code does not keep to it: README.md, "Deviations".
NeverCrashes == status # "crashed"

\* The two ways to lose the answer of the task in the slot: the callback threw into
\* runTask and no other call of it is under way, or the task was marked consumed and the cast kept it from Java.
AnswerLost ==
    /\ ssl_task # NULL
    /\ \/ Threw(ssl_task) /\ running[ssl_task] = 0
       \/ consumed /\ CastFails

\* A handshake that is driven and whose tasks are run ends: no order of retries,
\* fetches, task runs and completions leaves it suspended, unless the answer it
\* waits for was lost in one of those two ways (getTask, SSLTask.run and the
\* callbacks that resume).
HandshakeEnds == <>(handshake # "running" \/ status # "live" \/ AnswerLost)

\* "After the task was run we should retry the operation" (SSL.getTask) promises
\* that a retry follows every task, so a driven handshake ends whatever a
\* callback does.
\* The code does not keep to it: README.md, "Deviations".
EveryHandshakeEnds == <>(handshake # "running" \/ status # "live")
=============================================================================
