---------------------------- MODULE KeyMaterial ----------------------------
(***************************************************************************)
(* Certificates, private keys, passwords and credentials, and who holds a  *)
(* reference to each (ssl.c, sslcontext.c, sslcredential.c, sslutils.c).   *)
(*                                                                         *)
(* Java parses chains and keys and holds them by address; a connection, a  *)
(* context and an SSL_CREDENTIAL take references of their own when Java    *)
(* gives them to it.  An object is freed with its last reference, and its  *)
(* memory is used again.  Each JNI call is one step that may fail at any   *)
(* of the library calls it makes.  A null handle makes a call throw before *)
(* it does anything: a stuttering step.  Cert and key slots are sequences  *)
(* of at most one object, empty for NULL.                                  *)
(*                                                                         *)
(* All calls are made by one thread, whose OpenSSL error queue outlives    *)
(* the call that filled it: err is the kind of its oldest entry.           *)
(***************************************************************************)
EXTENDS Integers, Sequences, FiniteSets, FiniteSetsExt, SequencesExt

CONSTANTS
    Programs,      \* what the programs that use the library do
    Certs, Keys,   \* X509 (or CRYPTO_BUFFER) and EVP_PKEY objects
    Creds,         \* SSL_CREDENTIAL objects
    Passwords,     \* copies of a password made with strdup
    Fits,          \* the pairs of a certificate and a key that belong together
    Handles,       \* the chains Java can hold
    MaxChain,      \* bound on the certificates of one chain
    MaxRefs        \* bound on the references Java holds to a credential

\* The CRYPTO_BUFFERs a credential holds; one object stands for all buffers of a kind.
BufferKinds == {"ocsp", "sct", "properties", "delegated"}

Objects == Certs \cup Keys \cup Creds \cup Passwords \cup BufferKinds

\* The calls a program makes: on chains, keys and a connection of its own; from a client
\* certificate callback; the deprecated ones of a connection; on the chain and the CA
\* names of the context; on its certificate and key; on credentials; on the attributes
\* of a credential.
Groups == {"connection", "client", "deprecated", "context", "pair", "credential",
           "attributes"}

\* client: the context was made for clients.  ec: the certificates and keys of one type of
\* key; the others are of another type, the one a new context starts with.
ASSUME ProgramsAssumption ==
    Programs \subseteq [BoringSSL : BOOLEAN, calls : SUBSET Groups, client : BOOLEAN,
                       ec : SUBSET (Certs \cup Keys)]
ASSUME FitsAssumption ==
    /\ Fits \subseteq Certs \X Keys
    /\ \A p \in Programs, f \in Fits : f[1] \in p.ec <=> f[2] \in p.ec
ASSUME BoundAssumption == MaxChain \in Nat /\ MaxRefs \in Nat
ASSUME DistinctAssumption ==
    Cardinality(Objects) = Cardinality(Certs) + Cardinality(Keys) + Cardinality(Creds)
                           + Cardinality(Passwords) + Cardinality(BufferKinds)

VARIABLES
    program,     \* the build and its program, fixed at the start
    refs,        \* the reference count of each object, 0 when it is not allocated
    chains,      \* the chains Java holds, by handle
    cut,         \* history: the chains of a BIO that held more than they do
    keys,        \* the keys Java holds
    javaCreds,   \* how many references Java holds to each credential
    cred,        \* what each credential holds
    conn,        \* the key material of the connection
    ctx,         \* the key material of the context
    accepted,    \* history: the password of the last call that succeeded with one
    err,         \* the oldest entry of the thread's error queue
    result       \* whether the last call succeeded

javaHeld == <<chains, cut, keys, javaCreds>>
materialVars == <<program, refs, javaHeld, cred, conn, ctx, accepted, err, result>>

BoringSSL == program.BoringSSL
Calls(group) == group \in program.calls

None == << >>

\* OpenSSL keeps a certificate and a key for each type of key, and makes the type of the
\* one it was given last the current one: cert, key and chain are those of the current
\* type, aside those of the other.  A connection has a chain for each type as well, a
\* context one for all of them, its extra chain.  BoringSSL knows one type only.
Empty  == [cert |-> None, key |-> None, chain |-> None]
NoConn == [live |-> FALSE, type |-> "rsa", cert |-> None, key |-> None, chain |-> None,
           aside |-> Empty, chainPerType |-> TRUE,
           outCert |-> None, outKey |-> None, creds |-> None]
NoCtx  == [live |-> TRUE, type |-> "rsa", cert |-> None, key |-> None, chain |-> None,
           aside |-> Empty, chainPerType |-> FALSE,
           password |-> None, cas |-> FALSE]
NoCred == [key |-> None, chain |-> None, buffers |-> {}]

MaterialInit ==
    /\ program \in Programs
    /\ refs = [o \in Objects |-> 0]
    /\ chains = [h \in {} |-> None]
    /\ cut = {}
    /\ keys = {}
    /\ javaCreds = [c \in Creds |-> 0]
    /\ cred = [c \in Creds |-> NoCred]
    /\ conn = NoConn
    /\ ctx = NoCtx
    /\ accepted = None
    /\ err = "none"
    /\ result = "ok"

-----------------------------------------------------------------------------
(* References and errors.                                                  *)

Count(s, o) == Cardinality({i \in DOMAIN s : s[i] = o})
Up(r, s)    == [o \in Objects |-> r[o] + Count(s, o)]
Down(r, s)  == [o \in Objects |-> r[o] - Count(s, o)]

Fresh(S) == {o \in S : refs[o] = 0}
Optional(S) == {None} \cup {<<o>> : o \in S}

\* What a BIO with PEM blocks yields: new certificates.
Readable == {s \in SeqOf(Fresh(Certs), MaxChain) : IsInjective(s)}

From(s, n) == SubSeq(s, n, Len(s))

Oldest(kind) == IF err = "none" THEN kind ELSE err

\* The read that ends the loop over a BIO queues an error: that there is no further
\* start line, or that what follows is no certificate.
EndOfRead(wellFormed) == IF wellFormed THEN "eof" ELSE "other"

\* ERR_get_error takes the oldest entry; the library may have queued more.
TakeOneError == err' \in {"none", "other"}
ClearErrors  == err' = "none"

Returns(ok) == result' = IF ok THEN "ok" ELSE "failed"

-----------------------------------------------------------------------------
(* Library calls, as the set of their outcomes.  An outcome m has the      *)
(* counts, the slots of the SSL or SSL_CTX, whether the call succeeded and *)
(* whether an exception is pending already.                                *)

On(store) == [refs |-> refs, store |-> store, ok |-> TRUE, threw |-> FALSE]
Failed(m) == [m EXCEPT !.ok = FALSE]
Then(ms, F(_)) == UNION {IF m.ok THEN F(m) ELSE {m} : m \in ms}
Succeeded(m) == m.ok /\ ~m.threw

\* The first certificate of a chain is the one a key belongs to.
Agree(cert, key) == cert # None /\ key # None => <<cert[1], key[1]>> \in Fits

KeyTypes == {"rsa", "ec"}
TypeOf(o) == IF o \in program.ec THEN "ec" ELSE "rsa"

\* The slots of type t become the current ones.
Turned(s, t) ==
    [s EXCEPT !.type = t, !.cert = s.aside.cert, !.key = s.aside.key,
              !.chain = IF s.chainPerType THEN s.aside.chain ELSE s.chain,
              !.aside = [cert |-> s.cert, key |-> s.key,
                         chain |-> IF s.chainPerType THEN s.chain ELSE s.aside.chain]]
Select(m, t) == IF m.store.type = t THEN m ELSE [m EXCEPT !.store = Turned(@, t)]

\* A key that does not belong to the new certificate is dropped.
SetCertificate(m, c) ==
    LET dropped == IF Agree(<<c>>, m.store.key) THEN None ELSE m.store.key
    IN  [m EXCEPT !.refs = Down(Up(@, <<c>>), m.store.cert \o dropped),
                  !.store.cert = <<c>>,
                  !.store.key = IF dropped = None THEN @ ELSE None]

UseCertificate(m, c) == {Failed(m), SetCertificate(Select(m, TypeOf(c)), c)}

SetKey(m, k) == [m EXCEPT !.refs = Down(Up(@, <<k>>), m.store.key), !.store.key = <<k>>]
DropCertificate(m) == [m EXCEPT !.refs = Down(@, m.store.cert), !.store.cert = None]

\* A key that does not belong to the certificate of its type is refused; some versions
\* drop the certificate then.
UsePrivateKey(m, k) ==
    LET typed == Select(m, TypeOf(k))
    IN  {Failed(m),
         IF Agree(typed.store.cert, <<k>>) THEN SetKey(typed, k)
         ELSE Failed(Select(DropCertificate(typed), m.store.type))}

CheckPrivateKey(m) ==
    {[m EXCEPT !.ok = m.store.cert # None /\ m.store.key # None
                      /\ Agree(m.store.cert, m.store.key)]}

ClearChain(m) ==
    {Failed(m), [m EXCEPT !.refs = Down(@, m.store.chain), !.store.chain = None]}

\* Append s, each certificate with a reference of its own, until one fails.
Add1Chain(m, s) ==
    {[m EXCEPT !.refs = Up(@, SubSeq(s, 1, n)),
               !.store.chain = @ \o SubSeq(s, 1, n),
               !.ok = n = Len(s)] : n \in 0 .. Len(s)}

\* BoringSSL replaces certificate, chain and key at once or not at all.
SetChainAndKey(m, s, k) ==
    {Failed(m)} \cup
    IF s # None /\ Agree(s, k)
    THEN {[m EXCEPT !.refs = Down(Up(@, s \o k), m.store.cert \o m.store.chain \o m.store.key),
                    !.store.cert = <<s[1]>>, !.store.chain = From(s, 2), !.store.key = k]}
    ELSE {}

-----------------------------------------------------------------------------
(* What Java holds.                                                        *)

\* ssl.c parseX509Chain: the oldest error of the thread decides whether the chain
\* was read to its end.  A failed push, or such an error, frees what was read.
parseX509Chain(h, s, wellFormed) ==
    /\ h \notin DOMAIN chains
    /\ \/ /\ Oldest(EndOfRead(wellFormed)) = "eof"
          /\ refs' = Up(refs, s)
          /\ chains' = [x \in DOMAIN chains \cup {h} |-> IF x = h THEN s ELSE chains[x]]
          /\ cut' = IF wellFormed THEN cut ELSE cut \cup {h}
          /\ Returns(TRUE)
       \/ /\ s # None \/ Oldest(EndOfRead(wellFormed)) = "other"
          /\ refs' = Down(Up(refs, s), s)
          /\ Returns(FALSE)
          /\ UNCHANGED <<chains, cut>>
    /\ ClearErrors
    /\ UNCHANGED <<program, keys, javaCreds, cred, conn, ctx, accepted>>

freeX509Chain(h) ==
    /\ h \in DOMAIN chains
    /\ refs' = Down(refs, chains[h])
    /\ chains' = [x \in DOMAIN chains \ {h} |-> chains[x]]
    /\ cut' = cut \ {h}
    /\ Returns(TRUE)
    /\ UNCHANGED <<program, keys, javaCreds, cred, conn, ctx, accepted, err>>

\* The key Java gets an address of, or an exception.
NewKey ==
    /\ \/ /\ \E k \in Fresh(Keys) : refs' = Up(refs, <<k>>) /\ keys' = keys \cup {k}
          /\ Returns(TRUE)
          /\ UNCHANGED err
       \/ ClearErrors /\ Returns(FALSE) /\ UNCHANGED <<refs, keys>>
    /\ UNCHANGED <<program, chains, cut, javaCreds, cred, conn, ctx, accepted>>

parsePrivateKey == NewKey

\* Engines are not part of BoringSSL.
loadPrivateKeyFromEngine == ~BoringSSL /\ NewKey

freePrivateKey(k) ==
    /\ k \in keys
    /\ refs' = Down(refs, <<k>>)
    /\ keys' = keys \ {k}
    /\ Returns(TRUE)
    /\ UNCHANGED <<program, chains, cut, javaCreds, cred, conn, ctx, accepted, err>>

-----------------------------------------------------------------------------
(* The connection.                                                         *)

Slots(s) == s.cert \o s.key \o s.chain \o s.aside.cert \o s.aside.key \o s.aside.chain
ConnHolds == Slots(conn) \o conn.outCert \o conn.outKey

\* SSL_new copies certificates and keys of the context, with references of their own.
newSSL ==
    /\ ctx.live
    /\ ~conn.live
    /\ \/ /\ conn' = [NoConn EXCEPT !.live = TRUE, !.type = ctx.type,
                                     !.cert = ctx.cert, !.key = ctx.key,
                                     !.aside = [ctx.aside EXCEPT !.chain = None]]
          /\ refs' = Up(refs, ctx.cert \o ctx.key \o ctx.aside.cert \o ctx.aside.key)
          /\ Returns(TRUE)
       \/ Returns(FALSE) /\ UNCHANGED <<conn, refs>>
    /\ UNCHANGED <<program, javaHeld, cred, ctx, accepted, err>>

\* Where the sequences f[x], x in D, hold o.
Places(f, D, o) == UNION {{x} \X {i \in DOMAIN f[x] : f[x][i] = o} : x \in D}

\* What o counts for in the credentials D.
CredHolds == [c \in Creds |-> cred[c].key \o cred[c].chain]
HeldByCreds(D, o) ==
    Cardinality(Places(CredHolds, D, o)) + Cardinality({c \in D : o \in cred[c].buffers})

\* SSL_CREDENTIAL_free of each of cs: the last reference frees what it holds.
FreeCreds(r, cs) ==
    LET down == Down(r, cs)
        dead == {c \in Creds : Count(cs, c) > 0 /\ down[c] = 0}
    IN  /\ refs' = [o \in Objects |-> down[o] - HeldByCreds(dead, o)]
        /\ cred' = [c \in Creds |-> IF c \in dead THEN NoCred ELSE cred[c]]

SSL_freeSSL ==
    /\ conn.live
    /\ conn.outCert = None
    /\ conn' = NoConn
    /\ FreeCreds(Down(refs, ConnHolds), conn.creds)
    /\ Returns(TRUE)
    /\ UNCHANGED <<program, javaHeld, ctx, accepted, err>>

\* Mutant: the certificates are appended to those of an earlier call.
setKeyMaterialOpenSSLAppends(s, k) ==
    LET certified == IF s = None THEN {Failed(On(conn))} ELSE UseCertificate(On(conn), s[1])
        goesOn    == {[m EXCEPT !.ok = TRUE, !.threw = ~m.ok] : m \in certified}
        keyed     == IF k = None THEN goesOn
                     ELSE Then(Then(goesOn, LAMBDA m : UsePrivateKey(m, k[1])), CheckPrivateKey)
    IN  Then(keyed, LAMBDA m : Add1Chain(m, From(s, 2)))

\* A certificate the library refuses, and an empty chain, throw, but the call goes on
\* to the key and the chain.
setKeyMaterialOpenSSL(s, k) ==
    LET certified == IF s = None THEN {Failed(On(conn))} ELSE UseCertificate(On(conn), s[1])
        goesOn    == {[m EXCEPT !.ok = TRUE, !.threw = ~m.ok] : m \in certified}
        keyed     == IF k = None THEN goesOn
                     ELSE Then(Then(goesOn, LAMBDA m : UsePrivateKey(m, k[1])), CheckPrivateKey)
    IN  Then(Then(keyed, ClearChain), LAMBDA m : Add1Chain(m, From(s, 2)))

\* ssl.c setKeyMaterial.  With BoringSSL the array for the library may not be had: that
\* throws too, and leaves the error queue alone.
setKeyMaterial(h, k) ==
    /\ conn.live
    /\ h \in DOMAIN chains
    /\ \E m \in IF BoringSSL THEN SetChainAndKey(On(conn), chains[h], k)
                ELSE setKeyMaterialOpenSSL(chains[h], k) :
          /\ refs' = m.refs
          /\ conn' = m.store
          /\ Returns(Succeeded(m))
          /\ \/ Succeeded(m) /\ UNCHANGED err
             \/ ~Succeeded(m) /\ ClearErrors
             \/ ~Succeeded(m) /\ BoringSSL /\ UNCHANGED err
    /\ UNCHANGED <<program, javaHeld, cred, ctx, accepted>>

\* ssl.c setKeyMaterialClientSide, called from CertificateRequestedCallback: the first
\* certificate and the key go to the library through certOut and keyOut.
\* Mutant: a failed up_ref of the key leaves that of the certificate.
HandOutLeaks(m, c, k) ==
    {Failed(m), Failed([m EXCEPT !.refs = Up(@, c)]),
     [m EXCEPT !.refs = Up(@, c \o k), !.store.outCert = c, !.store.outKey = k]}

HandOut(m, c, k) ==
    {Failed(m), Failed([m EXCEPT !.refs = Down(Up(@, c), c)]),
     [m EXCEPT !.refs = Up(@, c \o k), !.store.outCert = c, !.store.outKey = k]}

setKeyMaterialClientSide(h, k) ==
    /\ ~BoringSSL
    /\ conn.live
    /\ conn.outCert = None
    /\ h \in DOMAIN chains
    /\ chains[h] # None
    /\ Len(conn.chain) + Len(chains[h]) - 1 <= MaxChain
    /\ \E m \in Then(Add1Chain(On(conn), From(chains[h], 2)),
                     LAMBDA x : HandOut(x, <<chains[h][1]>>, <<k>>)) :
          /\ refs' = m.refs
          /\ conn' = m.store
          /\ Returns(m.ok)
          /\ IF m.ok THEN UNCHANGED err ELSE ClearErrors
    /\ UNCHANGED <<program, javaHeld, cred, ctx, accepted>>

\* The library after the callback: it uses the pair and gives its references back.
client_cert_cb ==
    /\ conn.outCert # None
    /\ \E m \in Then(UseCertificate(On(conn), conn.outCert[1]),
                     LAMBDA x : UsePrivateKey(x, conn.outKey[1])) :
          /\ refs' = Down(m.refs, conn.outCert \o conn.outKey)
          /\ conn' = [m.store EXCEPT !.outCert = None, !.outKey = None]
          /\ Returns(m.ok)
    /\ UNCHANGED <<program, javaHeld, cred, ctx, accepted, err>>

-----------------------------------------------------------------------------
(* A certificate with its key, read from files or BIOs.                    *)

load_pem_key == Optional(Fresh(Keys))
load_pem_cert == Optional(Fresh(Certs))
tcn_load_pem_key_bio == Optional(Fresh(Keys))
tcn_load_pem_cert_bio == Optional(Fresh(Certs))

\* A PKCS12 file may hold a certificate, a key, both or neither.
ssl_load_pkcs12 == Optional(Fresh(Certs)) \X Optional(Fresh(Keys))

\* The key is read first, and without it the certificate is not read.
KeyFirst(cs, ks) == {p \in cs \X ks : p[2] = None => p[1] = None}

\* Use the pair that was read and give up the references to it, on every path.
UsePair(m, c, k) ==
    LET loaded    == [m EXCEPT !.refs = Up(@, c \o k)]
        certified == IF c = None THEN {Failed(loaded)} ELSE UseCertificate(loaded, c[1])
        keyed     == Then(certified, LAMBDA x : IF k = None THEN {Failed(x)}
                                                ELSE UsePrivateKey(x, k[1]))
    IN  {[x EXCEPT !.refs = Down(@, c \o k)] : x \in Then(keyed, CheckPrivateKey)}

\* A certificate in DER is tried when the PEM reader finds no start line, and that
\* clears the queue.
KeepsOrClears == err' \in {err, "none"}

\* ssl.c setCertificateBio, deprecated.  key_bio is computed before key falls back to
\* cert, so that without a key BIO no key is read.
SSL_setCertificateBio ==
    /\ ~BoringSSL
    /\ conn.live
    /\ \E p \in KeyFirst(tcn_load_pem_cert_bio, tcn_load_pem_key_bio) :
       \E m \in UsePair(On(conn), p[1], p[2]) :
          /\ refs' = m.refs
          /\ conn' = m.store
          /\ Returns(m.ok)
          /\ IF m.ok THEN KeepsOrClears ELSE ClearErrors
    /\ UNCHANGED <<program, javaHeld, cred, ctx, accepted>>

\* sslcontext.c free_and_reset_pass: current is c->password; old is what it was before
\* a password of this call took its place, NULL if this call brought none.
\* Mutant: a failed call leaves its password behind.
free_and_reset_passForgets(r, current, old, rv) ==
    [refs |-> Down(r, old), password |-> current]

free_and_reset_pass(r, current, old, rv) ==
    IF rv THEN [refs |-> Down(r, old), password |-> current]
    ELSE [refs |-> Down(r, current), password |-> old]

\* sslcontext.c setCertificate and setCertificateBio with one of pairs, after a copy of
\* the password took its place.
InstallPair(given, pairs, failed) ==
    /\ ~BoringSSL
    /\ ctx.live
    /\ \E p \in pairs :
       \E m \in UsePair([On(ctx) EXCEPT !.refs = Up(@, given)], p[1], p[2]) :
          LET current == IF given = None THEN ctx.password ELSE given
              old     == IF given = None THEN None ELSE ctx.password
              reset   == free_and_reset_pass(m.refs, current, old, m.ok)
          IN  /\ refs' = reset.refs
              /\ ctx' = [m.store EXCEPT !.password = reset.password]
              /\ accepted' = IF m.ok /\ given # None THEN given ELSE accepted
              /\ Returns(m.ok)
              /\ IF m.ok THEN KeepsOrClears ELSE failed
    /\ UNCHANGED <<program, javaHeld, cred, conn>>

setCertificate(given) ==
    InstallPair(given, KeyFirst(load_pem_cert, load_pem_key) \cup ssl_load_pkcs12, TakeOneError)

SSLContext_setCertificateBio(given) ==
    InstallPair(given, KeyFirst(tcn_load_pem_cert_bio, tcn_load_pem_key_bio), ClearErrors)

\* Either of the two when the copy of the password cannot be had, or no certificate is
\* named: only the password is touched.
NothingToInstall(given) ==
    /\ ~BoringSSL
    /\ ctx.live
    /\ \E copied \in Optional({given[i] : i \in DOMAIN given}) :
          LET current == IF given = None THEN ctx.password ELSE copied
              old     == IF given = None THEN None ELSE ctx.password
              reset   == free_and_reset_pass(Up(refs, copied), current, old, FALSE)
          IN  refs' = reset.refs /\ ctx' = [ctx EXCEPT !.password = reset.password]
    /\ Returns(FALSE)
    /\ UNCHANGED <<program, javaHeld, cred, conn, accepted, err>>

-----------------------------------------------------------------------------
(* Certificates read from a BIO into a chain.                              *)

\* Append what is read, ownership included, until one is refused, which is freed.
Add0Chain(m, s) ==
    {LET read == SubSeq(s, 1, IF n = Len(s) THEN n ELSE n + 1)
     IN  [m EXCEPT !.refs = Down(Up(@, read), From(read, n + 1)),
                   !.store.chain = @ \o SubSeq(s, 1, n),
                   !.ok = n = Len(s)] : n \in 0 .. Len(s)}

\* skipfirst reads one certificate and frees it.
Rest(s, skipfirst) == IF skipfirst THEN From(s, 2) ELSE s
NoneToSkip(s, skipfirst) == skipfirst /\ s = None

\* The end of the loops over a BIO: after the last certificate the oldest error of the
\* thread must be the end of the input.
ReadToEnd(m, wellFormed) == m.ok /\ Oldest(EndOfRead(wellFormed)) = "eof"
LeftBehind(m, wellFormed) == IF m.ok THEN Oldest(EndOfRead(wellFormed)) ELSE Oldest("other")

\* ssl.c setCertificateChainBio, deprecated: appends to the connection's chain.  With
\* BoringSSL it does nothing.
SSL_setCertificateChainBio(s, wellFormed, skipfirst) ==
    /\ ~BoringSSL
    /\ conn.live
    /\ Len(conn.chain) + Len(s) <= MaxChain
    /\ \E m \in IF NoneToSkip(s, skipfirst) THEN {Failed(On(conn))}
                ELSE Add0Chain(On(conn), Rest(s, skipfirst)) :
          /\ refs' = m.refs
          /\ conn' = m.store
          /\ Returns(ReadToEnd(m, wellFormed))
    /\ ClearErrors
    /\ UNCHANGED <<program, javaHeld, cred, ctx, accepted>>

\* SSL_CTX_clear_extra_chain_certs, whose result is not looked at.
ExtraChainCleared == [On(ctx) EXCEPT !.refs = Down(@, ctx.chain), !.store.chain = None]

\* SSL_CTX_setup_certs for the chain of a context (setCertificateChainBio, and
\* setCertificateChainFile with a file that opens).  A failure returns false and leaves
\* the errors to the thread.
SSLContext_setCertificateChainBio(s, wellFormed, skipfirst) ==
    /\ ~BoringSSL
    /\ ctx.live
    /\ \E m \in IF NoneToSkip(s, skipfirst) THEN {On(ctx)}
                ELSE Add0Chain(ExtraChainCleared, Rest(s, skipfirst)) :
          /\ refs' = m.refs
          /\ ctx' = m.store
          /\ Returns(ReadToEnd(m, wellFormed) /\ Rest(s, skipfirst) # None)
          /\ err' = IF ReadToEnd(m, wellFormed) /\ ~NoneToSkip(s, skipfirst) THEN "none"
                    ELSE LeftBehind(m, wellFormed)
    /\ UNCHANGED <<program, javaHeld, cred, conn, accepted>>

\* setCertificateChainFile with a file that does not open.
setCertificateChainFile ==
    /\ ~BoringSSL
    /\ ctx.live
    /\ err' = Oldest("other")
    /\ Returns(FALSE)
    /\ UNCHANGED <<program, refs, javaHeld, cred, conn, ctx, accepted>>

\* sslcontext.c setCACertificateBio.  Only the names are kept, each certificate is freed
\* at once.  OpenSSL adds the names one by one, BoringSSL replaces the list at the end.
\* In a context for clients nothing is read.
setCACertificateBio(s, wellFormed) ==
    /\ ctx.live
    /\ \/ program.client /\ Returns(FALSE) /\ UNCHANGED <<ctx, err>>
       \/ /\ ~program.client
          /\ \E n \in 0 .. Len(s) :
                LET m == [ok |-> n = Len(s)]
                IN  /\ ctx' = [ctx EXCEPT !.cas = IF ~BoringSSL THEN @ \/ n > 0
                                                  ELSE IF m.ok THEN n > 0 ELSE @]
                    /\ Returns(ReadToEnd(m, wellFormed) /\ n > 0)
                    /\ err' = IF ReadToEnd(m, wellFormed) THEN "none"
                              ELSE LeftBehind(m, wellFormed)
    /\ UNCHANGED <<program, refs, javaHeld, cred, conn, accepted>>

\* sslcontext.c ssl_context_cleanup.
ssl_context_cleanup ==
    /\ ctx.live
    /\ refs' = Down(refs, Slots(ctx) \o ctx.password)
    /\ ctx' = [NoCtx EXCEPT !.live = FALSE]
    /\ Returns(TRUE)
    /\ UNCHANGED <<program, javaHeld, cred, conn, accepted, err>>

-----------------------------------------------------------------------------
(* SSL_CREDENTIAL, with BoringSSL only.                                    *)

\* newX509 and newDelegated: a credential Java holds one reference to.
NewCred ==
    /\ BoringSSL
    /\ \/ /\ \E c \in Fresh(Creds) :
                refs' = Up(refs, <<c>>) /\ javaCreds' = [javaCreds EXCEPT ![c] = 1]
          /\ Returns(TRUE)
       \/ Returns(FALSE) /\ UNCHANGED <<refs, javaCreds>>
    /\ UNCHANGED <<program, chains, cut, keys, cred, conn, ctx, accepted>>

newX509 == NewCred /\ UNCHANGED err
newDelegated == NewCred /\ (IF result' = "ok" THEN UNCHANGED err ELSE TakeOneError)

upRef(c) ==
    /\ javaCreds[c] > 0
    /\ javaCreds[c] < MaxRefs
    /\ refs' = Up(refs, <<c>>)
    /\ javaCreds' = [javaCreds EXCEPT ![c] = @ + 1]
    /\ Returns(TRUE)
    /\ UNCHANGED <<program, chains, cut, keys, cred, conn, ctx, accepted, err>>

SSLCredential_free(c) ==
    /\ javaCreds[c] > 0
    /\ javaCreds' = [javaCreds EXCEPT ![c] = @ - 1]
    /\ FreeCreds(refs, <<c>>)
    /\ Returns(TRUE)
    /\ UNCHANGED <<program, chains, cut, keys, conn, ctx, accepted, err>>

\* A set1 call of the library on credential c: the new contents with references r, or
\* nothing and an exception that takes one error.
Configure(c, possible, r, contents) ==
    /\ javaCreds[c] > 0
    /\ \/ /\ possible
          /\ refs' = r
          /\ cred' = [cred EXCEPT ![c] = contents]
          /\ Returns(TRUE)
          /\ UNCHANGED err
       \/ Returns(FALSE) /\ TakeOneError /\ UNCHANGED <<refs, cred>>
    /\ UNCHANGED <<program, javaHeld, conn, ctx, accepted>>

setPrivateKey(c, k) ==
    Configure(c, Agree(cred[c].chain, <<k>>),
              Down(Up(refs, <<k>>), cred[c].key),
              [cred[c] EXCEPT !.key = <<k>>])

\* An empty chain throws without a call of the library.
setCertChain(c, h) ==
    /\ h \in DOMAIN chains
    /\ chains[h] # None
    /\ Configure(c, Agree(chains[h], cred[c].key),
                 Down(Up(refs, chains[h]), cred[c].chain),
                 [cred[c] EXCEPT !.chain = chains[h]])

\* A new buffer, which the credential takes a reference to in place of its old one, and
\* which is then freed, whatever the library said.
SetBuffer(c, kind) ==
    Configure(c, TRUE,
              Down(Up(Down(Up(refs, <<kind>>), IF kind \in cred[c].buffers THEN <<kind>> ELSE None),
                      <<kind>>), <<kind>>),
              [cred[c] EXCEPT !.buffers = @ \cup {kind}])

setOcspResponse(c) == SetBuffer(c, "ocsp")
setSignedCertTimestampList(c) == SetBuffer(c, "sct")
setCertificateProperties(c) == SetBuffer(c, "properties")
setDelegatedCredential(c) == SetBuffer(c, "delegated")

\* The library copies the bytes: nothing is left but perhaps an error.
setSigningAlgorithmPrefs(c) == Configure(c, TRUE, refs, cred[c])
setTrustAnchorId(c) == Configure(c, TRUE, refs, cred[c])

addCredential(c) ==
    /\ conn.live
    /\ javaCreds[c] > 0
    /\ Len(conn.creds) < MaxRefs
    /\ \/ /\ refs' = Up(refs, <<c>>)
          /\ conn' = [conn EXCEPT !.creds = Append(@, c)]
          /\ Returns(TRUE)
          /\ UNCHANGED err
       \/ Returns(FALSE) /\ err' = Oldest("other") /\ UNCHANGED <<refs, conn>>
    /\ UNCHANGED <<program, javaHeld, cred, ctx, accepted>>

-----------------------------------------------------------------------------
\* Chains, keys and a connection.
Connection ==
    \/ \E h \in Handles, s \in Readable, wellFormed \in BOOLEAN : parseX509Chain(h, s, wellFormed)
    \/ \E h \in Handles : freeX509Chain(h)
    \/ parsePrivateKey \/ loadPrivateKeyFromEngine
    \/ \E k \in keys : freePrivateKey(k)
    \/ newSSL \/ SSL_freeSSL
    \/ \E h \in Handles, k \in Optional(keys) : setKeyMaterial(h, k)

Client ==
    \/ \E h \in Handles, k \in keys : setKeyMaterialClientSide(h, k)
    \/ client_cert_cb

Deprecated ==
    \/ SSL_setCertificateBio
    \/ \E s \in Readable, wellFormed \in BOOLEAN, skipfirst \in BOOLEAN :
          SSL_setCertificateChainBio(s, wellFormed, skipfirst)

Context ==
    \/ \E s \in Readable, wellFormed \in BOOLEAN, skipfirst \in BOOLEAN :
          SSLContext_setCertificateChainBio(s, wellFormed, skipfirst)
    \/ setCertificateChainFile
    \/ \E s \in Readable, wellFormed \in BOOLEAN : setCACertificateBio(s, wellFormed)

Pair(given) ==
    \/ setCertificate(given)
    \/ SSLContext_setCertificateBio(given)
    \/ NothingToInstall(given)

Credential(c) ==
    \/ upRef(c)
    \/ SSLCredential_free(c)
    \/ \E k \in keys : setPrivateKey(c, k)
    \/ \E h \in Handles : setCertChain(c, h)
    \/ addCredential(c)

Attributes(c) ==
    \/ setOcspResponse(c) \/ setSignedCertTimestampList(c)
    \/ setCertificateProperties(c) \/ setDelegatedCredential(c)
    \/ setSigningAlgorithmPrefs(c) \/ setTrustAnchorId(c)

MaterialNext ==
    \/ Calls("connection") /\ Connection
    \/ Calls("client") /\ Client
    \/ Calls("deprecated") /\ Deprecated
    \/ Calls("context") /\ Context
    \/ Calls("pair") /\ \E p \in Optional(Fresh(Passwords)) : Pair(p)
    \/ ssl_context_cleanup
    \/ Calls("credential") /\ (newX509 \/ newDelegated \/ \E c \in Creds : Credential(c))
    \/ Calls("attributes") /\ \E c \in Creds : Attributes(c)

MaterialSpec == MaterialInit /\ [][MaterialNext]_materialVars

-----------------------------------------------------------------------------
(* What makes key material correct.                                        *)

\* Type invariant of the handles and slots of key material: a count below zero is an
\* object freed more often than it was taken.
MaterialTypeOK ==
    /\ program \in Programs
    /\ refs \in [Objects -> Nat]
    /\ DOMAIN chains \subseteq Handles
    /\ \A h \in DOMAIN chains : chains[h] \in Seq(Certs)
    /\ cut \subseteq DOMAIN chains
    /\ keys \subseteq Keys
    /\ javaCreds \in [Creds -> Nat]
    /\ \A c \in Creds : /\ cred[c].key \in Seq(Keys)
                        /\ cred[c].chain \in Seq(Certs)
                        /\ cred[c].buffers \subseteq BufferKinds
    /\ {conn.cert, conn.chain, conn.aside.cert, conn.aside.chain, conn.outCert,
        ctx.cert, ctx.chain, ctx.aside.cert, ctx.aside.chain} \subseteq Seq(Certs)
    /\ {conn.key, conn.aside.key, conn.outKey, ctx.key, ctx.aside.key} \subseteq Seq(Keys)
    /\ {conn.type, ctx.type} \subseteq KeyTypes
    /\ conn.creds \in Seq(Creds)
    /\ {ctx.password, accepted} \subseteq Seq(Passwords)
    /\ conn.live \in BOOLEAN /\ ctx.live \in BOOLEAN /\ ctx.cas \in BOOLEAN
    /\ err \in {"none", "eof", "other"}
    /\ result \in {"ok", "failed"}

\* Who holds o.
HeldByConn(o) == Count(ConnHolds \o conn.creds, o)
HeldByCtx(o)  == Count(Slots(ctx) \o ctx.password, o)
HeldByJava(o) ==
    Cardinality(Places(chains, DOMAIN chains, o))
    + (IF o \in keys THEN 1 ELSE 0)
    + (IF o \in Creds THEN javaCreds[o] ELSE 0)
Owners(o) == HeldByConn(o) + HeldByCtx(o) + HeldByJava(o) + HeldByCreds(Creds, o)

\* Every object has exactly as many references as there are holders of it: none is freed
\* under a connection, a context, a credential or Java, and none is left when the last
\* of them lets go, whichever library call of whichever setter fails ("the caller of the
\* method is responsible to free the passed in chain and key in any case as this method
\* will increment the reference count", SSL.setKeyMaterial).
RefsOwned == \A o \in Objects : refs[o] = Owners(o)

\* What an earlier call left for the key type that is not the current one.
AsideBefore == IF conn'.type = conn.type THEN conn.aside
               ELSE [cert |-> conn.cert, key |-> conn.key, chain |-> conn.chain]

\* When setKeyMaterial returns, the connection's slots for the type of the chain hold that
\* chain once, the key if one was given, and never a key that does not belong to it: no
\* certificate an earlier call left there ("in TLS 1.3, this can be called again after
\* the server sends a HelloRetryRequest. Without clearing the certificate chain that
\* results in duplicate entries", ssl.c).  What earlier calls left for another type of
\* key and the credentials stay as they are.  The key is one that belongs to the chain.
PresentsWhole ==
    [][result' = "ok" /\ conn.live /\ UNCHANGED <<javaHeld, cred, ctx>> =>
         \A h \in DOMAIN chains, k \in Optional(keys) :
            setKeyMaterial(h, k) /\ Agree(chains[h], k) =>
               /\ conn'.cert \o conn'.chain = chains[h]
               /\ k # None => conn'.key = k
               /\ Agree(conn'.cert, conn'.key)
               /\ conn'.aside = AsideBefore
               /\ conn'.creds = conn.creds]_materialVars

\* setKeyMaterial throws for a key that does not belong to the chain: "Private key does not
\* match the certificate public key" (ssl.c).  The code does not keep to it: README.md,
\* "Deviations".
KeyMatches ==
    [][result' = "ok" /\ conn.live /\ UNCHANGED <<javaHeld, cred, ctx>> =>
         \A h \in DOMAIN chains, k \in Optional(keys) :
            setKeyMaterial(h, k) =>
               \E x \in DOMAIN chains, y \in Optional(keys) :
                  setKeyMaterial(x, y) /\ Agree(chains[x], y)]_materialVars

\* The password of a context is that of the last call that succeeded with one, or none:
\* a password that came with material the library refused never stays
\* (free_and_reset_pass).
PasswordAccepted == ctx.password \in {None, accepted}

\* A failed call leaves the password that was there: "Restore old password"
\* (free_and_reset_pass).  The code does not keep to it: README.md, "Deviations".
PasswordRestored == ctx.live => ctx.password = accepted

\* A chain Java holds has all the certificates of the BIO it was parsed from: "ensure
\* that if we have an error its just for EOL" (ssl.c parseX509Chain).
\* The code does not keep to it: README.md, "Deviations".
ChainsWhole == cut = {}
=============================================================================
