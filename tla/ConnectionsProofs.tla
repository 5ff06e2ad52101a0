------------------------- MODULE ConnectionsProofs --------------------------
(***************************************************************************)
(* Proofs about contexts, connections and OCSP stapling, for every set of  *)
(* programs, contexts, options and responses and every finite set of       *)
(* connections.                                                            *)
(*                                                                         *)
(* RunInv says what the two sides of a handshake have been through.        *)
(* ResourcesOwned then is inductive; that a connection keeps its context   *)
(* referenced (Referenced) is a consequence the other three properties     *)
(* rest on: what a handshake has read from a context stays true of it.     *)
(***************************************************************************)
EXTENDS Connections, FiniteSetTheorems, TLAPS

\* The fields of the records.
Steps == {"none", "server", "server callback", "client", "client callback", "done", "failed"}

CtxT  == [made : BOOLEAN, protocol : SUBSET Versions, mode : Modes, speaks : SUBSET Versions,
          off : SUBSET Versions, wanted : SUBSET Versions, cb : BOOLEAN, arg : {NULL, 0, 1}]

ConnT == [ctx : Ctxs \cup {NULL}, server : BOOLEAN, off : SUBSET Versions, wanted : SUBSET Versions,
          bio : BOOLEAN, status : BOOLEAN, response : Responses \cup {NULL},
          got : Responses \cup {NULL}, handshakeCount : 0 .. 1, completed : 0 .. 1]

HsT   == [pc : Steps, client : SSLs \cup {NULL}, server : SSLs \cup {NULL}, version : SUBSET Versions,
          staple : Responses \cup {NULL}, cw : SUBSET Versions, sw : SUBSET Versions, steady : BOOLEAN]

\* TypeOK but for the counters, whose sign is what ResourcesOwned is about.
StateOK ==
    /\ program \in Programs
    /\ ctx \in [Ctxs -> CtxT]
    /\ count \in [Ctxs -> Int] /\ pools \subseteq Ctxs
    /\ conn \in [SSLs -> ConnT]
    /\ states \in Int /\ bios \in Int /\ blocks \in Int
    /\ config \in OcspCalls \cup {NULL}
    /\ hs \in HsT
    /\ crashed \in {NULL, "make", "ocsp"}

\* Nothing is left of a connection that was freed; the two sides of the last
\* handshake are connections of their own that did one handshake.
RunInv ==
    /\ \A c \in SSLs : conn[c].handshakeCount = 0 => conn[c].completed = 0
    /\ \A c \in SSLs : conn[c].ctx = NULL => ~conn[c].bio /\ conn[c].response = NULL
    /\ hs.pc # "none" =>
          /\ hs.client \in SSLs /\ hs.server \in SSLs
          /\ conn[hs.client].ctx # NULL /\ conn[hs.server].ctx # NULL
          /\ ~conn[hs.client].server /\ conn[hs.server].server
          /\ conn[hs.client].handshakeCount = 1 /\ conn[hs.server].handshakeCount = 1
    /\ Running => conn[hs.client].completed = 0 /\ conn[hs.server].completed = 0

-----------------------------------------------------------------------------
(* Records.                                                                *)

\* A connection is given a new record.
LEMMA ConnMoves ==
    ASSUME StateOK, NEW c \in SSLs, NEW r \in ConnT, conn' = [conn EXCEPT ![c] = r]
    PROVE  /\ conn'[c] = r /\ \A d \in SSLs \ {c} : conn'[d] = conn[d]
           /\ conn' \in [SSLs -> ConnT]
  BY DEF StateOK

LEMMA NoRecords == NoCtx \in CtxT /\ NoConn \in ConnT /\ NoHs \in HsT
  BY DEF NoCtx, NoConn, NoHs, CtxT, ConnT, HsT, Modes, Steps

\* A record with new values in some of its fields.
WithBio(r, x) ==
    [ctx |-> r.ctx, server |-> r.server, off |-> r.off, wanted |-> r.wanted, bio |-> x,
     status |-> r.status, response |-> r.response, got |-> r.got,
     handshakeCount |-> r.handshakeCount, completed |-> r.completed]
WithStatus(r, x) ==
    [ctx |-> r.ctx, server |-> r.server, off |-> r.off, wanted |-> r.wanted, bio |-> r.bio,
     status |-> x, response |-> r.response, got |-> r.got, handshakeCount |-> r.handshakeCount,
     completed |-> r.completed]
WithResponse(r, x) ==
    [ctx |-> r.ctx, server |-> r.server, off |-> r.off, wanted |-> r.wanted, bio |-> r.bio,
     status |-> r.status, response |-> x, got |-> r.got, handshakeCount |-> r.handshakeCount,
     completed |-> r.completed]
WithHandshakes(r, x) ==
    [ctx |-> r.ctx, server |-> r.server, off |-> r.off, wanted |-> r.wanted, bio |-> r.bio,
     status |-> r.status, response |-> r.response, got |-> r.got, handshakeCount |-> x,
     completed |-> r.completed]
WithCompleted(r, x) ==
    [ctx |-> r.ctx, server |-> r.server, off |-> r.off, wanted |-> r.wanted, bio |-> r.bio,
     status |-> r.status, response |-> r.response, got |-> r.got,
     handshakeCount |-> r.handshakeCount, completed |-> x]
WithOptions(r, x, y) ==
    [ctx |-> r.ctx, server |-> r.server, off |-> x, wanted |-> y, bio |-> r.bio,
     status |-> r.status, response |-> r.response, got |-> r.got,
     handshakeCount |-> r.handshakeCount, completed |-> r.completed]
WithGot(r, x, y) ==
    [ctx |-> r.ctx, server |-> r.server, off |-> r.off, wanted |-> r.wanted, bio |-> r.bio,
     status |-> r.status, response |-> r.response, got |-> x,
     handshakeCount |-> r.handshakeCount, completed |-> y]
WithMade(r, x) ==
    [made |-> x, protocol |-> r.protocol, mode |-> r.mode, speaks |-> r.speaks, off |-> r.off,
     wanted |-> r.wanted, cb |-> r.cb, arg |-> r.arg]
WithCb(r, x) ==
    [made |-> r.made, protocol |-> r.protocol, mode |-> r.mode, speaks |-> r.speaks,
     off |-> r.off, wanted |-> r.wanted, cb |-> x, arg |-> r.arg]
WithArg(r, x) ==
    [made |-> r.made, protocol |-> r.protocol, mode |-> r.mode, speaks |-> r.speaks,
     off |-> r.off, wanted |-> r.wanted, cb |-> r.cb, arg |-> x]
WithCtxOptions(r, x, y) ==
    [made |-> r.made, protocol |-> r.protocol, mode |-> r.mode, speaks |-> r.speaks, off |-> x,
     wanted |-> y, cb |-> r.cb, arg |-> r.arg]
WithPc(r, x) ==
    [pc |-> x, client |-> r.client, server |-> r.server, version |-> r.version,
     staple |-> r.staple, cw |-> r.cw, sw |-> r.sw, steady |-> r.steady]
WithSteady(r, x) ==
    [pc |-> r.pc, client |-> r.client, server |-> r.server, version |-> r.version,
     staple |-> r.staple, cw |-> r.cw, sw |-> r.sw, steady |-> x]
WithStaple(r, x, y) ==
    [pc |-> y, client |-> r.client, server |-> r.server, version |-> r.version, staple |-> x,
     cw |-> r.cw, sw |-> r.sw, steady |-> r.steady]

\* What the calls on a connection, on a context and the steps of a handshake do to
\* the records.
LEMMA ConnRecord ==
    ASSUME NEW r \in ConnT, NEW x
    PROVE  /\ [r EXCEPT !.bio = x] = WithBio(r, x)
           /\ [r EXCEPT !.status = x] = WithStatus(r, x)
           /\ [r EXCEPT !.response = x] = WithResponse(r, x)
           /\ [r EXCEPT !.handshakeCount = x] = WithHandshakes(r, x)
           /\ [r EXCEPT !.completed = x] = WithCompleted(r, x)
  BY DEF ConnT, WithBio, WithStatus, WithResponse, WithHandshakes, WithCompleted

LEMMA ConnOptions ==
    ASSUME NEW r \in ConnT, NEW x \in SUBSET Versions, NEW y
    PROVE  [r EXCEPT !.off = x, !.wanted = y] = WithOptions(r, x, y)
  <1> DEFINE m == [r EXCEPT !.off = x]
  <1>1. m = [ctx |-> r.ctx, server |-> r.server, off |-> x, wanted |-> r.wanted, bio |-> r.bio,
             status |-> r.status, response |-> r.response, got |-> r.got,
             handshakeCount |-> r.handshakeCount, completed |-> r.completed]
    BY DEF ConnT
  <1>2. m \in ConnT
    BY DEF ConnT
  <1>3. [r EXCEPT !.off = x, !.wanted = y] = [m EXCEPT !.wanted = y]
    OBVIOUS
  <1> HIDE DEF m
  <1>4. [m EXCEPT !.wanted = y]
          = [ctx |-> m.ctx, server |-> m.server, off |-> m.off, wanted |-> y, bio |-> m.bio,
             status |-> m.status, response |-> m.response, got |-> m.got,
             handshakeCount |-> m.handshakeCount, completed |-> m.completed]
    BY <1>2 DEF ConnT
  <1>5. /\ m.ctx = r.ctx /\ m.server = r.server /\ m.off = x /\ m.wanted = r.wanted /\ m.bio = r.bio
        /\ m.status = r.status /\ m.response = r.response /\ m.got = r.got
        /\ m.handshakeCount = r.handshakeCount /\ m.completed = r.completed
    BY <1>1
  <1> QED BY <1>3, <1>4, <1>5 DEF WithOptions

LEMMA ConnDone ==
    ASSUME NEW r \in ConnT, NEW x \in Responses \cup {NULL}, NEW y
    PROVE  [r EXCEPT !.got = x, !.completed = y] = WithGot(r, x, y)
  <1> DEFINE m == [r EXCEPT !.got = x]
  <1>1. m = [ctx |-> r.ctx, server |-> r.server, off |-> r.off, wanted |-> r.wanted,
             bio |-> r.bio, status |-> r.status, response |-> r.response, got |-> x,
             handshakeCount |-> r.handshakeCount, completed |-> r.completed]
    BY DEF ConnT
  <1>2. m \in ConnT
    BY DEF ConnT
  <1>3. [r EXCEPT !.got = x, !.completed = y] = [m EXCEPT !.completed = y]
    OBVIOUS
  <1> HIDE DEF m
  <1>4. [m EXCEPT !.completed = y]
          = [ctx |-> m.ctx, server |-> m.server, off |-> m.off, wanted |-> m.wanted,
             bio |-> m.bio, status |-> m.status, response |-> m.response, got |-> m.got,
             handshakeCount |-> m.handshakeCount, completed |-> y]
    BY <1>2 DEF ConnT
  <1>5. /\ m.ctx = r.ctx /\ m.server = r.server /\ m.off = r.off /\ m.wanted = r.wanted /\ m.bio = r.bio
        /\ m.status = r.status /\ m.response = r.response /\ m.got = x
        /\ m.handshakeCount = r.handshakeCount /\ m.completed = r.completed
    BY <1>1
  <1> QED BY <1>3, <1>4, <1>5 DEF WithGot

LEMMA CtxRecord ==
    ASSUME NEW r \in CtxT, NEW x
    PROVE  /\ [r EXCEPT !.made = x] = WithMade(r, x)
           /\ [r EXCEPT !.cb = x] = WithCb(r, x)
           /\ [r EXCEPT !.arg = x] = WithArg(r, x)
  BY DEF CtxT, WithMade, WithCb, WithArg

LEMMA CtxOptions ==
    ASSUME NEW r \in CtxT, NEW x \in SUBSET Versions, NEW y
    PROVE  [r EXCEPT !.off = x, !.wanted = y] = WithCtxOptions(r, x, y)
  <1> DEFINE m == [r EXCEPT !.off = x]
  <1>1. m = [made |-> r.made, protocol |-> r.protocol, mode |-> r.mode, speaks |-> r.speaks,
             off |-> x, wanted |-> r.wanted, cb |-> r.cb, arg |-> r.arg]
    BY DEF CtxT
  <1>2. m \in CtxT
    BY DEF CtxT
  <1>3. [r EXCEPT !.off = x, !.wanted = y] = [m EXCEPT !.wanted = y]
    OBVIOUS
  <1> HIDE DEF m
  <1>4. [m EXCEPT !.wanted = y]
          = [made |-> m.made, protocol |-> m.protocol, mode |-> m.mode, speaks |-> m.speaks,
             off |-> m.off, wanted |-> y, cb |-> m.cb, arg |-> m.arg]
    BY <1>2 DEF CtxT
  <1>5. /\ m.made = r.made /\ m.protocol = r.protocol /\ m.mode = r.mode /\ m.speaks = r.speaks
        /\ m.off = x /\ m.wanted = r.wanted /\ m.cb = r.cb /\ m.arg = r.arg
    BY <1>1
  <1> QED BY <1>3, <1>4, <1>5 DEF WithCtxOptions

LEMMA HsRecord ==
    ASSUME NEW r \in HsT, NEW x
    PROVE  /\ [r EXCEPT !.pc = x] = WithPc(r, x)
           /\ [r EXCEPT !.steady = x] = WithSteady(r, x)
  BY DEF HsT, WithPc, WithSteady

LEMMA HsStaple ==
    ASSUME NEW r \in HsT, NEW x \in Responses \cup {NULL}, NEW y
    PROVE  [r EXCEPT !.staple = x, !.pc = y] = WithStaple(r, x, y)
  <1> DEFINE m == [r EXCEPT !.staple = x]
  <1>1. m = [pc |-> r.pc, client |-> r.client, server |-> r.server, version |-> r.version,
             staple |-> x, cw |-> r.cw, sw |-> r.sw, steady |-> r.steady]
    BY DEF HsT
  <1>2. m \in HsT
    BY DEF HsT
  <1>3. [r EXCEPT !.staple = x, !.pc = y] = [m EXCEPT !.pc = y]
    OBVIOUS
  <1> HIDE DEF m
  <1>4. [m EXCEPT !.pc = y]
          = [pc |-> y, client |-> m.client, server |-> m.server, version |-> m.version,
             staple |-> m.staple, cw |-> m.cw, sw |-> m.sw, steady |-> m.steady]
    BY <1>2 DEF HsT
  <1>5. /\ m.pc = r.pc /\ m.client = r.client /\ m.server = r.server /\ m.version = r.version
        /\ m.staple = x /\ m.cw = r.cw /\ m.sw = r.sw /\ m.steady = r.steady
    BY <1>1
  <1> QED BY <1>3, <1>4, <1>5 DEF WithStaple

LEMMA WithTypes ==
    /\ \A r \in ConnT, x \in BOOLEAN : WithBio(r, x) \in ConnT /\ WithStatus(r, x) \in ConnT
    /\ \A r \in ConnT, x \in Responses \cup {NULL} : WithResponse(r, x) \in ConnT
    /\ \A r \in ConnT, x \in 0 .. 1 : WithHandshakes(r, x) \in ConnT /\ WithCompleted(r, x) \in ConnT
    /\ \A r \in ConnT, x, y \in SUBSET Versions : WithOptions(r, x, y) \in ConnT
    /\ \A r \in ConnT, x \in Responses \cup {NULL}, y \in 0 .. 1 : WithGot(r, x, y) \in ConnT
    /\ \A r \in CtxT, x \in BOOLEAN : WithMade(r, x) \in CtxT /\ WithCb(r, x) \in CtxT
    /\ \A r \in CtxT, x \in {NULL, 0, 1} : WithArg(r, x) \in CtxT
    /\ \A r \in CtxT, x, y \in SUBSET Versions : WithCtxOptions(r, x, y) \in CtxT
    /\ \A r \in HsT, x \in Steps : WithPc(r, x) \in HsT
    /\ \A r \in HsT, x \in BOOLEAN : WithSteady(r, x) \in HsT
    /\ \A r \in HsT, x \in Responses \cup {NULL}, y \in Steps : WithStaple(r, x, y) \in HsT
  <1> USE DEF ConnT, CtxT, HsT
  <1>1. /\ \A r \in ConnT, x \in BOOLEAN : WithBio(r, x) \in ConnT /\ WithStatus(r, x) \in ConnT
        /\ \A r \in ConnT, x \in Responses \cup {NULL} : WithResponse(r, x) \in ConnT
        /\ \A r \in ConnT, x \in 0 .. 1 : WithHandshakes(r, x) \in ConnT /\ WithCompleted(r, x) \in ConnT
    BY DEF WithBio, WithStatus, WithResponse, WithHandshakes, WithCompleted
  <1>2. /\ \A r \in ConnT, x, y \in SUBSET Versions : WithOptions(r, x, y) \in ConnT
        /\ \A r \in ConnT, x \in Responses \cup {NULL}, y \in 0 .. 1 : WithGot(r, x, y) \in ConnT
    BY DEF WithOptions, WithGot
  <1>3. /\ \A r \in CtxT, x \in BOOLEAN : WithMade(r, x) \in CtxT /\ WithCb(r, x) \in CtxT
        /\ \A r \in CtxT, x \in {NULL, 0, 1} : WithArg(r, x) \in CtxT
        /\ \A r \in CtxT, x, y \in SUBSET Versions : WithCtxOptions(r, x, y) \in CtxT
    BY DEF WithMade, WithCb, WithArg, WithCtxOptions
  <1>4. /\ \A r \in HsT, x \in Steps : WithPc(r, x) \in HsT
        /\ \A r \in HsT, x \in BOOLEAN : WithSteady(r, x) \in HsT
        /\ \A r \in HsT, x \in Responses \cup {NULL}, y \in Steps : WithStaple(r, x, y) \in HsT
    BY DEF WithPc, WithSteady, WithStaple
  <1> QED BY <1>1, <1>2, <1>3, <1>4

\* A context, a connection or a handshake has its fields.
LEMMA FieldTypes ==
    /\ \A r \in CtxT : /\ r.made \in BOOLEAN /\ r.mode \in Modes /\ r.speaks \in SUBSET Versions
                       /\ r.off \in SUBSET Versions /\ r.wanted \in SUBSET Versions
                       /\ r.cb \in BOOLEAN /\ r.arg \in {NULL, 0, 1}
    /\ \A r \in ConnT : /\ r.ctx \in Ctxs \cup {NULL} /\ r.server \in BOOLEAN
                        /\ r.off \in SUBSET Versions /\ r.wanted \in SUBSET Versions
                        /\ r.bio \in BOOLEAN /\ r.status \in BOOLEAN
                        /\ r.response \in Responses \cup {NULL} /\ r.got \in Responses \cup {NULL}
                        /\ r.handshakeCount \in 0 .. 1 /\ r.completed \in 0 .. 1
    /\ \A r \in HsT : /\ r.pc \in Steps /\ r.client \in SSLs \cup {NULL} /\ r.server \in SSLs \cup {NULL}
                      /\ r.version \in SUBSET Versions /\ r.staple \in Responses \cup {NULL}
                      /\ r.cw \in SUBSET Versions /\ r.sw \in SUBSET Versions /\ r.steady \in BOOLEAN
  BY DEF ConnT, CtxT, HsT

\* A context is given a new record.
LEMMA CtxMoves ==
    ASSUME StateOK, NEW k \in Ctxs, NEW r \in CtxT, ctx' = [ctx EXCEPT ![k] = r]
    PROVE  /\ ctx'[k] = r /\ \A j \in Ctxs \ {k} : ctx'[j] = ctx[j]
           /\ ctx' \in [Ctxs -> CtxT]
  BY DEF StateOK

LEMMA TwoFields ==
    ASSUME NEW D, NEW T, NEW f \in [D -> T], NEW c \in D, NEW x, NEW y
    PROVE  [f EXCEPT ![c].off = x, ![c].wanted = y] = [f EXCEPT ![c] = [f[c] EXCEPT !.off = x, !.wanted = y]]
  OBVIOUS

LEMMA TwoConns ==
    ASSUME NEW D, NEW T, NEW f \in [D -> T], NEW c \in D, NEW s \in D, c # s, NEW q
    PROVE  /\ [f EXCEPT ![c].handshakeCount = @ + 1, ![s].handshakeCount = @ + 1]
                = [f EXCEPT ![c] = [f[c] EXCEPT !.handshakeCount = f[c].handshakeCount + 1],
                            ![s] = [f[s] EXCEPT !.handshakeCount = f[s].handshakeCount + 1]]
           /\ [f EXCEPT ![c].got = q, ![c].completed = @ + 1, ![s].completed = @ + 1]
                = [f EXCEPT ![c] = [f[c] EXCEPT !.got = q, !.completed = f[c].completed + 1],
                            ![s] = [f[s] EXCEPT !.completed = f[s].completed + 1]]
  OBVIOUS

-----------------------------------------------------------------------------
(* Versions.                                                               *)

LEMMA VersionSet == Versions = 0 .. 5 /\ SSL_PROTOCOL_ALL = 0 .. 4 /\ TLSV1_3 = 5
  BY DEF Versions, SSL_PROTOCOL_ALL, SSLV2, TLSV1_2, TLSV1_3

LEMMA MaxIn ==
    ASSUME NEW S \in SUBSET Versions, S # {}
    PROVE  Max(S) \in S
  <1>1. \E x \in S : \A y \in S : x >= y
    <2>0. S \subseteq 0 .. 5
      BY VersionSet
    <2>1. CASE 5 \in S
      BY <2>0, <2>1
    <2>2. CASE 5 \notin S /\ 4 \in S
      BY <2>0, <2>2
    <2>3. CASE S \subseteq 0 .. 3 /\ 3 \in S
      BY <2>3
    <2>4. CASE S \subseteq 0 .. 2 /\ 2 \in S
      BY <2>4
    <2>5. CASE S \subseteq 0 .. 1 /\ 1 \in S
      BY <2>5
    <2>6. CASE S \subseteq 0 .. 0 /\ 0 \in S
      BY <2>6
    <2>7. 5 \notin S /\ 4 \notin S => S \subseteq 0 .. 3
      BY <2>0
    <2>8. S \subseteq 0 .. 3 /\ 3 \notin S => S \subseteq 0 .. 2
      OBVIOUS
    <2>9. S \subseteq 0 .. 2 /\ 2 \notin S => S \subseteq 0 .. 1
      OBVIOUS
    <2>10. S \subseteq 0 .. 1 /\ 1 \notin S => S \subseteq 0 .. 0 /\ 0 \in S
      <3>1. PICK x \in S : TRUE
        OBVIOUS
      <3>2. S \subseteq 0 .. 1 /\ 1 \notin S => S \subseteq 0 .. 0
        OBVIOUS
      <3>3. S \subseteq 0 .. 0 => x = 0
        BY <3>1
      <3> QED BY <3>1, <3>2, <3>3
    <2> QED BY <2>1, <2>2, <2>3, <2>4, <2>5, <2>6, <2>7, <2>8, <2>9, <2>10
  <1> QED BY <1>1 DEF Max

\* The method that make picks speaks versions of the build.
LEMMA MethodType ==
    ASSUME NEW b \in Builds, NEW protocol
    PROVE  method(b, protocol) \in SUBSET Versions /\ method(b, protocol) \subseteq b.versions
  <1> DEFINE known == protocol \cap SSL_PROTOCOL_ALL \cap b.versions
  <1>1. b.versions \in SUBSET Versions /\ known \in SUBSET Versions /\ known \subseteq b.versions
    BY DEF Builds
  <1>2. known # {} => Max(known) \in known
    BY <1>1, MaxIn
  <1>3. \/ method(b, protocol) = b.versions
        \/ known # {} /\ method(b, protocol) = {Max(known)}
        \/ method(b, protocol) = {}
    BY DEF method
  <1> HIDE DEF known
  <1> QED BY <1>1, <1>2, <1>3

Best(versions) == IF versions = {} THEN {} ELSE {Max(versions)}

\* The version of a handshake is one that both sides offer; it is the best of them
\* when there are no gaps in what they offer.
LEMMA SettledBest ==
    ASSUME NEW b \in Builds, NEW C \in SUBSET Versions, NEW S \in SUBSET Versions
    PROVE  /\ Settled(b, C, S) \subseteq C \cap S
           /\ Settled(b, C, S) \in SUBSET Versions
           /\ Contiguous(C) /\ Contiguous(S) => Settled(b, C, S) = Best(C \cap S)
  <1> DEFINE both == Accepts(b, FALSE, C) \cap Accepts(b, TRUE, S)
  <1>1. both \subseteq C \cap S
    BY DEF Accepts, LowestRange
  <1>2. both # {} => Max(both) \in both
    BY <1>1, MaxIn
  <1>3. Settled(b, C, S) = IF both = {} THEN {} ELSE {Max(both)}
    BY DEF Settled
  <1>4. Contiguous(C) /\ Contiguous(S) => both = C \cap S
    BY DEF Accepts, Contiguous
  <1> HIDE DEF both
  <1> QED BY <1>1, <1>2, <1>3, <1>4 DEF Best

-----------------------------------------------------------------------------
(* What the actions do to contexts, connections and the handshake.         *)

LEMMA ProgramType ==
    ASSUME StateOK
    PROVE  /\ build \in Builds
           /\ \A protocol \in program.protocols : protocol \in SUBSET Versions
           /\ \A mode \in program.modes : mode \in Modes
  <1>1. program \in [build : Builds, protocols : SUBSET SUBSET Versions, modes : SUBSET Modes,
                     uses : SUBSET {"options", "ocsp", "disableOcsp", "any side"}, scarce : BOOLEAN]
    BY ProgramsAssumption DEF StateOK
  <1> QED BY <1>1 DEF build

MadeCtx(protocol, mode) ==
    [made |-> TRUE, protocol |-> protocol, mode |-> mode, speaks |-> method(build, protocol),
     off |-> SwitchedOff(protocol), wanted |-> protocol \cup {TLSV1_3}, cb |-> FALSE, arg |-> NULL]

LEMMA MakeEffect ==
    ASSUME StateOK, NEW k \in Ctxs, NEW protocol \in program.protocols, NEW mode \in program.modes,
           make(k, protocol, mode)
    PROVE  MadeCtx(protocol, mode) \in CtxT /\ ctx' = [ctx EXCEPT ![k] = MadeCtx(protocol, mode)]
  <1>1. /\ protocol \in SUBSET Versions /\ mode \in Modes
        /\ method(build, protocol) \in SUBSET Versions
    BY ProgramType, MethodType
  <1>2. SwitchedOff(protocol) \in SUBSET Versions /\ protocol \cup {TLSV1_3} \in SUBSET Versions
    BY <1>1, VersionSet DEF SwitchedOff, SSLV2, TLSV1_2
  <1>3. MadeCtx(protocol, mode) \in CtxT
    BY <1>1, <1>2 DEF MadeCtx, CtxT
  <1> QED BY <1>3 DEF make, MadeCtx

LEMMA FreeEffect ==
    ASSUME StateOK, NEW k \in Ctxs, free(k)
    PROVE  /\ count' = [count EXCEPT ![k] = @ - 1] /\ ctx[k].made
           /\ \A j \in Ctxs : ctx'[j] = IF count'[j] = 0 THEN NoCtx
                                        ELSE IF j = k THEN WithMade(ctx[k], FALSE) ELSE ctx[j]
           /\ ctx' \in [Ctxs -> CtxT]
  <1> DEFINE after == [ctx EXCEPT ![k].made = FALSE]
  <1>1. ctx \in [Ctxs -> CtxT] /\ ctx[k] \in CtxT
    BY DEF StateOK
  <1>2. [ctx[k] EXCEPT !.made = FALSE] = WithMade(ctx[k], FALSE)
    BY <1>1, CtxRecord
  <1>3. after = [ctx EXCEPT ![k] = WithMade(ctx[k], FALSE)]
    BY <1>2
  <1>4. WithMade(ctx[k], FALSE) \in CtxT
    BY <1>1, WithTypes
  <1>5. ctx' = [j \in Ctxs |-> IF count'[j] = 0 THEN NoCtx ELSE after[j]]
        /\ count' = [count EXCEPT ![k] = @ - 1] /\ ctx[k].made
    BY DEF free, Unreferenced
  <1>6. \A j \in Ctxs : after[j] = IF j = k THEN WithMade(ctx[k], FALSE) ELSE ctx[j]
    BY <1>1, <1>3
  <1> HIDE DEF after
  <1> QED BY <1>1, <1>4, <1>5, <1>6, NoRecords

LEMMA CtxOptionsEffect ==
    ASSUME StateOK, NEW k \in Ctxs, NEW versions \in Options,
           SSLContext_setOptions(k, versions) \/ SSLContext_clearOptions(k, versions)
    PROVE  \E off, wanted \in SUBSET Versions :
              /\ ctx' = [ctx EXCEPT ![k] = WithCtxOptions(ctx[k], off, wanted)]
              /\ ctx[k].off = Versions \ ctx[k].wanted => off = Versions \ wanted
  <1>1. ctx \in [Ctxs -> CtxT] /\ ctx[k] \in CtxT
    BY DEF StateOK
  <1>2. ctx[k].off \in SUBSET Versions /\ ctx[k].wanted \in SUBSET Versions /\ versions \in SUBSET Versions
    BY <1>1, FieldTypes, ArgumentsAssumption
  <1>3. CASE SSLContext_setOptions(k, versions)
    <2> DEFINE off == ctx[k].off \cup versions
               wanted == ctx[k].wanted \ versions
    <2>1. ctx' = [ctx EXCEPT ![k].off = off, ![k].wanted = wanted]
      BY <1>3 DEF SSLContext_setOptions
    <2>2. off \in SUBSET Versions /\ wanted \in SUBSET Versions
      BY <1>2
    <2>3. ctx[k].off = Versions \ ctx[k].wanted => off = Versions \ wanted
      BY <1>2
    <2> HIDE DEF off, wanted
    <2>4. ctx' = [ctx EXCEPT ![k] = [ctx[k] EXCEPT !.off = off, !.wanted = wanted]]
      BY <1>1, <2>1, TwoFields
    <2>5. [ctx[k] EXCEPT !.off = off, !.wanted = wanted] = WithCtxOptions(ctx[k], off, wanted)
      BY <1>1, <2>2, CtxOptions
    <2> QED BY <2>2, <2>3, <2>4, <2>5
  <1>4. CASE SSLContext_clearOptions(k, versions)
    <2> DEFINE off == ctx[k].off \ versions
               wanted == ctx[k].wanted \cup versions
    <2>1. ctx' = [ctx EXCEPT ![k].off = off, ![k].wanted = wanted]
      BY <1>4 DEF SSLContext_clearOptions
    <2>2. off \in SUBSET Versions /\ wanted \in SUBSET Versions
      BY <1>2
    <2>3. ctx[k].off = Versions \ ctx[k].wanted => off = Versions \ wanted
      BY <1>2
    <2> HIDE DEF off, wanted
    <2>4. ctx' = [ctx EXCEPT ![k] = [ctx[k] EXCEPT !.off = off, !.wanted = wanted]]
      BY <1>1, <2>1, TwoFields
    <2>5. [ctx[k] EXCEPT !.off = off, !.wanted = wanted] = WithCtxOptions(ctx[k], off, wanted)
      BY <1>1, <2>2, CtxOptions
    <2> QED BY <2>2, <2>3, <2>4, <2>5
  <1> QED BY <1>3, <1>4

LEMMA OptionsEffect ==
    ASSUME StateOK, NEW c \in SSLs, NEW versions \in Options,
           SSL_setOptions(c, versions) \/ SSL_clearOptions(c, versions)
    PROVE  \E off, wanted \in SUBSET Versions :
              /\ conn' = [conn EXCEPT ![c] = WithOptions(conn[c], off, wanted)]
              /\ conn[c].off = Versions \ conn[c].wanted => off = Versions \ wanted
  <1>1. conn \in [SSLs -> ConnT] /\ conn[c] \in ConnT
    BY DEF StateOK
  <1>2. conn[c].off \in SUBSET Versions /\ conn[c].wanted \in SUBSET Versions /\ versions \in SUBSET Versions
    BY <1>1, FieldTypes, ArgumentsAssumption
  <1>3. CASE SSL_setOptions(c, versions)
    <2> DEFINE off == conn[c].off \cup versions
               wanted == conn[c].wanted \ versions
    <2>1. conn' = [conn EXCEPT ![c].off = off, ![c].wanted = wanted]
      BY <1>3 DEF SSL_setOptions
    <2>2. off \in SUBSET Versions /\ wanted \in SUBSET Versions
      BY <1>2
    <2>3. conn[c].off = Versions \ conn[c].wanted => off = Versions \ wanted
      BY <1>2
    <2> HIDE DEF off, wanted
    <2>4. conn' = [conn EXCEPT ![c] = [conn[c] EXCEPT !.off = off, !.wanted = wanted]]
      BY <1>1, <2>1, TwoFields
    <2>5. [conn[c] EXCEPT !.off = off, !.wanted = wanted] = WithOptions(conn[c], off, wanted)
      BY <1>1, <2>2, ConnOptions
    <2> QED BY <2>2, <2>3, <2>4, <2>5
  <1>4. CASE SSL_clearOptions(c, versions)
    <2> DEFINE off == conn[c].off \ versions
               wanted == conn[c].wanted \cup versions
    <2>1. conn' = [conn EXCEPT ![c].off = off, ![c].wanted = wanted]
      BY <1>4 DEF SSL_clearOptions
    <2>2. off \in SUBSET Versions /\ wanted \in SUBSET Versions
      BY <1>2
    <2>3. conn[c].off = Versions \ conn[c].wanted => off = Versions \ wanted
      BY <1>2
    <2> HIDE DEF off, wanted
    <2>4. conn' = [conn EXCEPT ![c] = [conn[c] EXCEPT !.off = off, !.wanted = wanted]]
      BY <1>1, <2>1, TwoFields
    <2>5. [conn[c] EXCEPT !.off = off, !.wanted = wanted] = WithOptions(conn[c], off, wanted)
      BY <1>1, <2>2, ConnOptions
    <2> QED BY <2>2, <2>3, <2>4, <2>5
  <1> QED BY <1>3, <1>4

\* Calls on a connection that change one field.
LEMMA FieldEffect ==
    ASSUME StateOK, NEW c \in SSLs
    PROVE  /\ bioNewByteBuffer(c) => conn' = [conn EXCEPT ![c] = WithBio(conn[c], TRUE)]
           /\ SSL_enableOcsp(c) => conn' = [conn EXCEPT ![c] = WithStatus(conn[c], TRUE)]
           /\ \A x : [conn EXCEPT ![c].response = x] = [conn EXCEPT ![c] = WithResponse(conn[c], x)]
  <1>1. conn[c] \in ConnT
    BY DEF StateOK
  <1>2. /\ [conn[c] EXCEPT !.bio = TRUE] = WithBio(conn[c], TRUE)
        /\ [conn[c] EXCEPT !.status = TRUE] = WithStatus(conn[c], TRUE)
    BY <1>1, ConnRecord
  <1>3. ASSUME NEW x
        PROVE  [conn EXCEPT ![c].response = x] = [conn EXCEPT ![c] = WithResponse(conn[c], x)]
    <2>1. [conn[c] EXCEPT !.response = x] = WithResponse(conn[c], x)
      BY <1>1, ConnRecord
    <2> QED BY <2>1
  <1>4. bioNewByteBuffer(c) => conn' = [conn EXCEPT ![c] = WithBio(conn[c], TRUE)]
    BY <1>2 DEF bioNewByteBuffer
  <1>5. SSL_enableOcsp(c) => conn' = [conn EXCEPT ![c] = WithStatus(conn[c], TRUE)]
    BY <1>2 DEF SSL_enableOcsp
  <1> QED BY <1>3, <1>4, <1>5

LEMMA UnsteadyEffect ==
    ASSUME StateOK, Unsteady
    PROVE  hs' = WithSteady(hs, FALSE) /\ hs' \in HsT
  <1>1. hs' = WithSteady(hs, FALSE)
    BY HsRecord DEF StateOK, Unsteady
  <1> QED BY <1>1, WithTypes DEF StateOK

\* The halves of enableOcsp and disableOcsp.
LEMMA WriteEffect ==
    ASSUME StateOK, NEW call \in OcspCalls
    PROVE  /\ call.name = "enableOcsp" =>
                /\ Write(call, 1) => ctx' = [ctx EXCEPT ![call.ctx] =
                                                WithArg(ctx[call.ctx], IF call.client THEN 1 ELSE 0)]
                /\ Write(call, 2) => ctx' = [ctx EXCEPT ![call.ctx] = WithCb(ctx[call.ctx], TRUE)]
           /\ call.name = "disableOcsp" =>
                /\ Write(call, 1) => ctx' = [ctx EXCEPT ![call.ctx] = WithCb(ctx[call.ctx], FALSE)]
                /\ Write(call, 2) => ctx' = [ctx EXCEPT ![call.ctx] = WithArg(ctx[call.ctx], NULL)]
  <1> DEFINE k == call.ctx
  <1>1. k \in Ctxs /\ ctx[k] \in CtxT
    BY DEF StateOK, OcspCalls
  <1> HIDE DEF k
  <1>2. ASSUME NEW x
        PROVE  /\ [ctx EXCEPT ![k].cb = x] = [ctx EXCEPT ![k] = WithCb(ctx[k], x)]
               /\ [ctx EXCEPT ![k].arg = x] = [ctx EXCEPT ![k] = WithArg(ctx[k], x)]
    <2>1. /\ [ctx[k] EXCEPT !.cb = x] = WithCb(ctx[k], x)
          /\ [ctx[k] EXCEPT !.arg = x] = WithArg(ctx[k], x)
      BY <1>1, CtxRecord
    <2> QED BY <2>1
  <1>3. ASSUME call.name = "enableOcsp"
        PROVE  /\ Write(call, 1) => ctx' = [ctx EXCEPT ![k].arg = IF call.client THEN 1 ELSE 0]
               /\ Write(call, 2) => ctx' = [ctx EXCEPT ![k].cb = TRUE]
    <2>1. Write(call, 1) => ctx' = [ctx EXCEPT ![k].arg = IF call.client THEN 1 ELSE 0]
      BY <1>3 DEF Write, EnableOrder, OCSP_CLIENT_ACK, OCSP_SERVER_ACK, k
    <2>2. Write(call, 2) => ctx' = [ctx EXCEPT ![k].cb = TRUE]
      BY <1>3 DEF Write, EnableOrder, k
    <2> QED BY <2>1, <2>2
  <1>4. ASSUME call.name = "disableOcsp"
        PROVE  /\ Write(call, 1) => ctx' = [ctx EXCEPT ![k].cb = FALSE]
               /\ Write(call, 2) => ctx' = [ctx EXCEPT ![k].arg = NULL]
    <2>1. Write(call, 1) => ctx' = [ctx EXCEPT ![k].cb = FALSE]
      BY <1>4 DEF Write, DisableOrder, k
    <2>2. Write(call, 2) => ctx' = [ctx EXCEPT ![k].arg = NULL]
      BY <1>4 DEF Write, DisableOrder, k
    <2> QED BY <2>1, <2>2
  <1> QED BY <1>2, <1>3, <1>4 DEF k

LEMMA EnableEffect ==
    ASSUME StateOK, NEW k \in Ctxs, NEW client \in BOOLEAN, SSLContext_enableOcsp(k, client)
    PROVE  /\ config' = [name |-> "enableOcsp", ctx |-> k, client |-> client] /\ config' \in OcspCalls
           /\ config'.name = "enableOcsp" /\ config'.ctx = k /\ config = NULL /\ ctx[k].made
           /\ ctx' = [ctx EXCEPT ![k] = WithArg(ctx[k], IF client THEN 1 ELSE 0)]
           /\ WithArg(ctx[k], IF client THEN 1 ELSE 0) \in CtxT
           /\ hs' = WithSteady(hs, FALSE) /\ hs' \in HsT
           /\ ctx[k].mode # "combined" /\ ~Uses("any side") => client = (ctx[k].mode = "client")
  <1>1. /\ config' = [name |-> "enableOcsp", ctx |-> k, client |-> client]
        /\ config = NULL /\ ctx[k].made /\ Write(config', 1) /\ Unsteady
        /\ ctx[k].mode # "combined" /\ ~Uses("any side") => client = (ctx[k].mode = "client")
    BY DEF SSLContext_enableOcsp
  <1>2. /\ config' \in OcspCalls /\ config'.name = "enableOcsp" /\ config'.ctx = k
        /\ config'.client = client
    BY <1>1 DEF OcspCalls
  <1>3. ctx' = [ctx EXCEPT ![k] = WithArg(ctx[k], IF client THEN 1 ELSE 0)]
    BY <1>1, <1>2, WriteEffect
  <1>4. WithArg(ctx[k], IF client THEN 1 ELSE 0) \in CtxT
    BY WithTypes DEF StateOK
  <1> QED BY <1>1, <1>2, <1>3, <1>4, UnsteadyEffect

LEMMA DisableEffect ==
    ASSUME StateOK, NEW k \in Ctxs, SSLContext_disableOcsp(k)
    PROVE  /\ config' \in OcspCalls /\ config'.name = "disableOcsp" /\ config'.ctx = k
           /\ config = NULL /\ ctx[k].made /\ Uses("disableOcsp")
           /\ ctx' = [ctx EXCEPT ![k] = WithCb(ctx[k], FALSE)] /\ WithCb(ctx[k], FALSE) \in CtxT
           /\ hs' = WithSteady(hs, FALSE) /\ hs' \in HsT
  <1>1. /\ config' = [name |-> "disableOcsp", ctx |-> k, client |-> FALSE]
        /\ config = NULL /\ ctx[k].made /\ Write(config', 1) /\ Unsteady /\ Uses("disableOcsp")
    BY DEF SSLContext_disableOcsp
  <1>2. config' \in OcspCalls /\ config'.name = "disableOcsp" /\ config'.ctx = k
    BY <1>1 DEF OcspCalls
  <1>3. ctx' = [ctx EXCEPT ![k] = WithCb(ctx[k], FALSE)]
    BY <1>1, <1>2, WriteEffect
  <1>4. WithCb(ctx[k], FALSE) \in CtxT
    BY WithTypes DEF StateOK
  <1> QED BY <1>1, <1>2, <1>3, <1>4, UnsteadyEffect

LEMMA SecondEffect ==
    ASSUME StateOK, SecondHalf
    PROVE  /\ config \in OcspCalls /\ config.ctx \in Ctxs /\ config' = NULL
           /\ config.name \in {"enableOcsp", "disableOcsp"}
           /\ config.name = "enableOcsp" =>
                 ctx' = [ctx EXCEPT ![config.ctx] = WithCb(ctx[config.ctx], TRUE)]
           /\ config.name = "disableOcsp" =>
                 ctx' = [ctx EXCEPT ![config.ctx] = WithArg(ctx[config.ctx], NULL)]
           /\ WithCb(ctx[config.ctx], TRUE) \in CtxT /\ WithArg(ctx[config.ctx], NULL) \in CtxT
           /\ hs' = WithSteady(hs, FALSE) /\ hs' \in HsT
  <1>1. /\ config \in OcspCalls /\ config' = NULL /\ Write(config, 2) /\ Unsteady
        /\ config.ctx \in Ctxs /\ config.name \in {"enableOcsp", "disableOcsp"}
    BY DEF SecondHalf, StateOK, OcspCalls
  <1>2. WithCb(ctx[config.ctx], TRUE) \in CtxT /\ WithArg(ctx[config.ctx], NULL) \in CtxT
    BY <1>1, WithTypes DEF StateOK
  <1> QED BY <1>1, <1>2, WriteEffect, UnsteadyEffect

\* A handshake starts.
LEMMA DoHandshakeEffect ==
    ASSUME StateOK, NEW c \in SSLs, NEW s \in SSLs, doHandshake(c, s)
    PROVE  /\ c # s /\ conn[c].ctx \in Ctxs /\ conn[s].ctx \in Ctxs
           /\ conn' \in [SSLs -> ConnT]
           /\ conn'[c] = WithHandshakes(conn[c], 1) /\ conn'[s] = WithHandshakes(conn[s], 1)
           /\ \A d \in SSLs \ {c, s} : conn'[d] = conn[d]
           /\ hs' \in HsT /\ hs'.client = c /\ hs'.server = s
           /\ hs'.version = Settled(build, Speaks(c), Speaks(s))
           /\ hs'.cw = conn[c].wanted /\ hs'.sw = conn[s].wanted
           /\ hs'.pc = (IF hs'.version = {} THEN "failed" ELSE "server")
           /\ hs'.staple = NULL /\ (hs'.steady => config = NULL)
  <1> DEFINE version == Settled(build, Speaks(c), Speaks(s))
  <1>1. /\ conn[c] \in ConnT /\ conn[s] \in ConnT /\ conn \in [SSLs -> ConnT]
        /\ conn[c].ctx # NULL /\ conn[s].ctx # NULL
        /\ ~conn[c].server /\ conn[s].server
        /\ conn[c].handshakeCount = 0 /\ conn[s].handshakeCount = 0
    BY DEF doHandshake, Idle, StateOK
  <1>2. c # s /\ conn[c].ctx \in Ctxs /\ conn[s].ctx \in Ctxs
    BY <1>1, FieldTypes
  <1>3. /\ [conn[c] EXCEPT !.handshakeCount = 1] = WithHandshakes(conn[c], 1)
        /\ [conn[s] EXCEPT !.handshakeCount = 1] = WithHandshakes(conn[s], 1)
    BY <1>1, ConnRecord
  <1>4. conn' = [conn EXCEPT ![c] = [conn[c] EXCEPT !.handshakeCount = conn[c].handshakeCount + 1],
                             ![s] = [conn[s] EXCEPT !.handshakeCount = conn[s].handshakeCount + 1]]
    <2>1. conn' = [conn EXCEPT ![c].handshakeCount = @ + 1, ![s].handshakeCount = @ + 1]
      BY DEF doHandshake
    <2>2. c \in SSLs /\ s \in SSLs /\ c # s /\ conn \in [SSLs -> ConnT]
      BY <1>1, <1>2
    <2> QED BY <2>1, <2>2, TwoConns
  <1>5. conn' = [conn EXCEPT ![c] = WithHandshakes(conn[c], 1), ![s] = WithHandshakes(conn[s], 1)]
    <2>1. conn[c].handshakeCount + 1 = 1 /\ conn[s].handshakeCount + 1 = 1
      BY <1>1
    <2> QED BY <1>3, <1>4, <2>1
  <1>6. WithHandshakes(conn[c], 1) \in ConnT /\ WithHandshakes(conn[s], 1) \in ConnT
    BY <1>1, WithTypes
  <1>7. /\ conn' \in [SSLs -> ConnT]
        /\ conn'[c] = WithHandshakes(conn[c], 1) /\ conn'[s] = WithHandshakes(conn[s], 1)
        /\ \A d \in SSLs \ {c, s} : conn'[d] = conn[d]
    BY <1>1, <1>2, <1>5, <1>6
  <1>8. version \in SUBSET Versions
    <2>1. Speaks(c) \in SUBSET Versions /\ Speaks(s) \in SUBSET Versions
      BY <1>2, FieldTypes DEF Speaks, CtxOf, StateOK
    <2>2. build \in Builds
      BY ProgramType
    <2> QED BY <2>1, <2>2, SettledBest
  <1> HIDE DEF version
  <1>9. hs' = [pc |-> IF version = {} THEN "failed" ELSE "server", client |-> c, server |-> s,
               version |-> version, staple |-> NULL, cw |-> conn[c].wanted, sw |-> conn[s].wanted,
               steady |-> config = NULL]
    BY DEF doHandshake, version
  <1>10. hs' \in HsT
    BY <1>1, <1>8, <1>9, FieldTypes DEF HsT, Steps
  <1>11. /\ hs'.client = c /\ hs'.server = s /\ hs'.version = version
         /\ hs'.cw = conn[c].wanted /\ hs'.sw = conn[s].wanted
         /\ hs'.pc = (IF hs'.version = {} THEN "failed" ELSE "server")
         /\ hs'.staple = NULL /\ (hs'.steady => config = NULL)
    BY <1>9
  <1> QED BY <1>2, <1>7, <1>10, <1>11 DEF version

\* A handshake is done.
LEMMA DoneEffect ==
    ASSUME StateOK, RunInv, Running, conn' = Done
    PROVE  /\ conn' \in [SSLs -> ConnT]
           /\ conn'[hs.client] = WithGot(conn[hs.client], hs.staple, 1)
           /\ conn'[hs.server] = WithCompleted(conn[hs.server], 1)
           /\ \A d \in SSLs \ {hs.client, hs.server} : conn'[d] = conn[d]
  <1> DEFINE c == hs.client
             s == hs.server
             q == hs.staple
  <1>1. /\ c \in SSLs /\ s \in SSLs /\ conn[c].completed = 0 /\ conn[s].completed = 0
        /\ ~conn[c].server /\ conn[s].server
    BY DEF RunInv, Running
  <1>2. /\ c # s /\ conn[c] \in ConnT /\ conn[s] \in ConnT /\ conn \in [SSLs -> ConnT]
        /\ q \in Responses \cup {NULL}
    BY <1>1, FieldTypes DEF StateOK
  <1>3. conn' = [conn EXCEPT ![c].got = q, ![c].completed = @ + 1, ![s].completed = @ + 1]
    BY DEF Done
  <1> HIDE DEF c, s, q
  <1>4. conn' = [conn EXCEPT ![c] = [conn[c] EXCEPT !.got = q, !.completed = conn[c].completed + 1],
                             ![s] = [conn[s] EXCEPT !.completed = conn[s].completed + 1]]
    <2>1. c \in SSLs /\ s \in SSLs /\ c # s /\ conn \in [SSLs -> ConnT]
      BY <1>1, <1>2
    <2> QED BY <1>3, <2>1, TwoConns
  <1>5. /\ [conn[c] EXCEPT !.got = q, !.completed = conn[c].completed + 1] = WithGot(conn[c], q, 1)
        /\ [conn[s] EXCEPT !.completed = conn[s].completed + 1] = WithCompleted(conn[s], 1)
    <2>1. conn[c].completed + 1 = 1 /\ conn[s].completed + 1 = 1
      BY <1>1
    <2>2. [conn[c] EXCEPT !.got = q, !.completed = 1] = WithGot(conn[c], q, 1)
      BY <1>2, ConnDone
    <2>3. [conn[s] EXCEPT !.completed = 1] = WithCompleted(conn[s], 1)
      BY <1>2, ConnRecord
    <2> QED BY <2>1, <2>2, <2>3
  <1>6. conn' = [conn EXCEPT ![c] = WithGot(conn[c], q, 1), ![s] = WithCompleted(conn[s], 1)]
    BY <1>4, <1>5
  <1>7. WithGot(conn[c], q, 1) \in ConnT /\ WithCompleted(conn[s], 1) \in ConnT
    BY <1>2, WithTypes
  <1> QED BY <1>1, <1>2, <1>6, <1>7 DEF c, s, q

\* The steps of a handshake.
LEMMA StatusEffect ==
    ASSUME StateOK, NEW p \in Steps
    PROVE  /\ [hs EXCEPT !.pc = p] = WithPc(hs, p) /\ WithPc(hs, p) \in HsT
           /\ \A q \in Responses \cup {NULL} :
                 [hs EXCEPT !.staple = q, !.pc = p] = WithStaple(hs, q, p) /\ WithStaple(hs, q, p) \in HsT
  BY HsRecord, HsStaple, WithTypes DEF StateOK

-----------------------------------------------------------------------------
(* The types and what a handshake has been through.                        *)

SameRun == hs'.pc = hs.pc /\ hs'.client = hs.client /\ hs'.server = hs.server

LEMMA RunSame ==
    ASSUME RunInv, conn' = conn, SameRun
    PROVE  RunInv'
  BY DEF RunInv, SameRun, Running

\* A call on a connection keeps the connection what it is.
Remains(c, r) ==
    /\ r.ctx = conn[c].ctx /\ r.server = conn[c].server
    /\ r.handshakeCount = conn[c].handshakeCount /\ r.completed = conn[c].completed

LEMMA RunOne ==
    ASSUME StateOK, RunInv, NEW c \in SSLs, NEW r \in ConnT, conn' = [conn EXCEPT ![c] = r],
           conn[c].ctx # NULL, Remains(c, r), SameRun
    PROVE  RunInv' /\ conn' \in [SSLs -> ConnT]
  <1>1. conn'[c] = r /\ (\A d \in SSLs \ {c} : conn'[d] = conn[d]) /\ conn' \in [SSLs -> ConnT]
    BY ConnMoves
  <1>2. \A d \in SSLs : Remains(d, conn'[d])
    BY <1>1 DEF Remains
  <1>3. \A d \in SSLs : conn'[d].ctx = NULL => ~conn'[d].bio /\ conn'[d].response = NULL
    BY <1>1 DEF Remains, RunInv
  <1> QED BY <1>1, <1>2, <1>3 DEF RunInv, SameRun, Running, Remains

Typed == StateOK /\ RunInv

LEMMA TypedMake ==
    ASSUME Typed, NEW k \in Ctxs
    PROVE  /\ \A protocol \in program.protocols, mode \in program.modes : make(k, protocol, mode) => Typed'
           /\ \A step \in MakeSteps : makeFails(k, step) => Typed'
  <1> USE DEF Typed
  <1>1. ASSUME NEW protocol \in program.protocols, NEW mode \in program.modes, make(k, protocol, mode)
        PROVE  Typed'
    <2>1. ctx' \in [Ctxs -> CtxT]
      BY <1>1, MakeEffect, CtxMoves
    <2>2. /\ count' = [count EXCEPT ![k] = 1] /\ pools' = pools \cup {k}
          /\ UNCHANGED <<program, conn, states, bios, blocks, config, hs, crashed>>
      BY <1>1 DEF make
    <2>3. StateOK'
      BY <2>1, <2>2 DEF StateOK
    <2>4. RunInv'
      BY <2>2, RunSame DEF SameRun
    <2> QED BY <2>3, <2>4
  <1>2. ASSUME NEW step \in MakeSteps, makeFails(k, step)
        PROVE  Typed'
    <2>1. /\ UNCHANGED <<program, ctx, conn, states, bios, blocks, config, hs>>
          /\ \/ crashed' = "make" /\ UNCHANGED <<count, pools>>
             \/ /\ \E n \in {0, 1} : count' = [count EXCEPT ![k] = n]
                /\ pools' \in {pools, pools \cup {k}} /\ UNCHANGED crashed
      BY <1>2 DEF makeFails
    <2>2. StateOK'
      BY <2>1 DEF StateOK
    <2>3. RunInv'
      BY <2>1, RunSame DEF SameRun
    <2> QED BY <2>2, <2>3
  <1> QED BY <1>1, <1>2

LEMMA TypedContext ==
    ASSUME Typed, NEW k \in Ctxs
    PROVE  /\ free(k) => Typed'
           /\ \A versions \in Options :
                 SSLContext_setOptions(k, versions) \/ SSLContext_clearOptions(k, versions) => Typed'
           /\ \A client \in BOOLEAN : SSLContext_enableOcsp(k, client) => Typed'
           /\ SSLContext_disableOcsp(k) => Typed'
  <1> USE DEF Typed
  <1>1. ASSUME free(k) PROVE Typed'
    <2>1. ctx' \in [Ctxs -> CtxT] /\ count' = [count EXCEPT ![k] = @ - 1]
      BY <1>1, FreeEffect
    <2>2. pools' = pools \ {k} /\ UNCHANGED <<program, conn, states, bios, blocks, config, hs, crashed>>
      BY <1>1 DEF free
    <2>3. StateOK'
      BY <2>1, <2>2 DEF StateOK
    <2>4. RunInv'
      BY <2>2, RunSame DEF SameRun
    <2> QED BY <2>3, <2>4
  <1>2. ASSUME NEW versions \in Options,
               SSLContext_setOptions(k, versions) \/ SSLContext_clearOptions(k, versions)
        PROVE  Typed'
    <2>1. PICK off, wanted \in SUBSET Versions :
                 ctx' = [ctx EXCEPT ![k] = WithCtxOptions(ctx[k], off, wanted)]
      BY <1>2, CtxOptionsEffect
    <2>2. WithCtxOptions(ctx[k], off, wanted) \in CtxT
      BY WithTypes DEF StateOK
    <2>3. ctx' \in [Ctxs -> CtxT]
      BY <2>1, <2>2, CtxMoves
    <2>4. UNCHANGED <<program, memory, conn, config, hs, crashed>>
      BY <1>2 DEF SSLContext_setOptions, SSLContext_clearOptions
    <2>5. StateOK'
      BY <2>3, <2>4 DEF StateOK, memory
    <2>6. RunInv'
      BY <2>4, RunSame DEF SameRun
    <2> QED BY <2>5, <2>6
  <1>3. ASSUME NEW r \in CtxT, ctx' = [ctx EXCEPT ![k] = r], config' \in OcspCalls, hs' \in HsT,
               hs' = WithSteady(hs, FALSE), UNCHANGED <<program, memory, conn, crashed>>
        PROVE  Typed'
    <2>1. ctx' \in [Ctxs -> CtxT]
      BY <1>3, CtxMoves
    <2>2. StateOK'
      BY <1>3, <2>1 DEF StateOK, memory
    <2>3. RunInv'
      BY <1>3, RunSame DEF SameRun, WithSteady
    <2> QED BY <2>2, <2>3
  <1>4. ASSUME NEW client \in BOOLEAN, SSLContext_enableOcsp(k, client) PROVE Typed'
    <2>1. UNCHANGED <<program, memory, conn, crashed>>
      BY <1>4 DEF SSLContext_enableOcsp
    <2> QED BY <1>3, <1>4, <2>1, EnableEffect
  <1>5. ASSUME SSLContext_disableOcsp(k) PROVE Typed'
    <2>1. UNCHANGED <<program, memory, conn, crashed>>
      BY <1>5 DEF SSLContext_disableOcsp
    <2> QED BY <1>3, <1>5, <2>1, DisableEffect
  <1> QED BY <1>1, <1>2, <1>4, <1>5

LEMMA TypedSecond ==
    ASSUME Typed, SecondHalf
    PROVE  Typed'
  <1> USE DEF Typed
  <1>1. PICK r \in CtxT : ctx' = [ctx EXCEPT ![config.ctx] = r]
    BY SecondEffect
  <1>2. ctx' \in [Ctxs -> CtxT]
    BY <1>1, SecondEffect, CtxMoves
  <1>3. UNCHANGED <<program, memory, conn, crashed>>
    BY DEF SecondHalf
  <1>4. StateOK'
    BY <1>2, <1>3, SecondEffect DEF StateOK, memory
  <1>5. RunInv'
    BY <1>3, SecondEffect, RunSame DEF SameRun, WithSteady
  <1> QED BY <1>4, <1>5

\* The record of a new connection.
NewConn(k, server) ==
    [ctx |-> k, server |-> server, off |-> ctx[k].off, wanted |-> ctx[k].wanted, bio |-> FALSE,
     status |-> FALSE, response |-> NULL, got |-> NULL, handshakeCount |-> 0, completed |-> 0]

LEMMA NewEffect ==
    ASSUME Typed, NEW c \in SSLs, NEW k \in Ctxs, NEW server \in BOOLEAN, newSSL(c, k, server)
    PROVE  /\ NewConn(k, server) \in ConnT /\ conn' = [conn EXCEPT ![c] = NewConn(k, server)]
           /\ conn[c].ctx = NULL /\ ctx[k].made /\ k # NULL
  <1>1. ctx[k].off \in SUBSET Versions /\ ctx[k].wanted \in SUBSET Versions
    BY FieldTypes DEF Typed, StateOK
  <1>2. NewConn(k, server) \in ConnT
    BY <1>1 DEF NewConn, ConnT
  <1> QED BY <1>2, ArgumentsAssumption DEF newSSL, NewConn

LEMMA TypedNew ==
    ASSUME Typed, NEW c \in SSLs, NEW k \in Ctxs, NEW server \in BOOLEAN, newSSL(c, k, server)
    PROVE  Typed'
  <1> USE DEF Typed
  <1> DEFINE r == NewConn(k, server)
  <1>1. r \in ConnT /\ conn' = [conn EXCEPT ![c] = r] /\ conn[c].ctx = NULL /\ k # NULL
    BY NewEffect
  <1>2. /\ UNCHANGED <<program, ctx, pools, bios, blocks, config, hs, crashed>>
        /\ count' = [count EXCEPT ![k] = @ + 1] /\ states' = states + 1
    BY DEF newSSL
  <1>3. r.ctx = k /\ ~r.bio /\ r.response = NULL /\ r.handshakeCount = 0 /\ r.completed = 0
    BY DEF NewConn
  <1> HIDE DEF r
  <1>4. conn'[c] = r /\ (\A d \in SSLs \ {c} : conn'[d] = conn[d]) /\ conn' \in [SSLs -> ConnT]
    BY <1>1, ConnMoves
  <1>5. StateOK'
    BY <1>2, <1>4 DEF StateOK
  <1>6. hs.pc # "none" => hs.client # c /\ hs.server # c
    BY <1>1 DEF RunInv
  <1>7. RunInv'
    BY <1>1, <1>2, <1>3, <1>4, <1>6 DEF RunInv, Running
  <1> QED BY <1>5, <1>7

LEMMA TypedFails ==
    ASSUME Typed, NEW c \in SSLs
    PROVE  /\ \A k \in Ctxs : newSSLFails(c, k) => Typed'
           /\ bioNewByteBufferFails(c) => Typed'
  <1> USE DEF Typed
  <1>1. ASSUME NEW k \in Ctxs, newSSLFails(c, k) PROVE Typed'
    <2>1. /\ count' = [count EXCEPT ![k] = SSL_free(@ + 1)]
          /\ UNCHANGED <<program, ctx, pools, conn, states, bios, blocks, config, hs, crashed>>
      BY <1>1 DEF newSSLFails
    <2>2. StateOK'
      BY <2>1 DEF StateOK, SSL_free
    <2> QED BY <2>1, <2>2, RunSame DEF SameRun
  <1>2. ASSUME bioNewByteBufferFails(c) PROVE Typed'
    <2>1. /\ bios' = BIO_free(bios + 1)
          /\ UNCHANGED <<program, ctx, count, pools, states, blocks, conn, config, hs, crashed>>
      BY <1>2 DEF bioNewByteBufferFails
    <2>2. StateOK'
      BY <2>1 DEF StateOK, BIO_free
    <2> QED BY <2>1, <2>2, RunSame DEF SameRun
  <1> QED BY <1>1, <1>2

LEMMA TypedBio ==
    ASSUME Typed, NEW c \in SSLs
    PROVE  /\ bioNewByteBuffer(c) => Typed'
           /\ SSL_enableOcsp(c) => Typed'
           /\ \A versions \in Options : SSL_setOptions(c, versions) \/ SSL_clearOptions(c, versions) => Typed'
  <1> USE DEF Typed
  <1>1. ASSUME NEW r \in ConnT, conn' = [conn EXCEPT ![c] = r], Remains(c, r), conn[c].ctx # NULL,
               bios' \in Int, UNCHANGED <<program, ctx, count, pools, states, blocks, config, hs, crashed>>
        PROVE  Typed'
    <2>1. RunInv' /\ conn' \in [SSLs -> ConnT]
      BY <1>1, RunOne DEF SameRun
    <2>2. StateOK'
      BY <1>1, <2>1 DEF StateOK
    <2> QED BY <2>1, <2>2
  <1>2. ASSUME bioNewByteBuffer(c) PROVE Typed'
    <2>1. /\ bios' = bios + 1 - (IF conn[c].bio THEN 1 ELSE 0) /\ conn[c].ctx # NULL
          /\ UNCHANGED <<program, ctx, count, pools, states, blocks, config, hs, crashed>>
      BY <1>2 DEF bioNewByteBuffer, Idle
    <2>2. bios' \in Int
      BY <2>1 DEF StateOK
    <2>3. conn' = [conn EXCEPT ![c] = WithBio(conn[c], TRUE)] /\ WithBio(conn[c], TRUE) \in ConnT
      BY <1>2, FieldEffect, WithTypes DEF StateOK
    <2>4. Remains(c, WithBio(conn[c], TRUE))
      BY DEF Remains, WithBio
    <2> QED BY <1>1, <2>1, <2>2, <2>3, <2>4
  <1>3. ASSUME SSL_enableOcsp(c) PROVE Typed'
    <2>1. conn[c].ctx # NULL /\ UNCHANGED <<program, ctx, memory, config, hs, crashed>>
      BY <1>3 DEF SSL_enableOcsp, Idle
    <2>2. conn' = [conn EXCEPT ![c] = WithStatus(conn[c], TRUE)] /\ WithStatus(conn[c], TRUE) \in ConnT
      BY <1>3, FieldEffect, WithTypes DEF StateOK
    <2>3. Remains(c, WithStatus(conn[c], TRUE))
      BY DEF Remains, WithStatus
    <2> QED BY <1>1, <2>1, <2>2, <2>3 DEF memory, StateOK
  <1>4. ASSUME NEW versions \in Options, SSL_setOptions(c, versions) \/ SSL_clearOptions(c, versions)
        PROVE  Typed'
    <2>1. conn[c].ctx # NULL /\ UNCHANGED <<program, ctx, memory, config, hs, crashed>>
      BY <1>4 DEF SSL_setOptions, SSL_clearOptions, Idle
    <2>2. PICK off, wanted \in SUBSET Versions :
                 conn' = [conn EXCEPT ![c] = WithOptions(conn[c], off, wanted)]
      BY <1>4, OptionsEffect
    <2>3. WithOptions(conn[c], off, wanted) \in ConnT
      BY WithTypes DEF StateOK
    <2>4. Remains(c, WithOptions(conn[c], off, wanted))
      BY DEF Remains, WithOptions
    <2> QED BY <1>1, <2>1, <2>2, <2>3, <2>4 DEF memory, StateOK
  <1> QED BY <1>2, <1>3, <1>4

\* What a call of setOcspResponse leaves, and what it does to the number of copies.
LEMMA ResponseEffect ==
    ASSUME Typed, NEW c \in SSLs, NEW response \in Responses, NEW fails \in BOOLEAN,
           setOcspResponse(c, response, fails)
    PROVE  /\ conn[c].ctx # NULL /\ conn[c].server /\ ~InUse(c)
           /\ UNCHANGED <<program, ctx, count, pools, states, bios, config, crashed>>
           /\ hs' = WithSteady(hs, FALSE) /\ hs' \in HsT
           /\ \E after \in Responses \cup {NULL} :
                 /\ conn' = [conn EXCEPT ![c] = WithResponse(conn[c], after)]
                 /\ blocks' = blocks + (IF after # NULL THEN 1 ELSE 0)
                                     - (IF conn[c].response # NULL THEN 1 ELSE 0)
  <1> USE DEF Typed
  <1> DEFINE old   == conn[c].response
             after == IF fails /\ ~BoringSSL THEN old ELSE IF fails THEN NULL ELSE response
             taken == IF fails THEN 0 ELSE 1
             freed == IF (fails /\ ~BoringSSL) \/ old = NULL THEN 0 ELSE 1
  <1>1. /\ conn[c].ctx # NULL /\ conn[c].server /\ ~InUse(c) /\ Unsteady
        /\ UNCHANGED <<program, ctx, count, pools, states, bios, config, crashed>>
        /\ blocks' = blocks + 1 + (IF BoringSSL THEN taken ELSE 0) - Released(fails) - freed
        /\ conn' = [conn EXCEPT ![c].response = after]
    BY DEF setOcspResponse, Idle
  <1>2. old \in Responses \cup {NULL} /\ response # NULL /\ blocks \in Int
    BY FieldTypes, ArgumentsAssumption DEF StateOK
  <1>3. after \in Responses \cup {NULL}
    BY <1>2
  <1>4. blocks' = blocks + (IF after # NULL THEN 1 ELSE 0) - (IF old # NULL THEN 1 ELSE 0)
    <2>1. CASE BoringSSL /\ fails
      BY <1>1, <1>2, <2>1 DEF Released
    <2>2. CASE BoringSSL /\ ~fails
      BY <1>1, <1>2, <2>2 DEF Released
    <2>3. CASE ~BoringSSL /\ fails
      BY <1>1, <1>2, <2>3 DEF Released
    <2>4. CASE ~BoringSSL /\ ~fails
      BY <1>1, <1>2, <2>4 DEF Released
    <2> QED BY <2>1, <2>2, <2>3, <2>4
  <1> HIDE DEF after
  <1>5. conn' = [conn EXCEPT ![c] = WithResponse(conn[c], after)]
    BY <1>1, FieldEffect
  <1> QED BY <1>1, <1>3, <1>4, <1>5, UnsteadyEffect

LEMMA TypedResponse ==
    ASSUME Typed, NEW c \in SSLs, NEW response \in Responses, NEW fails \in BOOLEAN,
           setOcspResponse(c, response, fails)
    PROVE  Typed'
  <1> USE DEF Typed
  <1>1. /\ conn[c].ctx # NULL
        /\ UNCHANGED <<program, ctx, count, pools, states, bios, config, crashed>>
        /\ hs' = WithSteady(hs, FALSE) /\ hs' \in HsT
    BY ResponseEffect
  <1>2. PICK after \in Responses \cup {NULL} :
               /\ conn' = [conn EXCEPT ![c] = WithResponse(conn[c], after)]
               /\ blocks' = blocks + (IF after # NULL THEN 1 ELSE 0)
                                   - (IF conn[c].response # NULL THEN 1 ELSE 0)
    BY ResponseEffect
  <1>3. WithResponse(conn[c], after) \in ConnT
    BY WithTypes DEF StateOK
  <1>4. Remains(c, WithResponse(conn[c], after)) /\ SameRun
    BY <1>1 DEF Remains, WithResponse, SameRun, WithSteady
  <1>5. RunInv' /\ conn' \in [SSLs -> ConnT]
    BY <1>1, <1>2, <1>3, <1>4, RunOne
  <1>6. blocks' \in Int
    BY <1>2 DEF StateOK
  <1>7. StateOK'
    BY <1>1, <1>5, <1>6 DEF StateOK
  <1> QED BY <1>5, <1>7

\* A connection is freed, and the SSL_CTX that loses its last reference.
LEMMA FreeSSLEffect ==
    ASSUME Typed, NEW c \in SSLs, freeSSL(c)
    PROVE  /\ conn[c].ctx \in Ctxs /\ ~InUse(c)
           /\ conn'[c] = NoConn /\ (\A d \in SSLs \ {c} : conn'[d] = conn[d])
           /\ conn' \in [SSLs -> ConnT]
           /\ count' = [count EXCEPT ![conn[c].ctx] = @ - 1]
           /\ \A j \in Ctxs : ctx'[j] = IF count'[j] = 0 THEN NoCtx ELSE ctx[j]
           /\ ctx' \in [Ctxs -> CtxT]
           /\ hs' = (IF c \in {hs.client, hs.server} THEN NoHs ELSE hs) /\ hs' \in HsT
  <1> USE DEF Typed
  <1>1. /\ conn[c].ctx # NULL /\ ~InUse(c) /\ conn' = [conn EXCEPT ![c] = NoConn]
        /\ count' = [count EXCEPT ![conn[c].ctx] = SSL_free(@)]
        /\ hs' = IF c \in {hs.client, hs.server} THEN NoHs ELSE hs
        /\ ctx' = [j \in Ctxs |-> IF count'[j] = 0 THEN NoCtx ELSE ctx[j]]
    BY DEF freeSSL, Idle, Unreferenced
  <1>2. conn[c].ctx \in Ctxs
    BY <1>1, FieldTypes DEF StateOK
  <1>3. conn'[c] = NoConn /\ (\A d \in SSLs \ {c} : conn'[d] = conn[d]) /\ conn' \in [SSLs -> ConnT]
    BY <1>1, NoRecords, ConnMoves
  <1>4. count' = [count EXCEPT ![conn[c].ctx] = @ - 1]
    BY <1>1 DEF SSL_free
  <1>5. /\ ctx' \in [Ctxs -> CtxT]
        /\ \A j \in Ctxs : ctx'[j] = IF count'[j] = 0 THEN NoCtx ELSE ctx[j]
    BY <1>1, NoRecords DEF StateOK
  <1>6. hs' \in HsT
    BY <1>1, NoRecords DEF StateOK
  <1> QED BY <1>1, <1>2, <1>3, <1>4, <1>5, <1>6

LEMMA TypedFreeSSL ==
    ASSUME Typed, NEW c \in SSLs, freeSSL(c)
    PROVE  Typed'
  <1> USE DEF Typed
  <1>1. /\ states' = states - 1 /\ UNCHANGED <<program, pools, config, crashed>>
        /\ bios' = IF conn[c].bio THEN bios - 1 ELSE bios
        /\ blocks' = IF conn[c].response # NULL THEN blocks - 1 ELSE blocks
    BY DEF freeSSL
  <1>2. count' \in [Ctxs -> Int]
    BY FreeSSLEffect DEF StateOK
  <1>3. states' \in Int /\ bios' \in Int /\ blocks' \in Int
    BY <1>1 DEF StateOK
  <1>4. StateOK'
    BY <1>1, <1>2, <1>3, FreeSSLEffect DEF StateOK
  <1>5. CASE c \in {hs.client, hs.server}
    <2>1. hs'.pc = "none"
      BY <1>5, FreeSSLEffect DEF NoHs
    <2> QED BY <1>4, <2>1, FreeSSLEffect DEF RunInv, Running, NoConn
  <1>6. CASE c \notin {hs.client, hs.server}
    <2>1. hs' = hs
      BY <1>6, FreeSSLEffect
    <2> QED BY <1>4, <1>6, <2>1, FreeSSLEffect DEF RunInv, Running, NoConn
  <1> QED BY <1>5, <1>6

LEMMA TypedDoHandshake ==
    ASSUME Typed, NEW c \in SSLs, NEW s \in SSLs, doHandshake(c, s)
    PROVE  Typed'
  <1> USE DEF Typed
  <1>1. UNCHANGED <<program, ctx, memory, config, crashed>>
    BY DEF doHandshake
  <1>2. StateOK'
    BY <1>1, DoHandshakeEffect DEF StateOK, memory
  <1>3. /\ ~conn[c].server /\ conn[s].server
        /\ conn[c].handshakeCount = 0 /\ conn[s].handshakeCount = 0
        /\ conn[c].completed = 0 /\ conn[s].completed = 0
    BY DEF doHandshake, RunInv
  <1>4. c # s /\ conn[c].ctx # NULL /\ conn[s].ctx # NULL
    BY DoHandshakeEffect, ArgumentsAssumption
  <1>5. \A d \in {c, s} :
           /\ conn'[d].ctx = conn[d].ctx /\ conn'[d].server = conn[d].server
           /\ conn'[d].handshakeCount = 1 /\ conn'[d].completed = conn[d].completed
           /\ conn'[d].bio = conn[d].bio /\ conn'[d].response = conn[d].response
    <2>1. \A d \in {c, s} : conn'[d] = WithHandshakes(conn[d], 1)
      BY DoHandshakeEffect
    <2> QED BY <2>1 DEF WithHandshakes
  <1>6. /\ hs'.client = c /\ hs'.server = s /\ \A d \in SSLs \ {c, s} : conn'[d] = conn[d]
    BY DoHandshakeEffect
  <1>7. RunInv'
    BY <1>3, <1>4, <1>5, <1>6 DEF RunInv, Running
  <1> QED BY <1>2, <1>7

\* The steps of a handshake: the next step, and what is done at its end.
LEMMA HandshakeEffect ==
    ASSUME Typed, Handshake
    PROVE  /\ UNCHANGED <<program, ctx, memory, config>> /\ crashed' \in {NULL, "ocsp"}
           /\ Running /\ \E p \in Steps \ {"none"}, q \in Responses \cup {NULL} :
                            hs' = WithPc(hs, p) \/ hs' = WithStaple(hs, q, p)
           /\ hs' \in HsT
           /\ conn' = conn \/ (conn' = Done /\ hs' = WithPc(hs, "done"))
           /\ hs'.pc \in {"done", "failed"} \/ conn' = conn
  <1> USE DEF Typed
  <1>0. /\ "server callback" \in Steps /\ "client" \in Steps /\ "client callback" \in Steps
        /\ "done" \in Steps /\ "failed" \in Steps
        /\ "none" \notin {"server callback", "client", "client callback", "done", "failed"}
        /\ NULL \in Responses \cup {NULL}
    BY DEF Steps
  <1>1. UNCHANGED <<program, ctx, memory, config>> /\ crashed' \in {NULL, "ocsp"}
    BY DEF Handshake, ServerStatus, openssl_ocsp_callback_server, ClientStatus,
           openssl_ocsp_callback_client, Live
  <1>2. Running
    BY DEF Handshake, ServerStatus, openssl_ocsp_callback_server, ClientStatus,
           openssl_ocsp_callback_client, Running
  <1>3. conn[hs.server].response \in Responses \cup {NULL}
    BY <1>2, FieldTypes DEF RunInv, Running, StateOK
  <1>4. CASE ServerStatus
    <2>1. /\ conn' = conn
          /\ \/ hs' = [hs EXCEPT !.staple = conn[hs.server].response, !.pc = "client"]
             \/ hs' = [hs EXCEPT !.pc = "server callback"]
             \/ hs' = [hs EXCEPT !.pc = "client"]
      BY <1>4 DEF ServerStatus
    <2>2. \/ hs' = WithStaple(hs, conn[hs.server].response, "client")
          \/ hs' = WithPc(hs, "server callback")
          \/ hs' = WithPc(hs, "client")
      BY <1>0, <1>3, <2>1, StatusEffect
    <2>3. hs' \in HsT
      <3>1. \A p \in Steps : WithPc(hs, p) \in HsT /\ WithStaple(hs, conn[hs.server].response, p) \in HsT
        BY <1>3, WithTypes DEF StateOK
      <3> QED BY <1>0, <2>2, <3>1
    <2>4. \E p \in Steps \ {"none"}, q \in Responses \cup {NULL} :
             hs' = WithPc(hs, p) \/ hs' = WithStaple(hs, q, p)
      BY <1>0, <1>3, <2>2
    <2> QED BY <1>1, <1>2, <2>1, <2>3, <2>4
  <1>5. CASE openssl_ocsp_callback_server
    <2>1. /\ conn' = conn
          /\ \/ hs' = [hs EXCEPT !.staple = conn[hs.server].response, !.pc = "client"]
             \/ hs' = [hs EXCEPT !.pc = "failed"]
      BY <1>5 DEF openssl_ocsp_callback_server
    <2>2. \/ hs' = WithStaple(hs, conn[hs.server].response, "client")
          \/ hs' = WithPc(hs, "failed")
      BY <1>0, <1>3, <2>1, StatusEffect
    <2>3. hs' \in HsT
      <3>1. \A p \in Steps : WithPc(hs, p) \in HsT /\ WithStaple(hs, conn[hs.server].response, p) \in HsT
        BY <1>3, WithTypes DEF StateOK
      <3> QED BY <1>0, <2>2, <3>1
    <2>4. \E p \in Steps \ {"none"}, q \in Responses \cup {NULL} :
             hs' = WithPc(hs, p) \/ hs' = WithStaple(hs, q, p)
      BY <1>0, <1>3, <2>2
    <2> QED BY <1>1, <1>2, <2>1, <2>3, <2>4
  <1>6. CASE ClientStatus \/ openssl_ocsp_callback_client
    <2>1. \/ hs' = [hs EXCEPT !.pc = "client callback"] /\ conn' = conn
          \/ hs' = [hs EXCEPT !.pc = "done"] /\ conn' = Done
          \/ hs' = [hs EXCEPT !.pc = "failed"] /\ conn' = conn
      BY <1>6 DEF ClientStatus, openssl_ocsp_callback_client
    <2>2. \/ hs' = WithPc(hs, "client callback") /\ conn' = conn
          \/ hs' = WithPc(hs, "done") /\ conn' = Done
          \/ hs' = WithPc(hs, "failed") /\ conn' = conn
      BY <1>0, <2>1, StatusEffect
    <2>3. WithPc(hs, "done").pc = "done"
      BY DEF WithPc
    <2> QED BY <1>0, <1>1, <1>2, <2>2, <2>3, StatusEffect
  <1> QED BY <1>4, <1>5, <1>6 DEF Handshake

LEMMA TypedHandshake ==
    ASSUME Typed, Handshake
    PROVE  Typed'
  <1> USE DEF Typed
  <1>1. hs'.client = hs.client /\ hs'.server = hs.server /\ hs' \in HsT /\ Running
    BY HandshakeEffect DEF WithPc, WithStaple
  <1>2. CASE conn' = conn
    <2>1. StateOK'
      BY <1>1, <1>2, HandshakeEffect DEF StateOK, memory
    <2>2. RunInv'
      BY <1>1, <1>2 DEF RunInv, Running
    <2> QED BY <2>1, <2>2
  <1>3. CASE conn' = Done /\ hs' = WithPc(hs, "done")
    <2>1. StateOK'
      BY <1>1, <1>3, HandshakeEffect, DoneEffect DEF StateOK, memory
    <2>2. \A d \in SSLs :
             /\ conn'[d].ctx = conn[d].ctx /\ conn'[d].server = conn[d].server
             /\ conn'[d].handshakeCount = conn[d].handshakeCount
             /\ conn'[d].bio = conn[d].bio /\ conn'[d].response = conn[d].response
             /\ conn[d].handshakeCount = 0 => conn'[d].completed = conn[d].completed
      <3>1. conn'[hs.client] = WithGot(conn[hs.client], hs.staple, 1)
            /\ conn'[hs.server] = WithCompleted(conn[hs.server], 1)
            /\ \A d \in SSLs \ {hs.client, hs.server} : conn'[d] = conn[d]
        BY <1>1, <1>3, DoneEffect
      <3>2. conn[hs.client].handshakeCount = 1 /\ conn[hs.server].handshakeCount = 1
        BY <1>1 DEF RunInv, Running
      <3> QED BY <3>1, <3>2 DEF WithGot, WithCompleted
    <2>3. hs'.pc = "done"
      BY <1>3 DEF WithPc
    <2>4. RunInv'
      BY <1>1, <2>2, <2>3 DEF RunInv, Running
    <2> QED BY <2>1, <2>4
  <1> QED BY <1>2, <1>3, HandshakeEffect

\* Every step keeps the types and RunInv.
LEMMA TypedStep == Typed /\ [Next]_vars => Typed'
  <1> SUFFICES ASSUME Typed, [Next]_vars PROVE Typed'
    OBVIOUS
  <1>1. CASE UNCHANGED vars
    BY <1>1, RunSame DEF Typed, StateOK, vars, memory, SameRun
  <1>2. CASE Configure
    BY <1>2, TypedMake, TypedContext, TypedSecond DEF Configure
  <1>3. CASE Connect
    BY <1>3, TypedNew, TypedFails, TypedBio, TypedResponse, TypedFreeSSL, TypedDoHandshake DEF Connect
  <1>4. CASE Handshake
    BY <1>4, TypedHandshake
  <1> QED BY <1>1, <1>2, <1>3, <1>4 DEF Next

-----------------------------------------------------------------------------
(* What is allocated, and who has it.                                      *)

In(b) == IF b THEN 1 ELSE 0

Users(k) == {c \in SSLs : conn[c].ctx = k}
Open     == {c \in SSLs : conn[c].ctx # NULL}
WithBIO  == {c \in SSLs : conn[c].bio}
Stapled  == {c \in SSLs : conn[c].response # NULL}

\* Two sets of connections that differ in one connection at most.
LEMMA OneMoves ==
    ASSUME NEW A \in SUBSET SSLs, NEW B \in SUBSET SSLs, NEW c, A \ {c} = B \ {c}
    PROVE  /\ Cardinality(A) \in Nat /\ Cardinality(B) \in Nat
           /\ Cardinality(B) = Cardinality(A) + In(c \in B) - In(c \in A)
  <1>1. /\ IsFiniteSet(A) /\ IsFiniteSet(B)
        /\ Cardinality(A) \in Nat /\ Cardinality(B) \in Nat
    BY ArgumentsAssumption, FS_Subset, FS_CardinalityType
  <1>2. ASSUME NEW S, IsFiniteSet(S), Cardinality(S) \in Nat
        PROVE  Cardinality(S \ {c}) = Cardinality(S) - In(c \in S)
    <2>1. Cardinality(S \ {c}) = IF c \in S THEN Cardinality(S) - 1 ELSE Cardinality(S)
      BY <1>2, FS_RemoveElement
    <2> QED BY <1>2, <2>1 DEF In
  <1>3. /\ Cardinality(A \ {c}) = Cardinality(A) - In(c \in A)
        /\ Cardinality(B \ {c}) = Cardinality(B) - In(c \in B)
    BY <1>1, <1>2
  <1> QED BY <1>1, <1>3 DEF In

\* A step of one connection changes each of the sets by that connection.
LEMMA SetsMove ==
    ASSUME NEW c \in SSLs, \A d \in SSLs \ {c} : conn'[d] = conn[d]
    PROVE  /\ \A k \in Ctxs : Cardinality(Users(k)') =
                                Cardinality(Users(k)) + In(conn'[c].ctx = k) - In(conn[c].ctx = k)
           /\ Cardinality(Open') = Cardinality(Open) + In(conn'[c].ctx # NULL) - In(conn[c].ctx # NULL)
           /\ Cardinality(WithBIO') = Cardinality(WithBIO) + In(conn'[c].bio) - In(conn[c].bio)
           /\ Cardinality(Stapled') =
                Cardinality(Stapled) + In(conn'[c].response # NULL) - In(conn[c].response # NULL)
  <1>1. ASSUME NEW k \in Ctxs
        PROVE  Cardinality(Users(k)') = Cardinality(Users(k)) + In(conn'[c].ctx = k) - In(conn[c].ctx = k)
    <2>1. /\ Users(k) \in SUBSET SSLs /\ Users(k)' \in SUBSET SSLs /\ Users(k) \ {c} = Users(k)' \ {c}
          /\ (c \in Users(k) <=> conn[c].ctx = k) /\ (c \in Users(k)' <=> conn'[c].ctx = k)
      BY DEF Users
    <2>2. Cardinality(Users(k)') = Cardinality(Users(k)) + In(c \in Users(k)') - In(c \in Users(k))
      BY <2>1, OneMoves
    <2> QED BY <2>1, <2>2 DEF In
  <1>2. Cardinality(Open') = Cardinality(Open) + In(conn'[c].ctx # NULL) - In(conn[c].ctx # NULL)
    <2>1. /\ Open \in SUBSET SSLs /\ Open' \in SUBSET SSLs /\ Open \ {c} = Open' \ {c}
          /\ (c \in Open <=> conn[c].ctx # NULL) /\ (c \in Open' <=> conn'[c].ctx # NULL)
      BY DEF Open
    <2>2. Cardinality(Open') = Cardinality(Open) + In(c \in Open') - In(c \in Open)
      BY <2>1, OneMoves
    <2> QED BY <2>1, <2>2 DEF In
  <1>3. Cardinality(WithBIO') = Cardinality(WithBIO) + In(conn'[c].bio) - In(conn[c].bio)
    <2>1. /\ WithBIO \in SUBSET SSLs /\ WithBIO' \in SUBSET SSLs /\ WithBIO \ {c} = WithBIO' \ {c}
          /\ (c \in WithBIO <=> conn[c].bio) /\ (c \in WithBIO' <=> conn'[c].bio)
      BY DEF WithBIO
    <2>2. Cardinality(WithBIO') = Cardinality(WithBIO) + In(c \in WithBIO') - In(c \in WithBIO)
      BY <2>1, OneMoves
    <2> QED BY <2>1, <2>2 DEF In
  <1>4. Cardinality(Stapled') =
           Cardinality(Stapled) + In(conn'[c].response # NULL) - In(conn[c].response # NULL)
    <2>1. /\ Stapled \in SUBSET SSLs /\ Stapled' \in SUBSET SSLs /\ Stapled \ {c} = Stapled' \ {c}
          /\ (c \in Stapled <=> conn[c].response # NULL) /\ (c \in Stapled' <=> conn'[c].response # NULL)
      BY DEF Stapled
    <2>2. Cardinality(Stapled') = Cardinality(Stapled) + In(c \in Stapled') - In(c \in Stapled)
      BY <2>1, OneMoves
    <2> QED BY <2>1, <2>2 DEF In
  <1> QED BY <1>1, <1>2, <1>3, <1>4

LEMMA Sizes ==
    /\ \A k \in Ctxs : Cardinality(Users(k)) \in Nat
    /\ Cardinality(Open) \in Nat /\ Cardinality(WithBIO) \in Nat /\ Cardinality(Stapled) \in Nat
  <1>1. \A S \in SUBSET SSLs : Cardinality(S) \in Nat
    BY ArgumentsAssumption, FS_Subset, FS_CardinalityType
  <1>2. /\ \A k \in Ctxs : Users(k) \in SUBSET SSLs
        /\ Open \in SUBSET SSLs /\ WithBIO \in SUBSET SSLs /\ Stapled \in SUBSET SSLs
    BY DEF Users, Open, WithBIO, Stapled
  <1> QED BY <1>1, <1>2

\* ResourcesOwned in these terms.
Counted ==
    /\ \A k \in Ctxs : count[k] = Cardinality(Users(k)) + In(ctx[k].made)
    /\ pools = {k \in Ctxs : ctx[k].made}
    /\ states = Cardinality(Open) /\ bios = Cardinality(WithBIO) /\ blocks = Cardinality(Stapled)

LEMMA CountedOwned == Counted <=> ResourcesOwned
  BY DEF Counted, ResourcesOwned, Users, Open, WithBIO, Stapled, In

\* Nobody comes or goes.
LEMMA CountedSame ==
    ASSUME Counted, UNCHANGED memory,
           \A d \in SSLs : /\ conn'[d].ctx = conn[d].ctx /\ conn'[d].bio = conn[d].bio
                           /\ conn'[d].response = conn[d].response,
           \A k \in Ctxs : ctx'[k].made = ctx[k].made
    PROVE  Counted'
  <1>1. (\A k \in Ctxs : Users(k)' = Users(k))
        /\ Open' = Open /\ WithBIO' = WithBIO /\ Stapled' = Stapled
    BY DEF Users, Open, WithBIO, Stapled
  <1> QED BY <1>1 DEF Counted, memory

LEMMA CountedMake ==
    ASSUME Typed, Counted, NEW k \in Ctxs
    PROVE  /\ \A protocol \in program.protocols, mode \in program.modes : make(k, protocol, mode) => Counted'
           /\ \A step \in MakeSteps : makeFails(k, step) => Counted'
           /\ free(k) => Counted'
  <1> USE DEF Typed
  <1>0. conn' = conn => /\ \A j \in Ctxs : Users(j)' = Users(j)
                        /\ Open' = Open /\ WithBIO' = WithBIO /\ Stapled' = Stapled
    BY DEF Users, Open, WithBIO, Stapled
  <1>1. \A j \in Ctxs : Cardinality(Users(j)) \in Nat /\ ctx[j].made \in BOOLEAN
    BY Sizes, FieldTypes DEF StateOK
  <1>2. ASSUME NEW protocol \in program.protocols, NEW mode \in program.modes, make(k, protocol, mode)
        PROVE  Counted'
    <2>1. /\ count[k] = 0 /\ count' = [count EXCEPT ![k] = 1] /\ pools' = pools \cup {k}
          /\ UNCHANGED <<conn, states, bios, blocks>>
      BY <1>2 DEF make
    <2>2. /\ ctx'[k].made /\ \A j \in Ctxs \ {k} : ctx'[j] = ctx[j]
      <3>1. ctx'[k] = MadeCtx(protocol, mode) /\ \A j \in Ctxs \ {k} : ctx'[j] = ctx[j]
        BY <1>2, MakeEffect, CtxMoves
      <3> QED BY <3>1 DEF MadeCtx
    <2>3. Cardinality(Users(k)) = 0 /\ ~ctx[k].made
      BY <1>1, <2>1 DEF Counted, In
    <2>4. \A j \in Ctxs : count'[j] = Cardinality(Users(j)) + In(ctx'[j].made)
      BY <2>1, <2>2, <2>3 DEF Counted, In, StateOK
    <2>5. pools' = {j \in Ctxs : ctx'[j].made}
      BY <2>1, <2>2 DEF Counted
    <2> QED BY <1>0, <2>1, <2>4, <2>5 DEF Counted
  <1>3. ASSUME NEW step \in MakeSteps, makeFails(k, step)
        PROVE  Counted'
    <2>1. /\ count[k] = 0 /\ UNCHANGED <<ctx, conn, states, bios, blocks>>
          /\ UNCHANGED <<count, pools>> \/ (count' = [count EXCEPT ![k] = 0] /\ UNCHANGED pools)
      BY <1>3 DEF makeFails, cleanup
    <2>2. count' = count
      BY <2>1 DEF StateOK
    <2> QED BY <1>0, <2>1, <2>2 DEF Counted
  <1>4. ASSUME free(k)
        PROVE  Counted'
    <2>1. pools' = pools \ {k} /\ UNCHANGED <<conn, states, bios, blocks>>
      BY <1>4 DEF free
    <2>2. /\ count' = [count EXCEPT ![k] = @ - 1] /\ ctx[k].made
          /\ \A j \in Ctxs : ctx'[j] = IF count'[j] = 0 THEN NoCtx
                                       ELSE IF j = k THEN WithMade(ctx[k], FALSE) ELSE ctx[j]
      BY <1>4, FreeEffect
    <2>3. ~NoCtx.made /\ ~WithMade(ctx[k], FALSE).made
      BY DEF NoCtx, WithMade
    <2>4. \A j \in Ctxs : count'[j] = IF j = k THEN count[j] - 1 ELSE count[j]
      BY <2>2 DEF StateOK
    <2>5. \A j \in Ctxs : ctx'[j].made <=> ctx[j].made /\ j # k
      <3>1. \A j \in Ctxs \ {k} : count'[j] = 0 => ~ctx[j].made
        BY <1>1, <2>4 DEF Counted, In
      <3> QED BY <2>2, <2>3, <3>1
    <2>6. \A j \in Ctxs : count'[j] = Cardinality(Users(j)) + In(ctx'[j].made)
      BY <1>1, <2>2, <2>4, <2>5 DEF Counted, In
    <2>7. pools' = {j \in Ctxs : ctx'[j].made}
      BY <2>1, <2>5 DEF Counted
    <2> QED BY <1>0, <2>1, <2>6, <2>7 DEF Counted
  <1> QED BY <1>2, <1>3, <1>4

LEMMA CountedNew ==
    ASSUME Typed, Counted, NEW c \in SSLs, NEW k \in Ctxs
    PROVE  /\ \A server \in BOOLEAN : newSSL(c, k, server) => Counted'
           /\ newSSLFails(c, k) => Counted'
  <1> USE DEF Typed
  <1>1. ASSUME NEW server \in BOOLEAN, newSSL(c, k, server)
        PROVE  Counted'
    <2>1. /\ count' = [count EXCEPT ![k] = @ + 1] /\ states' = states + 1
          /\ UNCHANGED <<ctx, pools, bios, blocks>>
      BY <1>1 DEF newSSL
    <2>2. NewConn(k, server) \in ConnT /\ conn' = [conn EXCEPT ![c] = NewConn(k, server)]
          /\ conn[c].ctx = NULL
      BY <1>1, NewEffect
    <2>3. conn'[c] = NewConn(k, server) /\ \A d \in SSLs \ {c} : conn'[d] = conn[d]
      BY <2>2, ConnMoves
    <2>4. /\ conn'[c].ctx = k /\ ~conn'[c].bio /\ conn'[c].response = NULL
          /\ conn[c].ctx = NULL /\ ~conn[c].bio /\ conn[c].response = NULL
      BY <2>2, <2>3 DEF NewConn, RunInv
    <2>5. k # NULL /\ \A j \in Ctxs : j # NULL
      BY ArgumentsAssumption
    <2>6. \A j \in Ctxs : Cardinality(Users(j)') = Cardinality(Users(j)) + In(j = k)
      BY <2>3, <2>4, <2>5, SetsMove, Sizes DEF In
    <2>7. /\ Cardinality(Open') = Cardinality(Open) + 1
          /\ Cardinality(WithBIO') = Cardinality(WithBIO)
          /\ Cardinality(Stapled') = Cardinality(Stapled)
      BY <2>3, <2>4, <2>5, SetsMove, Sizes DEF In
    <2>8. \A j \in Ctxs : count'[j] = count[j] + In(j = k)
      BY <2>1 DEF StateOK, In
    <2>9. \A j \in Ctxs : count'[j] = Cardinality(Users(j)') + In(ctx'[j].made)
      BY <2>1, <2>6, <2>8, Sizes DEF Counted, In
    <2> QED BY <2>1, <2>7, <2>9 DEF Counted
  <1>2. ASSUME newSSLFails(c, k)
        PROVE  Counted'
    <2>1. UNCHANGED <<ctx, pools, conn, states, bios, blocks>> /\ count' = [count EXCEPT ![k] = SSL_free(@ + 1)]
      BY <1>2 DEF newSSLFails
    <2>2. count' = count
      BY <2>1 DEF SSL_free, StateOK
    <2> QED BY <2>1, <2>2, CountedSame DEF memory
  <1> QED BY <1>1, <1>2

LEMMA CountedConn ==
    ASSUME Typed, Counted, NEW c \in SSLs
    PROVE  /\ bioNewByteBuffer(c) => Counted'
           /\ bioNewByteBufferFails(c) => Counted'
           /\ freeSSL(c) => Counted'
           /\ \A response \in Responses, fails \in BOOLEAN : setOcspResponse(c, response, fails) => Counted'
  <1> USE DEF Typed
  <1>0. /\ \A j \in Ctxs : Cardinality(Users(j)) \in Nat /\ ctx[j].made \in BOOLEAN
        /\ conn[c].bio \in BOOLEAN
    BY Sizes, FieldTypes DEF StateOK
  <1>1. ASSUME bioNewByteBuffer(c)
        PROVE  Counted'
    <2>1. /\ bios' = bios + 1 - (IF conn[c].bio THEN 1 ELSE 0)
          /\ UNCHANGED <<ctx, count, pools, states, blocks>>
      BY <1>1 DEF bioNewByteBuffer
    <2>2. conn' = [conn EXCEPT ![c] = WithBio(conn[c], TRUE)] /\ WithBio(conn[c], TRUE) \in ConnT
      BY <1>1, FieldEffect, WithTypes DEF StateOK
    <2>3. conn'[c] = WithBio(conn[c], TRUE) /\ \A d \in SSLs \ {c} : conn'[d] = conn[d]
      BY <2>2, ConnMoves
    <2>4. conn'[c].ctx = conn[c].ctx /\ conn'[c].bio /\ conn'[c].response = conn[c].response
      BY <2>3 DEF WithBio
    <2>5. /\ \A j \in Ctxs : Cardinality(Users(j)') = Cardinality(Users(j))
          /\ Cardinality(Open') = Cardinality(Open)
          /\ Cardinality(Stapled') = Cardinality(Stapled)
      <3>1. (\A j \in Ctxs : Users(j)' = Users(j)) /\ Open' = Open /\ Stapled' = Stapled
        BY <2>3, <2>4 DEF Users, Open, Stapled
      <3> QED BY <3>1
    <2>6. Cardinality(WithBIO') = Cardinality(WithBIO) + 1 - In(conn[c].bio)
      <3>1. In(conn'[c].bio) = 1
        BY <2>4 DEF In
      <3> QED BY <2>3, <3>1, SetsMove
    <2> QED BY <2>1, <2>5, <2>6 DEF Counted, In
  <1>2. ASSUME freeSSL(c)
        PROVE  Counted'
    <2> DEFINE k == conn[c].ctx
    <2>1. /\ states' = states - 1 /\ pools' = pools
          /\ bios' = (IF conn[c].bio THEN bios - 1 ELSE bios)
          /\ blocks' = (IF conn[c].response # NULL THEN blocks - 1 ELSE blocks)
      BY <1>2 DEF freeSSL
    <2>2. /\ k \in Ctxs /\ conn'[c] = NoConn /\ (\A d \in SSLs \ {c} : conn'[d] = conn[d])
          /\ count' = [count EXCEPT ![k] = @ - 1]
          /\ \A j \in Ctxs : ctx'[j] = IF count'[j] = 0 THEN NoCtx ELSE ctx[j]
      BY <1>2, FreeSSLEffect
    <2>3. k # NULL /\ (\A j \in Ctxs : j # NULL)
      BY <2>2, ArgumentsAssumption
    <2>4. conn'[c].ctx = NULL /\ ~conn'[c].bio /\ conn'[c].response = NULL
      BY <2>2 DEF NoConn
    <2>5. \A j \in Ctxs : Cardinality(Users(j)') = Cardinality(Users(j)) - In(j = k)
      BY <2>2, <2>3, <2>4, SetsMove, Sizes DEF In
    <2>6. /\ Cardinality(Open') = Cardinality(Open) - 1
          /\ Cardinality(WithBIO') = Cardinality(WithBIO) - In(conn[c].bio)
          /\ Cardinality(Stapled') = Cardinality(Stapled) - In(conn[c].response # NULL)
      BY <2>2, <2>3, <2>4, SetsMove, Sizes DEF In
    <2>7. \A j \in Ctxs : count'[j] = count[j] - In(j = k)
      BY <2>2 DEF StateOK, In
    <2>8. \A j \in Ctxs : Cardinality(Users(j)') \in Nat
      <3>1. \A j \in Ctxs : Users(j)' \in SUBSET SSLs
        BY DEF Users
      <3> QED BY <3>1, ArgumentsAssumption, FS_Subset, FS_CardinalityType
    <2>9. \A j \in Ctxs : ctx'[j].made <=> ctx[j].made
      <3>1. \A j \in Ctxs : count'[j] = 0 => ~ctx[j].made
        BY <1>0, <2>5, <2>7, <2>8 DEF Counted, In
      <3>2. ~NoCtx.made
        BY DEF NoCtx
      <3> QED BY <2>2, <3>1, <3>2
    <2>10. \A j \in Ctxs : count'[j] = Cardinality(Users(j)') + In(ctx'[j].made)
      BY <1>0, <2>5, <2>7, <2>9 DEF Counted, In
    <2>11. pools' = {j \in Ctxs : ctx'[j].made}
      BY <2>1, <2>9 DEF Counted
    <2>12. /\ states' = Cardinality(Open') /\ bios' = Cardinality(WithBIO')
           /\ blocks' = Cardinality(Stapled')
      BY <2>1, <2>6, Sizes DEF Counted, In
    <2> QED BY <2>10, <2>11, <2>12 DEF Counted
  <1>3. ASSUME NEW response \in Responses, NEW fails \in BOOLEAN, setOcspResponse(c, response, fails)
        PROVE  Counted'
    <2>1. UNCHANGED <<ctx, count, pools, states, bios>>
      BY <1>3, ResponseEffect
    <2>2. PICK after \in Responses \cup {NULL} :
                 /\ conn' = [conn EXCEPT ![c] = WithResponse(conn[c], after)]
                 /\ blocks' = blocks + (IF after # NULL THEN 1 ELSE 0)
                                     - (IF conn[c].response # NULL THEN 1 ELSE 0)
      BY <1>3, ResponseEffect
    <2>3. WithResponse(conn[c], after) \in ConnT
      BY WithTypes DEF StateOK
    <2>4. conn'[c] = WithResponse(conn[c], after) /\ \A d \in SSLs \ {c} : conn'[d] = conn[d]
      BY <2>2, <2>3, ConnMoves
    <2>5. conn'[c].ctx = conn[c].ctx /\ conn'[c].bio = conn[c].bio /\ conn'[c].response = after
      BY <2>4 DEF WithResponse
    <2>6. /\ \A j \in Ctxs : Cardinality(Users(j)') = Cardinality(Users(j))
          /\ Cardinality(Open') = Cardinality(Open)
          /\ Cardinality(WithBIO') = Cardinality(WithBIO)
          /\ Cardinality(Stapled') = Cardinality(Stapled) + In(after # NULL) - In(conn[c].response # NULL)
      BY <2>4, <2>5, SetsMove, Sizes DEF In
    <2> QED BY <2>1, <2>2, <2>6 DEF Counted, In
  <1>4. ASSUME bioNewByteBufferFails(c)
        PROVE  Counted'
    <2>1. UNCHANGED <<ctx, count, pools, states, blocks, conn>> /\ bios' = BIO_free(bios + 1)
      BY <1>4 DEF bioNewByteBufferFails
    <2>2. bios' = bios
      BY <2>1 DEF BIO_free, StateOK
    <2> QED BY <2>1, <2>2, CountedSame DEF memory
  <1> QED BY <1>1, <1>2, <1>3, <1>4

\* The other steps.
LEMMA CountedOther ==
    ASSUME Typed, Counted
    PROVE  /\ UNCHANGED vars \/ SecondHalf \/ Handshake => Counted'
           /\ \A k \in Ctxs :
                 /\ \A versions \in Options :
                       SSLContext_setOptions(k, versions) \/ SSLContext_clearOptions(k, versions) => Counted'
                 /\ \A client \in BOOLEAN : SSLContext_enableOcsp(k, client) => Counted'
                 /\ SSLContext_disableOcsp(k) => Counted'
           /\ \A c \in SSLs :
                 /\ \A versions \in Options : SSL_setOptions(c, versions) \/ SSL_clearOptions(c, versions) => Counted'
                 /\ SSL_enableOcsp(c) => Counted'
                 /\ \A s \in SSLs : doHandshake(c, s) => Counted'
  <1> USE DEF Typed
  <1>1. ASSUME NEW k \in Ctxs, NEW r \in CtxT, ctx' = [ctx EXCEPT ![k] = r], r.made = ctx[k].made,
               UNCHANGED <<memory, conn>>
        PROVE  Counted'
    <2>1. \A j \in Ctxs : ctx'[j].made = ctx[j].made
      BY <1>1, CtxMoves
    <2> QED BY <1>1, <2>1, CountedSame
  <1>2. ASSUME NEW c \in SSLs, NEW r \in ConnT, conn' = [conn EXCEPT ![c] = r], UNCHANGED <<memory, ctx>>,
               r.ctx = conn[c].ctx, r.bio = conn[c].bio, r.response = conn[c].response
        PROVE  Counted'
    <2>1. \A d \in SSLs : /\ conn'[d].ctx = conn[d].ctx /\ conn'[d].bio = conn[d].bio
                          /\ conn'[d].response = conn[d].response
      BY <1>2, ConnMoves
    <2> QED BY <1>2, <2>1, CountedSame
  <1>3. ASSUME UNCHANGED vars PROVE Counted'
    BY <1>3, CountedSame DEF vars
  <1>4. ASSUME SecondHalf PROVE Counted'
    <2>1. UNCHANGED <<memory, conn>>
      BY <1>4 DEF SecondHalf
    <2>2. /\ WithCb(ctx[config.ctx], TRUE).made = ctx[config.ctx].made
          /\ WithArg(ctx[config.ctx], NULL).made = ctx[config.ctx].made
      BY DEF WithCb, WithArg
    <2> QED BY <1>1, <1>4, <2>1, <2>2, SecondEffect
  <1>5. ASSUME Handshake PROVE Counted'
    <2>1. UNCHANGED <<memory, ctx>> /\ Running
      BY <1>5, HandshakeEffect
    <2>2. CASE conn' = conn
      BY <2>1, <2>2, CountedSame
    <2>3. CASE conn' = Done
      <3>1. /\ conn'[hs.client] = WithGot(conn[hs.client], hs.staple, 1)
            /\ conn'[hs.server] = WithCompleted(conn[hs.server], 1)
            /\ \A d \in SSLs \ {hs.client, hs.server} : conn'[d] = conn[d]
        BY <2>1, <2>3, DoneEffect
      <3>2. \A d \in SSLs : /\ conn'[d].ctx = conn[d].ctx /\ conn'[d].bio = conn[d].bio
                            /\ conn'[d].response = conn[d].response
        BY <3>1 DEF WithGot, WithCompleted
      <3> QED BY <2>1, <3>2, CountedSame
    <2> QED BY <1>5, <2>2, <2>3, HandshakeEffect
  <1>6. ASSUME NEW k \in Ctxs, NEW versions \in Options,
               SSLContext_setOptions(k, versions) \/ SSLContext_clearOptions(k, versions)
        PROVE  Counted'
    <2>1. PICK off, wanted \in SUBSET Versions :
                 ctx' = [ctx EXCEPT ![k] = WithCtxOptions(ctx[k], off, wanted)]
      BY <1>6, CtxOptionsEffect
    <2>2. UNCHANGED <<memory, conn>>
      BY <1>6 DEF SSLContext_setOptions, SSLContext_clearOptions
    <2>3. WithCtxOptions(ctx[k], off, wanted) \in CtxT
      BY WithTypes DEF StateOK
    <2>4. WithCtxOptions(ctx[k], off, wanted).made = ctx[k].made
      BY DEF WithCtxOptions
    <2> QED BY <1>1, <2>1, <2>2, <2>3, <2>4
  <1>7. ASSUME NEW k \in Ctxs, NEW client \in BOOLEAN, SSLContext_enableOcsp(k, client) PROVE Counted'
    <2>1. UNCHANGED <<memory, conn>>
      BY <1>7 DEF SSLContext_enableOcsp
    <2>2. WithArg(ctx[k], IF client THEN 1 ELSE 0).made = ctx[k].made
      BY DEF WithArg
    <2> QED BY <1>1, <1>7, <2>1, <2>2, EnableEffect
  <1>8. ASSUME NEW k \in Ctxs, SSLContext_disableOcsp(k) PROVE Counted'
    <2>1. UNCHANGED <<memory, conn>>
      BY <1>8 DEF SSLContext_disableOcsp
    <2>2. WithCb(ctx[k], FALSE).made = ctx[k].made
      BY DEF WithCb
    <2> QED BY <1>1, <1>8, <2>1, <2>2, DisableEffect
  <1>9. ASSUME NEW c \in SSLs, NEW versions \in Options,
               SSL_setOptions(c, versions) \/ SSL_clearOptions(c, versions)
        PROVE  Counted'
    <2>1. PICK off, wanted \in SUBSET Versions :
                 conn' = [conn EXCEPT ![c] = WithOptions(conn[c], off, wanted)]
      BY <1>9, OptionsEffect
    <2>2. UNCHANGED <<memory, ctx>>
      BY <1>9 DEF SSL_setOptions, SSL_clearOptions
    <2>3. WithOptions(conn[c], off, wanted) \in ConnT
      BY WithTypes DEF StateOK
    <2>4. LET r == WithOptions(conn[c], off, wanted)
          IN  r.ctx = conn[c].ctx /\ r.bio = conn[c].bio /\ r.response = conn[c].response
      BY DEF WithOptions
    <2> QED BY <1>2, <2>1, <2>2, <2>3, <2>4
  <1>10. ASSUME NEW c \in SSLs, SSL_enableOcsp(c) PROVE Counted'
    <2>1. UNCHANGED <<memory, ctx>>
      BY <1>10 DEF SSL_enableOcsp
    <2>2. conn' = [conn EXCEPT ![c] = WithStatus(conn[c], TRUE)] /\ WithStatus(conn[c], TRUE) \in ConnT
      BY <1>10, FieldEffect, WithTypes DEF StateOK
    <2>3. LET r == WithStatus(conn[c], TRUE)
          IN  r.ctx = conn[c].ctx /\ r.bio = conn[c].bio /\ r.response = conn[c].response
      BY DEF WithStatus
    <2> QED BY <1>2, <2>1, <2>2, <2>3
  <1>11. ASSUME NEW c \in SSLs, NEW s \in SSLs, doHandshake(c, s) PROVE Counted'
    <2>1. UNCHANGED <<memory, ctx>>
      BY <1>11 DEF doHandshake
    <2>2. /\ conn'[c] = WithHandshakes(conn[c], 1) /\ conn'[s] = WithHandshakes(conn[s], 1)
          /\ \A d \in SSLs \ {c, s} : conn'[d] = conn[d]
      BY <1>11, DoHandshakeEffect
    <2>3. \A d \in SSLs : /\ conn'[d].ctx = conn[d].ctx /\ conn'[d].bio = conn[d].bio
                          /\ conn'[d].response = conn[d].response
      BY <2>2 DEF WithHandshakes
    <2> QED BY <2>1, <2>3, CountedSame
  <1> QED BY <1>3, <1>4, <1>5, <1>6, <1>7, <1>8, <1>9, <1>10, <1>11

LEMMA CountedStep == Typed /\ Counted /\ [Next]_vars => Counted'
  <1> SUFFICES ASSUME Typed, Counted, [Next]_vars PROVE Counted'
    OBVIOUS
  <1>1. CASE UNCHANGED vars \/ Handshake
    BY <1>1, CountedOther
  <1>2. CASE Configure
    BY <1>2, CountedMake, CountedOther DEF Configure
  <1>3. CASE Connect
    BY <1>3, CountedNew, CountedConn, CountedOther DEF Connect
  <1> QED BY <1>1, <1>2, <1>3 DEF Next

Base == Typed /\ Counted

LEMMA BaseInit == Init => Base
  <1> SUFFICES ASSUME Init PROVE Base
    OBVIOUS
  <1>1. StateOK
    BY NoRecords DEF Init, StateOK
  <1>2. RunInv
    BY DEF Init, RunInv, NoConn, NoHs, Running
  <1>3. /\ \A k \in Ctxs : Users(k) = {} /\ ~ctx[k].made
        /\ Open = {} /\ WithBIO = {} /\ Stapled = {}
    <2>1. (\A c \in SSLs : conn[c] = NoConn) /\ (\A k \in Ctxs : ctx[k] = NoCtx) /\ (\A k \in Ctxs : k # NULL)
      BY ArgumentsAssumption DEF Init
    <2>2. NoConn.ctx = NULL /\ ~NoConn.bio /\ NoConn.response = NULL /\ ~NoCtx.made
      BY DEF NoConn, NoCtx
    <2> QED BY <2>1, <2>2 DEF Users, Open, WithBIO, Stapled
  <1>4. Counted
    BY <1>3, FS_EmptySet DEF Init, Counted, In
  <1> QED BY <1>1, <1>2, <1>4 DEF Base, Typed

LEMMA BaseStep == Base /\ [Next]_vars => Base'
  BY TypedStep, CountedStep DEF Base

LEMMA BaseCorrect == Spec => []Base
  BY BaseInit, BaseStep, PTL DEF Spec

\* Programs, contexts and connections keep to the types, and no counter goes below
\* zero, whatever the calls of a program are (make, newSSL, freeSSL and the others).
THEOREM TypeCorrect == Spec => []TypeOK
  <1>1. Base => TypeOK
    <2> SUFFICES ASSUME Base PROVE TypeOK
      OBVIOUS
    <2>1. count \in [Ctxs -> Nat]
      <3>1. \A k \in Ctxs : count[k] \in Nat
        BY Sizes DEF Base, Counted, In
      <3>2. count \in [Ctxs -> Int]
        BY DEF Base, Typed, StateOK
      <3> QED BY <3>1, <3>2
    <2>2. states \in Nat /\ bios \in Nat /\ blocks \in Nat
      BY Sizes DEF Base, Counted
    <2> QED BY <2>1, <2>2 DEF Base, Typed, StateOK, TypeOK, CtxT, ConnT
  <1> QED BY <1>1, BaseCorrect, PTL

\* Whatever is made, replaced, freed or fails half-way in make, newSSL,
\* bioNewByteBuffer and setOcspResponse, nothing is leaked and nothing is freed
\* twice, for any number of contexts and connections freed in any order.
THEOREM ResourcesOwnedCorrect == Spec => []ResourcesOwned
  <1>1. Base => ResourcesOwned
    BY CountedOwned DEF Base
  <1> QED BY <1>1, BaseCorrect, PTL

-----------------------------------------------------------------------------
(* What a handshake has read from a context stays true of it.              *)

LEMMA Nonempty ==
    ASSUME NEW S \in SUBSET SSLs, NEW c \in S
    PROVE  Cardinality(S) \in Nat \ {0}
  <1>1. IsFiniteSet(S) /\ Cardinality(S) \in Nat /\ S # {}
    BY ArgumentsAssumption, FS_Subset, FS_CardinalityType
  <1> QED BY <1>1, FS_EmptySet

\* A connection has a reference to its SSL_CTX.
Referenced == \A c \in SSLs : conn[c].ctx # NULL => conn[c].ctx \in Ctxs /\ count[conn[c].ctx] > 0

LEMMA BaseReferenced == Base => Referenced
  <1> SUFFICES ASSUME Base, NEW c \in SSLs, conn[c].ctx # NULL
               PROVE  conn[c].ctx \in Ctxs /\ count[conn[c].ctx] > 0
    BY DEF Referenced
  <1>1. conn[c].ctx \in Ctxs /\ ctx[conn[c].ctx].made \in BOOLEAN
    BY FieldTypes DEF Base, Typed, StateOK
  <1>2. Users(conn[c].ctx) \in SUBSET SSLs /\ c \in Users(conn[c].ctx)
    BY DEF Users
  <1>3. Cardinality(Users(conn[c].ctx)) \in Nat \ {0}
    BY <1>2, Nonempty
  <1> QED BY <1>1, <1>3 DEF Base, Counted, In

\* The steps that write the OCSP settings of a context.
OcspStep ==
    \/ SecondHalf
    \/ \E k \in Ctxs : SSLContext_disableOcsp(k) \/ \E client \in BOOLEAN : SSLContext_enableOcsp(k, client)

Stays(k) ==
    /\ ctx'[k].mode = ctx[k].mode /\ ctx'[k].speaks = ctx[k].speaks
    /\ ctx'[k].protocol = ctx[k].protocol
Quiet(k) == Stays(k) /\ ctx'[k].cb = ctx[k].cb /\ ctx'[k].arg = ctx[k].arg

\* A context that a connection uses before and after a step.
LEMMA ContextStays ==
    ASSUME Base, Base', [Next]_vars, NEW c \in SSLs, conn[c].ctx # NULL, conn'[c].ctx = conn[c].ctx
    PROVE  Stays(conn[c].ctx) /\ (OcspStep \/ Quiet(conn[c].ctx))
  <1> DEFINE k == conn[c].ctx
  <1>1. k \in Ctxs /\ count[k] > 0
    BY BaseReferenced DEF Referenced
  <1>2. count'[k] > 0
    <2>1. Referenced'
      BY BaseReferenced, PTL
    <2> QED BY <2>1 DEF Referenced
  <1> USE DEF Base, Typed
  <1> HIDE DEF k
  <1>3. ASSUME NEW j \in Ctxs, NEW r \in CtxT, ctx' = [ctx EXCEPT ![j] = r],
               r.mode = ctx[j].mode, r.speaks = ctx[j].speaks, r.protocol = ctx[j].protocol
        PROVE  Stays(k) /\ (r.cb = ctx[j].cb /\ r.arg = ctx[j].arg => Quiet(k))
    BY <1>1, <1>3, CtxMoves DEF Stays, Quiet
  <1>4. ctx' = ctx => Stays(k) /\ Quiet(k)
    BY DEF Stays, Quiet
  <1>5. CASE UNCHANGED vars \/ Handshake
    BY <1>4, <1>5, HandshakeEffect DEF vars, k
  <1>6. CASE Connect
    <2>1. CASE ctx' = ctx
      BY <1>4, <2>1 DEF k
    <2>2. CASE \E d \in SSLs : freeSSL(d)
      <3>1. ctx'[k] = ctx[k]
        BY <1>1, <1>2, <2>2, FreeSSLEffect
      <3> QED BY <3>1 DEF Stays, Quiet, k
    <2> QED BY <1>6, <2>1, <2>2 DEF Connect, newSSL, newSSLFails, bioNewByteBuffer, bioNewByteBufferFails,
               SSL_enableOcsp, SSL_setOptions, SSL_clearOptions, setOcspResponse, doHandshake
  <1>7. CASE SecondHalf
    <2>1. /\ LET r == WithCb(ctx[config.ctx], TRUE)
             IN  /\ r.mode = ctx[config.ctx].mode /\ r.speaks = ctx[config.ctx].speaks
                 /\ r.protocol = ctx[config.ctx].protocol
          /\ LET r == WithArg(ctx[config.ctx], NULL)
             IN  /\ r.mode = ctx[config.ctx].mode /\ r.speaks = ctx[config.ctx].speaks
                 /\ r.protocol = ctx[config.ctx].protocol
      BY DEF WithCb, WithArg
    <2>2. Stays(k)
      BY <1>3, <1>7, <2>1, SecondEffect
    <2> QED BY <1>7, <2>2 DEF OcspStep, k
  <1>8. ASSUME NEW j \in Ctxs, SSLContext_disableOcsp(j)
        PROVE  Stays(k) /\ OcspStep
    <2>1. LET r == WithCb(ctx[j], FALSE)
          IN  r.mode = ctx[j].mode /\ r.speaks = ctx[j].speaks /\ r.protocol = ctx[j].protocol
      BY DEF WithCb
    <2> QED BY <1>3, <1>8, <2>1, DisableEffect DEF OcspStep
  <1>9. ASSUME NEW j \in Ctxs, NEW client \in BOOLEAN, SSLContext_enableOcsp(j, client)
        PROVE  Stays(k) /\ OcspStep
    <2>1. LET r == WithArg(ctx[j], IF client THEN 1 ELSE 0)
          IN  r.mode = ctx[j].mode /\ r.speaks = ctx[j].speaks /\ r.protocol = ctx[j].protocol
      BY DEF WithArg
    <2> QED BY <1>3, <1>9, <2>1, EnableEffect DEF OcspStep
  <1>10. ASSUME NEW j \in Ctxs, NEW versions \in Options,
                SSLContext_setOptions(j, versions) \/ SSLContext_clearOptions(j, versions)
         PROVE  Quiet(k)
    <2>1. PICK off, wanted \in SUBSET Versions :
                 ctx' = [ctx EXCEPT ![j] = WithCtxOptions(ctx[j], off, wanted)]
      BY <1>10, CtxOptionsEffect
    <2>2. WithCtxOptions(ctx[j], off, wanted) \in CtxT
      BY WithTypes DEF StateOK
    <2>3. LET r == WithCtxOptions(ctx[j], off, wanted)
          IN  /\ r.mode = ctx[j].mode /\ r.speaks = ctx[j].speaks /\ r.protocol = ctx[j].protocol
              /\ r.cb = ctx[j].cb /\ r.arg = ctx[j].arg
      BY DEF WithCtxOptions
    <2> QED BY <1>3, <2>1, <2>2, <2>3
  <1>11. ASSUME NEW j \in Ctxs, free(j)
         PROVE  Quiet(k)
    <2>1. ctx'[k] = IF k = j THEN WithMade(ctx[k], FALSE) ELSE ctx[k]
      <3>1. count'[k] # 0
        BY <1>2
      <3>2. \A i \in Ctxs : ctx'[i] = IF count'[i] = 0 THEN NoCtx
                                      ELSE IF i = j THEN WithMade(ctx[j], FALSE) ELSE ctx[i]
        BY <1>11, FreeEffect
      <3> QED BY <1>1, <3>1, <3>2
    <2> QED BY <2>1 DEF Quiet, Stays, WithMade
  <1>12. ASSUME NEW j \in Ctxs, NEW protocol \in program.protocols, NEW mode \in program.modes,
                make(j, protocol, mode)
         PROVE  Quiet(k)
    <2>1. count[j] = 0
      BY <1>12 DEF make
    <2>2. j # k
      BY <1>1, <2>1
    <2>3. ctx'[k] = ctx[k]
      BY <1>1, <1>12, <2>2, MakeEffect, CtxMoves
    <2> QED BY <2>3 DEF Quiet, Stays
  <1>13. ASSUME NEW j \in Ctxs, NEW step \in MakeSteps, makeFails(j, step)
         PROVE  Quiet(k)
    BY <1>4, <1>13 DEF makeFails
  <1>14. CASE Configure
    BY <1>7, <1>8, <1>9, <1>10, <1>11, <1>12, <1>13, <1>14 DEF Configure, Quiet, k
  <1> QED BY <1>5, <1>6, <1>14 DEF Next

\* Whoever takes part in a handshake, running or over, goes on as it was.
Sides == {hs.client, hs.server}

SameSides ==
    /\ hs.pc # "none" /\ hs'.client = hs.client /\ hs'.server = hs.server
    /\ hs'.version = hs.version /\ hs'.cw = hs.cw /\ hs'.sw = hs.sw
    /\ \A c \in Sides : conn'[c].ctx = conn[c].ctx /\ conn'[c].server = conn[c].server

\* Nothing that the staple depends on has changed.
SteadySides ==
    hs'.steady =>
       /\ hs.steady /\ ~OcspStep /\ config' = config
       /\ conn'[hs.client].status = conn[hs.client].status
       /\ conn'[hs.server].response = conn[hs.server].response

\* The handshake has not moved.
SamePlace == hs'.pc = hs.pc /\ hs'.staple = hs.staple /\ conn'[hs.client].got = conn[hs.client].got

\* A connection that is no side of the handshake is given a record.
LEMMA OtherConn ==
    ASSUME Typed, hs' = hs, config' = config, ~OcspStep, hs.pc # "none", NEW c \in SSLs, c \notin Sides,
           \A d \in SSLs \ {c} : conn'[d] = conn[d]
    PROVE  SameSides /\ SteadySides /\ SamePlace
  <1>1. hs.client \in SSLs /\ hs.server \in SSLs
    BY DEF Typed, RunInv
  <1>2. \A d \in Sides : conn'[d] = conn[d]
    BY <1>1 DEF Sides
  <1> QED BY <1>2 DEF SameSides, SteadySides, SamePlace, Sides

\* A call on a connection that leaves what the handshake needs.
LEMMA HarmlessConn ==
    ASSUME Typed, hs' = hs, config' = config, ~OcspStep, hs.pc # "none", NEW c \in SSLs, NEW r \in ConnT,
           conn' = [conn EXCEPT ![c] = r], r.ctx = conn[c].ctx, r.server = conn[c].server,
           r.status = conn[c].status, r.response = conn[c].response, r.got = conn[c].got
    PROVE  SameSides /\ SteadySides /\ SamePlace
  <1>1. hs.client \in SSLs /\ hs.server \in SSLs
    BY DEF Typed, RunInv
  <1>2. conn'[c] = r /\ \A d \in SSLs \ {c} : conn'[d] = conn[d]
    BY ConnMoves DEF Typed
  <1>3. \A d \in Sides : /\ conn'[d].ctx = conn[d].ctx /\ conn'[d].server = conn[d].server
                         /\ conn'[d].status = conn[d].status /\ conn'[d].response = conn[d].response
                         /\ conn'[d].got = conn[d].got
    BY <1>1, <1>2 DEF Sides
  <1> QED BY <1>3 DEF SameSides, SteadySides, SamePlace, Sides

\* OCSP settings are written: the handshake is not steady any more.
LEMMA OcspEffect ==
    ASSUME Typed, OcspStep
    PROVE  hs' = WithSteady(hs, FALSE) /\ UNCHANGED <<program, memory, conn, crashed>>
  <1> USE DEF Typed
  <1>1. UNCHANGED <<program, memory, conn, crashed>>
    BY DEF OcspStep, SecondHalf, SSLContext_disableOcsp, SSLContext_enableOcsp
  <1>2. ASSUME SecondHalf PROVE hs' = WithSteady(hs, FALSE)
    BY <1>2, SecondEffect
  <1>3. ASSUME NEW k \in Ctxs, SSLContext_disableOcsp(k) PROVE hs' = WithSteady(hs, FALSE)
    BY <1>3, DisableEffect
  <1>4. ASSUME NEW k \in Ctxs, NEW client \in BOOLEAN, SSLContext_enableOcsp(k, client)
        PROVE  hs' = WithSteady(hs, FALSE)
    BY <1>4, EnableEffect
  <1> QED BY <1>1, <1>2, <1>3, <1>4 DEF OcspStep

LEMMA UnsteadySides ==
    ASSUME Typed, hs' = WithSteady(hs, FALSE), hs'.pc # "none",
           \A d \in Sides : conn'[d].ctx = conn[d].ctx /\ conn'[d].server = conn[d].server
                            /\ conn'[d].got = conn[d].got
    PROVE  SameSides /\ SteadySides /\ SamePlace
  <1>1. /\ hs'.pc = hs.pc /\ hs'.client = hs.client /\ hs'.server = hs.server
        /\ hs'.version = hs.version /\ hs'.cw = hs.cw /\ hs'.sw = hs.sw /\ hs'.staple = hs.staple
        /\ ~hs'.steady
    BY DEF WithSteady
  <1> QED BY <1>1 DEF SameSides, SteadySides, SamePlace, Sides

\* The frame of a handshake: every step but its start and its own steps.
LEMMA HsFrame ==
    ASSUME Typed, [Next]_vars, ~Handshake, \A c, s \in SSLs : ~doHandshake(c, s), hs'.pc # "none"
    PROVE  SameSides /\ SteadySides /\ SamePlace
  <1> USE DEF Typed
  <1>1. CASE OcspStep
    BY <1>1, OcspEffect, UnsteadySides
  <1>2. CASE ~OcspStep /\ conn' = conn /\ hs' = hs /\ config' = config
    BY <1>2 DEF SameSides, SteadySides, SamePlace
  <1>3. CASE ~OcspStep /\ Connect
    <2>1. ASSUME NEW c \in SSLs, NEW k \in Ctxs, NEW server \in BOOLEAN, newSSL(c, k, server)
          PROVE  SameSides /\ SteadySides /\ SamePlace
      <3>1. hs' = hs /\ config' = config
        BY <2>1 DEF newSSL
      <3>2. \A d \in SSLs \ {c} : conn'[d] = conn[d]
        BY <2>1, NewEffect, ConnMoves
      <3>3. c \notin Sides
        BY <2>1, <3>1 DEF newSSL, RunInv, Sides
      <3> QED BY <1>3, <3>1, <3>2, <3>3, OtherConn
    <2>2. ASSUME NEW c \in SSLs, SSL_enableOcsp(c)
          PROVE  SameSides /\ SteadySides /\ SamePlace
      <3>1. hs' = hs /\ config' = config /\ conn[c].handshakeCount = 0
        BY <2>2 DEF SSL_enableOcsp
      <3>2. conn' = [conn EXCEPT ![c] = WithStatus(conn[c], TRUE)] /\ WithStatus(conn[c], TRUE) \in ConnT
        BY <2>2, FieldEffect, WithTypes DEF StateOK
      <3>3. \A d \in SSLs \ {c} : conn'[d] = conn[d]
        BY <3>2, ConnMoves
      <3>4. c \notin Sides
        BY <3>1 DEF RunInv, Sides
      <3> QED BY <1>3, <3>1, <3>3, <3>4, OtherConn
    <2>3. ASSUME NEW c \in SSLs, bioNewByteBuffer(c)
          PROVE  SameSides /\ SteadySides /\ SamePlace
      <3>1. hs' = hs /\ config' = config
        BY <2>3 DEF bioNewByteBuffer
      <3>2. conn' = [conn EXCEPT ![c] = WithBio(conn[c], TRUE)] /\ WithBio(conn[c], TRUE) \in ConnT
        BY <2>3, FieldEffect, WithTypes DEF StateOK
      <3>3. LET r == WithBio(conn[c], TRUE)
            IN  /\ r.ctx = conn[c].ctx /\ r.server = conn[c].server /\ r.status = conn[c].status
                /\ r.response = conn[c].response /\ r.got = conn[c].got
        BY DEF WithBio
      <3> QED BY <1>3, <3>1, <3>2, <3>3, HarmlessConn
    <2>4. ASSUME NEW c \in SSLs, NEW versions \in Options,
                 SSL_setOptions(c, versions) \/ SSL_clearOptions(c, versions)
          PROVE  SameSides /\ SteadySides /\ SamePlace
      <3>1. hs' = hs /\ config' = config
        BY <2>4 DEF SSL_setOptions, SSL_clearOptions
      <3>2. PICK off, wanted \in SUBSET Versions :
                   conn' = [conn EXCEPT ![c] = WithOptions(conn[c], off, wanted)]
        BY <2>4, OptionsEffect
      <3>3. WithOptions(conn[c], off, wanted) \in ConnT
        BY WithTypes DEF StateOK
      <3>4. LET r == WithOptions(conn[c], off, wanted)
            IN  /\ r.ctx = conn[c].ctx /\ r.server = conn[c].server /\ r.status = conn[c].status
                /\ r.response = conn[c].response /\ r.got = conn[c].got
        BY DEF WithOptions
      <3> QED BY <1>3, <3>1, <3>2, <3>3, <3>4, HarmlessConn
    <2>5. ASSUME NEW c \in SSLs, NEW response \in Responses, NEW fails \in BOOLEAN,
                 setOcspResponse(c, response, fails)
          PROVE  SameSides /\ SteadySides /\ SamePlace
      <3>1. hs' = WithSteady(hs, FALSE)
        BY <2>5, ResponseEffect
      <3>2. PICK after \in Responses \cup {NULL} :
                   /\ conn' = [conn EXCEPT ![c] = WithResponse(conn[c], after)]
                   /\ blocks' = blocks + (IF after # NULL THEN 1 ELSE 0)
                                       - (IF conn[c].response # NULL THEN 1 ELSE 0)
        BY <2>5, ResponseEffect
      <3>3. WithResponse(conn[c], after) \in ConnT
        BY WithTypes DEF StateOK
      <3>4. \A d \in SSLs : conn'[d].ctx = conn[d].ctx /\ conn'[d].server = conn[d].server
                            /\ conn'[d].got = conn[d].got
        BY <3>2, <3>3, ConnMoves DEF WithResponse
      <3>5. hs.client \in SSLs /\ hs.server \in SSLs
        BY <3>1 DEF WithSteady, RunInv
      <3>6. \A d \in Sides : conn'[d].ctx = conn[d].ctx /\ conn'[d].server = conn[d].server
                             /\ conn'[d].got = conn[d].got
        BY <3>4, <3>5 DEF Sides
      <3> QED BY <3>1, <3>6, UnsteadySides
    <2>6. ASSUME NEW c \in SSLs, freeSSL(c)
          PROVE  SameSides /\ SteadySides /\ SamePlace
      <3>1. c \notin Sides /\ hs' = hs /\ config' = config
        BY <2>6, FreeSSLEffect DEF NoHs, Sides, freeSSL
      <3>2. \A d \in SSLs \ {c} : conn'[d] = conn[d]
        BY <2>6, FreeSSLEffect
      <3> QED BY <1>3, <3>1, <3>2, OtherConn
    <2>7. ASSUME NEW c \in SSLs, bioNewByteBufferFails(c) \/ \E k \in Ctxs : newSSLFails(c, k)
          PROVE  SameSides /\ SteadySides /\ SamePlace
      BY <1>2, <1>3, <2>7 DEF bioNewByteBufferFails, newSSLFails
    <2> QED BY <1>3, <2>1, <2>2, <2>3, <2>4, <2>5, <2>6, <2>7 DEF Connect
  <1>4. CASE ~OcspStep /\ Configure
    <2>1. conn' = conn /\ hs' = hs /\ config' = config
      BY <1>4 DEF Configure, OcspStep, make, makeFails, free, SSLContext_setOptions, SSLContext_clearOptions
    <2> QED BY <1>2, <1>4, <2>1
  <1>5. CASE UNCHANGED vars
    BY <1>1, <1>2, <1>5 DEF vars
  <1> QED BY <1>1, <1>3, <1>4, <1>5 DEF Next

-----------------------------------------------------------------------------
(* The version of a handshake.                                             *)

LEMMA ProgramStays == [Next]_vars => program' = program
  BY DEF Next, Configure, Connect, Handshake, vars, make, makeFails, free, SSLContext_setOptions,
         SSLContext_clearOptions, SSLContext_enableOcsp, SSLContext_disableOcsp, SecondHalf, newSSL,
         newSSLFails, bioNewByteBuffer, bioNewByteBufferFails, freeSSL, SSL_enableOcsp, SSL_setOptions,
         SSL_clearOptions, setOcspResponse, doHandshake, ServerStatus, openssl_ocsp_callback_server,
         ClientStatus, openssl_ocsp_callback_client

\* Exactly the versions that are not wanted are switched off.
CtxVersions(k) ==
    /\ ctx[k].speaks \subseteq build.versions
    /\ ctx[k].made => /\ ctx[k].off = Versions \ ctx[k].wanted
                      /\ ctx[k].speaks = method(build, ctx[k].protocol)

ConnVersions(c) == conn[c].ctx # NULL => conn[c].off = Versions \ conn[c].wanted

\* The method of a connection is the one make picked.
ConnMethod(c) == conn[c].ctx # NULL => CtxOf(c).speaks = method(build, CtxOf(c).protocol)

\* What a side offers that wants these versions.
Offers(c, wanted) == IF Chooses(c) THEN CtxOf(c).speaks \cap wanted ELSE CtxOf(c).speaks

\* A handshake has settled on what its sides wanted when it began.
HsVersions ==
    hs.pc # "none" => hs.version = Settled(build, Offers(hs.client, hs.cw), Offers(hs.server, hs.sw))

VersionsInv ==
    /\ \A k \in Ctxs : CtxVersions(k)
    /\ \A c \in SSLs : ConnVersions(c)
    /\ \A c \in SSLs : ConnMethod(c)
    /\ HsVersions

LEMMA CtxVersionsStep ==
    ASSUME Typed, [Next]_vars, \A k \in Ctxs : CtxVersions(k)
    PROVE  \A k \in Ctxs : CtxVersions(k)'
  <1> USE DEF Typed
  <1>0. build' = build
    BY ProgramStays DEF build
  <1>1. ASSUME NEW k \in Ctxs, NEW r \in CtxT, ctx' = [ctx EXCEPT ![k] = r],
               r.speaks \subseteq build.versions, r.made => r.off = Versions \ r.wanted,
               r.made => r.speaks = method(build, r.protocol)
        PROVE  \A j \in Ctxs : CtxVersions(j)'
    <2>1. ctx'[k] = r /\ \A j \in Ctxs \ {k} : ctx'[j] = ctx[j]
      BY <1>1, CtxMoves
    <2> QED BY <1>0, <1>1, <2>1 DEF CtxVersions
  <1>2. ctx' = ctx => \A j \in Ctxs : CtxVersions(j)'
    BY <1>0 DEF CtxVersions
  <1>3. ASSUME NEW k \in Ctxs, NEW r \in CtxT, ctx' = [ctx EXCEPT ![k] = r],
               r.speaks = ctx[k].speaks, r.made = ctx[k].made, r.off = ctx[k].off, r.wanted = ctx[k].wanted,
               r.protocol = ctx[k].protocol
        PROVE  \A j \in Ctxs : CtxVersions(j)'
    <2>1. /\ r.speaks \subseteq build.versions /\ (r.made => r.off = Versions \ r.wanted)
          /\ r.made => r.speaks = method(build, r.protocol)
      BY <1>3 DEF CtxVersions
    <2> QED BY <1>1, <1>3, <2>1
  <1>4. ASSUME NEW k \in Ctxs, NEW protocol \in program.protocols, NEW mode \in program.modes,
               make(k, protocol, mode)
        PROVE  \A j \in Ctxs : CtxVersions(j)'
    <2> DEFINE r == MadeCtx(protocol, mode)
    <2>1. r \in CtxT /\ ctx' = [ctx EXCEPT ![k] = r]
      BY <1>4, MakeEffect
    <2>2. /\ r.speaks = method(build, protocol) /\ r.off = SwitchedOff(protocol)
          /\ r.wanted = protocol \cup {TLSV1_3} /\ r.protocol = protocol
      BY DEF MadeCtx
    <2>3. method(build, protocol) \subseteq build.versions
      BY ProgramType, MethodType
    <2>4. SwitchedOff(protocol) = Versions \ (protocol \cup {TLSV1_3})
      <3>1. SwitchedOff(protocol) = (0 .. 4) \ protocol
        BY DEF SwitchedOff, SSLV2, TLSV1_2
      <3> QED BY <3>1, VersionSet
    <2> HIDE DEF r
    <2> QED BY <1>1, <2>1, <2>2, <2>3, <2>4
  <1>5. ASSUME NEW k \in Ctxs, free(k)
        PROVE  \A j \in Ctxs : CtxVersions(j)'
    <2>1. \A j \in Ctxs : ctx'[j] \in {NoCtx, ctx[j], WithMade(ctx[j], FALSE)}
      BY <1>5, FreeEffect
    <2>2. NoCtx.speaks = {} /\ ~NoCtx.made
      BY DEF NoCtx
    <2>3. \A j \in Ctxs : WithMade(ctx[j], FALSE).speaks = ctx[j].speaks /\ ~WithMade(ctx[j], FALSE).made
      BY DEF WithMade
    <2> QED BY <1>0, <2>1, <2>2, <2>3 DEF CtxVersions
  <1>6. ASSUME NEW c \in SSLs, freeSSL(c)
        PROVE  \A j \in Ctxs : CtxVersions(j)'
    <2>1. \A j \in Ctxs : ctx'[j] \in {NoCtx, ctx[j]}
      BY <1>6, FreeSSLEffect
    <2>2. NoCtx.speaks = {} /\ ~NoCtx.made
      BY DEF NoCtx
    <2> QED BY <1>0, <2>1, <2>2 DEF CtxVersions
  <1>7. ASSUME NEW k \in Ctxs, NEW versions \in Options,
               SSLContext_setOptions(k, versions) \/ SSLContext_clearOptions(k, versions)
        PROVE  \A j \in Ctxs : CtxVersions(j)'
    <2>1. PICK off, wanted \in SUBSET Versions :
                 /\ ctx' = [ctx EXCEPT ![k] = WithCtxOptions(ctx[k], off, wanted)]
                 /\ ctx[k].off = Versions \ ctx[k].wanted => off = Versions \ wanted
      BY <1>7, CtxOptionsEffect
    <2>2. ctx[k].made
      BY <1>7 DEF SSLContext_setOptions, SSLContext_clearOptions
    <2>3. WithCtxOptions(ctx[k], off, wanted) \in CtxT
      BY WithTypes DEF StateOK
    <2>4. LET r == WithCtxOptions(ctx[k], off, wanted)
          IN  /\ r.speaks = ctx[k].speaks /\ r.off = off /\ r.wanted = wanted
              /\ r.protocol = ctx[k].protocol
      BY DEF WithCtxOptions
    <2>5. /\ off = Versions \ wanted /\ ctx[k].speaks \subseteq build.versions
          /\ ctx[k].speaks = method(build, ctx[k].protocol)
      BY <2>1, <2>2 DEF CtxVersions
    <2> QED BY <1>1, <2>1, <2>3, <2>4, <2>5
  <1>8. ASSUME NEW k \in Ctxs, NEW client \in BOOLEAN, SSLContext_enableOcsp(k, client)
        PROVE  \A j \in Ctxs : CtxVersions(j)'
    <2>1. LET r == WithArg(ctx[k], IF client THEN 1 ELSE 0)
          IN  /\ r.speaks = ctx[k].speaks /\ r.made = ctx[k].made
              /\ r.off = ctx[k].off /\ r.wanted = ctx[k].wanted /\ r.protocol = ctx[k].protocol
      BY DEF WithArg
    <2>2. /\ ctx' = [ctx EXCEPT ![k] = WithArg(ctx[k], IF client THEN 1 ELSE 0)]
          /\ WithArg(ctx[k], IF client THEN 1 ELSE 0) \in CtxT
      BY <1>8, EnableEffect
    <2> QED BY <1>3, <2>1, <2>2
  <1>9. ASSUME NEW k \in Ctxs, SSLContext_disableOcsp(k)
        PROVE  \A j \in Ctxs : CtxVersions(j)'
    <2>1. LET r == WithCb(ctx[k], FALSE)
          IN  /\ r.speaks = ctx[k].speaks /\ r.made = ctx[k].made
              /\ r.off = ctx[k].off /\ r.wanted = ctx[k].wanted /\ r.protocol = ctx[k].protocol
      BY DEF WithCb
    <2> QED BY <1>3, <1>9, <2>1, DisableEffect
  <1>10. ASSUME SecondHalf
         PROVE  \A j \in Ctxs : CtxVersions(j)'
    <2> DEFINE k == config.ctx
    <2>1. LET r == WithCb(ctx[k], TRUE)
          IN  /\ r.speaks = ctx[k].speaks /\ r.made = ctx[k].made
              /\ r.off = ctx[k].off /\ r.wanted = ctx[k].wanted /\ r.protocol = ctx[k].protocol
      BY DEF WithCb
    <2>2. LET r == WithArg(ctx[k], NULL)
          IN  /\ r.speaks = ctx[k].speaks /\ r.made = ctx[k].made
              /\ r.off = ctx[k].off /\ r.wanted = ctx[k].wanted /\ r.protocol = ctx[k].protocol
      BY DEF WithArg
    <2> QED BY <1>3, <1>10, <2>1, <2>2, SecondEffect
  <1>11. CASE Configure
    BY <1>2, <1>4, <1>5, <1>7, <1>8, <1>9, <1>10, <1>11 DEF Configure, makeFails
  <1>12. CASE Connect
    BY <1>2, <1>6, <1>12 DEF Connect, newSSL, newSSLFails, bioNewByteBuffer, bioNewByteBufferFails,
           SSL_enableOcsp, SSL_setOptions, SSL_clearOptions, setOcspResponse, doHandshake
  <1>13. CASE UNCHANGED vars \/ Handshake
    BY <1>2, <1>13, HandshakeEffect DEF vars
  <1> QED BY <1>11, <1>12, <1>13 DEF Next

LEMMA ConnVersionsStep ==
    ASSUME Typed, [Next]_vars, \A k \in Ctxs : CtxVersions(k), \A c \in SSLs : ConnVersions(c)
    PROVE  \A c \in SSLs : ConnVersions(c)'
  <1> USE DEF Typed
  <1>1. ASSUME NEW c \in SSLs, NEW r \in ConnT, conn' = [conn EXCEPT ![c] = r],
               r.ctx # NULL => r.off = Versions \ r.wanted
        PROVE  \A d \in SSLs : ConnVersions(d)'
    <2>1. conn'[c] = r /\ \A d \in SSLs \ {c} : conn'[d] = conn[d]
      BY <1>1, ConnMoves
    <2> QED BY <1>1, <2>1 DEF ConnVersions
  <1>2. ASSUME NEW c \in SSLs, NEW r \in ConnT, conn' = [conn EXCEPT ![c] = r],
               r.ctx = conn[c].ctx, r.off = conn[c].off, r.wanted = conn[c].wanted
        PROVE  \A d \in SSLs : ConnVersions(d)'
    BY <1>1, <1>2 DEF ConnVersions
  <1>3. conn' = conn => \A d \in SSLs : ConnVersions(d)'
    BY DEF ConnVersions
  <1>4. ASSUME \A d \in SSLs : /\ conn'[d].ctx = conn[d].ctx
                               /\ conn'[d].off = conn[d].off /\ conn'[d].wanted = conn[d].wanted
        PROVE  \A d \in SSLs : ConnVersions(d)'
    BY <1>4 DEF ConnVersions
  <1>5. ASSUME NEW c \in SSLs, NEW k \in Ctxs, NEW server \in BOOLEAN, newSSL(c, k, server)
        PROVE  \A d \in SSLs : ConnVersions(d)'
    <2>1. /\ NewConn(k, server) \in ConnT /\ conn' = [conn EXCEPT ![c] = NewConn(k, server)]
          /\ ctx[k].made
      BY <1>5, NewEffect
    <2>2. NewConn(k, server).off = ctx[k].off /\ NewConn(k, server).wanted = ctx[k].wanted
      BY DEF NewConn
    <2>3. ctx[k].off = Versions \ ctx[k].wanted
      BY <2>1 DEF CtxVersions
    <2> QED BY <1>1, <2>1, <2>2, <2>3
  <1>6. ASSUME NEW c \in SSLs, freeSSL(c)
        PROVE  \A d \in SSLs : ConnVersions(d)'
    <2>1. conn'[c] = NoConn /\ \A d \in SSLs \ {c} : conn'[d] = conn[d]
      BY <1>6, FreeSSLEffect
    <2> QED BY <2>1 DEF ConnVersions, NoConn
  <1>7. ASSUME NEW c \in SSLs, NEW versions \in Options,
               SSL_setOptions(c, versions) \/ SSL_clearOptions(c, versions)
        PROVE  \A d \in SSLs : ConnVersions(d)'
    <2>1. PICK off, wanted \in SUBSET Versions :
                 /\ conn' = [conn EXCEPT ![c] = WithOptions(conn[c], off, wanted)]
                 /\ conn[c].off = Versions \ conn[c].wanted => off = Versions \ wanted
      BY <1>7, OptionsEffect
    <2>2. WithOptions(conn[c], off, wanted) \in ConnT
      BY WithTypes DEF StateOK
    <2>3. LET r == WithOptions(conn[c], off, wanted)
          IN  r.ctx = conn[c].ctx /\ r.off = off /\ r.wanted = wanted
      BY DEF WithOptions
    <2>4. conn[c].ctx # NULL => off = Versions \ wanted
      BY <2>1 DEF ConnVersions
    <2> QED BY <1>1, <2>1, <2>2, <2>3, <2>4
  <1>8. ASSUME NEW c \in SSLs, bioNewByteBuffer(c) \/ SSL_enableOcsp(c)
        PROVE  \A d \in SSLs : ConnVersions(d)'
    <2>1. /\ WithBio(conn[c], TRUE) \in ConnT /\ WithStatus(conn[c], TRUE) \in ConnT
          /\ \/ conn' = [conn EXCEPT ![c] = WithBio(conn[c], TRUE)]
             \/ conn' = [conn EXCEPT ![c] = WithStatus(conn[c], TRUE)]
      BY <1>8, FieldEffect, WithTypes DEF StateOK
    <2>2. \A r \in {WithBio(conn[c], TRUE), WithStatus(conn[c], TRUE)} :
             r.ctx = conn[c].ctx /\ r.off = conn[c].off /\ r.wanted = conn[c].wanted
      BY DEF WithBio, WithStatus
    <2> QED BY <1>2, <2>1, <2>2
  <1>9. ASSUME NEW c \in SSLs, NEW response \in Responses, NEW fails \in BOOLEAN,
               setOcspResponse(c, response, fails)
        PROVE  \A d \in SSLs : ConnVersions(d)'
    <2>1. PICK after \in Responses \cup {NULL} :
                 /\ conn' = [conn EXCEPT ![c] = WithResponse(conn[c], after)]
                 /\ blocks' = blocks + (IF after # NULL THEN 1 ELSE 0)
                                     - (IF conn[c].response # NULL THEN 1 ELSE 0)
      BY <1>9, ResponseEffect
    <2>2. WithResponse(conn[c], after) \in ConnT
      BY WithTypes DEF StateOK
    <2>3. LET r == WithResponse(conn[c], after)
          IN  r.ctx = conn[c].ctx /\ r.off = conn[c].off /\ r.wanted = conn[c].wanted
      BY DEF WithResponse
    <2> QED BY <1>2, <2>1, <2>2, <2>3
  <1>10. ASSUME NEW c \in SSLs, NEW s \in SSLs, doHandshake(c, s)
         PROVE  \A d \in SSLs : ConnVersions(d)'
    <2>1. /\ conn'[c] = WithHandshakes(conn[c], 1) /\ conn'[s] = WithHandshakes(conn[s], 1)
          /\ \A d \in SSLs \ {c, s} : conn'[d] = conn[d]
      BY <1>10, DoHandshakeEffect
    <2>2. \A d \in SSLs : /\ conn'[d].ctx = conn[d].ctx
                          /\ conn'[d].off = conn[d].off /\ conn'[d].wanted = conn[d].wanted
      BY <2>1 DEF WithHandshakes
    <2> QED BY <1>4, <2>2
  <1>11. CASE Handshake
    <2>1. CASE conn' = conn
      BY <1>3, <2>1
    <2>2. CASE conn' = Done
      <3>1. /\ conn'[hs.client] = WithGot(conn[hs.client], hs.staple, 1)
            /\ conn'[hs.server] = WithCompleted(conn[hs.server], 1)
            /\ \A d \in SSLs \ {hs.client, hs.server} : conn'[d] = conn[d]
        BY <1>11, <2>2, HandshakeEffect, DoneEffect
      <3>2. \A d \in SSLs : /\ conn'[d].ctx = conn[d].ctx
                            /\ conn'[d].off = conn[d].off /\ conn'[d].wanted = conn[d].wanted
        BY <3>1 DEF WithGot, WithCompleted
      <3> QED BY <1>4, <3>2
    <2> QED BY <1>11, <2>1, <2>2, HandshakeEffect
  <1>12. CASE Connect
    BY <1>3, <1>5, <1>6, <1>7, <1>8, <1>9, <1>10, <1>12 DEF Connect, newSSLFails, bioNewByteBufferFails
  <1>13. CASE UNCHANGED vars \/ Configure
    BY <1>3, <1>13 DEF vars, Configure, make, makeFails, free, SSLContext_setOptions,
           SSLContext_clearOptions, SSLContext_enableOcsp, SSLContext_disableOcsp, SecondHalf
  <1> QED BY <1>11, <1>12, <1>13 DEF Next

\* A connection belongs to the context and the side it was made for.
Kept(c) == conn'[c].ctx = conn[c].ctx /\ conn'[c].server = conn[c].server
Made(c) == \E k \in Ctxs, server \in BOOLEAN : newSSL(c, k, server) /\ conn'[c] = NewConn(k, server)

LEMMA SideStep ==
    ASSUME Typed, [Next]_vars, NEW d \in SSLs
    PROVE  Kept(d) \/ Made(d) \/ conn'[d].ctx = NULL
  <1> USE DEF Typed
  <1>1. conn' = conn => Kept(d)
    BY DEF Kept
  <1>2. ASSUME NEW c \in SSLs, NEW r \in ConnT, conn' = [conn EXCEPT ![c] = r],
               r.ctx = conn[c].ctx, r.server = conn[c].server
        PROVE  Kept(d)
    <2>1. conn'[c] = r /\ \A e \in SSLs \ {c} : conn'[e] = conn[e]
      BY <1>2, ConnMoves
    <2> QED BY <1>2, <2>1 DEF Kept
  <1>3. ASSUME NEW c \in SSLs, NEW k \in Ctxs, NEW server \in BOOLEAN, newSSL(c, k, server)
        PROVE  Kept(d) \/ Made(d)
    <2>1. conn'[c] = NewConn(k, server) /\ \A e \in SSLs \ {c} : conn'[e] = conn[e]
      BY <1>3, NewEffect, ConnMoves
    <2> QED BY <1>3, <2>1 DEF Kept, Made
  <1>4. ASSUME NEW c \in SSLs, freeSSL(c)
        PROVE  Kept(d) \/ conn'[d].ctx = NULL
    <2>1. conn'[c] = NoConn /\ \A e \in SSLs \ {c} : conn'[e] = conn[e]
      BY <1>4, FreeSSLEffect
    <2> QED BY <2>1 DEF Kept, NoConn
  <1>5. ASSUME NEW c \in SSLs, NEW versions \in Options,
               SSL_setOptions(c, versions) \/ SSL_clearOptions(c, versions)
        PROVE  Kept(d)
    <2>1. PICK off, wanted \in SUBSET Versions :
                 /\ conn' = [conn EXCEPT ![c] = WithOptions(conn[c], off, wanted)]
                 /\ conn[c].off = Versions \ conn[c].wanted => off = Versions \ wanted
      BY <1>5, OptionsEffect
    <2>2. WithOptions(conn[c], off, wanted) \in ConnT
      BY WithTypes DEF StateOK
    <2>3. LET r == WithOptions(conn[c], off, wanted) IN r.ctx = conn[c].ctx /\ r.server = conn[c].server
      BY DEF WithOptions
    <2> QED BY <1>2, <2>1, <2>2, <2>3
  <1>6. ASSUME NEW c \in SSLs, bioNewByteBuffer(c) \/ SSL_enableOcsp(c)
        PROVE  Kept(d)
    <2>1. /\ WithBio(conn[c], TRUE) \in ConnT /\ WithStatus(conn[c], TRUE) \in ConnT
          /\ \/ conn' = [conn EXCEPT ![c] = WithBio(conn[c], TRUE)]
             \/ conn' = [conn EXCEPT ![c] = WithStatus(conn[c], TRUE)]
      BY <1>6, FieldEffect, WithTypes DEF StateOK
    <2>2. \A r \in {WithBio(conn[c], TRUE), WithStatus(conn[c], TRUE)} :
             r.ctx = conn[c].ctx /\ r.server = conn[c].server
      BY DEF WithBio, WithStatus
    <2> QED BY <1>2, <2>1, <2>2
  <1>7. ASSUME NEW c \in SSLs, NEW response \in Responses, NEW fails \in BOOLEAN,
               setOcspResponse(c, response, fails)
        PROVE  Kept(d)
    <2>1. PICK after \in Responses \cup {NULL} :
                 /\ conn' = [conn EXCEPT ![c] = WithResponse(conn[c], after)]
                 /\ blocks' = blocks + (IF after # NULL THEN 1 ELSE 0)
                                     - (IF conn[c].response # NULL THEN 1 ELSE 0)
      BY <1>7, ResponseEffect
    <2>2. WithResponse(conn[c], after) \in ConnT
      BY WithTypes DEF StateOK
    <2>3. LET r == WithResponse(conn[c], after) IN r.ctx = conn[c].ctx /\ r.server = conn[c].server
      BY DEF WithResponse
    <2> QED BY <1>2, <2>1, <2>2, <2>3
  <1>8. ASSUME NEW c \in SSLs, NEW s \in SSLs, doHandshake(c, s)
        PROVE  Kept(d)
    <2>1. /\ conn'[c] = WithHandshakes(conn[c], 1) /\ conn'[s] = WithHandshakes(conn[s], 1)
          /\ \A e \in SSLs \ {c, s} : conn'[e] = conn[e]
      BY <1>8, DoHandshakeEffect
    <2> QED BY <2>1 DEF Kept, WithHandshakes
  <1>9. CASE Handshake
    <2>1. CASE conn' = Done
      <3>1. /\ conn'[hs.client] = WithGot(conn[hs.client], hs.staple, 1)
            /\ conn'[hs.server] = WithCompleted(conn[hs.server], 1)
            /\ \A e \in SSLs \ {hs.client, hs.server} : conn'[e] = conn[e]
        BY <1>9, <2>1, HandshakeEffect, DoneEffect
      <3> QED BY <3>1 DEF Kept, WithGot, WithCompleted
    <2> QED BY <1>1, <1>9, <2>1, HandshakeEffect
  <1>10. CASE Connect
    BY <1>1, <1>3, <1>4, <1>5, <1>6, <1>7, <1>8, <1>10 DEF Connect, newSSLFails, bioNewByteBufferFails
  <1>11. CASE UNCHANGED vars \/ Configure
    BY <1>1, <1>11 DEF vars, Configure, make, makeFails, free, SSLContext_setOptions,
           SSLContext_clearOptions, SSLContext_enableOcsp, SSLContext_disableOcsp, SecondHalf
  <1> QED BY <1>9, <1>10, <1>11 DEF Next

LEMMA ConnMethodStep ==
    ASSUME Base, Base', [Next]_vars, VersionsInv, NEW c \in SSLs
    PROVE  ConnMethod(c)'
  <1>0. build' = build
    BY ProgramStays DEF build
  <1>1. CASE Kept(c) /\ conn'[c].ctx # NULL
    <2>1. Stays(conn[c].ctx)
      BY <1>1, ContextStays DEF Kept
    <2>2. ConnMethod(c)
      BY DEF VersionsInv
    <2> QED BY <1>0, <1>1, <2>1, <2>2 DEF ConnMethod, Kept, Stays, CtxOf
  <1>2. CASE Made(c)
    <2>1. PICK k \in Ctxs, server \in BOOLEAN : newSSL(c, k, server) /\ conn'[c] = NewConn(k, server)
      BY <1>2 DEF Made
    <2>2. ctx[k].made /\ ctx' = ctx
      BY <2>1 DEF newSSL
    <2>3. conn'[c].ctx = k
      BY <2>1 DEF NewConn
    <2>4. ctx[k].speaks = method(build, ctx[k].protocol)
      BY <2>2 DEF VersionsInv, CtxVersions
    <2> QED BY <1>0, <2>2, <2>3, <2>4 DEF ConnMethod, CtxOf
  <1> QED BY <1>1, <1>2, SideStep DEF ConnMethod, Base

\* The sides of a handshake that are there before and after a step.
LEMMA SidesStay ==
    ASSUME Base, Base', [Next]_vars, SameSides
    PROVE  /\ hs.client \in SSLs /\ hs.server \in SSLs
           /\ \A c \in Sides : /\ c \in SSLs /\ conn[c].ctx \in Ctxs /\ conn'[c].ctx = conn[c].ctx
                               /\ Stays(conn[c].ctx) /\ (OcspStep \/ Quiet(conn[c].ctx))
  <1>1. /\ hs.client \in SSLs /\ hs.server \in SSLs
        /\ conn[hs.client].ctx # NULL /\ conn[hs.server].ctx # NULL
    BY DEF Base, Typed, RunInv, SameSides
  <1>2. \A c \in Sides : c \in SSLs /\ conn[c].ctx # NULL /\ conn'[c].ctx = conn[c].ctx
    BY <1>1 DEF SameSides, Sides
  <1>3. \A c \in Sides : conn[c].ctx \in Ctxs
    BY <1>2, BaseReferenced DEF Referenced
  <1> QED BY <1>1, <1>2, <1>3, ContextStays

\* The own steps of a handshake keep its sides.
LEMMA HandshakeSides ==
    ASSUME Typed, Handshake
    PROVE  SameSides /\ hs'.steady = hs.steady
  <1> USE DEF Typed
  <1>1. /\ hs'.client = hs.client /\ hs'.server = hs.server /\ hs'.version = hs.version
        /\ hs'.cw = hs.cw /\ hs'.sw = hs.sw /\ hs'.steady = hs.steady
    BY HandshakeEffect DEF WithPc, WithStaple
  <1>2. Running /\ hs.pc # "none"
    BY HandshakeEffect DEF Running
  <1>3. CASE conn' = conn
    BY <1>1, <1>2, <1>3 DEF SameSides
  <1>4. CASE conn' = Done
    <2>1. /\ conn'[hs.client] = WithGot(conn[hs.client], hs.staple, 1)
          /\ conn'[hs.server] = WithCompleted(conn[hs.server], 1)
      BY <1>2, <1>4, DoneEffect
    <2>2. \A c \in Sides : conn'[c].ctx = conn[c].ctx /\ conn'[c].server = conn[c].server
      BY <2>1 DEF Sides, WithGot, WithCompleted
    <2> QED BY <1>1, <1>2, <2>2 DEF SameSides
  <1> QED BY <1>3, <1>4, HandshakeEffect

LEMMA HsVersionsStep ==
    ASSUME Base, Base', [Next]_vars, VersionsInv
    PROVE  HsVersions'
  <1> USE DEF Base
  <1>0. build' = build
    BY ProgramStays DEF build
  <1>1. ASSUME SameSides
        PROVE  HsVersions'
    <2>1. \A c \in Sides : /\ ctx'[conn'[c].ctx].speaks = ctx[conn[c].ctx].speaks
                           /\ ctx'[conn'[c].ctx].protocol = ctx[conn[c].ctx].protocol
      BY <1>1, SidesStay DEF Stays
    <2>2. /\ hs'.client = hs.client /\ hs'.server = hs.server /\ hs'.cw = hs.cw /\ hs'.sw = hs.sw
          /\ hs'.version = hs.version /\ (hs'.pc # "none" => hs.pc # "none")
      BY <1>1 DEF SameSides
    <2>3. /\ Offers(hs.client, hs.cw)' = Offers(hs.client, hs.cw)
          /\ Offers(hs.server, hs.sw)' = Offers(hs.server, hs.sw)
      BY <1>0, <2>1, <2>2 DEF Sides, Offers, Chooses, CtxOf
    <2> QED BY <1>0, <2>2, <2>3 DEF HsVersions, VersionsInv
  <1>2. ASSUME NEW c \in SSLs, NEW s \in SSLs, doHandshake(c, s)
        PROVE  HsVersions'
    <2>1. /\ hs'.client = c /\ hs'.server = s /\ hs'.version = Settled(build, Speaks(c), Speaks(s))
          /\ hs'.cw = conn[c].wanted /\ hs'.sw = conn[s].wanted /\ ctx' = ctx
          /\ conn[c].ctx \in Ctxs /\ conn[s].ctx \in Ctxs
          /\ conn'[c] = WithHandshakes(conn[c], 1) /\ conn'[s] = WithHandshakes(conn[s], 1)
      BY <1>2, DoHandshakeEffect DEF doHandshake, Typed
    <2>2. ctx'[conn'[c].ctx] = CtxOf(c) /\ ctx'[conn'[s].ctx] = CtxOf(s)
      BY <2>1 DEF CtxOf, WithHandshakes
    <2>3. /\ CtxOf(c).speaks \subseteq Versions /\ CtxOf(s).speaks \subseteq Versions
      BY <2>1, FieldTypes DEF CtxOf, Typed, StateOK
    <2>4. conn[c].off = Versions \ conn[c].wanted /\ conn[s].off = Versions \ conn[s].wanted
      BY <2>1, ArgumentsAssumption DEF VersionsInv, ConnVersions
    <2>5. Speaks(c) = Offers(c, conn[c].wanted) /\ Speaks(s) = Offers(s, conn[s].wanted)
      BY <2>3, <2>4 DEF Speaks, Offers
    <2>6. /\ Offers(hs.client, hs.cw)' = Offers(c, conn[c].wanted)
          /\ Offers(hs.server, hs.sw)' = Offers(s, conn[s].wanted)
      BY <1>0, <2>1, <2>2 DEF Offers, Chooses, CtxOf
    <2> QED BY <1>0, <2>1, <2>5, <2>6 DEF HsVersions
  <1>3. CASE Handshake
    BY <1>1, <1>3, HandshakeSides
  <1>4. CASE hs'.pc = "none"
    BY <1>4 DEF HsVersions
  <1> QED BY <1>1, <1>2, <1>3, <1>4, HsFrame

LEMMA VersionsCorrect == Spec => []VersionsInv
  <1>1. Init => VersionsInv
    BY DEF Init, VersionsInv, CtxVersions, ConnVersions, ConnMethod, HsVersions, NoCtx, NoConn, NoHs
  <1>2. Base /\ Base' /\ VersionsInv /\ [Next]_vars => VersionsInv'
    BY CtxVersionsStep, ConnVersionsStep, ConnMethodStep, HsVersionsStep DEF VersionsInv, Base
  <1> QED BY <1>1, <1>2, BaseCorrect, PTL DEF Spec

\* A handshake never settles on a version that make or an option switched off for a side
\* that chooses its version, and between two such sides it settles on the best version
\* both want where none of them wants a gap, for every build and every order of calls
\* (make, setOptions, clearOptions, newSSL).  A context for one version of OpenSSL before
\* 1.1.0 does not choose: it is bound by neither clause.
THEOREM NegotiatesBestCorrect == Spec => []NegotiatesBest
  <1>1. Base /\ VersionsInv => NegotiatesBest
    <2> SUFFICES ASSUME Base, VersionsInv, hs.pc # "none"
                 PROVE  LET wanted == hs.cw \cap hs.sw \cap build.versions IN
                        /\ Chooses(hs.client) => hs.version \subseteq hs.cw
                        /\ Chooses(hs.server) => hs.version \subseteq hs.sw
                        /\ (/\ Chooses(hs.client) /\ Chooses(hs.server)
                            /\ \A versions \in {hs.cw, hs.sw} : Contiguous(versions \cap build.versions))
                           => hs.version = IF wanted = {} THEN {} ELSE {Max(wanted)}
      BY DEF NegotiatesBest
    <2> DEFINE wanted == hs.cw \cap hs.sw \cap build.versions
               C == Offers(hs.client, hs.cw)
               S == Offers(hs.server, hs.sw)
    <2>1. /\ hs.client \in SSLs /\ hs.server \in SSLs /\ conn[hs.client].ctx \in Ctxs /\ conn[hs.server].ctx \in Ctxs
          /\ conn[hs.client].ctx # NULL /\ conn[hs.server].ctx # NULL
      BY BaseReferenced DEF Base, Typed, RunInv, Referenced
    <2>2. CtxOf(hs.client).speaks \subseteq build.versions /\ CtxOf(hs.server).speaks \subseteq build.versions
      BY <2>1 DEF VersionsInv, CtxVersions, CtxOf
    <2>3. build \in Builds /\ build.versions \in SUBSET Versions
      BY ProgramType DEF Base, Typed, Builds
    <2>4. hs.version = Settled(build, C, S)
      BY DEF VersionsInv, HsVersions
    <2>5. /\ C \in SUBSET Versions /\ S \in SUBSET Versions
          /\ Chooses(hs.client) => C \subseteq hs.cw
          /\ Chooses(hs.server) => S \subseteq hs.sw
      BY <2>2, <2>3 DEF Offers
    <2>6. /\ hs.version \subseteq C \cap S
          /\ Contiguous(C) /\ Contiguous(S) => hs.version = Best(C \cap S)
      <3> HIDE DEF C, S, wanted
      <3>1. build \in Builds /\ C \in SUBSET Versions /\ S \in SUBSET Versions
        BY <2>3, <2>5
      <3>2. Settled(build, C, S) \subseteq C \cap S
        BY <3>1, SettledBest
      <3>3. Contiguous(C) /\ Contiguous(S) => Settled(build, C, S) = Best(C \cap S)
        BY <3>1, SettledBest
      <3> QED BY <2>4, <3>2, <3>3
    <2>7. ASSUME Chooses(hs.client), Chooses(hs.server),
                 Contiguous(hs.cw \cap build.versions), Contiguous(hs.sw \cap build.versions)
          PROVE  hs.version = IF wanted = {} THEN {} ELSE {Max(wanted)}
      <3>1. \A c \in {hs.client, hs.server} : CtxOf(c).speaks = build.versions
        BY <2>1, <2>7 DEF VersionsInv, ConnMethod, Chooses, method
      <3>2. C = hs.cw \cap build.versions /\ S = hs.sw \cap build.versions /\ C \cap S = wanted
        BY <2>7, <3>1 DEF Offers
      <3> HIDE DEF C, S, wanted
      <3> QED BY <2>6, <2>7, <3>2 DEF Best
    <2> HIDE DEF C, S
    <2> QED BY <2>5, <2>6, <2>7
  <1> QED BY <1>1, BaseCorrect, VersionsCorrect, PTL

-----------------------------------------------------------------------------
(* The OCSP callback and its argument.                                     *)

\* A call of enableOcsp or disableOcsp is about a context that is there.
ConfigInv ==
    config # NULL => ctx[config.ctx].made /\ (config.name = "disableOcsp" => Uses("disableOcsp"))

\* As long as nobody disables OCSP, the argument is there before the callback is, and
\* therefore when the library calls it.
ArgInv ==
    ~Uses("disableOcsp") =>
       /\ crashed # "ocsp"
       /\ \A k \in Ctxs : ctx[k].cb => ctx[k].arg # NULL
       /\ config # NULL => ctx[config.ctx].arg # NULL
       /\ hs.pc = "server callback" => CtxOf(hs.server).arg # NULL
       /\ hs.pc = "client callback" => CtxOf(hs.client).arg # NULL

\* The contexts in a step that does not write their OCSP settings: they keep them,
\* or have no callback afterwards.
LEMMA CtxFrame ==
    ASSUME Base, Base', [Next]_vars, ~OcspStep, NEW k \in Ctxs
    PROVE  /\ Quiet(k) \/ ~ctx'[k].cb
           /\ config # NULL /\ ctx[k].made => Quiet(k) /\ ctx'[k].made
           /\ config' = config
  <1> USE DEF Base, Typed
  <1>1. ctx' = ctx /\ config' = config => Quiet(k) /\ (ctx[k].made => ctx'[k].made) /\ config' = config
    BY DEF Quiet, Stays
  <1>2. ~NoCtx.cb /\ ~NoCtx.made
    BY DEF NoCtx
  <1>3. CASE UNCHANGED vars \/ Handshake
    BY <1>1, <1>3, HandshakeEffect DEF vars
  <1>4. ASSUME NEW c \in SSLs, freeSSL(c)
        PROVE  (Quiet(k) \/ ~ctx'[k].cb) /\ (ctx[k].made => Quiet(k) /\ ctx'[k].made) /\ config' = config
    <2>1. config' = config /\ pools' = pools
      BY <1>4 DEF freeSSL
    <2>2. ctx'[k] \in {NoCtx, ctx[k]}
      BY <1>4, FreeSSLEffect
    <2>3. ctx[k].made => ctx'[k].made
      BY <2>1 DEF Counted
    <2> QED BY <1>2, <2>1, <2>2, <2>3 DEF Quiet, Stays
  <1>5. CASE Connect
    <2>1. CASE ctx' = ctx /\ config' = config
      BY <1>1, <2>1
    <2> QED BY <1>4, <1>5, <2>1 DEF Connect, newSSL, newSSLFails, bioNewByteBuffer, bioNewByteBufferFails,
               SSL_enableOcsp, SSL_setOptions, SSL_clearOptions, setOcspResponse, doHandshake
  <1>6. ASSUME NEW j \in Ctxs, NEW versions \in Options,
               SSLContext_setOptions(j, versions) \/ SSLContext_clearOptions(j, versions)
        PROVE  Quiet(k) /\ (ctx[k].made => ctx'[k].made) /\ config' = config
    <2>1. PICK off, wanted \in SUBSET Versions :
                 /\ ctx' = [ctx EXCEPT ![j] = WithCtxOptions(ctx[j], off, wanted)]
                 /\ ctx[j].off = Versions \ ctx[j].wanted => off = Versions \ wanted
      BY <1>6, CtxOptionsEffect
    <2>2. WithCtxOptions(ctx[j], off, wanted) \in CtxT
      BY WithTypes DEF StateOK
    <2>3. ctx'[j] = WithCtxOptions(ctx[j], off, wanted) /\ \A i \in Ctxs \ {j} : ctx'[i] = ctx[i]
      BY <2>1, <2>2, CtxMoves
    <2>4. config' = config
      BY <1>6 DEF SSLContext_setOptions, SSLContext_clearOptions
    <2> QED BY <2>3, <2>4 DEF Quiet, Stays, WithCtxOptions
  <1>7. ASSUME NEW j \in Ctxs, free(j)
        PROVE  (Quiet(k) \/ ~ctx'[k].cb) /\ config = NULL /\ config' = config
    <2>1. config = NULL /\ config' = config
      BY <1>7 DEF free
    <2>2. ctx'[k] \in {NoCtx, ctx[k], WithMade(ctx[k], FALSE)}
      BY <1>7, FreeEffect
    <2> QED BY <1>2, <2>1, <2>2 DEF Quiet, Stays, WithMade
  <1>8. ASSUME NEW j \in Ctxs, NEW protocol \in program.protocols, NEW mode \in program.modes,
               make(j, protocol, mode)
        PROVE  (Quiet(k) \/ ~ctx'[k].cb) /\ (ctx[k].made => Quiet(k) /\ ctx'[k].made) /\ config' = config
    <2>1. config' = config /\ count[j] = 0
      BY <1>8 DEF make
    <2>2. ctx'[j] = MadeCtx(protocol, mode) /\ \A i \in Ctxs \ {j} : ctx'[i] = ctx[i]
      BY <1>8, MakeEffect, CtxMoves
    <2>3. ~ctx[j].made
      BY <2>1, Sizes DEF Counted, In
    <2>4. ~ctx'[j].cb
      BY <2>2 DEF MadeCtx
    <2> QED BY <2>1, <2>2, <2>3, <2>4 DEF Quiet, Stays
  <1>9. ASSUME NEW j \in Ctxs, NEW step \in MakeSteps, makeFails(j, step)
        PROVE  ctx' = ctx /\ config' = config
    BY <1>9 DEF makeFails
  <1>10. CASE Configure
    BY <1>1, <1>6, <1>7, <1>8, <1>9, <1>10 DEF Configure, OcspStep
  <1> QED BY <1>3, <1>5, <1>10 DEF Next

\* A step that writes OCSP settings, to the context k that it is about.
OcspWrite(k) ==
    /\ \A j \in Ctxs \ {k} : ctx'[j] = ctx[j]
    /\ ctx'[k].made = ctx[k].made /\ ctx'[k].mode = ctx[k].mode /\ ctx[k].made
    /\ \/ /\ config = NULL /\ config' # NULL /\ config'.ctx = k /\ config'.name = "enableOcsp"
          /\ ctx'[k].cb = ctx[k].cb /\ ctx'[k].arg \in {0, 1}
          /\ ctx[k].mode = "client" /\ ~Uses("any side") => ctx'[k].arg = 1
          /\ ctx[k].mode = "server" /\ ~Uses("any side") => ctx'[k].arg = 0
       \/ /\ config = NULL /\ config' # NULL /\ config'.ctx = k /\ config'.name = "disableOcsp"
          /\ ~ctx'[k].cb /\ ctx'[k].arg = ctx[k].arg /\ Uses("disableOcsp")
       \/ /\ config # NULL /\ config' = NULL /\ config.ctx = k /\ config.name = "enableOcsp"
          /\ ctx'[k].cb /\ ctx'[k].arg = ctx[k].arg
       \/ /\ config # NULL /\ config' = NULL /\ config.ctx = k /\ config.name = "disableOcsp"
          /\ ctx'[k].cb = ctx[k].cb /\ Uses("disableOcsp")

LEMMA OcspWrites ==
    ASSUME Base, OcspStep, ConfigInv
    PROVE  \E k \in Ctxs : OcspWrite(k)
  <1> USE DEF Base, Typed
  <1>0. NULL \notin OcspCalls
    BY ArgumentsAssumption
  <1>1. CASE SecondHalf
    <2> DEFINE k == config.ctx
    <2>1. k \in Ctxs /\ config' = NULL /\ config # NULL /\ config.name \in {"enableOcsp", "disableOcsp"}
      BY <1>0, <1>1, SecondEffect
    <2>2. ctx[k].made /\ (config.name = "disableOcsp" => Uses("disableOcsp"))
      BY <2>1 DEF ConfigInv
    <2>3. CASE config.name = "enableOcsp"
      <3>1. ctx' = [ctx EXCEPT ![k] = WithCb(ctx[k], TRUE)] /\ WithCb(ctx[k], TRUE) \in CtxT
        BY <1>1, <2>3, SecondEffect
      <3>2. ctx'[k] = WithCb(ctx[k], TRUE) /\ \A j \in Ctxs \ {k} : ctx'[j] = ctx[j]
        BY <2>1, <3>1, CtxMoves
      <3>3. ctx'[k].made = ctx[k].made /\ ctx'[k].mode = ctx[k].mode /\ ctx'[k].cb /\ ctx'[k].arg = ctx[k].arg
        BY <3>2 DEF WithCb
      <3> QED BY <2>1, <2>2, <2>3, <3>2, <3>3 DEF OcspWrite
    <2>4. CASE config.name = "disableOcsp"
      <3>1. ctx' = [ctx EXCEPT ![k] = WithArg(ctx[k], NULL)] /\ WithArg(ctx[k], NULL) \in CtxT
        BY <1>1, <2>4, SecondEffect
      <3>2. ctx'[k] = WithArg(ctx[k], NULL) /\ \A j \in Ctxs \ {k} : ctx'[j] = ctx[j]
        BY <2>1, <3>1, CtxMoves
      <3>3. ctx'[k].made = ctx[k].made /\ ctx'[k].mode = ctx[k].mode /\ ctx'[k].cb = ctx[k].cb
        BY <3>2 DEF WithArg
      <3> QED BY <2>1, <2>2, <2>4, <3>2, <3>3 DEF OcspWrite
    <2> QED BY <2>1, <2>3, <2>4
  <1>2. ASSUME NEW k \in Ctxs, SSLContext_disableOcsp(k)
        PROVE  /\ \A j \in Ctxs \ {k} : ctx'[j] = ctx[j]
               /\ ctx'[k].made = ctx[k].made /\ ctx'[k].mode = ctx[k].mode /\ ctx[k].made
               /\ config = NULL /\ config' # NULL /\ config'.ctx = k /\ config'.name = "disableOcsp"
               /\ ~ctx'[k].cb /\ ctx'[k].arg = ctx[k].arg /\ Uses("disableOcsp")
    <2>1. /\ config' # NULL /\ config'.name = "disableOcsp" /\ config'.ctx = k
          /\ config = NULL /\ ctx[k].made /\ Uses("disableOcsp")
      BY <1>0, <1>2, DisableEffect
    <2>2. ctx'[k] = WithCb(ctx[k], FALSE) /\ \A j \in Ctxs \ {k} : ctx'[j] = ctx[j]
      BY <1>2, DisableEffect, CtxMoves
    <2> QED BY <2>1, <2>2 DEF WithCb
  <1>3. ASSUME NEW k \in Ctxs, NEW client \in BOOLEAN, SSLContext_enableOcsp(k, client)
        PROVE  /\ \A j \in Ctxs \ {k} : ctx'[j] = ctx[j]
               /\ ctx'[k].made = ctx[k].made /\ ctx'[k].mode = ctx[k].mode /\ ctx[k].made
               /\ config = NULL /\ config' # NULL /\ config'.ctx = k /\ config'.name = "enableOcsp"
               /\ ctx'[k].cb = ctx[k].cb /\ ctx'[k].arg \in {0, 1}
               /\ ctx[k].mode = "client" /\ ~Uses("any side") => ctx'[k].arg = 1
               /\ ctx[k].mode = "server" /\ ~Uses("any side") => ctx'[k].arg = 0
    <2>1. /\ config' # NULL /\ config'.name = "enableOcsp" /\ config'.ctx = k
          /\ config = NULL /\ ctx[k].made
          /\ ctx[k].mode # "combined" /\ ~Uses("any side") => client = (ctx[k].mode = "client")
      BY <1>0, <1>3, EnableEffect
    <2> DEFINE ack == IF client THEN 1 ELSE 0
    <2>0. ctx' = [ctx EXCEPT ![k] = WithArg(ctx[k], ack)] /\ WithArg(ctx[k], ack) \in CtxT
      BY <1>3, EnableEffect
    <2>ack. ack \in {0, 1} /\ (client => ack = 1) /\ (~client => ack = 0)
      OBVIOUS
    <2> HIDE DEF ack
    <2>2. ctx'[k] = WithArg(ctx[k], ack) /\ \A j \in Ctxs \ {k} : ctx'[j] = ctx[j]
      BY <2>0, CtxMoves
    <2>3. ctx'[k].arg = ack
      BY <2>2 DEF WithArg
    <2>4. /\ ctx'[k].made = ctx[k].made /\ ctx'[k].mode = ctx[k].mode /\ ctx'[k].cb = ctx[k].cb
      BY <2>2 DEF WithArg
    <2>5. /\ ctx[k].mode = "client" /\ ~Uses("any side") => ack = 1
          /\ ctx[k].mode = "server" /\ ~Uses("any side") => ack = 0
      BY <2>1, <2>ack
    <2> QED BY <2>1, <2>2, <2>3, <2>4, <2>5, <2>ack
  <1>4. CASE \E k \in Ctxs : SSLContext_disableOcsp(k)
    BY <1>2, <1>4 DEF OcspWrite
  <1>5. CASE \E k \in Ctxs, client \in BOOLEAN : SSLContext_enableOcsp(k, client)
    BY <1>3, <1>5 DEF OcspWrite
  <1> QED BY <1>1, <1>4, <1>5 DEF OcspStep

\* Only enableOcsp and disableOcsp have halves.
LEMMA ConfigStays == [Next]_vars /\ ~OcspStep => config' = config
  BY DEF OcspStep, Next, Configure, Connect, Handshake, vars, make, makeFails, free, SSLContext_setOptions,
         SSLContext_clearOptions, newSSL, newSSLFails, bioNewByteBuffer, bioNewByteBufferFails, freeSSL,
         SSL_enableOcsp, SSL_setOptions, SSL_clearOptions, setOcspResponse, doHandshake, ServerStatus,
         openssl_ocsp_callback_server, ClientStatus, openssl_ocsp_callback_client

LEMMA ConfigStep ==
    ASSUME Base, Base', [Next]_vars, ConfigInv
    PROVE  ConfigInv'
  <1>1. Uses("disableOcsp")' = Uses("disableOcsp")
    BY ProgramStays DEF Uses
  <1>2. CASE OcspStep
    <2>1. PICK k \in Ctxs : OcspWrite(k)
      BY <1>2, OcspWrites
    <2> QED BY <1>1, <2>1 DEF OcspWrite, ConfigInv
  <1>3. CASE ~OcspStep
    <2>1. config' = config
      BY <1>3, ConfigStays
    <2>2. CASE config # NULL
      <3>1. config.ctx \in Ctxs
        BY <2>2 DEF Base, Typed, StateOK, OcspCalls
      <3>2. ctx[config.ctx].made
        BY <2>2 DEF ConfigInv
      <3>3. ctx'[config.ctx].made
        BY <1>3, <2>2, <3>1, <3>2, CtxFrame
      <3> QED BY <1>1, <2>1, <3>3 DEF ConfigInv
    <2> QED BY <2>1, <2>2 DEF ConfigInv
  <1> QED BY <1>2, <1>3

LEMMA ConfigCorrect == Spec => []ConfigInv
  <1>1. Init => ConfigInv
    BY DEF Init, ConfigInv
  <1>2. Base /\ Base' /\ ConfigInv /\ [Next]_vars => ConfigInv'
    BY ConfigStep
  <1> QED BY <1>1, <1>2, BaseCorrect, PTL DEF Spec

\* The callbacks bring the process down only where they find no argument.
LEMMA CrashedStep ==
    ASSUME Base, [Next]_vars, crashed' = "ocsp"
    PROVE  \/ crashed = "ocsp"
           \/ hs.pc = "server callback" /\ CtxOf(hs.server).arg = NULL
           \/ hs.pc = "client callback" /\ CtxOf(hs.client).arg = NULL
  <1>0. NULL # "ocsp"
    BY ArgumentsAssumption
  <1>1. CASE crashed' = crashed
    BY <1>1
  <1>2. CASE openssl_ocsp_callback_server
    BY <1>0, <1>2 DEF openssl_ocsp_callback_server
  <1>3. CASE openssl_ocsp_callback_client
    BY <1>0, <1>3 DEF openssl_ocsp_callback_client
  <1>4. ASSUME NEW k \in Ctxs, NEW step \in MakeSteps, makeFails(k, step)
        PROVE  crashed' = crashed
    BY <1>4 DEF makeFails
  <1> QED BY <1>1, <1>2, <1>3, <1>4 DEF Next, Configure, Connect, Handshake, vars, make, free,
         SSLContext_setOptions, SSLContext_clearOptions, SSLContext_enableOcsp, SSLContext_disableOcsp,
         SecondHalf, newSSL, newSSLFails, bioNewByteBuffer, bioNewByteBufferFails, freeSSL, SSL_enableOcsp,
         SSL_setOptions, SSL_clearOptions, setOcspResponse, doHandshake, ServerStatus, ClientStatus

\* Where a step of a handshake leads, and when.
LEMMA HandshakeMoves ==
    ASSUME Typed, Handshake
    PROVE  \/ /\ hs.pc = "server" /\ AskedFor /\ BoringSSL /\ conn' = conn
              /\ hs' = WithStaple(hs, conn[hs.server].response, "client")
           \/ /\ hs.pc = "server" /\ AskedFor /\ ~BoringSSL /\ CtxOf(hs.server).cb /\ conn' = conn
              /\ hs' = WithPc(hs, "server callback")
           \/ /\ hs.pc = "server" /\ ~(AskedFor /\ (BoringSSL \/ CtxOf(hs.server).cb)) /\ conn' = conn
              /\ hs' = WithPc(hs, "client")
           \/ /\ hs.pc = "server callback" /\ conn' = conn
              /\ hs' = WithStaple(hs, conn[hs.server].response, "client")
           \/ /\ hs.pc = "server callback" /\ CtxOf(hs.server).arg # 0 /\ conn' = conn
              /\ hs' = WithPc(hs, "failed")
           \/ /\ hs.pc = "client" /\ CtxOf(hs.client).cb /\ conn' = conn
              /\ hs' = WithPc(hs, "client callback")
           \/ /\ hs.pc \in {"client", "client callback"} /\ conn' = Done
              /\ hs' = WithPc(hs, "done")
           \/ /\ hs.pc = "client callback" /\ CtxOf(hs.client).arg # 1 /\ conn' = conn
              /\ hs' = WithPc(hs, "failed")
  <1> USE DEF Typed
  <1>1. /\ "server callback" \in Steps /\ "client" \in Steps /\ "client callback" \in Steps
        /\ "done" \in Steps /\ "failed" \in Steps
    BY DEF Steps
  <1>2. conn[hs.server].response \in Responses \cup {NULL}
    BY HandshakeEffect, FieldTypes DEF RunInv, Running, StateOK
  <1>3. \A p \in Steps :
           /\ [hs EXCEPT !.pc = p] = WithPc(hs, p)
           /\ [hs EXCEPT !.staple = conn[hs.server].response, !.pc = p]
                = WithStaple(hs, conn[hs.server].response, p)
    BY <1>2, StatusEffect
  <1>4. CASE ServerStatus
    BY <1>1, <1>3, <1>4 DEF ServerStatus
  <1>5. CASE openssl_ocsp_callback_server
    BY <1>1, <1>3, <1>5 DEF openssl_ocsp_callback_server, Success
  <1>6. CASE ClientStatus
    BY <1>1, <1>3, <1>6 DEF ClientStatus
  <1>7. CASE openssl_ocsp_callback_client
    BY <1>1, <1>3, <1>7 DEF openssl_ocsp_callback_client, Success
  <1> QED BY <1>4, <1>5, <1>6, <1>7 DEF Handshake

\* The library calls a callback that it found set.
LEMMA CallbackFound ==
    ASSUME Base, Handshake
    PROVE  /\ hs'.pc = "server callback" => CtxOf(hs.server).cb
           /\ hs'.pc = "client callback" => CtxOf(hs.client).cb
  <1>1. CASE hs' = WithPc(hs, "server callback") /\ CtxOf(hs.server).cb
    BY <1>1 DEF WithPc
  <1>2. CASE hs' = WithPc(hs, "client callback") /\ CtxOf(hs.client).cb
    BY <1>2 DEF WithPc
  <1>3. CASE hs' = WithStaple(hs, conn[hs.server].response, "client")
    BY <1>3 DEF WithStaple
  <1>4. CASE hs' = WithPc(hs, "client")
    BY <1>4 DEF WithPc
  <1>5. CASE hs' = WithPc(hs, "done")
    BY <1>5 DEF WithPc
  <1>6. CASE hs' = WithPc(hs, "failed")
    BY <1>6 DEF WithPc
  <1> QED BY <1>1, <1>2, <1>3, <1>4, <1>5, <1>6, HandshakeMoves DEF Base

LEMMA ArgStep ==
    ASSUME Base, Base', [Next]_vars, ConfigInv, ArgInv
    PROVE  ArgInv'
  <1> SUFFICES ASSUME ~Uses("disableOcsp")
               PROVE  /\ crashed' # "ocsp"
                      /\ \A k \in Ctxs : ctx'[k].cb => ctx'[k].arg # NULL
                      /\ config' # NULL => ctx'[config'.ctx].arg # NULL
                      /\ hs'.pc = "server callback" => CtxOf(hs.server)'.arg # NULL
                      /\ hs'.pc = "client callback" => CtxOf(hs.client)'.arg # NULL
    <2>1. Uses("disableOcsp")' = Uses("disableOcsp")
      BY ProgramStays DEF Uses
    <2> QED BY <2>1 DEF ArgInv
  <1>1. /\ crashed # "ocsp"
        /\ \A k \in Ctxs : ctx[k].cb => ctx[k].arg # NULL
        /\ config # NULL => ctx[config.ctx].arg # NULL
        /\ hs.pc = "server callback" => CtxOf(hs.server).arg # NULL
        /\ hs.pc = "client callback" => CtxOf(hs.client).arg # NULL
    BY DEF ArgInv
  <1>2. crashed' # "ocsp"
    BY <1>1, CrashedStep
  <1>3. ASSUME OcspStep
        PROVE  /\ \A k \in Ctxs : ctx[k].arg # NULL => ctx'[k].arg # NULL
               /\ \A k \in Ctxs : ctx'[k].cb => ctx'[k].arg # NULL
               /\ config' # NULL => ctx'[config'.ctx].arg # NULL
    <2>1. PICK k \in Ctxs : OcspWrite(k)
      BY <1>3, OcspWrites
    <2>2. NULL \notin {0, 1}
      BY ArgumentsAssumption
    <2> QED BY <1>1, <2>1, <2>2 DEF OcspWrite
  <1>4. \A k \in Ctxs : ctx'[k].cb => ctx'[k].arg # NULL
    BY <1>1, <1>3, CtxFrame DEF Quiet
  <1>5. config' # NULL => ctx'[config'.ctx].arg # NULL
    <2>1. ASSUME ~OcspStep, config # NULL
          PROVE  ctx'[config.ctx].arg = ctx[config.ctx].arg
      <3>1. config.ctx \in Ctxs
        BY <2>1 DEF Base, Typed, StateOK, OcspCalls
      <3>2. ctx[config.ctx].made
        BY <2>1 DEF ConfigInv
      <3> QED BY <2>1, <3>1, <3>2, CtxFrame DEF Quiet
    <2> QED BY <1>1, <1>3, <2>1, ConfigStays
  <1>6. ASSUME SameSides
        PROVE  /\ CtxOf(hs.server).arg # NULL => CtxOf(hs.server)'.arg # NULL
               /\ CtxOf(hs.client).arg # NULL => CtxOf(hs.client)'.arg # NULL
    <2>1. \A c \in Sides : ctx[conn[c].ctx].arg # NULL => ctx'[conn'[c].ctx].arg # NULL
      BY <1>3, <1>6, SidesStay DEF Quiet
    <2>2. hs'.server = hs.server /\ hs'.client = hs.client
      BY <1>6 DEF SameSides
    <2> QED BY <2>1, <2>2 DEF Sides, CtxOf
  <1>7. ASSUME Handshake
        PROVE  /\ hs'.pc = "server callback" => CtxOf(hs.server)'.arg # NULL
               /\ hs'.pc = "client callback" => CtxOf(hs.client)'.arg # NULL
    <2>1. SameSides
      BY <1>7, HandshakeSides DEF Base
    <2>2. CtxOf(hs.server).cb => CtxOf(hs.server).arg # NULL
      BY <1>1, <1>7, <2>1, SidesStay DEF CtxOf, Sides
    <2>3. CtxOf(hs.client).cb => CtxOf(hs.client).arg # NULL
      BY <1>1, <1>7, <2>1, SidesStay DEF CtxOf, Sides
    <2> QED BY <1>6, <1>7, <2>1, <2>2, <2>3, CallbackFound
  <1>8. ASSUME NEW c \in SSLs, NEW s \in SSLs, doHandshake(c, s)
        PROVE  hs'.pc \in {"failed", "server"}
    BY <1>8, DoHandshakeEffect DEF Base, Typed
  <1>9. ASSUME ~Handshake, \A c, s \in SSLs : ~doHandshake(c, s), hs'.pc # "none"
        PROVE  SameSides /\ SamePlace
    BY <1>9, HsFrame DEF Base
  <1>10. /\ hs'.pc = "server callback" => CtxOf(hs.server)'.arg # NULL
         /\ hs'.pc = "client callback" => CtxOf(hs.client)'.arg # NULL
    <2>1. CASE hs'.pc \notin {"server callback", "client callback"}
      BY <2>1
    <2>2. CASE ~Handshake /\ hs'.pc \in {"server callback", "client callback"}
      <3>1. SameSides /\ SamePlace
        BY <1>8, <1>9, <2>2
      <3> QED BY <1>1, <1>6, <3>1 DEF SamePlace
    <2> QED BY <1>7, <2>1, <2>2
  <1> QED BY <1>2, <1>4, <1>5, <1>10

\* openssl_ocsp_callback finds its argument, whoever enables OCSP in whichever context
\* while handshakes run, as long as nobody calls disableOcsp (SSLContext.enableOcsp).
THEOREM ArgumentReadyCorrect == Spec => []ArgumentReady
  <1>1. Init => ArgInv
    BY ArgumentsAssumption DEF Init, ArgInv, NoCtx, NoHs
  <1>2. Base /\ Base' /\ ConfigInv /\ ArgInv /\ [Next]_vars => ArgInv'
    BY ArgStep
  <1>3. ArgInv => ArgumentReady
    BY DEF ArgInv, ArgumentReady
  <1> QED BY <1>1, <1>2, <1>3, BaseCorrect, ConfigCorrect, PTL DEF Spec

-----------------------------------------------------------------------------
(* The staple.                                                             *)

\* The argument of a context made for one side is what the library takes for success
\* on that side.
Fits(k) ==
    ~Uses("any side") => /\ ctx[k].mode = "client" => ctx[k].arg = 1
                         /\ ctx[k].mode = "server" => ctx[k].arg = 0

RightSide(c) ==
    conn[c].ctx # NULL => /\ CtxOf(c).mode = "client" => ~conn[c].server
                          /\ CtxOf(c).mode = "server" => conn[c].server

\* So it is wherever the callback is set and no call is between its halves.
FitsInv ==
    /\ \A k \in Ctxs : ctx[k].cb /\ (config = NULL \/ config.ctx # k) => Fits(k)
    /\ config # NULL => /\ config.name = "enableOcsp" => Fits(config.ctx)
                        /\ config.name = "disableOcsp" => ~ctx[config.ctx].cb
    /\ \A c \in SSLs : RightSide(c)

LEMMA FitsStep ==
    ASSUME Base, Base', [Next]_vars, ConfigInv, FitsInv
    PROVE  FitsInv'
  <1>0. Uses("any side")' <=> Uses("any side")
    BY ProgramStays DEF Uses
  <1>1. ASSUME NEW k \in Ctxs, ctx'[k].mode = ctx[k].mode, ctx'[k].arg = ctx[k].arg
        PROVE  Fits(k)' <=> Fits(k)
    BY <1>0, <1>1 DEF Fits
  <1>2. ASSUME NEW c \in SSLs
        PROVE  RightSide(c)'
    <2>1. CASE Kept(c) /\ conn'[c].ctx # NULL
      <3>1. Stays(conn[c].ctx)
        BY <2>1, ContextStays DEF Kept
      <3>2. RightSide(c)
        BY DEF FitsInv
      <3> QED BY <2>1, <3>1, <3>2 DEF RightSide, Kept, Stays, CtxOf
    <2>2. CASE Made(c)
      <3>1. PICK k \in Ctxs, server \in BOOLEAN : newSSL(c, k, server) /\ conn'[c] = NewConn(k, server)
        BY <2>2 DEF Made
      <3>2. /\ ctx[k].mode # "combined" => server = (ctx[k].mode = "server")
            /\ ctx' = ctx
        BY <3>1 DEF newSSL
      <3>3. conn'[c].ctx = k /\ conn'[c].server = server
        BY <3>1 DEF NewConn
      <3> QED BY <3>2, <3>3 DEF RightSide, CtxOf
    <2> QED BY <2>1, <2>2, SideStep DEF RightSide, Base
  <1>3. CASE OcspStep
    <2>1. PICK w \in Ctxs : OcspWrite(w)
      BY <1>3, OcspWrites
    <2>2. ASSUME NEW k \in Ctxs, ctx'[k].cb, config' = NULL \/ config'.ctx # k
          PROVE  Fits(k)'
      <3>1. CASE k = w
        BY <1>1, <2>1, <2>2, <3>1 DEF OcspWrite, FitsInv
      <3>2. CASE k # w
        <4>1. ctx'[k] = ctx[k] /\ (config = NULL \/ config.ctx # k)
          BY <2>1, <3>2 DEF OcspWrite
        <4> QED BY <1>1, <2>2, <4>1 DEF FitsInv
      <3> QED BY <3>1, <3>2
    <2>3. config' # NULL => /\ config'.name = "enableOcsp" => Fits(config.ctx)'
                            /\ config'.name = "disableOcsp" => ~ctx'[config'.ctx].cb
      BY <1>0, <2>1 DEF OcspWrite, Fits
    <2> QED BY <1>2, <2>2, <2>3 DEF FitsInv
  <1>4. CASE ~OcspStep
    <2>1. config' = config
      BY <1>4, ConfigStays
    <2>2. ASSUME NEW k \in Ctxs, ctx'[k].cb, config' = NULL \/ config'.ctx # k
          PROVE  Fits(k)'
      <3>1. Quiet(k)
        BY <1>4, <2>2, CtxFrame
      <3>2. Fits(k)
        BY <2>1, <2>2, <3>1 DEF Quiet, FitsInv
      <3> QED BY <1>1, <3>1, <3>2 DEF Quiet, Stays
    <2>3. ASSUME config # NULL
          PROVE  /\ config.name = "enableOcsp" => Fits(config.ctx)'
                 /\ config.name = "disableOcsp" => ~ctx'[config.ctx].cb
      <3>1. config.ctx \in Ctxs
        BY <2>3 DEF Base, Typed, StateOK, OcspCalls
      <3>2. ctx[config.ctx].made
        BY <2>3 DEF ConfigInv
      <3>3. Quiet(config.ctx)
        BY <1>4, <2>3, <3>1, <3>2, CtxFrame
      <3> QED BY <1>0, <2>1, <2>3, <3>3 DEF Quiet, Stays, FitsInv, Fits
    <2> QED BY <1>2, <2>1, <2>2, <2>3 DEF FitsInv
  <1> QED BY <1>3, <1>4

LEMMA FitsCorrect == Spec => []FitsInv
  <1>1. Init => FitsInv
    BY DEF Init, FitsInv, RightSide, NoCtx, NoConn
  <1>2. Base /\ Base' /\ ConfigInv /\ FitsInv /\ [Next]_vars => FitsInv'
    BY FitsStep
  <1> QED BY <1>1, <1>2, BaseCorrect, ConfigCorrect, PTL DEF Spec

\* What the client is to get.
Expected == IF AskedFor /\ (BoringSSL \/ CtxOf(hs.server).cb) THEN conn[hs.server].response ELSE NULL

\* A callback may break the handshake.
Combined == Uses("any side") \/ "combined" \in {CtxOf(hs.client).mode, CtxOf(hs.server).mode}

\* Nobody changes the settings of a steady handshake: the server has put the response
\* into it, or has not come to that yet, and the callbacks are where it found them.
StapleInv ==
    hs.steady /\ hs.pc # "none" =>
       /\ config = NULL
       /\ hs.pc \in {"server", "server callback"} => hs.staple = NULL
       /\ hs.pc = "server callback" => AskedFor /\ CtxOf(hs.server).cb
       /\ hs.pc \in {"client", "client callback"} => hs.staple = Expected
       /\ hs.pc = "client callback" => CtxOf(hs.client).cb
       /\ hs.pc = "done" => conn[hs.client].got = Expected
       /\ hs.pc = "failed" => hs.version = {} \/ Combined

LEMMA StapleFrame ==
    ASSUME Base, Base', [Next]_vars, ~Handshake, \A c, s \in SSLs : ~doHandshake(c, s), StapleInv
    PROVE  StapleInv'
  <1> SUFFICES ASSUME hs'.steady, hs'.pc # "none"
               PROVE  StapleInv'
    BY DEF StapleInv
  <1>1. SameSides /\ SteadySides /\ SamePlace
    BY HsFrame DEF Base
  <1>2. /\ hs.steady /\ hs.pc # "none" /\ config' = config /\ ~OcspStep
        /\ hs'.pc = hs.pc /\ hs'.staple = hs.staple /\ hs'.version = hs.version
        /\ hs'.client = hs.client /\ hs'.server = hs.server
        /\ conn'[hs.client].got = conn[hs.client].got
        /\ conn'[hs.client].status = conn[hs.client].status
        /\ conn'[hs.server].response = conn[hs.server].response
    BY <1>1 DEF SameSides, SteadySides, SamePlace
  <1>3. \A c \in Sides : /\ ctx'[conn'[c].ctx].cb = ctx[conn[c].ctx].cb
                         /\ ctx'[conn'[c].ctx].mode = ctx[conn[c].ctx].mode
    BY <1>1, <1>2, SidesStay DEF Quiet, Stays
  <1>4. /\ CtxOf(hs.client)'.cb = CtxOf(hs.client).cb /\ CtxOf(hs.server)'.cb = CtxOf(hs.server).cb
        /\ CtxOf(hs.client)'.mode = CtxOf(hs.client).mode /\ CtxOf(hs.server)'.mode = CtxOf(hs.server).mode
    BY <1>2, <1>3 DEF Sides, CtxOf
  <1>5. BoringSSL' = BoringSSL /\ AskedFor' = AskedFor
    BY <1>2, ProgramStays DEF BoringSSL, build, AskedFor
  <1>6. Expected' = Expected /\ Combined' = Combined
    BY <1>2, <1>4, <1>5, ProgramStays DEF Expected, Combined, Uses
  <1> QED BY <1>2, <1>4, <1>5, <1>6 DEF StapleInv

LEMMA StapleStarts ==
    ASSUME Base, NEW c \in SSLs, NEW s \in SSLs, doHandshake(c, s)
    PROVE  StapleInv'
  <1>1. /\ hs'.pc = (IF hs'.version = {} THEN "failed" ELSE "server")
        /\ hs'.staple = NULL /\ (hs'.steady => config = NULL)
    BY DoHandshakeEffect DEF Base, Typed
  <1>2. config' = config
    BY DEF doHandshake
  <1> QED BY <1>1, <1>2 DEF StapleInv

\* A handshake between contexts made for one side does not fail in a callback.
LEMMA OnlyCombinedFails ==
    ASSUME Base, FitsInv, StapleInv, hs.steady
    PROVE  /\ hs.pc = "server callback" /\ CtxOf(hs.server).arg # 0 => Combined
           /\ hs.pc = "client callback" /\ CtxOf(hs.client).arg # 1 => Combined
  <1> SUFFICES ASSUME hs.pc \in {"server callback", "client callback"}
               PROVE  /\ hs.pc = "server callback" /\ CtxOf(hs.server).arg # 0 => Combined
                      /\ hs.pc = "client callback" /\ CtxOf(hs.client).arg # 1 => Combined
    OBVIOUS
  <1>1. /\ hs.client \in SSLs /\ hs.server \in SSLs
        /\ conn[hs.client].ctx \in Ctxs /\ conn[hs.server].ctx \in Ctxs
        /\ conn[hs.client].ctx # NULL /\ conn[hs.server].ctx # NULL
        /\ ~conn[hs.client].server /\ conn[hs.server].server
    BY BaseReferenced DEF Base, Typed, RunInv, Referenced
  <1>2. CtxOf(hs.client).mode \in Modes /\ CtxOf(hs.server).mode \in Modes
    BY <1>1, FieldTypes DEF CtxOf, Base, Typed, StateOK
  <1>3. CtxOf(hs.client).mode # "server" /\ CtxOf(hs.server).mode # "client"
    BY <1>1 DEF FitsInv, RightSide
  <1>4. ASSUME hs.pc = "server callback", CtxOf(hs.server).arg # 0
        PROVE  CtxOf(hs.server).mode # "server" \/ Uses("any side")
    BY <1>1, <1>4 DEF StapleInv, FitsInv, Fits, CtxOf
  <1>5. ASSUME hs.pc = "client callback", CtxOf(hs.client).arg # 1
        PROVE  CtxOf(hs.client).mode # "client" \/ Uses("any side")
    BY <1>1, <1>5 DEF StapleInv, FitsInv, Fits, CtxOf
  <1> QED BY <1>2, <1>3, <1>4, <1>5 DEF Combined, Modes

LEMMA StapleHandshake ==
    ASSUME Base, Handshake, FitsInv, StapleInv
    PROVE  StapleInv'
  <1> SUFFICES ASSUME hs'.steady
               PROVE  StapleInv'
    BY DEF StapleInv
  <1> DEFINE c == hs.client
             s == hs.server
             q == conn[s].response
  <1>1. /\ hs.steady /\ hs.pc # "none" /\ hs'.client = c /\ hs'.server = s /\ hs'.version = hs.version
        /\ Kept(c) /\ Kept(s)
    BY HandshakeSides DEF Base, SameSides, Sides, Kept
  <1>2. ctx' = ctx /\ config' = config /\ program' = program
    BY HandshakeEffect DEF Base
  <1>3. /\ config = NULL
        /\ hs.pc \in {"server", "server callback"} => hs.staple = NULL
        /\ hs.pc = "server callback" => AskedFor /\ CtxOf(s).cb
        /\ hs.pc \in {"client", "client callback"} => hs.staple = Expected
    BY <1>1 DEF StapleInv
  <1>4. /\ conn'[c].status = conn[c].status /\ conn'[s].response = q
        /\ conn' = Done => conn'[c].got = hs.staple
    <2>1. CASE conn' = Done
      <3>1. conn'[c] = WithGot(conn[c], hs.staple, 1) /\ conn'[s] = WithCompleted(conn[s], 1)
        BY <2>1, HandshakeEffect, DoneEffect DEF Base, Typed
      <3> QED BY <3>1 DEF WithGot, WithCompleted
    <2>2. CASE conn' = conn
      BY <2>1, <2>2
    <2> QED BY <2>1, <2>2, HandshakeEffect DEF Base
  <1>5. AskedFor' = AskedFor /\ BoringSSL' = BoringSSL
    BY <1>1, <1>2, <1>4 DEF AskedFor, BoringSSL, build
  <1>6. CtxOf(hs.client)' = CtxOf(c) /\ CtxOf(hs.server)' = CtxOf(s)
    BY <1>1, <1>2 DEF CtxOf, Kept
  <1>7. Expected' = Expected /\ Combined' = Combined
    BY <1>1, <1>2, <1>4, <1>5, <1>6 DEF Expected, Combined, Uses
  <1>8. \A p, r : /\ WithPc(hs, p).pc = p /\ WithPc(hs, p).staple = hs.staple
                  /\ WithStaple(hs, r, p).pc = p /\ WithStaple(hs, r, p).staple = r
    BY DEF WithPc, WithStaple
  <1>9. \/ hs'.pc = "server callback" /\ hs'.staple = NULL /\ AskedFor /\ CtxOf(s).cb
        \/ hs'.pc = "client" /\ hs'.staple = Expected
        \/ hs'.pc = "client callback" /\ hs'.staple = Expected /\ CtxOf(c).cb
        \/ hs'.pc = "done" /\ conn'[c].got = Expected
        \/ hs'.pc = "failed" /\ Combined
    <2>1. AskedFor /\ (BoringSSL \/ CtxOf(s).cb) => Expected = q
      BY DEF Expected
    <2>2. ~(AskedFor /\ (BoringSSL \/ CtxOf(s).cb)) => Expected = NULL
      BY DEF Expected
    <2>3. /\ hs.pc = "server callback" /\ CtxOf(s).arg # 0 => Combined
          /\ hs.pc = "client callback" /\ CtxOf(c).arg # 1 => Combined
      BY <1>1, OnlyCombinedFails
    <2> HIDE DEF c, s, q
    <2>4. CASE hs.pc = "server" /\ hs' = WithStaple(hs, q, "client") /\ AskedFor /\ BoringSSL
      BY <1>8, <2>1, <2>4
    <2>5. CASE hs.pc = "server" /\ hs' = WithPc(hs, "server callback") /\ AskedFor /\ CtxOf(s).cb
      BY <1>3, <1>8, <2>5
    <2>6. CASE hs.pc = "server" /\ hs' = WithPc(hs, "client") /\ ~(AskedFor /\ (BoringSSL \/ CtxOf(s).cb))
      BY <1>3, <1>8, <2>2, <2>6
    <2>7. CASE hs.pc = "server callback" /\ hs' = WithStaple(hs, q, "client")
      BY <1>3, <1>8, <2>1, <2>7
    <2>8. CASE /\ hs' = WithPc(hs, "failed")
               /\ \/ hs.pc = "server callback" /\ CtxOf(s).arg # 0
                  \/ hs.pc = "client callback" /\ CtxOf(c).arg # 1
      BY <1>8, <2>3, <2>8
    <2>9. CASE hs.pc = "client" /\ hs' = WithPc(hs, "client callback") /\ CtxOf(c).cb
      BY <1>3, <1>8, <2>9
    <2>10. CASE hs.pc \in {"client", "client callback"} /\ hs' = WithPc(hs, "done") /\ conn' = Done
      BY <1>3, <1>4, <1>8, <2>10
    <2> QED BY <2>4, <2>5, <2>6, <2>7, <2>8, <2>9, <2>10, HandshakeMoves DEF Base, c, s, q
  <1> QED BY <1>1, <1>2, <1>3, <1>5, <1>6, <1>7, <1>9 DEF StapleInv

\* The client gets the response its server was given, unless somebody changes the OCSP
\* settings meanwhile, and the stub callback breaks no handshake between contexts made, and
\* enabled, for one side, for any number of contexts and connections and either library
\* (enableOcsp, setOcspResponse, getOcspResponse).
THEOREM StapleArrivesCorrect == Spec => []StapleArrives
  <1>1. Init => StapleInv
    BY DEF Init, StapleInv, NoHs
  <1>2. Base /\ Base' /\ FitsInv /\ StapleInv /\ [Next]_vars => StapleInv'
    BY StapleFrame, StapleStarts, StapleHandshake
  <1>3. StapleInv => StapleArrives
    BY DEF StapleInv, StapleArrives, Expected, Combined
  <1> QED BY <1>1, <1>2, <1>3, BaseCorrect, FitsCorrect, PTL DEF Spec

=============================================================================
