------------------------- MODULE ProtocolSelection -------------------------
(***************************************************************************)
(* Negotiation of the application protocol: the lists Java configures      *)
(* (SSLContext.setAlpnProtos, SSLContext.setNpnProtos), their wire format, *)
(* and select_next_proto (sslutils.c), which walks the server's ALPN list  *)
(* or the client's NPN list against what the peer offers.                  *)
(*                                                                         *)
(* A name is a sequence of bytes, because select_next_proto counts bytes.  *)
(* What the peer offers has been validated by the TLS library: a non-empty *)
(* list of non-empty names.  The memory behind a list is the list followed *)
(* by whatever the allocator left there, up to the end of the mapping.     *)
(* The lists are set between handshakes.                                   *)
(***************************************************************************)
EXTENDS Integers, Sequences, SequencesExt

CONSTANTS
    Lists,   \* the lists of names Java configures, in priority order
    Offers,  \* the lists of names a peer offers
    Junk     \* bytes that may follow a block of memory

Extensions == {"npn", "alpn"}
MAX_ALPN_NPN_PROTO_SIZE == 65535

SSL_SELECTOR_FAILURE_NO_ADVERTISE == 0
SSL_SELECTOR_FAILURE_CHOOSE_MY_LAST_PROTOCOL == 1
Behaviours == {SSL_SELECTOR_FAILURE_NO_ADVERTISE, SSL_SELECTOR_FAILURE_CHOOSE_MY_LAST_PROTOCOL}

UINT8_MAX == 255
Byte == 0..UINT8_MAX

ASSUME ListsAssumption == \A list \in Lists : list \in Seq(Seq(Byte))
ASSUME JunkAssumption == \A rest \in Junk : rest \in Seq(Byte)
ASSUME OffersAssumption == \A o \in Offers : o # << >> /\ \A k \in 1..Len(o) : Len(o[k]) \in 1..UINT8_MAX

VARIABLES
    mode,              \* of the context, fixed by SSLContext.make
    proto_data,        \* the memory from next_proto_data or alpn_proto_data on
    proto_len,         \* next_proto_len and alpn_proto_len
    failure_behavior,  \* next_ and alpn_selector_failure_behavior
    installed,         \* the extensions whose callback is set on the SSL_CTX
    pc,                \* where the handshake is in select_next_proto
    ext,               \* the extension it selects for
    in,                \* what the peer offers
    i,
    supported_protos,  \* the position it reads at
    last_supported_proto,
    ret,               \* what it returned: "OK" or "NOACK"
    out,               \* the name it selected, or the list announced by NPN
    configured,        \* the list Java last set for an extension
    asked              \* the failure behaviour Java last set for it

settings      == <<mode, proto_data, proto_len, failure_behavior, installed, configured, asked>>
scan          == <<pc, ext, in, i, supported_protos, last_supported_proto, ret, out>>
selectionVars == <<settings, scan>>

\* The context is allocated zeroed by make.
InitialBehaviour == SSL_SELECTOR_FAILURE_NO_ADVERTISE

SelectionInit ==
    /\ mode \in {"SSL_MODE_CLIENT", "SSL_MODE_SERVER"}
    /\ proto_data = [x \in Extensions |-> << >>]
    /\ proto_len = [x \in Extensions |-> 0]
    /\ failure_behavior = [x \in Extensions |-> InitialBehaviour]
    /\ installed = {}
    /\ pc = "idle" /\ ext = "alpn" /\ in = << >> /\ i = 0
    /\ supported_protos = 1 /\ last_supported_proto = << >>
    /\ ret = "NOACK" /\ out = << >>
    /\ configured = [x \in Extensions |-> << >>]
    /\ asked = [x \in Extensions |-> SSL_SELECTOR_FAILURE_NO_ADVERTISE]

-----------------------------------------------------------------------------
(* The lists.                                                              *)

\* A name too long for the format is left out.
Fits(name) == Len(name) <= MAX_ALPN_NPN_PROTO_SIZE

\* OutputStream.write(int) writes the low 8 bits of the length.
Encode(name) == IF Fits(name) THEN <<Len(name) % (UINT8_MAX + 1)>> \o name ELSE << >>

\* What the stream holds after each of the names.
Written(protocols) ==
    LET written[k \in 0..Len(protocols)] ==
            IF k = 0 THEN << >> ELSE written[k - 1] \o Encode(protocols[k])
    IN  written

protocolsToWireFormat(protocols) == Written(protocols)[Len(protocols)]

\* A block of OPENSSL_malloc holds the list; behind it lies what was there
\* before, which may be the rest of the block that was just freed.
Blocks(wire, old) ==
    {wire \o rest : rest \in Junk \cup {SubSeq(old, Len(wire) + 1, Len(old))}}

\* The callback for the extension is set, by the first call that has memory.
SetProtos(x, list, behaviour) ==
    LET wire == protocolsToWireFormat(list)
    IN  /\ pc = "idle"
        /\ \E block \in Blocks(wire, proto_data[x]) : proto_data' = [proto_data EXCEPT ![x] = block]
        /\ proto_len' = [proto_len EXCEPT ![x] = Len(wire)]
        /\ installed' = installed \cup {x}
        /\ configured' = [configured EXCEPT ![x] = list]
        /\ asked' = [asked EXCEPT ![x] = behaviour]
        /\ UNCHANGED <<mode, failure_behavior, scan>>

\* OPENSSL_malloc fails: the old block is gone, its length stays.
SetProtosNoMemory(x) ==
    /\ pc = "idle"
    /\ proto_data' = [proto_data EXCEPT ![x] = << >>]
    /\ UNCHANGED <<mode, proto_len, failure_behavior, installed, configured, asked, scan>>

setNpnProtos0(list, behaviour)  == SetProtos("npn", list, behaviour) \/ SetProtosNoMemory("npn")
setAlpnProtos0(list, behaviour) == SetProtos("alpn", list, behaviour) \/ SetProtosNoMemory("alpn")

-----------------------------------------------------------------------------
(* The callbacks.                                                          *)

\* The library copies *len bytes from *data; a block lost to a failed malloc
\* is not there to be copied.
tcn_SSL_callback_next_protos ==
    /\ pc = "idle" /\ "npn" \in installed /\ mode # "SSL_MODE_CLIENT"
    /\ IF proto_len["npn"] <= Len(proto_data["npn"])
       THEN pc' = "announced" /\ out' = SubSeq(proto_data["npn"], 1, proto_len["npn"])
       ELSE pc' = "crashed" /\ UNCHANGED out
    /\ UNCHANGED <<settings, ext, in, i, supported_protos, last_supported_proto, ret>>

StartSelect(x, offer) ==
    /\ pc = "idle" /\ x \in installed
    /\ pc' = "scan" /\ ext' = x /\ in' = offer
    /\ UNCHANGED <<settings, i, supported_protos, last_supported_proto, ret, out>>

tcn_SSL_callback_select_next_proto(offer) ==
    mode = "SSL_MODE_CLIENT" /\ StartSelect("npn", offer)

tcn_SSL_callback_alpn_select_proto(offer) ==
    mode # "SSL_MODE_CLIENT" /\ StartSelect("alpn", offer)

-----------------------------------------------------------------------------
(* select_next_proto.                                                      *)

memory           == proto_data[ext]
target_proto_len == memory[supported_protos]
target           == SubSeq(memory, supported_protos + 1, supported_protos + target_proto_len)
Scanning         == pc = "scan" /\ i < proto_len[ext]

\* The bytes of the next supported name are mapped memory.
Readable ==
    /\ supported_protos <= Len(memory)
    /\ supported_protos + target_proto_len <= Len(memory)

Return(result, name) == pc' = "done" /\ ret' = result /\ out' = name

FoundMatch ==
    /\ Scanning /\ Readable
    /\ Contains(in, target)
    /\ Return("OK", target)
    /\ UNCHANGED <<settings, ext, in, i, supported_protos, last_supported_proto>>

\* Mutant: i counts the byte that holds the length twice.
IncrementOvercounts == i + target_proto_len + 2

\* i grows by the length of the name, without the byte that holds it.
Increment == i + target_proto_len

\* Mutants: the position does not move past an empty name; it moves a byte too far.
NextNameOvershoots == supported_protos + target_proto_len + 2
NextNameStays == IF target_proto_len = 0 THEN supported_protos ELSE supported_protos + target_proto_len + 1

NextName == supported_protos + target_proto_len + 1

NextSupported ==
    /\ Scanning /\ Readable
    /\ ~Contains(in, target)
    /\ i' = Increment
    /\ supported_protos' = NextName
    /\ last_supported_proto' = target
    /\ UNCHANGED <<settings, pc, ext, in, ret, out>>

\* The process reads memory that is not mapped.
Fault ==
    /\ Scanning /\ ~Readable
    /\ pc' = "crashed"
    /\ UNCHANGED <<settings, ext, in, i, supported_protos, last_supported_proto, ret, out>>

\* The last name looked at is the choice, if that behaviour is set and there
\* was one.
ChoosesLast ==
    /\ failure_behavior[ext] = SSL_SELECTOR_FAILURE_CHOOSE_MY_LAST_PROTOCOL
    /\ supported_protos # 1

NoMatch ==
    /\ pc = "scan" /\ i >= proto_len[ext]
    /\ IF ChoosesLast THEN Return("OK", last_supported_proto) ELSE Return("NOACK", << >>)
    /\ UNCHANGED <<settings, ext, in, i, supported_protos, last_supported_proto>>

\* The library moves on; the next handshake finds fresh local variables.
NextHandshake ==
    /\ pc \in {"done", "announced"}
    /\ pc' = "idle" /\ ext' = "alpn" /\ in' = << >> /\ i' = 0
    /\ supported_protos' = 1 /\ last_supported_proto' = << >>
    /\ ret' = "NOACK" /\ out' = << >>
    /\ UNCHANGED settings

select_next_proto == FoundMatch \/ NextSupported \/ Fault \/ NoMatch

-----------------------------------------------------------------------------
SelectionNext ==
    \/ \E list \in Lists, behaviour \in Behaviours :
          setNpnProtos0(list, behaviour) \/ setAlpnProtos0(list, behaviour)
    \/ tcn_SSL_callback_next_protos
    \/ \E offer \in Offers :
          tcn_SSL_callback_select_next_proto(offer) \/ tcn_SSL_callback_alpn_select_proto(offer)
    \/ select_next_proto
    \/ NextHandshake

SelectionSpec == SelectionInit /\ [][SelectionNext]_selectionVars

\* The loop runs to its end on the thread of the handshake.
FairSelectionSpec == SelectionSpec /\ WF_selectionVars(select_next_proto)

-----------------------------------------------------------------------------
(* Properties.                                                             *)

\* Type invariant: the shape of the fields of tcn_ssl_ctxt_t and of the local
\* variables of select_next_proto.
SelectionTypeOK ==
    /\ mode \in {"SSL_MODE_CLIENT", "SSL_MODE_SERVER"}
    /\ proto_len \in [Extensions -> Nat]
    /\ failure_behavior \in [Extensions -> Behaviours]
    /\ installed \subseteq Extensions
    /\ pc \in {"idle", "scan", "done", "announced", "crashed"}
    /\ ext \in Extensions
    /\ i \in Nat /\ supported_protos \in Nat
    /\ ret \in {"OK", "NOACK"}

\* What RFC 7301 asks of the selection: the first of the configured names that
\* the peer offers.
Common(x) == {k \in DOMAIN configured[x] : Contains(in, configured[x][k])}
Preferred(x) == configured[x][CHOOSE k \in Common(x) : \A j \in Common(x) : k <= j]

\* Whatever earlier calls of setAlpnProtos and setNpnProtos left in memory, the peer
\* is told of the list Java set last: select_next_proto, which walks bytes and
\* miscounts them, selects the first configured name the peer offers whenever
\* there is one, and tcn_SSL_callback_next_protos announces exactly that list.
PreferredMatch ==
    /\ pc = "done" /\ Common(ext) # {} => ret = "OK" /\ out = Preferred(ext)
    /\ pc = "announced" => out = protocolsToWireFormat(configured["npn"])

\* The walk, which counts too few bytes and so does not know where the list ends, reads
\* no byte behind it and none that is not mapped as long as the peer offers a configured
\* name and the last call of setAlpnProtos or setNpnProtos had memory: it matches
\* before it gets there (select_next_proto).
StaysInTheList ==
    Common(ext) # {} /\ memory # << >> =>
        /\ pc # "crashed"
        /\ pc = "scan" => /\ supported_protos <= proto_len[ext]
                          /\ supported_protos + target_proto_len <= proto_len[ext]

\* The walk ends although an empty name does not advance i: the handshake gets
\* an answer, or the process has died reading past the end of the list.
SelectionEnds == pc = "scan" ~> pc \in {"done", "crashed"}

\* sslutils.c: "Nothing matched so not select anything and just accept."
\* The code does not keep to it: README.md, "Deviations".
NothingMatched == pc = "done" /\ Common(ext) = {} => ret = "NOACK"

\* SSLContext.setAlpnProtos documents selectorFailureBehavior: with
\* SSL_SELECTOR_FAILURE_CHOOSE_MY_LAST_PROTOCOL the last configured name is the
\* choice when nothing matches.
\* The code does not keep to it: README.md, "Deviations".
BehaviourHonoured ==
    pc = "done" /\ Common(ext) = {} /\ configured[ext] # << >>
      /\ asked[ext] = SSL_SELECTOR_FAILURE_CHOOSE_MY_LAST_PROTOCOL => ret = "OK"

=============================================================================
