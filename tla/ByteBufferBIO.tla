--------------------------- MODULE ByteBufferBIO ---------------------------
(***************************************************************************)
(* The BIO that connects OpenSSL's record layer to a Java direct           *)
(* ByteBuffer (ssl.c, struct TCN_bio_bytebuffer).                          *)
(*                                                                         *)
(* Java lends the BIO one buffer at a time: a source that SSL_read takes   *)
(* network bytes from, or a sink that SSL_write puts records in.  What TLS *)
(* writes while no sink is lent is queued in the non-application buffer, a *)
(* ring of Size bytes, and moves to the next sink in front of newer bytes. *)
(*                                                                         *)
(* A byte is its position in the stream it belongs to, so that a lost,     *)
(* repeated or reordered byte is visible: TLS writes 1, 2, 3, ... and the  *)
(* network holds 1, 2, 3, ...  Java's use of one SSL is sequential: every  *)
(* JNI call is one step.                                                   *)
(***************************************************************************)
EXTENDS Integers, Sequences

CONSTANTS
    Size,         \* nonApplicationBufferSize, given to bioNewByteBuffer
    MaxUsable,    \* bound on maxUsableBytes of a lent buffer
    MaxChunk,     \* bound on the length of one BIO_write or BIO_read
    MaxBytes,     \* bound on the bytes of each of the two streams
    FlushesFirst  \* whether Java flushes a sink before TLS writes into it

ASSUME SizeAssumption == Size \in Nat \ {0}
ASSUME BoundAssumption == MaxUsable \in Nat /\ MaxChunk \in Nat /\ MaxBytes \in Nat
ASSUME FlushAssumption == FlushesFirst \in BOOLEAN

VARIABLES
    status,                      \* life of the BIO, "crashed" for a dead process
    nonApplicationBuffer,
    nonApplicationBufferOffset,
    nonApplicationBufferLength,
    buffer,                      \* pointer into the lent buffer, NULL if none
    bufferLength,
    bufferIsSSLWriteSink,
    retry,                       \* the BIO's retry flag
    last,                        \* the last call and what it returned
    limit,                       \* maxUsableBytes of the lent buffer
    flushed,                     \* bioFlushByteBuffer was called on this buffer
    sent,                        \* bytes BIO_write reported as written
    delivered,                   \* bytes copied into sinks, in copying order
    consumed,                    \* source bytes Java counts as consumed
    received                     \* bytes TLS got from BIO_read

ring    == <<nonApplicationBuffer, nonApplicationBufferOffset, nonApplicationBufferLength>>
lent    == <<buffer, bufferLength, bufferIsSSLWriteSink, limit, flushed>>
streams == <<sent, delivered, consumed, received>>
vars    == <<status, ring, lent, retry, last, streams>>

NULL    == -1
Garbage == 0            \* what malloc leaves in the ring: no byte of the stream
Cells   == 0 .. Size - 1

TCN_MIN(a, b) == IF a < b THEN a ELSE b

Returns(op, ret) == last' = [op |-> op, ret |-> ret]
Live == status = "live"

Init ==
    /\ status = "none"
    /\ nonApplicationBuffer = [i \in Cells |-> Garbage]
    /\ nonApplicationBufferOffset = 0
    /\ nonApplicationBufferLength = 0
    /\ buffer = NULL
    /\ bufferLength = 0
    /\ bufferIsSSLWriteSink = FALSE
    /\ retry = "none"
    /\ last = [op |-> "none", ret |-> 0]
    /\ limit = 0
    /\ flushed = FALSE
    /\ sent = 0
    /\ delivered = << >>
    /\ consumed = 0
    /\ received = << >>

-----------------------------------------------------------------------------
(* Life of the BIO.                                                        *)

\* SSL.bioNewByteBuffer: a failed allocation frees the BIO and throws.
bioNewByteBuffer ==
    /\ status = "none"
    /\ \/ status' = "live" /\ Returns("new", 1)
       \/ status' = "none" /\ Returns("new", 0)
    /\ UNCHANGED <<ring, lent, retry, streams>>

\* SSL.freeSSL frees the BIO that bioNewByteBuffer attached, and with it the ring.
bio_java_bytebuffer_destroy ==
    /\ Live
    /\ status' = "freed"
    /\ Returns("free", 1)
    /\ UNCHANGED <<ring, lent, retry, streams>>

-----------------------------------------------------------------------------
(* Lending a buffer.                                                       *)

\* What Java counts as consumed of a source it takes back: the difference of
\* two calls of bioLengthByteBuffer.
bioLengthByteBuffer == bufferLength
TakeBack ==
    consumed' = IF bufferIsSSLWriteSink THEN consumed
                ELSE consumed + (limit - bioLengthByteBuffer)

bioSetByteBuffer(maxUsableBytes, isSSLWriteSink) ==
    /\ Live
    /\ TakeBack
    /\ buffer' = 0
    /\ bufferLength' = maxUsableBytes
    /\ bufferIsSSLWriteSink' = isSSLWriteSink
    /\ limit' = maxUsableBytes
    /\ flushed' = FALSE
    /\ Returns("set", 0)
    /\ UNCHANGED <<status, ring, retry, sent, delivered, received>>

\* Mutant: the remaining length of the buffer that is gone survives.
bioClearByteBufferKeepsLength ==
    /\ Live
    /\ TakeBack
    /\ buffer' = NULL
    /\ bufferIsSSLWriteSink' = FALSE
    /\ limit' = 0
    /\ flushed' = FALSE
    /\ Returns("clear", 0)
    /\ UNCHANGED <<status, ring, bufferLength, retry, sent, delivered, received>>

bioClearByteBuffer ==
    /\ Live
    /\ TakeBack
    /\ buffer' = NULL
    /\ bufferLength' = 0
    /\ bufferIsSSLWriteSink' = FALSE
    /\ limit' = 0
    /\ flushed' = FALSE
    /\ Returns("clear", 0)
    /\ UNCHANGED <<status, ring, retry, sent, delivered, received>>

\* buffer += n, bufferLength -= n.  Mutant: the pointer stays.
AdvanceLengthOnly(n) ==
    /\ bufferLength' = bufferLength - n
    /\ UNCHANGED buffer

Advance(n) ==
    /\ bufferLength' = bufferLength - n
    /\ buffer' = buffer + n

-----------------------------------------------------------------------------
(* Draining the ring: tcn_flush_sslbuffer_to_bytebuffer.                   *)

\* The cell i bytes after the oldest queued byte.
CellOf(i) ==
    IF i < Size - nonApplicationBufferOffset
    THEN nonApplicationBufferOffset + i
    ELSE i - (Size - nonApplicationBufferOffset)

FlushAmount == TCN_MIN(bufferLength, nonApplicationBufferLength)

\* Mutant: the part that wraps to the front of the ring is not copied.
FlushBytesContiguous ==
    [i \in 1 .. TCN_MIN(FlushAmount, Size - nonApplicationBufferOffset) |->
        nonApplicationBuffer[CellOf(i - 1)]]

FlushBytes == [i \in 1 .. FlushAmount |-> nonApplicationBuffer[CellOf(i - 1)]]

\* Mutant: a partial drain leaves the offset where it was.
FlushOffsetForgotten ==
    IF FlushAmount = nonApplicationBufferLength THEN 0 ELSE nonApplicationBufferOffset

FlushOffset ==
    LET writeChunk == Size - nonApplicationBufferOffset
    IN  IF FlushAmount = nonApplicationBufferLength THEN 0
        ELSE IF FlushAmount > writeChunk THEN FlushAmount - writeChunk
        ELSE nonApplicationBufferOffset + FlushAmount

bioFlushByteBuffer ==
    /\ Live
    /\ flushed' = TRUE
    /\ IF nonApplicationBufferLength = 0 \/ buffer = NULL \/ ~bufferIsSSLWriteSink
       THEN /\ Returns("flush", 0)
            /\ UNCHANGED <<ring, buffer, bufferLength, delivered>>
       ELSE /\ nonApplicationBufferOffset' = FlushOffset
            /\ nonApplicationBufferLength' = nonApplicationBufferLength - FlushAmount
            /\ Advance(FlushAmount)
            /\ delivered' = delivered \o FlushBytes
            /\ Returns("flush", FlushAmount)
            /\ UNCHANGED nonApplicationBuffer
    /\ UNCHANGED <<status, bufferIsSSLWriteSink, limit, retry, sent, consumed, received>>

\* BIO_flush (BIO_CTRL_FLUSH): reports success and moves nothing.
bio_java_bytebuffer_ctrl ==
    /\ Live
    /\ Returns("BIO_flush", 1)
    /\ UNCHANGED <<status, ring, lent, retry, streams>>

-----------------------------------------------------------------------------
(* Writing: tcn_write_to_bytebuffer with the next inl bytes of TLS.        *)

\* The k-th byte of in.
In(k) == sent + k

Blocked(op, flag) ==
    /\ retry' = flag
    /\ Returns(op, -1)
    /\ UNCHANGED <<status, ring, lent, streams>>

\* Nothing to write.
WriteNothing(inl) ==
    /\ Live
    /\ inl = 0
    /\ retry' = "none"
    /\ Returns("write", 0)
    /\ UNCHANGED <<status, ring, lent, streams>>

\* Where the next byte is queued, and the room from there to the end of the ring.
\* Mutant: the queue is taken to start at the first cell.
StartIndexZeroBased == nonApplicationBufferLength

StartIndex == nonApplicationBufferOffset + nonApplicationBufferLength
WriteChunk == Size - StartIndex

\* Mutant: the free space is not looked at.
QueueAmountUncapped(inl) == inl

QueueAmount(inl) == TCN_MIN(Size - nonApplicationBufferLength, inl)

QueueBytes(inl) ==
    [i \in Cells |->
        IF i >= StartIndex /\ i < StartIndex + QueueAmount(inl)
        THEN In(i - StartIndex + 1)
        ELSE IF i < QueueAmount(inl) - WriteChunk
        THEN In(WriteChunk + i + 1)
        ELSE nonApplicationBuffer[i]]

\* No sink is lent: queue in the ring.  startIndex is not reduced modulo Size,
\* so writeChunk is negative when the queued bytes wrap already, and the first
\* memcpy gets (size_t) writeChunk, nearly the whole address space, as its
\* length: the process dies.
WriteQueued(inl) ==
    /\ Live
    /\ inl > 0
    /\ ~bufferIsSSLWriteSink
    /\ \/ /\ nonApplicationBufferLength = Size
          /\ Blocked("write", "write")
       \/ /\ nonApplicationBufferLength # Size
          /\ WriteChunk < 0
          /\ status' = "crashed"
          /\ UNCHANGED <<ring, lent, retry, last, streams>>
       \/ /\ nonApplicationBufferLength # Size
          /\ WriteChunk >= 0
          /\ nonApplicationBuffer' = QueueBytes(inl)
          /\ nonApplicationBufferLength' = nonApplicationBufferLength + QueueAmount(inl)
          /\ retry' = "none"
          /\ Returns("write", QueueAmount(inl))
          /\ sent' = sent + QueueAmount(inl)
          /\ UNCHANGED <<status, nonApplicationBufferOffset, lent,
                         delivered, consumed, received>>

\* A sink is lent: drain the ring into it, then copy what of in still fits.  The
\* two amounts are returned as one, and TLS advances by what is returned.
SinkFlush == IF nonApplicationBufferLength # 0 THEN FlushAmount ELSE 0
SinkChunk(inl) == TCN_MIN(bufferLength - SinkFlush, inl)

WriteToSink(inl) ==
    /\ Live
    /\ inl > 0
    /\ bufferIsSSLWriteSink
    /\ FlushesFirst => flushed
    /\ \/ /\ buffer = NULL \/ bufferLength = 0
          /\ Blocked("write", "write")
       \/ /\ buffer # NULL /\ bufferLength # 0
          /\ nonApplicationBufferOffset' =
                IF nonApplicationBufferLength # 0 THEN FlushOffset
                ELSE nonApplicationBufferOffset
          /\ nonApplicationBufferLength' = nonApplicationBufferLength - SinkFlush
          /\ Advance(SinkFlush + SinkChunk(inl))
          /\ delivered' = delivered \o FlushBytes \o [k \in 1 .. SinkChunk(inl) |-> In(k)]
          /\ retry' = "none"
          /\ Returns("write", SinkFlush + SinkChunk(inl))
          /\ sent' = sent + SinkFlush + SinkChunk(inl)
          /\ UNCHANGED <<status, nonApplicationBuffer, bufferIsSSLWriteSink, limit, flushed,
                         consumed, received>>

-----------------------------------------------------------------------------
(* Reading: tcn_read_from_bytebuffer.                                      *)

ReadAmount(outl) == TCN_MIN(bufferLength, outl)

bio_java_bytebuffer_read(outl) ==
    /\ Live
    /\ \/ /\ outl = 0
          /\ retry' = "none"
          /\ Returns("read", 0)
          /\ UNCHANGED <<status, ring, lent, streams>>
       \/ /\ outl > 0
          /\ bufferIsSSLWriteSink \/ buffer = NULL \/ bufferLength = 0
          /\ Blocked("read", "read")
       \/ /\ outl > 0
          /\ ~bufferIsSSLWriteSink /\ buffer # NULL /\ bufferLength # 0
          /\ received' = received \o
                [k \in 1 .. ReadAmount(outl) |-> consumed + buffer + k]
          /\ Advance(ReadAmount(outl))
          /\ retry' = "none"
          /\ Returns("read", ReadAmount(outl))
          /\ UNCHANGED <<status, ring, bufferIsSSLWriteSink, limit, flushed,
                         sent, delivered, consumed>>

-----------------------------------------------------------------------------
Next ==
    \/ bioNewByteBuffer
    \/ bio_java_bytebuffer_destroy
    \/ \E n \in 0 .. MaxUsable, sink \in BOOLEAN : bioSetByteBuffer(n, sink)
    \/ bioClearByteBuffer
    \/ bioFlushByteBuffer
    \/ bio_java_bytebuffer_ctrl
    \/ \E n \in 0 .. MaxChunk :
          /\ sent + n <= MaxBytes
          /\ WriteNothing(n) \/ WriteQueued(n) \/ WriteToSink(n)
    \/ \E n \in 0 .. MaxChunk :
          /\ Len(received) + n <= MaxBytes
          /\ bio_java_bytebuffer_read(n)

Spec == Init /\ [][Next]_vars

-----------------------------------------------------------------------------
(* What makes the BIO correct.                                             *)

Ops == {"none", "new", "free", "set", "clear", "flush", "BIO_flush", "write", "read"}

\* Type invariant of struct TCN_bio_bytebuffer: the ring's window never leaves the
\* Size bytes bioNewByteBuffer allocated, although the offset may rest on Size.
TypeOK ==
    /\ status \in {"none", "live", "freed", "crashed"}
    /\ nonApplicationBuffer \in [Cells -> Nat]
    /\ nonApplicationBufferOffset \in 0 .. Size
    /\ nonApplicationBufferLength \in 0 .. Size
    /\ buffer \in Nat \cup {NULL}
    /\ bufferLength \in Nat
    /\ bufferIsSSLWriteSink \in BOOLEAN
    /\ retry \in {"none", "read", "write"}
    /\ last \in [op : Ops, ret : Int]
    /\ limit \in Nat
    /\ flushed \in BOOLEAN
    /\ sent \in Nat
    /\ delivered \in Seq(Nat)
    /\ consumed \in Nat
    /\ received \in Seq(Nat)

\* The pointer and the remaining length move together through every flush, write
\* and read (buffer += n, bufferLength -= n), so what Java computes from
\* bioLengthByteBuffer is what was copied, and no copy leaves the lent memory.
BufferAccounting ==
    /\ buffer = NULL => bufferLength = 0 /\ limit = 0 /\ ~bufferIsSSLWriteSink
    /\ buffer # NULL => buffer + bufferLength = limit

\* What BIO_write reports to TLS adds up to the bytes it took: those that are in
\* a sink and those that wait in the ring (SSL.bioWrite: "The number of bytes
\* that were written").
ReportsBytesWritten ==
    sent = Len(delivered) + nonApplicationBufferLength

\* Sinks get the bytes of TLS in order, none lost and none twice, and the ring
\* holds the bytes that follow them, however writes that queue, writes to a sink
\* and partial flushes alternate and wherever the ring wraps.
StreamIntact ==
    /\ \A i \in 1 .. Len(delivered) : delivered[i] = i
    /\ \A i \in 0 .. nonApplicationBufferLength - 1 :
          nonApplicationBuffer[CellOf(i)] = Len(delivered) + i + 1

\* TLS reads the bytes of the network in order and once each, across sources that
\* Java takes back half read and lends again from where bioLengthByteBuffer says.
SourceIntact ==
    /\ \A i \in 1 .. Len(received) : received[i] = i
    /\ Len(received) = IF bufferIsSSLWriteSink THEN consumed
                       ELSE consumed + (limit - bufferLength)

\* A flushed sink has room left only when the ring is empty, so a write to it
\* after the flush drains nothing on the way (bioFlushByteBuffer).
FlushDrains ==
    flushed /\ bufferIsSSLWriteSink =>
        nonApplicationBufferLength = 0 \/ bufferLength = 0

\* No copy into the ring starts outside it: "the internal SSL write buffers are
\* ready to capture data which may unexpectedly happen" (SSL.bioClearByteBuffer).
ReadyToCapture == status # "crashed"

\* BIO_flush moves the queued bytes as bioFlushByteBuffer would, which "does the
\* same thing as BIO_flush" (SSL.bioFlushByteBuffer).
\* The code does not keep to it: README.md, "Deviations".
BIOFlushDrains ==
    [][last'.op = "BIO_flush" /\ bufferIsSSLWriteSink =>
         nonApplicationBufferLength' = nonApplicationBufferLength - FlushAmount]_vars

\* The bytes that wait in the ring, oldest first.
Pending == [i \in 1 .. nonApplicationBufferLength |-> nonApplicationBuffer[CellOf(i - 1)]]

Stream == INSTANCE ByteStream
            WITH Capacity <- Size, MaxWrite <- MaxChunk, pending <- Pending

\* The BIO implements the first-in first-out stream: a write queues at the back of
\* what waits or goes to a sink nothing waits for, and only the front leaves.
ImplementsStream == Stream!Spec
=============================================================================
