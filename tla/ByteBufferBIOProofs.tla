------------------------ MODULE ByteBufferBIOProofs ------------------------
(***************************************************************************)
(* Proofs about the ByteBuffer BIO, for every ring size and every bound.   *)
(***************************************************************************)
EXTENDS ByteBufferBIO, SequenceTheorems, TLAPS

\* A pointer Java lends is never NULL.
LEMMA NullIsNoPointer == NULL \notin Nat
  BY DEF NULL

\* What appending n bytes to a log of bytes does (memcpy into a sink, into out).
LEMMA Extend ==
    ASSUME NEW s \in Seq(Nat), NEW n \in Nat, NEW f \in [1 .. n -> Nat]
    PROVE  /\ s \o f \in Seq(Nat)
           /\ Len(s \o f) = Len(s) + n
           /\ \A i \in 1 .. Len(s) + n :
                 (s \o f)[i] = IF i <= Len(s) THEN s[i] ELSE f[i - Len(s)]
  <1>1. f \in Seq(Nat) /\ Len(f) = n
    BY SeqDef, LenProperties
  <1>2. QED
    BY <1>1, ConcatProperties

\* A log that holds 1, 2, 3, ... still does when the bytes that follow are appended.
LEMMA ExtendInOrder ==
    ASSUME NEW s \in Seq(Nat), NEW n \in Nat, NEW f \in [1 .. n -> Nat],
           \A i \in 1 .. Len(s) : s[i] = i,
           \A k \in 1 .. n : f[k] = Len(s) + k
    PROVE  \A i \in 1 .. Len(s \o f) : (s \o f)[i] = i
  <1>1. Len(s) \in Nat
    BY LenProperties
  <1>2. QED
    BY <1>1, Extend

-----------------------------------------------------------------------------
\* TypeOK is not inductive by itself: that a source taken back adds a natural
\* number to consumed needs the pointer and the length to add up to the limit.
BufferInv == TypeOK /\ BufferAccounting

\* What TCN_MIN leaves to copy is never negative and never more than there is.
LEMMA AmountTypes ==
    ASSUME BufferInv
    PROVE  /\ FlushAmount \in Nat
           /\ FlushAmount <= bufferLength
           /\ FlushAmount <= nonApplicationBufferLength
           /\ FlushOffset \in 0 .. Size
           /\ FlushBytes \in [1 .. FlushAmount -> Nat]
           /\ limit - bufferLength \in Nat
  <1>0. USE SizeAssumption DEF BufferInv, TypeOK, BufferAccounting, TCN_MIN
  <1>1. /\ FlushAmount \in Nat
        /\ FlushAmount <= bufferLength
        /\ FlushAmount <= nonApplicationBufferLength
    BY DEF FlushAmount
  <1>2. FlushOffset \in 0 .. Size
    BY <1>1 DEF FlushOffset
  <1>3. \A i \in 0 .. FlushAmount - 1 : CellOf(i) \in Cells
    BY <1>1 DEF CellOf, Cells
  <1>4. FlushBytes \in [1 .. FlushAmount -> Nat]
    BY <1>1, <1>3 DEF FlushBytes
  <1>5. limit - bufferLength \in Nat
    BY NullIsNoPointer
  <1>6. QED
    BY <1>1, <1>2, <1>4, <1>5

\* Every action keeps the type invariant and the accounting of the lent buffer.
LEMMA BufferInvStep == BufferInv /\ [Next]_vars => BufferInv'
  <1> SUFFICES ASSUME BufferInv, [Next]_vars
               PROVE  BufferInv'
    OBVIOUS
  <1> USE SizeAssumption, BoundAssumption, NullIsNoPointer
  <1>0. /\ FlushAmount \in Nat
        /\ FlushAmount <= bufferLength
        /\ FlushAmount <= nonApplicationBufferLength
        /\ FlushOffset \in 0 .. Size
        /\ FlushBytes \in [1 .. FlushAmount -> Nat]
        /\ limit - bufferLength \in Nat
    BY AmountTypes
  <1> USE DEF BufferInv, TypeOK, BufferAccounting, Ops, Returns, Live, ring, lent, streams
  <1>1. CASE bioNewByteBuffer
    BY <1>1 DEF bioNewByteBuffer
  <1>2. CASE bio_java_bytebuffer_destroy
    BY <1>2 DEF bio_java_bytebuffer_destroy
  <1>3. ASSUME NEW n \in 0 .. MaxUsable, NEW sink \in BOOLEAN, bioSetByteBuffer(n, sink)
        PROVE  BufferInv'
    <2>1. bufferIsSSLWriteSink' \in BOOLEAN /\ flushed' \in BOOLEAN
      BY <1>3 DEF bioSetByteBuffer
    <2>2. bufferLength' \in Nat /\ limit' \in Nat /\ buffer' \in Nat \cup {NULL}
      BY <1>3 DEF bioSetByteBuffer
    <2>3. TypeOK'
      BY <1>0, <1>3, <2>1, <2>2 DEF bioSetByteBuffer, TakeBack, bioLengthByteBuffer
    <2>4. QED
      BY <1>3, <2>3 DEF bioSetByteBuffer
  <1>4. CASE bioClearByteBuffer
    <2>1. bufferIsSSLWriteSink' \in BOOLEAN /\ flushed' \in BOOLEAN
      BY <1>4 DEF bioClearByteBuffer
    <2>2. TypeOK'
      BY <1>0, <1>4, <2>1 DEF bioClearByteBuffer, TakeBack, bioLengthByteBuffer
    <2>3. QED
      BY <1>4, <2>2 DEF bioClearByteBuffer
  <1>5. CASE bioFlushByteBuffer
    <2>1. delivered \o FlushBytes \in Seq(Nat)
      BY <1>0, Extend
    <2>2. bufferIsSSLWriteSink' \in BOOLEAN /\ flushed' \in BOOLEAN
      BY <1>5 DEF bioFlushByteBuffer
    <2>3. CASE UNCHANGED <<ring, buffer, bufferLength, delivered>> /\ Returns("flush", 0)
      BY <1>5, <2>2, <2>3 DEF bioFlushByteBuffer
    <2>4. CASE buffer # NULL /\ Advance(FlushAmount)
      <3>1. /\ bufferLength' \in Nat /\ limit' \in Nat
            /\ buffer' \in Nat
            /\ buffer' + bufferLength' = limit'
        BY <1>0, <1>5, <2>4 DEF bioFlushByteBuffer, Advance
      <3>2. CASE /\ Returns("flush", FlushAmount)
                 /\ nonApplicationBufferOffset' = FlushOffset
                 /\ nonApplicationBufferLength' = nonApplicationBufferLength - FlushAmount
                 /\ delivered' = delivered \o FlushBytes
                 /\ UNCHANGED nonApplicationBuffer
        <4>1. UNCHANGED <<status, bufferIsSSLWriteSink, limit, retry, sent, consumed, received>>
          BY <1>5 DEF bioFlushByteBuffer
        <4>2. TypeOK'
          BY <1>0, <2>1, <2>2, <2>4, <3>1, <3>2, <4>1
        <4>3. QED
          BY <3>1, <4>2
      <3>3. QED
        BY <1>5, <2>3, <3>2 DEF bioFlushByteBuffer
    <2>5. QED
      BY <1>5, <2>3, <2>4 DEF bioFlushByteBuffer
  <1>6. CASE bio_java_bytebuffer_ctrl
    BY <1>6 DEF bio_java_bytebuffer_ctrl
  <1>7. ASSUME NEW n \in 0 .. MaxChunk, WriteNothing(n)
        PROVE  BufferInv'
    BY <1>7 DEF WriteNothing
  <1>8. ASSUME NEW n \in 0 .. MaxChunk, WriteQueued(n)
        PROVE  BufferInv'
    <2>1. CASE Blocked("write", "write")
      BY <2>1 DEF Blocked
    <2>2. CASE status' = "crashed" /\ UNCHANGED <<ring, lent, retry, last, streams>>
      BY <2>2
    <2>3. ASSUME nonApplicationBufferLength # Size, WriteChunk >= 0
          PROVE  /\ QueueAmount(n) \in Nat
                 /\ QueueAmount(n) <= Size - nonApplicationBufferLength
                 /\ QueueBytes(n) \in [Cells -> Nat]
      <3>1. /\ QueueAmount(n) \in Nat
            /\ QueueAmount(n) <= Size - nonApplicationBufferLength
        BY DEF QueueAmount, TCN_MIN
      <3>2. StartIndex \in Nat /\ WriteChunk \in Nat
        BY <2>3 DEF StartIndex, WriteChunk
      <3>3. \A i \in Cells : QueueBytes(n)[i] \in Nat
        BY <3>1, <3>2 DEF QueueBytes, In, Cells
      <3>4. QED
        BY <3>1, <3>3 DEF QueueBytes
    <2>4. CASE /\ nonApplicationBufferLength # Size
               /\ WriteChunk >= 0
               /\ nonApplicationBuffer' = QueueBytes(n)
               /\ nonApplicationBufferLength' = nonApplicationBufferLength + QueueAmount(n)
               /\ retry' = "none"
               /\ Returns("write", QueueAmount(n))
               /\ sent' = sent + QueueAmount(n)
               /\ UNCHANGED <<status, nonApplicationBufferOffset, lent,
                              delivered, consumed, received>>
      BY <2>3, <2>4
    <2>5. QED
      BY <1>8, <2>1, <2>2, <2>4 DEF WriteQueued
  <1>9. ASSUME NEW n \in 0 .. MaxChunk, WriteToSink(n)
        PROVE  BufferInv'
    <2>1. CASE Blocked("write", "write")
      BY <2>1 DEF Blocked
    <2>2. /\ SinkFlush \in Nat
          /\ SinkFlush <= nonApplicationBufferLength
          /\ SinkChunk(n) \in Nat
          /\ SinkFlush + SinkChunk(n) <= bufferLength
      BY <1>0 DEF SinkFlush, SinkChunk, TCN_MIN
    <2>3. [k \in 1 .. SinkChunk(n) |-> In(k)] \in [1 .. SinkChunk(n) -> Nat]
      BY <2>2 DEF In
    <2>4. delivered \o FlushBytes \o [k \in 1 .. SinkChunk(n) |-> In(k)] \in Seq(Nat)
      BY <1>0, <2>2, <2>3, Extend
    <2>5. CASE /\ buffer # NULL
               /\ nonApplicationBufferOffset' =
                     IF nonApplicationBufferLength # 0 THEN FlushOffset
                     ELSE nonApplicationBufferOffset
               /\ nonApplicationBufferLength' = nonApplicationBufferLength - SinkFlush
               /\ Advance(SinkFlush + SinkChunk(n))
               /\ delivered' = delivered \o FlushBytes \o [k \in 1 .. SinkChunk(n) |-> In(k)]
               /\ retry' = "none"
               /\ Returns("write", SinkFlush + SinkChunk(n))
               /\ sent' = sent + SinkFlush + SinkChunk(n)
               /\ UNCHANGED <<status, nonApplicationBuffer, bufferIsSSLWriteSink, limit, flushed,
                              consumed, received>>
      <3>1. PICK d \in 0 .. bufferLength :
               bufferLength' = bufferLength - d /\ buffer' = buffer + d /\ limit' = limit
        <4>1. /\ bufferLength' = bufferLength - (SinkFlush + SinkChunk(n))
              /\ buffer' = buffer + (SinkFlush + SinkChunk(n))
              /\ limit' = limit
          BY <2>5 DEF Advance
        <4>2. SinkFlush + SinkChunk(n) \in 0 .. bufferLength
          BY <2>2
        <4>3. QED
          BY <4>1, <4>2, Zenon
      <3>2. buffer \in Nat /\ buffer + bufferLength = limit
        BY <2>5
      <3>3. /\ bufferLength' \in Nat /\ limit' \in Nat
            /\ buffer' \in Nat
            /\ buffer' + bufferLength' = limit'
        BY <3>1, <3>2
      <3>4. nonApplicationBufferOffset' \in 0 .. Size
        BY <1>0, <2>5
      <3>5. /\ nonApplicationBufferLength' \in 0 .. Size
            /\ sent' \in Nat
        BY <2>2, <2>5
      <3>6. last' \in [op : Ops, ret : Int]
        BY <2>2, <2>5
      <3>7. delivered' \in Seq(Nat)
        BY <2>4, <2>5
      <3>8. TypeOK'
        BY <2>5, <3>3, <3>4, <3>5, <3>6, <3>7
      <3>9. QED
        BY <3>3, <3>8, NullIsNoPointer
    <2>6. QED
      BY <1>9, <2>1, <2>5 DEF WriteToSink
  <1>10. ASSUME NEW n \in 0 .. MaxChunk, bio_java_bytebuffer_read(n)
         PROVE  BufferInv'
    <2>1. CASE Blocked("read", "read")
      BY <2>1 DEF Blocked
    <2>2. ReadAmount(n) \in Nat /\ ReadAmount(n) <= bufferLength
      BY DEF ReadAmount, TCN_MIN
    <2>3. ASSUME buffer # NULL
          PROVE  received \o [k \in 1 .. ReadAmount(n) |-> consumed + buffer + k] \in Seq(Nat)
      <3>1. [k \in 1 .. ReadAmount(n) |-> consumed + buffer + k] \in [1 .. ReadAmount(n) -> Nat]
        BY <2>2, <2>3, NullIsNoPointer
      <3>2. QED
        BY <2>2, <3>1, Extend
    <2>4. CASE n = 0 /\ UNCHANGED <<status, ring, lent, streams>> /\ retry' = "none" /\ Returns("read", 0)
      BY <2>4
    <2>5. CASE /\ buffer # NULL /\ ~bufferIsSSLWriteSink
               /\ Advance(ReadAmount(n))
               /\ received' = received \o [k \in 1 .. ReadAmount(n) |-> consumed + buffer + k]
               /\ retry' = "none"
               /\ Returns("read", ReadAmount(n))
               /\ UNCHANGED <<status, ring, bufferIsSSLWriteSink, limit, flushed,
                              sent, delivered, consumed>>
      <3>0. /\ buffer \in Nat /\ bufferLength \in Nat /\ buffer + bufferLength = limit
            /\ bufferLength' = bufferLength - ReadAmount(n)
            /\ buffer' = buffer + ReadAmount(n) /\ limit' = limit
        BY <2>5 DEF Advance
      <3>1. /\ bufferLength' \in Nat /\ limit' \in Nat
            /\ buffer' \in Nat
            /\ buffer' + bufferLength' = limit'
        BY ONLY <2>2, <3>0
      <3>2. received' \in Seq(Nat)
        BY <2>3, <2>5
      <3>3. last' \in [op : Ops, ret : Int]
        BY <2>2, <2>5
      <3>4. TypeOK'
        BY <2>5, <3>1, <3>2, <3>3
      <3>5. QED
        BY <3>1, <3>4, NullIsNoPointer
    <2>6. QED
      BY <1>10, <2>1, <2>4, <2>5 DEF bio_java_bytebuffer_read
  <1>11. CASE UNCHANGED vars
    BY <1>11 DEF vars
  <1>12. QED
    BY <1>1, <1>2, <1>3, <1>4, <1>5, <1>6, <1>7, <1>8, <1>9, <1>10, <1>11 DEF Next

\* The fields of struct TCN_bio_bytebuffer keep their types: the ring's window stays
\* inside the allocation, whether or not Java flushes first.
THEOREM TypeCorrect == Spec => []TypeOK
  <1>1. Init => BufferInv
    BY SizeAssumption, EmptySeq, NullIsNoPointer
       DEF Init, BufferInv, TypeOK, BufferAccounting, Cells, Garbage, Ops
  <1>2. BufferInv => TypeOK
    BY DEF BufferInv
  <1>3. QED
    BY <1>1, <1>2, BufferInvStep, PTL DEF Spec

\* The remaining length Java reads is exact and no copy leaves the lent buffer, for
\* every ring size and every buffer, whether or not Java flushes first.
THEOREM BufferAccounted == Spec => []BufferAccounting
  <1>1. Init => BufferInv
    BY SizeAssumption, EmptySeq, NullIsNoPointer
       DEF Init, BufferInv, TypeOK, BufferAccounting, Cells, Garbage, Ops
  <1>2. BufferInv => BufferAccounting
    BY DEF BufferInv
  <1>3. QED
    BY <1>1, <1>2, BufferInvStep, PTL DEF Spec

-----------------------------------------------------------------------------
(* The write side, when Java flushes a sink before TLS writes into it.     *)

\* Where the bytes that stay queued are after a flush of the front of the ring.
LEMMA CellsAfterFlush ==
    ASSUME BufferInv,
           nonApplicationBufferOffset' = FlushOffset,
           NEW i \in Nat, i < nonApplicationBufferLength - FlushAmount
    PROVE  CellOf(i)' = CellOf(i + FlushAmount)
  <1>1. /\ FlushAmount \in Nat
        /\ FlushAmount < nonApplicationBufferLength
        /\ nonApplicationBufferLength \in 0 .. Size
        /\ nonApplicationBufferOffset \in 0 .. Size
    BY AmountTypes, SizeAssumption DEF BufferInv, TypeOK
  <1>2. QED
    BY <1>1, SizeAssumption DEF CellOf, FlushOffset

\* Queueing leaves the queued bytes alone and puts the new ones behind them,
\* across the end of the ring, unless the queued bytes wrapped before.
LEMMA CellsAfterQueue ==
    ASSUME BufferInv, NEW n \in Nat, WriteChunk >= 0,
           NEW i \in Nat, i < nonApplicationBufferLength + QueueAmount(n)
    PROVE  /\ CellOf(i) \in Cells
           /\ QueueBytes(n)[CellOf(i)] =
                 IF i < nonApplicationBufferLength
                 THEN nonApplicationBuffer[CellOf(i)]
                 ELSE In(i - nonApplicationBufferLength + 1)
  <1>1. /\ nonApplicationBufferLength \in 0 .. Size
        /\ nonApplicationBufferOffset \in 0 .. Size
        /\ sent \in Nat
        /\ Size \in Nat
    BY SizeAssumption DEF BufferInv, TypeOK
  <1>2. QueueAmount(n) \in Nat /\ QueueAmount(n) <= Size - nonApplicationBufferLength
    BY <1>1 DEF QueueAmount, TCN_MIN
  <1>3. CellOf(i) \in Cells
    BY <1>1, <1>2 DEF CellOf, Cells
  <1>4. QueueBytes(n)[CellOf(i)] =
            IF CellOf(i) >= StartIndex /\ CellOf(i) < StartIndex + QueueAmount(n)
            THEN In(CellOf(i) - StartIndex + 1)
            ELSE IF CellOf(i) < QueueAmount(n) - WriteChunk
            THEN In(WriteChunk + CellOf(i) + 1)
            ELSE nonApplicationBuffer[CellOf(i)]
    BY <1>3 DEF QueueBytes
  <1>5. CASE i < nonApplicationBufferLength
    <2>1. ~(CellOf(i) >= StartIndex) /\ ~(CellOf(i) < QueueAmount(n) - WriteChunk)
      BY <1>1, <1>2, <1>5 DEF CellOf, StartIndex, WriteChunk
    <2>2. QED
      BY <1>3, <1>4, <1>5, <2>1
  <1>6. CASE i >= nonApplicationBufferLength /\ i < Size - nonApplicationBufferOffset
    BY <1>1, <1>2, <1>3, <1>4, <1>6 DEF CellOf, StartIndex, WriteChunk, In
  <1>7. CASE i >= nonApplicationBufferLength /\ i >= Size - nonApplicationBufferOffset
    BY <1>1, <1>2, <1>3, <1>4, <1>7 DEF CellOf, StartIndex, WriteChunk, In
  <1>8. QED
    BY <1>1, <1>5, <1>6, <1>7

\* StreamIntact is not inductive by itself: a write to a sink delivers the right
\* bytes only if the reports add up, and they do only if a flushed sink is drained.
StreamInv == BufferInv /\ FlushDrains /\ ReportsBytesWritten /\ StreamIntact

\* Every action keeps the stream in order when Java flushes before it lends a buffer.
LEMMA StreamStep ==
    ASSUME FlushesFirst
    PROVE  StreamInv /\ [Next]_vars => StreamInv'
  <1> SUFFICES ASSUME StreamInv, [Next]_vars
               PROVE  StreamInv'
    OBVIOUS
  <1> USE SizeAssumption, BoundAssumption
  <1>0. BufferInv /\ BufferInv'
    BY BufferInvStep DEF StreamInv
  <1>t. /\ nonApplicationBufferLength \in 0 .. Size
        /\ nonApplicationBufferOffset \in 0 .. Size
        /\ bufferLength \in Nat
        /\ sent \in Nat
        /\ delivered \in Seq(Nat)
        /\ Len(delivered) \in Nat
    BY <1>0, LenProperties DEF BufferInv, TypeOK
  <1>a. /\ FlushAmount \in Nat
        /\ FlushAmount <= bufferLength
        /\ FlushAmount <= nonApplicationBufferLength
        /\ FlushBytes \in [1 .. FlushAmount -> Nat]
    BY <1>0, AmountTypes
  \* The stream is untouched by a step that moves no byte.
  <1>u. ASSUME UNCHANGED <<ring, sent, delivered>>
        PROVE  ReportsBytesWritten' /\ StreamIntact'
    BY <1>u DEF StreamInv, ReportsBytesWritten, StreamIntact, CellOf, ring
  <1>1. CASE bioNewByteBuffer \/ bio_java_bytebuffer_destroy \/ bio_java_bytebuffer_ctrl
    <2>1. UNCHANGED <<ring, lent, sent, delivered>>
      BY <1>1 DEF bioNewByteBuffer, bio_java_bytebuffer_destroy, bio_java_bytebuffer_ctrl, streams
    <2>2. FlushDrains'
      BY <2>1 DEF StreamInv, FlushDrains, ring, lent
    <2>3. QED
      BY <1>0, <1>u, <2>1, <2>2 DEF StreamInv
  <1>2. ASSUME NEW n \in 0 .. MaxUsable, NEW sink \in BOOLEAN, bioSetByteBuffer(n, sink)
        PROVE  StreamInv'
    BY <1>0, <1>2, <1>u DEF bioSetByteBuffer, StreamInv, FlushDrains
  <1>3. CASE bioClearByteBuffer
    BY <1>0, <1>3, <1>u DEF bioClearByteBuffer, StreamInv, FlushDrains
  <1>4. CASE bioFlushByteBuffer
    <2>1. CASE nonApplicationBufferLength = 0 \/ buffer = NULL \/ ~bufferIsSSLWriteSink
      <3>1. UNCHANGED <<ring, bufferIsSSLWriteSink, bufferLength, sent, delivered>>
        BY <1>4, <2>1 DEF bioFlushByteBuffer
      <3>2. FlushDrains'
        BY <1>0, <2>1, <3>1 DEF FlushDrains, ring, BufferInv, BufferAccounting
      <3>3. QED
        BY <1>0, <1>u, <3>1, <3>2 DEF StreamInv
    <2>2. CASE /\ nonApplicationBufferOffset' = FlushOffset
               /\ nonApplicationBufferLength' = nonApplicationBufferLength - FlushAmount
               /\ bufferLength' = bufferLength - FlushAmount
               /\ delivered' = delivered \o FlushBytes
               /\ UNCHANGED <<nonApplicationBuffer, sent>>
      <3>1. FlushDrains'
        BY <1>t, <2>2 DEF FlushDrains, FlushAmount, TCN_MIN
      <3>2. Len(delivered') = Len(delivered) + FlushAmount
        BY <1>a, <1>t, <2>2, Extend
      <3>3. ReportsBytesWritten'
        BY <1>a, <1>t, <2>2, <3>2 DEF StreamInv, ReportsBytesWritten
      <3>4. \A k \in 1 .. FlushAmount : FlushBytes[k] = Len(delivered) + k
        BY <1>a, <1>t DEF StreamInv, StreamIntact, FlushBytes
      <3>5. \A i \in 1 .. Len(delivered') : delivered'[i] = i
        BY <1>a, <1>t, <2>2, <3>4, ExtendInOrder DEF StreamInv, StreamIntact
      <3>6. ASSUME NEW i \in 0 .. nonApplicationBufferLength' - 1
            PROVE  nonApplicationBuffer'[CellOf(i)'] = Len(delivered') + i + 1
        <4>1. CellOf(i)' = CellOf(i + FlushAmount)
          BY <1>0, <1>a, <1>t, <2>2, <3>6, CellsAfterFlush
        <4>2. nonApplicationBuffer[CellOf(i + FlushAmount)] = Len(delivered) + (i + FlushAmount) + 1
          BY <1>a, <1>t, <2>2, <3>6 DEF StreamInv, StreamIntact
        <4>3. QED
          BY <1>a, <1>t, <2>2, <3>2, <4>1, <4>2
      <3>7. StreamIntact'
        BY <3>5, <3>6 DEF StreamIntact
      <3>8. QED
        BY <1>0, <3>1, <3>3, <3>7 DEF StreamInv
    <2>3. QED
      BY <1>4, <2>1, <2>2 DEF bioFlushByteBuffer, Advance
  <1>5. ASSUME NEW n \in 0 .. MaxChunk, WriteNothing(n) \/ bio_java_bytebuffer_read(n)
        PROVE  StreamInv'
    <2>1. UNCHANGED <<ring, sent, delivered, bufferIsSSLWriteSink, flushed>>
      BY <1>5 DEF WriteNothing, bio_java_bytebuffer_read, Blocked, lent, streams
    <2>2. bufferIsSSLWriteSink => bufferLength' = bufferLength
      BY <1>5 DEF WriteNothing, bio_java_bytebuffer_read, Blocked, lent, streams
    <2>3. FlushDrains'
      BY <2>1, <2>2 DEF StreamInv, FlushDrains, ring
    <2>4. QED
      BY <1>0, <1>u, <2>1, <2>3 DEF StreamInv
  <1>6. ASSUME NEW n \in 0 .. MaxChunk, WriteQueued(n)
        PROVE  StreamInv'
    <2>1. FlushDrains'
      BY <1>6 DEF WriteQueued, Blocked, lent, FlushDrains
    <2>2. CASE UNCHANGED <<ring, sent, delivered>>
      BY <1>0, <1>u, <2>1, <2>2 DEF StreamInv
    <2>3. CASE /\ WriteChunk >= 0
               /\ nonApplicationBuffer' = QueueBytes(n)
               /\ nonApplicationBufferLength' = nonApplicationBufferLength + QueueAmount(n)
               /\ sent' = sent + QueueAmount(n)
               /\ UNCHANGED <<nonApplicationBufferOffset, delivered>>
      <3>1. QueueAmount(n) \in Nat
        BY <1>t DEF QueueAmount, TCN_MIN
      <3>2. ReportsBytesWritten'
        BY <1>t, <2>3, <3>1 DEF StreamInv, ReportsBytesWritten
      <3>3. ASSUME NEW i \in 0 .. nonApplicationBufferLength' - 1
            PROVE  nonApplicationBuffer'[CellOf(i)'] = Len(delivered') + i + 1
        <4>1. CellOf(i)' = CellOf(i)
          BY <2>3 DEF CellOf
        <4>2. QueueBytes(n)[CellOf(i)] =
                 IF i < nonApplicationBufferLength
                 THEN nonApplicationBuffer[CellOf(i)]
                 ELSE In(i - nonApplicationBufferLength + 1)
          <5>1. n \in Nat /\ i \in Nat /\ i < nonApplicationBufferLength + QueueAmount(n)
            BY <1>t, <2>3, <3>1, <3>3
          <5>2. QED
            BY <1>0, <2>3, <5>1, CellsAfterQueue
        <4>3. CASE i < nonApplicationBufferLength
          BY <1>t, <2>3, <3>3, <4>1, <4>2, <4>3 DEF StreamInv, StreamIntact
        <4>4. CASE i >= nonApplicationBufferLength
          BY <1>t, <2>3, <3>1, <3>3, <4>1, <4>2, <4>4 DEF StreamInv, ReportsBytesWritten, In
        <4>5. QED
          BY <1>t, <3>3, <4>3, <4>4
      <3>4. StreamIntact'
        BY <2>3, <3>3 DEF StreamInv, StreamIntact
      <3>5. QED
        BY <1>0, <2>1, <3>2, <3>4 DEF StreamInv
    <2>4. QED
      BY <1>6, <2>2, <2>3 DEF WriteQueued, Blocked, streams
  <1>7. ASSUME NEW n \in 0 .. MaxChunk, WriteToSink(n)
        PROVE  StreamInv'
    <2>1. CASE UNCHANGED <<ring, lent, sent, delivered>>
      BY <1>0, <1>u, <2>1 DEF StreamInv, FlushDrains, ring, lent
    <2>2. CASE /\ bufferLength # 0
               /\ nonApplicationBufferOffset' =
                     IF nonApplicationBufferLength # 0 THEN FlushOffset
                     ELSE nonApplicationBufferOffset
               /\ nonApplicationBufferLength' = nonApplicationBufferLength - SinkFlush
               /\ delivered' = delivered \o FlushBytes \o [k \in 1 .. SinkChunk(n) |-> In(k)]
               /\ sent' = sent + SinkFlush + SinkChunk(n)
               /\ UNCHANGED <<nonApplicationBuffer, flushed, bufferIsSSLWriteSink>>
      <3>1. nonApplicationBufferLength = 0
        BY <1>7, <2>2 DEF WriteToSink, StreamInv, FlushDrains
      <3>2. SinkFlush = 0 /\ FlushAmount = 0 /\ SinkChunk(n) \in Nat
        BY <1>t, <3>1 DEF SinkFlush, SinkChunk, FlushAmount, TCN_MIN
      <3>3. nonApplicationBufferLength' = 0
        BY <2>2, <3>1, <3>2
      <3>4. sent = Len(delivered)
        BY <1>t, <3>1 DEF StreamInv, ReportsBytesWritten
      <3> DEFINE new == [k \in 1 .. SinkChunk(n) |-> In(k)]
                 log == delivered \o FlushBytes
      <3>5. new \in [1 .. SinkChunk(n) -> Nat] /\ \A k \in 1 .. SinkChunk(n) : new[k] = sent + k
        BY <1>t, <3>2 DEF In
      <3>6. /\ log \in Seq(Nat)
            /\ Len(log) = Len(delivered)
            /\ \A i \in 1 .. Len(log) : log[i] = i
        BY <1>a, <1>t, <3>2, Extend DEF StreamInv, StreamIntact
      <3>7. delivered' = log \o new
        BY <2>2
      <3> HIDE DEF new, log
      <3>8. Len(delivered') = Len(delivered) + SinkChunk(n)
        <4>1. Len(log \o new) = Len(log) + SinkChunk(n)
          BY <3>2, <3>5, <3>6, Extend
        <4>2. QED
          BY <3>6, <3>7, <4>1
      <3>9. \A i \in 1 .. Len(delivered') : delivered'[i] = i
        BY <3>2, <3>4, <3>5, <3>6, <3>7, ExtendInOrder
      <3>10. ReportsBytesWritten'
        BY <1>t, <2>2, <3>2, <3>3, <3>4, <3>8 DEF ReportsBytesWritten
      <3>11. FlushDrains' /\ StreamIntact'
        BY <3>3, <3>9 DEF FlushDrains, StreamIntact
      <3>12. QED
        BY <1>0, <3>10, <3>11 DEF StreamInv
    <2>3. QED
      BY <1>7, <2>1, <2>2 DEF WriteToSink, Blocked, streams
  <1>8. CASE UNCHANGED vars
    BY <1>0, <1>8, <1>u DEF vars, streams, lent, ring, StreamInv, FlushDrains
  <1>9. QED
    BY <1>1, <1>2, <1>3, <1>4, <1>5, <1>6, <1>7, <1>8 DEF Next

\* A new BIO has sent nothing and owes nothing.
LEMMA StreamInit == Init => StreamInv
  <1>1. Init => BufferInv
    BY SizeAssumption, EmptySeq, NullIsNoPointer
       DEF Init, BufferInv, TypeOK, BufferAccounting, Cells, Garbage, Ops
  <1>2. QED
    BY <1>1, EmptySeq DEF Init, StreamInv, FlushDrains, ReportsBytesWritten, StreamIntact

\* When Java flushes a sink before TLS writes into it, the sinks get the bytes of TLS
\* in order, none lost and none twice, for every ring size and every sequence of
\* writes, partial flushes and lent buffers.
THEOREM StreamCorrect == ASSUME FlushesFirst PROVE Spec => []StreamIntact
  <1>1. StreamInv => StreamIntact
    BY DEF StreamInv
  <1>2. QED
    BY <1>1, StreamInit, StreamStep, PTL DEF Spec

\* A flushed sink has room left only when nothing waits in the ring.
THEOREM FlushCorrect == ASSUME FlushesFirst PROVE Spec => []FlushDrains
  <1>1. StreamInv => FlushDrains
    BY DEF StreamInv
  <1>2. QED
    BY <1>1, StreamInit, StreamStep, PTL DEF Spec

\* Under the same discipline what BIO_write returns is what it took of its input.
THEOREM ReportsCorrect == ASSUME FlushesFirst PROVE Spec => []ReportsBytesWritten
  <1>1. StreamInv => ReportsBytesWritten
    BY DEF StreamInv
  <1>2. QED
    BY <1>1, StreamInit, StreamStep, PTL DEF Spec

-----------------------------------------------------------------------------
(* The read side.                                                          *)

SourceInv == BufferInv /\ SourceIntact

\* Every action keeps the bytes TLS has read a prefix of the network's.
LEMMA SourceStep == SourceInv /\ [Next]_vars => SourceInv'
  <1> SUFFICES ASSUME SourceInv, [Next]_vars
               PROVE  SourceInv'
    OBVIOUS
  <1> USE SizeAssumption, BoundAssumption
  <1>0. BufferInv /\ BufferInv'
    BY BufferInvStep DEF SourceInv
  <1>t. /\ bufferLength \in Nat /\ limit \in Nat /\ consumed \in Nat
        /\ received \in Seq(Nat) /\ Len(received) \in Nat
        /\ limit - bufferLength \in Nat
    BY <1>0, LenProperties, AmountTypes DEF BufferInv, TypeOK
  \* Whatever leaves the source and what was read of it alone keeps the property.
  <1>u. ASSUME UNCHANGED <<bufferIsSSLWriteSink, limit, consumed, received>>,
               ~bufferIsSSLWriteSink => bufferLength' = bufferLength
        PROVE  SourceInv'
    BY <1>0, <1>u DEF SourceInv, SourceIntact
  <1>1. CASE bioNewByteBuffer \/ bio_java_bytebuffer_destroy \/ bio_java_bytebuffer_ctrl
    BY <1>1, <1>u DEF bioNewByteBuffer, bio_java_bytebuffer_destroy, bio_java_bytebuffer_ctrl,
                      lent, streams
  <1>2. ASSUME NEW n \in 0 .. MaxUsable, NEW sink \in BOOLEAN, bioSetByteBuffer(n, sink)
        PROVE  SourceInv'
    <2>1. Len(received) = consumed'
      BY <1>2 DEF bioSetByteBuffer, TakeBack, bioLengthByteBuffer, SourceInv, SourceIntact
    <2>2. received' = received /\ limit' - bufferLength' = 0
      BY <1>2 DEF bioSetByteBuffer
    <2>3. consumed' \in Nat
      BY <1>0 DEF BufferInv, TypeOK
    <2>4. QED
      BY <1>0, <1>t, <2>1, <2>2, <2>3 DEF SourceInv, SourceIntact
  <1>3. CASE bioClearByteBuffer
    <2>1. Len(received) = consumed'
      BY <1>3 DEF bioClearByteBuffer, TakeBack, bioLengthByteBuffer, SourceInv, SourceIntact
    <2>2. received' = received /\ limit' - bufferLength' = 0
      BY <1>3 DEF bioClearByteBuffer
    <2>3. consumed' \in Nat
      BY <1>0 DEF BufferInv, TypeOK
    <2>4. QED
      BY <1>0, <1>t, <2>1, <2>2, <2>3 DEF SourceInv, SourceIntact
  <1>4. CASE bioFlushByteBuffer
    BY <1>4, <1>u DEF bioFlushByteBuffer
  <1>5. ASSUME NEW n \in 0 .. MaxChunk, WriteNothing(n) \/ WriteQueued(n) \/ WriteToSink(n)
        PROVE  SourceInv'
    BY <1>5, <1>u DEF WriteNothing, WriteQueued, WriteToSink, Blocked, lent, streams
  <1>6. ASSUME NEW n \in 0 .. MaxChunk, bio_java_bytebuffer_read(n)
        PROVE  SourceInv'
    <2>1. CASE UNCHANGED <<lent, streams>>
      BY <1>u, <2>1 DEF lent, streams
    <2> DEFINE new == [k \in 1 .. ReadAmount(n) |-> consumed + buffer + k]
    <2>2. CASE /\ buffer # NULL /\ ~bufferIsSSLWriteSink
               /\ received' = received \o new
               /\ bufferLength' = bufferLength - ReadAmount(n)
               /\ UNCHANGED <<bufferIsSSLWriteSink, limit, consumed>>
      <3>1. ReadAmount(n) \in Nat /\ ReadAmount(n) <= bufferLength
        BY <1>t DEF ReadAmount, TCN_MIN
      <3>2. buffer \in Nat /\ buffer + bufferLength = limit
        BY <1>0, <2>2 DEF BufferInv, TypeOK, BufferAccounting
      <3>3. Len(received) = consumed + buffer
        BY <1>t, <2>2, <3>2 DEF SourceInv, SourceIntact
      <3>4. /\ new \in [1 .. ReadAmount(n) -> Nat]
            /\ \A k \in 1 .. ReadAmount(n) : new[k] = Len(received) + k
        BY <1>t, <3>1, <3>2, <3>3
      <3> HIDE DEF new
      <3>5. \A i \in 1 .. Len(received') : received'[i] = i
        BY <1>t, <2>2, <3>1, <3>4, ExtendInOrder DEF SourceInv, SourceIntact
      <3>6. Len(received') = Len(received) + ReadAmount(n)
        BY <1>t, <2>2, <3>1, <3>4, Extend
      <3>7. Len(received') = consumed' + (limit' - bufferLength')
        <4>1. UNCHANGED <<limit, consumed>> /\ bufferLength' = bufferLength - ReadAmount(n)
          BY <2>2
        <4>2. limit - (bufferLength - ReadAmount(n)) = buffer + ReadAmount(n)
          BY <1>t, <3>1, <3>2
        <4>3. Len(received') = consumed + (buffer + ReadAmount(n))
          BY <1>t, <3>1, <3>2, <3>3, <3>6
        <4>4. QED
          BY <4>1, <4>2, <4>3
      <3>8. QED
        BY <1>0, <2>2, <3>5, <3>7 DEF SourceInv, SourceIntact
    <2>3. QED
      BY <1>6, <2>1, <2>2 DEF bio_java_bytebuffer_read, Blocked, Advance
  <1>7. CASE UNCHANGED vars
    BY <1>7, <1>u DEF vars, lent, streams
  <1>8. QED
    BY <1>1, <1>2, <1>3, <1>4, <1>5, <1>6, <1>7 DEF Next

\* TLS reads every network byte once and in order, however Java slices the sources,
\* whether or not it flushes its sinks first.
THEOREM SourceCorrect == Spec => []SourceIntact
  <1>1. Init => SourceInv
    BY StreamInit, EmptySeq DEF StreamInv, Init, SourceInv, SourceIntact
  <1>2. SourceInv => SourceIntact
    BY DEF SourceInv
  <1>3. QED
    BY <1>1, <1>2, SourceStep, PTL DEF Spec

-----------------------------------------------------------------------------
(* The refinement of ByteStream, under the same discipline.                *)

\* The n bytes of the stream that follow byte m.
Run(m, n) == [k \in 1 .. n |-> m + k]

\* A run of n bytes is a sequence of length n.
LEMMA RunType ==
    ASSUME NEW m \in Nat, NEW n \in Nat
    PROVE  Run(m, n) \in Seq(Nat) /\ Len(Run(m, n)) = n
  <1>1. Run(m, n) \in [1 .. n -> Nat]
    BY DEF Run
  <1> QED BY <1>1, SeqDef, LenProperties

\* Runs of bytes join where one ends and the next begins.
LEMMA RunsJoin ==
    ASSUME NEW m \in Nat, NEW n \in Nat, NEW k \in Nat
    PROVE  Run(m, n) \o Run(m + n, k) = Run(m, n + k)
  <1>1. Run(m, n) \in Seq(Nat) /\ Len(Run(m, n)) = n
    BY RunType
  <1>2. Run(m + n, k) \in [1 .. k -> Nat]
    BY DEF Run
  <1>3. Run(m, n + k) \in Seq(Nat) /\ Len(Run(m, n + k)) = n + k
    BY RunType
  <1> DEFINE front  == Run(m, n)
             joined == front \o Run(m + n, k)
  <1>4. /\ joined \in Seq(Nat) /\ Len(joined) = Len(front) + k
        /\ \A i \in 1 .. Len(front) + k :
              joined[i] = IF i <= Len(front) THEN front[i] ELSE Run(m + n, k)[i - Len(front)]
    <2> HIDE DEF front
    <2> QED BY <1>1, <1>2, Extend DEF front
  <1>5. \A i \in 1 .. n + k : joined[i] = Run(m, n + k)[i]
    BY <1>1, <1>4 DEF Run
  <1> QED BY <1>1, <1>3, <1>4, <1>5, SeqEqual

\* Runs of bytes split anywhere.
LEMMA RunsSplit ==
    ASSUME NEW m \in Nat, NEW n \in Nat, NEW k \in 0 .. n
    PROVE  /\ SubSeq(Run(m, n), 1, k) = Run(m, k)
           /\ SubSeq(Run(m, n), k + 1, n) = Run(m + k, n - k)
  <1>1. Run(m, n) \in Seq(Nat) /\ Len(Run(m, n)) = n
    BY RunType
  <1>2. SubSeq(Run(m, n), 1, k) = Run(m, k)
    BY DEF Run
  <1>3. SubSeq(Run(m, n), k + 1, n) = Run(m + k, n - k)
    BY DEF Run
  <1> QED BY <1>2, <1>3

\* What is delivered and what waits are the two runs that make up what was sent.
RunsInv ==
    /\ Len(delivered) \in Nat /\ nonApplicationBufferLength \in 0 .. Size
    /\ sent = Len(delivered) + nonApplicationBufferLength
    /\ delivered = Run(0, Len(delivered))
    /\ Pending = Run(Len(delivered), nonApplicationBufferLength)

\* This follows from the invariant of the write side.
LEMMA StreamRuns == StreamInv => RunsInv
  <1> SUFFICES ASSUME StreamInv PROVE RunsInv
    OBVIOUS
  <1>1. /\ delivered \in Seq(Nat) /\ Len(delivered) \in Nat
        /\ nonApplicationBufferLength \in 0 .. Size
    BY SizeAssumption, LenProperties DEF StreamInv, BufferInv, TypeOK
  <1>2. delivered = Run(0, Len(delivered))
    <2>1. Run(0, Len(delivered)) \in Seq(Nat) /\ Len(Run(0, Len(delivered))) = Len(delivered)
      BY <1>1, RunType
    <2>2. \A i \in 1 .. Len(delivered) : delivered[i] = Run(0, Len(delivered))[i]
      BY <1>1 DEF StreamInv, StreamIntact, Run
    <2> QED BY <1>1, <2>1, <2>2, SeqEqual
  <1>3. Pending = Run(Len(delivered), nonApplicationBufferLength)
    BY <1>1, SizeAssumption DEF StreamInv, StreamIntact, Pending, Run
  <1> QED BY <1>1, <1>2, <1>3 DEF StreamInv, ReportsBytesWritten, RunsInv

\* A step of the BIO moves no byte, queues some, sends some past an empty ring, or
\* drains some from the front.
LEMMA StreamMoves ==
    ASSUME FlushesFirst, StreamInv, [Next]_vars
    PROVE  \/ Len(delivered') = Len(delivered) /\ UNCHANGED nonApplicationBufferLength
           \/ \E n \in 1 .. MaxChunk :
                 /\ Len(delivered') = Len(delivered)
                 /\ nonApplicationBufferLength' = nonApplicationBufferLength + n
           \/ \E n \in 1 .. MaxChunk :
                 /\ nonApplicationBufferLength = 0 /\ nonApplicationBufferLength' = 0
                 /\ Len(delivered') = Len(delivered) + n
           \/ \E n \in 1 .. nonApplicationBufferLength :
                 /\ Len(delivered') = Len(delivered) + n
                 /\ nonApplicationBufferLength' = nonApplicationBufferLength - n
  <1> USE SizeAssumption, BoundAssumption
  <1>0. BufferInv /\ StreamInv'
    BY StreamStep DEF StreamInv
  <1>t. /\ nonApplicationBufferLength \in 0 .. Size
        /\ bufferLength \in Nat /\ sent \in Nat
        /\ delivered \in Seq(Nat) /\ Len(delivered) \in Nat
        /\ sent = Len(delivered) + nonApplicationBufferLength
        /\ Len(delivered') \in Nat /\ nonApplicationBufferLength' \in 0 .. Size
        /\ sent' = Len(delivered') + nonApplicationBufferLength'
    BY <1>0, LenProperties DEF StreamInv, BufferInv, TypeOK, ReportsBytesWritten
  <1>a. /\ FlushAmount \in Nat
        /\ FlushAmount <= nonApplicationBufferLength
        /\ FlushBytes \in [1 .. FlushAmount -> Nat]
    BY <1>0, AmountTypes
  <1>1. CASE UNCHANGED <<ring, delivered>>
    BY <1>1 DEF ring
  <1>2. CASE bioFlushByteBuffer
    <2>1. CASE UNCHANGED <<ring, delivered>>
      BY <1>1, <2>1
    <2>2. CASE /\ nonApplicationBufferLength' = nonApplicationBufferLength - FlushAmount
               /\ delivered' = delivered \o FlushBytes
      <3>1. Len(delivered') = Len(delivered) + FlushAmount
        BY <1>a, <1>t, <2>2, Extend
      <3> QED BY <1>a, <1>t, <2>2, <3>1
    <2> QED BY <1>2, <2>1, <2>2 DEF bioFlushByteBuffer
  <1>3. ASSUME NEW n \in 0 .. MaxChunk, WriteQueued(n)
        PROVE  \/ UNCHANGED <<ring, delivered>>
               \/ \E k \in 1 .. MaxChunk :
                     /\ Len(delivered') = Len(delivered)
                     /\ nonApplicationBufferLength' = nonApplicationBufferLength + k
    <2>1. CASE /\ n > 0 /\ nonApplicationBufferLength # Size
               /\ nonApplicationBufferLength' = nonApplicationBufferLength + QueueAmount(n)
               /\ UNCHANGED delivered
      <3>1. QueueAmount(n) \in 1 .. MaxChunk
        BY <1>t, <2>1 DEF QueueAmount, TCN_MIN
      <3> QED BY <2>1, <3>1
    <2> QED BY <1>3, <2>1 DEF WriteQueued, Blocked, streams
  <1>4. ASSUME NEW n \in 0 .. MaxChunk, WriteToSink(n)
        PROVE  \/ UNCHANGED <<ring, delivered>>
               \/ \E k \in 1 .. MaxChunk :
                     /\ nonApplicationBufferLength = 0 /\ nonApplicationBufferLength' = 0
                     /\ Len(delivered') = Len(delivered) + k
    <2>1. CASE /\ n > 0 /\ bufferLength # 0 /\ flushed /\ bufferIsSSLWriteSink
               /\ nonApplicationBufferLength' = nonApplicationBufferLength - SinkFlush
               /\ sent' = sent + SinkFlush + SinkChunk(n)
      <3>1. nonApplicationBufferLength = 0
        BY <2>1 DEF StreamInv, FlushDrains
      <3>2. SinkFlush = 0 /\ SinkChunk(n) \in 1 .. MaxChunk
        BY <1>t, <2>1, <3>1 DEF SinkFlush, SinkChunk, TCN_MIN
      <3> QED BY <1>t, <2>1, <3>1, <3>2
    <2> QED BY <1>4, <2>1 DEF WriteToSink, Blocked, streams
  <1>5. ASSUME NEW n \in 0 .. MaxChunk, WriteNothing(n) \/ bio_java_bytebuffer_read(n)
        PROVE  UNCHANGED <<ring, delivered>>
    BY <1>5 DEF WriteNothing, bio_java_bytebuffer_read, Blocked, streams
  <1>6. CASE \/ bioNewByteBuffer \/ bio_java_bytebuffer_destroy \/ bioClearByteBuffer
             \/ bio_java_bytebuffer_ctrl \/ UNCHANGED vars
             \/ \E n \in 0 .. MaxUsable, sink \in BOOLEAN : bioSetByteBuffer(n, sink)
    <2>1. UNCHANGED <<ring, delivered>>
      BY <1>6 DEF bioNewByteBuffer, bio_java_bytebuffer_destroy, bioClearByteBuffer,
                  bio_java_bytebuffer_ctrl, bioSetByteBuffer, vars, streams
    <2> QED BY <1>1, <2>1
  <1> QED BY <1>1, <1>2, <1>3, <1>4, <1>5, <1>6 DEF Next

\* Every step of the BIO is a step of the stream, or none of it.
LEMMA StreamRefines ==
    ASSUME FlushesFirst
    PROVE  StreamInv /\ RunsInv /\ RunsInv' /\ [Next]_vars
             => [Stream!Next]_<<sent, Pending, delivered>>
  <1> SUFFICES ASSUME StreamInv, RunsInv, RunsInv', [Next]_vars
               PROVE  Stream!Next \/ UNCHANGED <<sent, Pending, delivered>>
    OBVIOUS
  <1> DEFINE d == Len(delivered)
             q == nonApplicationBufferLength
  <1>1. /\ d \in Nat /\ q \in Nat /\ sent = d + q
        /\ delivered = Run(0, d) /\ Pending = Run(d, q)
    BY SizeAssumption DEF RunsInv
  <1>2. /\ d' \in Nat /\ q' \in Nat /\ sent' = d' + q' /\ q' <= Size
        /\ delivered' = Run(0, d') /\ Pending' = Run(d', q')
    BY SizeAssumption DEF RunsInv
  <1>3. Len(Pending) = q
    BY <1>1, RunType
  <1>4. CASE d' = d /\ q' = q
    BY <1>1, <1>2, <1>4
  <1>5. ASSUME NEW n \in 1 .. MaxChunk, d' = d, q' = q + n PROVE Stream!Next
    <2>1. n \in Nat
      BY BoundAssumption
    <2>2. Run(d, q) \o Run(d + q, n) = Run(d, q + n)
      BY <1>1, <2>1, RunsJoin
    <2>3. Stream!Fresh(n) = Run(d + q, n)
      BY <1>1 DEF Stream!Fresh, Run
    <2> HIDE DEF d, q
    <2>4. Stream!Queue(n)
      BY <1>1, <1>2, <1>3, <1>5, <2>1, <2>2, <2>3 DEF Stream!Queue
    <2> QED BY <2>4 DEF Stream!Next
  <1>6. ASSUME NEW n \in 1 .. MaxChunk, q = 0, q' = 0, d' = d + n PROVE Stream!Next
    <2>1. n \in Nat
      BY BoundAssumption
    <2>2. Run(0, d) \o Run(0 + d, n) = Run(0, d + n)
      BY <1>1, <2>1, RunsJoin
    <2>3. Stream!Fresh(n) = Run(0 + d, n)
      BY <1>1, <1>6 DEF Stream!Fresh, Run
    <2>4. \A m \in Nat : Run(m, 0) = << >>
      BY RunType, EmptySeq
    <2>5. Pending = << >> /\ Pending' = << >>
      BY <1>1, <1>2, <1>6, <2>4
    <2> HIDE DEF d, q
    <2>6. Stream!Send(n)
      BY <1>1, <1>2, <1>6, <2>1, <2>2, <2>3, <2>5 DEF Stream!Send
    <2> QED BY <2>6 DEF Stream!Next
  <1>7. ASSUME NEW n \in 1 .. q, d' = d + n, q' = q - n PROVE Stream!Next
    <2>1. n \in Nat /\ n \in 0 .. q
      BY <1>1
    <2>2. Run(0, d) \o Run(0 + d, n) = Run(0, d + n)
      BY <1>1, <2>1, RunsJoin
    <2>3. /\ SubSeq(Run(d, q), 1, n) = Run(d, n)
          /\ SubSeq(Run(d, q), n + 1, q) = Run(d + n, q - n)
      BY <1>1, <2>1, RunsSplit
    <2>4. 0 + d = d /\ d' + q' = d + q
      BY <1>1, <1>2, <1>7, <2>1
    <2> HIDE DEF d, q
    <2>5. delivered' = delivered \o SubSeq(Pending, 1, n)
      BY <1>1, <1>2, <1>7, <2>2, <2>3, <2>4
    <2>6. Pending' = SubSeq(Pending, n + 1, Len(Pending))
      BY <1>1, <1>2, <1>3, <1>7, <2>3
    <2>7. Stream!Drain(n)
      BY <1>1, <1>2, <2>4, <2>5, <2>6 DEF Stream!Drain
    <2> QED BY <1>3, <2>7 DEF Stream!Next
  <1> QED BY <1>4, <1>5, <1>6, <1>7, StreamMoves

\* For every ring size, the BIO implements the first-in first-out stream with a queue
\* of that size: what TLS writes leaves in order, and nothing overtakes what waits.
THEOREM StreamImplemented == ASSUME FlushesFirst PROVE Spec => ImplementsStream
  <1>1. Init => Stream!Init
    <2>1. Init => Pending = << >>
      BY EmptySeq DEF Init, Pending
    <2> QED BY <2>1 DEF Init, Stream!Init
  <1>2. Spec => []StreamInv
    BY StreamInit, StreamStep, PTL DEF Spec
  <1> QED
    BY <1>1, <1>2, StreamRuns, StreamRefines, PTL
    DEF Spec, ImplementsStream, Stream!Spec, Stream!vars
=============================================================================
