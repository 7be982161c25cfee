--------------------------- MODULE ChannelProofs ---------------------------
(***************************************************************************)
(* Channel is correct for every number of streams, frames and bytes: no      *)
(* byte is lost, repeated or reordered, and a reader that stops has got      *)
(* everything.                                                               *)
(***************************************************************************)
EXTENDS Channel, SequenceTheorems, TLAPS

-----------------------------------------------------------------------------
(* The inductive invariant.                                                 *)

\* A stream's frames are kept from its second on, or from its first.
InitFrames ==
    /\ pump.at = "push" => pump.stream \in heard
    /\ ~NeedsInit => \A s \in Streams : initialized[s]
    /\ \A s \in Streams : initialized[s] => ~NeedsInit \/ s \in heard
    /\ \A s \in heard : initialized[s] \/ (pump.at = "push" /\ pump.stream = s)

\* A reader looks at the error, and stops, with nothing in its buffer.
Drained ==
    \A s \in Streams :
        /\ reader[s] \in {"checkErr", "beforeWait", "ended"} => buf[s] = <<>>
        /\ reader[s] = "ended" => err

ChannelInv == TypeOK /\ InitFrames /\ Drained /\ NothingLost

-----------------------------------------------------------------------------
(* Lemmas about the data.                                                   *)

\* A frame is a sequence of bytes (Frame).
LEMMA FrameType ==
    ASSUME TypeOK, frames < MaxFrames, NEW n \in 0..MaxBytes
    PROVE  Frame(n) \in Seq(Bytes)
<1>1. n \in Nat /\ frames + 1 \in 1..MaxFrames
  BY ChannelAssumption DEF TypeOK
<1>2. \A i \in 1..n : <<frames + 1, i>> \in Bytes
  BY <1>1, ChannelAssumption DEF Bytes
<1>3. [i \in 1..n |-> <<frames + 1, i>>] \in [1..n -> Bytes]
  BY <1>2
<1>4. QED
  BY <1>1, <1>3, SeqDef DEF Frame

\* Concatenation is associative.
LEMMA Associative ==
    \A T : \A x, y, z \in Seq(T) : (x \o y) \o z = x \o (y \o z)
BY ConcatAssociative

\* Taking bytes from the front of a buffer moves them and changes no others.
LEMMA TakeFromFront ==
    \A S : \A g, b \in Seq(S) : \A n \in 1..Len(b) :
        /\ SubSeq(b, n + 1, Len(b)) \in Seq(S)
        /\ g \o SubSeq(b, 1, n) \in Seq(S)
        /\ (g \o SubSeq(b, 1, n)) \o SubSeq(b, n + 1, Len(b)) = g \o b
<1> SUFFICES
      ASSUME NEW S, NEW g \in Seq(S), NEW b \in Seq(S), NEW n \in 1..Len(b)
      PROVE  /\ SubSeq(b, n + 1, Len(b)) \in Seq(S)
             /\ g \o SubSeq(b, 1, n) \in Seq(S)
             /\ (g \o SubSeq(b, 1, n)) \o SubSeq(b, n + 1, Len(b)) = g \o b
  OBVIOUS
<1> DEFINE front == SubSeq(b, 1, n)
           rest  == SubSeq(b, n + 1, Len(b))
<1>0. Len(b) \in Nat /\ n \in Nat /\ n <= Len(b) /\ 1 <= n
  BY LenProperties
<1>1. \A i \in 1..Len(b) : b[i] \in S
  BY LenProperties
<1>2. front \in Seq(S)
  BY <1>0, <1>1, SubSeqProperties
<1>3. rest \in Seq(S)
  <2>1. \A i \in (n + 1)..Len(b) : b[i] \in S
    BY <1>0, <1>1
  <2>2. QED
    BY <1>0, <2>1, SubSeqProperties
<1>4. front \o rest = SubSeq(b, 1, Len(b))
  BY <1>0, ConcatAdjacentSubSeq
<1>5. SubSeq(b, 1, Len(b)) = b
  BY SubSeqFull
<1> HIDE DEF front, rest
<1>6. (g \o front) \o rest = g \o (front \o rest)
  <2>1. \A x, y, z \in Seq(S) : (x \o y) \o z = x \o (y \o z)
    BY Associative, SMTT(30)
  <2>2. QED
    BY <1>2, <1>3, <2>1
<1>7. g \o front \in Seq(S)
  BY <1>2, ConcatProperties
<1>8. QED
  BY <1>3, <1>4, <1>5, <1>6, <1>7 DEF front, rest

\* The goroutine is in one of four places (pump).
LEMMA PumpKinds ==
    ASSUME TypeOK
    PROVE  /\ pump.at \in {"read", "push", "close", "gone"}
           /\ pump.at = "read" <=> pump = Idle
           /\ pump.at = "push" => pump.stream \in Streams
                                  /\ pump.data \in Seq(Bytes)
BY DEF TypeOK, Idle

-----------------------------------------------------------------------------
\* The invariant holds initially.
LEMMA InitInv == ASSUME Init PROVE ChannelInv
<1>1. TypeOK
  <2>1. <<>> \in Seq(Bytes)
    BY EmptySeq
  <2>2. initialized \in [Streams -> BOOLEAN]
    BY ChannelAssumption DEF Init
  <2>3. err \in BOOLEAN /\ (err <=> pump.at \in {"close", "gone"})
    BY DEF Init, Idle
  <2>4. frames \in 0..MaxFrames /\ closes \in 0..MaxCloses
    BY ChannelAssumption DEF Init
  <2>5. QED
    BY <2>1, <2>2, <2>3, <2>4 DEF Init, TypeOK
<1>2. InitFrames
  BY ChannelAssumption DEF Init, InitFrames, Idle
<1>3. Drained
  BY DEF Init, Drained
<1>4. NothingLost
  <2>1. <<>> \o <<>> = <<>>
    BY EmptySeq, ConcatEmptySeq
  <2>2. \A s \in Streams : Pending(s) = <<>>
    BY DEF Init, Pending, Idle
  <2>3. QED
    BY <2>1, <2>2 DEF Init, NothingLost
<1>5. QED
  BY <1>1, <1>2, <1>3, <1>4 DEF ChannelInv

-----------------------------------------------------------------------------
(* Steps.                                                                   *)

\* What only concerns the data stays true where no data moves.
LEMMA DataUnchanged ==
    ASSUME ChannelInv,
           UNCHANGED <<initialized, buf, pump, heard, expected, got>>
    PROVE  InitFrames' /\ NothingLost'
BY DEF ChannelInv, InitFrames, NothingLost, Pending

\* A frame arrives (ReadMessage).
LEMMA ReadMessageInv ==
    ASSUME ChannelInv, NEW s \in Streams, NEW n \in 0..MaxBytes,
           ReadMessage(s, n)
    PROVE  ChannelInv'
<1> USE DEF ChannelInv
<1>0. /\ pump.at = "read" /\ frames < MaxFrames /\ frames' = frames + 1
      /\ pump'.at = "push" /\ pump'.stream = s /\ pump'.data = Frame(n)
      /\ pump' = [at |-> "push", stream |-> s, data |-> Frame(n)]
  BY PumpKinds DEF ReadMessage, Idle
<1>1. Frame(n) \in Seq(Bytes)
  BY <1>0, FrameType
<1>2. /\ initialized[s] <=> (~NeedsInit \/ s \in heard)
      /\ \A t \in Streams : Pending(t) = <<>>
  BY <1>0 DEF InitFrames, Pending
<1>3. \A t \in Streams : Pending(t)' =
          IF t = s /\ initialized[s] THEN Frame(n) ELSE <<>>
  BY <1>0 DEF ReadMessage, Pending
<1>4. \A t \in Streams : expected'[t] =
          IF t = s /\ initialized[s] THEN expected[t] \o Frame(n)
          ELSE expected[t]
  BY <1>2 DEF ReadMessage, TypeOK
<1>5. TypeOK'
  <2>1. expected' \in [Streams -> Seq(Bytes)]
    BY <1>1, ConcatProperties DEF ReadMessage, TypeOK
  <2>2. frames' \in 0..MaxFrames
    BY <1>0, ChannelAssumption DEF TypeOK
  <2>3. heard' \subseteq Streams
    BY DEF ReadMessage, TypeOK
  <2>4. pump' \in [at : {"push"}, stream : Streams, data : Seq(Bytes)]
    BY <1>0, <1>1
  <2>5. err' \in BOOLEAN /\ (err' <=> pump'.at \in {"close", "gone"})
    BY <1>0 DEF ReadMessage, TypeOK
  <2>6. QED
    BY <2>1, <2>2, <2>3, <2>4, <2>5 DEF ReadMessage, TypeOK
<1>6. InitFrames'
  BY <1>0 DEF ReadMessage, InitFrames
<1>7. Drained'
  BY DEF ReadMessage, Drained
<1>8. NothingLost'
  <2> SUFFICES ASSUME NEW t \in Streams
               PROVE  got'[t] \o buf'[t] \o Pending(t)' = expected'[t]
    BY DEF NothingLost
  <2>1. got'[t] = got[t] /\ buf'[t] = buf[t]
    BY DEF ReadMessage
  <2>2. got[t] \in Seq(Bytes) /\ buf[t] \in Seq(Bytes)
    BY DEF TypeOK
  <2>3. got[t] \o buf[t] \in Seq(Bytes)
    BY <2>2, ConcatProperties
  <2>4. (got[t] \o buf[t]) \o <<>> = expected[t]
    BY <1>2 DEF NothingLost
  <2>5. got[t] \o buf[t] = expected[t]
    BY <2>3, <2>4, ConcatEmptySeq
  <2>6. QED
    BY <1>3, <1>4, <2>1, <2>4, <2>5
<1>9. QED
  BY <1>5, <1>6, <1>7, <1>8

\* A frame is appended to its stream's buffer, or dropped (pushStreamData).
LEMMA PushInv ==
    ASSUME ChannelInv, pushStreamData
    PROVE  ChannelInv'
<1> USE DEF ChannelInv
<1> DEFINE s == pump.stream
<1>0. /\ pump.at = "push" /\ s \in Streams /\ pump.data \in Seq(Bytes)
      /\ pump' = Idle /\ pump'.at = "read" /\ s \in heard
      /\ ~err /\ UNCHANGED <<err, frames, closes, heard, expected, got>>
  BY PumpKinds DEF pushStreamData, Idle, TypeOK, InitFrames
<1>1. \A t \in Streams : reader[t] = "ended" => FALSE
  BY <1>0 DEF Drained
<1>2. CASE initialized[s]
  <2>1. /\ buf' = [buf EXCEPT ![s] = @ \o pump.data]
        /\ reader' = Broadcast({s}) /\ initialized' = initialized
    BY <1>2 DEF pushStreamData
  <2>2. buf[s] \in Seq(Bytes) /\ got[s] \in Seq(Bytes)
    BY <1>0 DEF TypeOK
  <2>3. TypeOK'
    <3>1. buf' \in [Streams -> Seq(Bytes)]
      BY <1>0, <2>1, <2>2, ConcatProperties DEF TypeOK
    <3>2. reader' \in [Streams -> {"out", "locking", "check", "copied",
                           "checkErr", "beforeWait", "waiting", "ended"}]
      BY <2>1 DEF Broadcast, TypeOK
    <3>3. err' \in BOOLEAN /\ (err' <=> pump'.at \in {"close", "gone"})
      BY <1>0 DEF TypeOK
    <3>4. QED
      BY <1>0, <2>1, <3>1, <3>2, <3>3 DEF TypeOK
  <2>4. InitFrames'
    BY <1>0, <1>2, <2>1 DEF InitFrames
  <2>5. Drained'
    <3> SUFFICES ASSUME NEW t \in Streams
                 PROVE  /\ reader'[t] \in {"checkErr", "beforeWait", "ended"}
                              => buf'[t] = <<>>
                        /\ reader'[t] = "ended" => err'
      BY DEF Drained
    <3>1. reader'[t] = IF t = s /\ reader[t] = "waiting" THEN "locking"
                       ELSE reader[t]
      BY <2>1 DEF Broadcast
    <3>2. reader[s] \notin {"checkErr", "beforeWait"}
      BY DEF pushStreamData, Locked
    <3>3. t # s => buf'[t] = buf[t]
      BY <2>1 DEF TypeOK
    <3>4. QED
      BY <1>1, <3>1, <3>2, <3>3 DEF Drained
  <2>6. NothingLost'
    <3> SUFFICES ASSUME NEW t \in Streams
                 PROVE  got'[t] \o buf'[t] \o Pending(t)' = expected'[t]
      BY DEF NothingLost
    <3>1. Pending(t)' = <<>>
      BY <1>0 DEF Pending
    <3>2. got[t] \in Seq(Bytes) /\ buf[t] \in Seq(Bytes)
      BY DEF TypeOK
    <3>3. CASE t = s
      <4>1. buf'[t] = buf[t] \o pump.data
        BY <1>0, <2>1, <3>3 DEF TypeOK
      <4>2. (got[t] \o buf[t]) \o pump.data = expected[t]
        BY <1>0, <1>2, <3>3 DEF NothingLost, Pending
      <4>3. got[t] \o (buf[t] \o pump.data) = expected[t]
        <5>1. \A x, y, z \in Seq(Bytes) : (x \o y) \o z = x \o (y \o z)
          BY ConcatAssociative
        <5>2. QED
          BY <1>0, <3>2, <4>2, <5>1, Zenon
      <4>4. buf'[t] \in Seq(Bytes)
        BY <1>0, <3>2, <4>1, ConcatProperties
      <4>5. (got[t] \o buf'[t]) \o <<>> = got[t] \o buf'[t]
        BY <3>2, <4>4, ConcatProperties, ConcatEmptySeq
      <4>6. QED
        BY <1>0, <3>1, <4>1, <4>3, <4>5
    <3>4. CASE t # s
      <4>1. buf'[t] = buf[t] /\ Pending(t) = <<>>
        BY <2>1, <3>4 DEF TypeOK, Pending
      <4>2. QED
        BY <1>0, <3>1, <4>1 DEF NothingLost
    <3>5. QED
      BY <3>3, <3>4
  <2>7. QED
    BY <2>3, <2>4, <2>5, <2>6
<1>3. CASE ~initialized[s]
  <2>1. /\ initialized' = [initialized EXCEPT ![s] = TRUE]
        /\ UNCHANGED <<buf, reader>>
    BY <1>3 DEF pushStreamData
  <2>2. TypeOK'
    <3>1. initialized' \in [Streams -> BOOLEAN]
      BY <2>1 DEF TypeOK
    <3>2. err' \in BOOLEAN /\ (err' <=> pump'.at \in {"close", "gone"})
      BY <1>0 DEF TypeOK
    <3>3. QED
      BY <1>0, <2>1, <3>1, <3>2 DEF TypeOK
  <2>3. InitFrames'
    BY <1>0, <2>1 DEF InitFrames, TypeOK
  <2>4. Drained'
    BY <1>0, <2>1 DEF Drained
  <2>5. NothingLost'
    <3>1. \A t \in Streams : Pending(t) = <<>> /\ Pending(t)' = <<>>
      BY <1>0, <1>3 DEF Pending
    <3>2. QED
      BY <1>0, <2>1, <3>1 DEF NothingLost
  <2>6. QED
    BY <2>2, <2>3, <2>4, <2>5
<1>4. QED
  BY <1>2, <1>3

\* The websocket fails (ReadError).
LEMMA ReadErrorInv ==
    ASSUME ChannelInv, ReadError
    PROVE  ChannelInv'
<1> USE DEF ChannelInv
<1>0. /\ pump.at = "read" /\ pump' = [at |-> "close"] /\ pump'.at = "close"
      /\ err' = TRUE
      /\ UNCHANGED <<initialized, buf, reader, frames, closes, heard, expected,
                     got>>
  BY DEF ReadError, Idle
<1>1. TypeOK'
  <2>1. err' \in BOOLEAN /\ (err' <=> pump'.at \in {"close", "gone"})
    BY <1>0
  <2>2. QED
    BY <1>0, <2>1 DEF TypeOK
<1>2. InitFrames'
  BY <1>0 DEF InitFrames
<1>3. Drained'
  BY <1>0 DEF Drained
<1>4. NothingLost'
  <2>1. \A t \in Streams : Pending(t) = <<>> /\ Pending(t)' = <<>>
    BY <1>0 DEF Pending
  <2>2. QED
    BY <1>0, <2>1 DEF NothingLost
<1>5. QED
  BY <1>1, <1>2, <1>3, <1>4

\* A broadcast to all streams leaves readers that do not wait where they are.
LEMMA BroadcastKeeps ==
    ASSUME ChannelInv, reader' = Broadcast(Streams), UNCHANGED <<buf, err>>
    PROVE  /\ Drained'
           /\ reader' \in [Streams -> {"out", "locking", "check", "copied",
                           "checkErr", "beforeWait", "waiting", "ended"}]
<1>1. \A t \in Streams : reader'[t] = IF reader[t] = "waiting" THEN "locking"
                                     ELSE reader[t]
  BY DEF Broadcast
<1>2. Drained'
  BY <1>1 DEF ChannelInv, Drained
<1>3. QED
  BY <1>2 DEF Broadcast, ChannelInv, TypeOK

\* The goroutine wakes the readers and ends (CloseAfterError).
LEMMA CloseAfterErrorInv ==
    ASSUME ChannelInv, CloseAfterError
    PROVE  ChannelInv'
<1> USE DEF ChannelInv
<1>0. /\ pump.at = "close" /\ pump' = [at |-> "gone"] /\ pump'.at = "gone"
      /\ reader' = Broadcast(Streams)
      /\ UNCHANGED <<initialized, buf, err, frames, closes, heard, expected, got>>
  BY DEF CloseAfterError
<1>1. Drained' /\ reader' \in [Streams -> {"out", "locking", "check", "copied",
                           "checkErr", "beforeWait", "waiting", "ended"}]
  BY <1>0, BroadcastKeeps
<1>2. TypeOK'
  <2>1. err' \in BOOLEAN /\ (err' <=> pump'.at \in {"close", "gone"})
    BY <1>0 DEF TypeOK
  <2>2. QED
    BY <1>0, <1>1, <2>1 DEF TypeOK
<1>3. InitFrames'
  BY <1>0 DEF InitFrames
<1>4. NothingLost'
  <2>1. \A t \in Streams : Pending(t) = <<>> /\ Pending(t)' = <<>>
    BY <1>0 DEF Pending
  <2>2. QED
    BY <1>0, <2>1 DEF NothingLost
<1>5. QED
  BY <1>1, <1>2, <1>3, <1>4

\* A user closes a stream (Close).
LEMMA CloseInv ==
    ASSUME ChannelInv, Close
    PROVE  ChannelInv'
<1> USE DEF ChannelInv
<1>1. Drained' /\ reader' \in [Streams -> {"out", "locking", "check", "copied",
                           "checkErr", "beforeWait", "waiting", "ended"}]
  BY BroadcastKeeps DEF Close
<1>2. closes' \in 0..MaxCloses
  BY ChannelAssumption DEF Close, TypeOK
<1>3. TypeOK'
  BY <1>1, <1>2 DEF Close, TypeOK
<1>4. QED
  BY <1>1, <1>3, DataUnchanged DEF Close

\* A step of a reader that moves no data.
LEMMA ReaderMoves ==
    ASSUME ChannelInv, NEW s \in Streams,
           NEW to \in {"out", "locking", "check", "checkErr", "beforeWait",
                       "waiting", "ended"},
           reader' = [reader EXCEPT ![s] = to],
           UNCHANGED <<others, buf, got>>,
           to \in {"checkErr", "beforeWait", "ended"} => buf[s] = <<>>,
           to = "ended" => err
    PROVE  ChannelInv'
<1> USE DEF ChannelInv
<1>1. TypeOK'
  BY DEF TypeOK, others
<1>2. Drained'
  <2>1. \A t \in Streams : reader'[t] = IF t = s THEN to ELSE reader[t]
    BY DEF TypeOK
  <2>2. QED
    BY <2>1 DEF Drained, others
<1>3. QED
  BY <1>1, <1>2, DataUnchanged DEF others

\* Read copies bytes out of the buffer (CopyOut).
LEMMA CopyOutInv ==
    ASSUME ChannelInv, NEW s \in Streams, NEW n \in Nat, CopyOut(s, n)
    PROVE  ChannelInv'
<1> USE DEF ChannelInv
<1>0. /\ reader[s] = "check" /\ reader' = [reader EXCEPT ![s] = "copied"]
      /\ n \in 1..Len(buf[s])
      /\ got' = [got EXCEPT ![s] = got[s] \o SubSeq(buf[s], 1, n)]
      /\ buf' = [buf EXCEPT ![s] = SubSeq(buf[s], n + 1, Len(buf[s]))]
      /\ UNCHANGED <<initialized, err, pump, frames, closes, heard, expected>>
  BY DEF CopyOut, Go, others
<1>1. got[s] \in Seq(Bytes) /\ buf[s] \in Seq(Bytes)
  BY DEF TypeOK
<1>2. /\ got[s] \o SubSeq(buf[s], 1, n) \in Seq(Bytes)
      /\ SubSeq(buf[s], n + 1, Len(buf[s])) \in Seq(Bytes)
      /\ (got[s] \o SubSeq(buf[s], 1, n)) \o SubSeq(buf[s], n + 1, Len(buf[s]))
           = got[s] \o buf[s]
  <2>1. \A g, b \in Seq(Bytes) : \A k \in 1..Len(b) :
           /\ g \o SubSeq(b, 1, k) \in Seq(Bytes)
           /\ SubSeq(b, k + 1, Len(b)) \in Seq(Bytes)
           /\ (g \o SubSeq(b, 1, k)) \o SubSeq(b, k + 1, Len(b)) = g \o b
    BY TakeFromFront, Zenon
  <2>2. QED
    BY <1>0, <1>1, <2>1, Zenon
<1>3. \A t \in Streams : got'[t] \o buf'[t] = got[t] \o buf[t]
  <2>1. got'[s] \o buf'[s] = got[s] \o buf[s]
    <3>1. got'[s] = got[s] \o SubSeq(buf[s], 1, n)
      BY <1>0 DEF TypeOK
    <3>2. buf'[s] = SubSeq(buf[s], n + 1, Len(buf[s]))
      BY <1>0 DEF TypeOK
    <3>3. QED
      BY <1>2, <3>1, <3>2, Zenon
  <2>2. \A t \in Streams \ {s} : got'[t] = got[t] /\ buf'[t] = buf[t]
    BY <1>0 DEF TypeOK
  <2>3. QED
    BY <2>1, <2>2
<1>4. TypeOK'
  BY <1>0, <1>2 DEF TypeOK
<1>5. InitFrames'
  BY <1>0 DEF InitFrames
<1>6. Drained'
  <2>1. \A t \in Streams : t # s => reader'[t] = reader[t] /\ buf'[t] = buf[t]
    BY <1>0 DEF TypeOK
  <2>2. reader'[s] = "copied"
    BY <1>0 DEF TypeOK
  <2>3. QED
    BY <1>0, <2>1, <2>2 DEF Drained
<1>7. NothingLost'
  <2>1. \A t \in Streams : Pending(t)' = Pending(t) /\ expected'[t] = expected[t]
    BY <1>0 DEF Pending
  <2>2. QED
    BY <1>3, <2>1 DEF NothingLost
<1>8. QED
  BY <1>4, <1>5, <1>6, <1>7

\* Every step of a reader (Reading).
LEMMA ReadingInv ==
    ASSUME ChannelInv, NEW s \in Streams, Reading(s)
    PROVE  ChannelInv'
<1>1. CASE Read(s)
  BY <1>1, ReaderMoves DEF Read, Go
<1>2. CASE Lock(s)
  BY <1>2, ReaderMoves DEF Lock, Go
<1>3. CASE ReturnCopied(s)
  <2>1. CASE buf[s] = <<>> /\ err
    BY <1>3, <2>1, ReaderMoves DEF ReturnCopied, Go
  <2>2. CASE ~(buf[s] = <<>> /\ err)
    BY <1>3, <2>2, ReaderMoves DEF ReturnCopied, Go
  <2>3. QED
    BY <2>1, <2>2
<1>4. CASE BufferEmpty(s)
  BY <1>4, ReaderMoves DEF BufferEmpty, Go
<1>5. CASE CheckErr(s)
  <2>0. buf[s] = <<>>
    BY <1>5 DEF CheckErr, Go, ChannelInv, Drained
  <2>1. CASE err
    BY <1>5, <2>0, <2>1, ReaderMoves DEF CheckErr, Go
  <2>2. CASE ~err
    BY <1>5, <2>0, <2>2, ReaderMoves DEF CheckErr, Go
  <2>3. QED
    BY <2>1, <2>2
<1>6. CASE Wait(s)
  BY <1>6, ReaderMoves DEF Wait, Go
<1>7. CASE \E n \in 1..MaxFrames * MaxBytes : CopyOut(s, n)
  <2>1. PICK n \in 1..MaxFrames * MaxBytes : CopyOut(s, n)
    BY <1>7
  <2>2. n \in Nat
    BY ChannelAssumption
  <2>3. QED
    BY <2>1, <2>2, CopyOutInv
<1>8. QED
  BY <1>1, <1>2, <1>3, <1>4, <1>5, <1>6, <1>7 DEF Reading

\* Every step keeps the invariant.
LEMMA NextInv == ASSUME ChannelInv, [Next]_vars PROVE ChannelInv'
<1>1. CASE UNCHANGED vars
  <2>1. TypeOK' /\ Drained'
    BY <1>1 DEF vars, ChannelInv, TypeOK, Drained
  <2>2. QED
    BY <1>1, <2>1, DataUnchanged DEF vars, ChannelInv
<1>2. CASE pushStreamData
  BY <1>2, PushInv
<1>3. CASE CloseAfterError
  BY <1>3, CloseAfterErrorInv
<1>4. CASE ReadError
  BY <1>4, ReadErrorInv
<1>5. CASE Close
  BY <1>5, CloseInv
<1>6. CASE \E s \in Streams, n \in 0..MaxBytes : ReadMessage(s, n)
  BY <1>6, ReadMessageInv
<1>7. CASE \E s \in Streams : Reading(s)
  BY <1>7, ReadingInv
<1>8. QED
  BY <1>1, <1>2, <1>3, <1>4, <1>5, <1>6, <1>7 DEF Next, Pumping

-----------------------------------------------------------------------------
\* The invariant holds in every reachable state.
THEOREM Invariant == Spec => []ChannelInv
BY InitInv, NextInv, PTL DEF Spec

\* Every reachable state is well typed, and the connection has its error
\* exactly when the goroutine that reads it has stopped.
THEOREM TypeCorrect == Spec => []TypeOK
<1>1. ChannelInv => TypeOK
  BY DEF ChannelInv
<1>2. QED
  BY <1>1, Invariant, PTL

\* Read, pushStreamData and the goroutines between them lose, repeat and
\* reorder no byte of any stream.
THEOREM NoByteLost == Spec => []NothingLost
<1>1. ChannelInv => NothingLost
  BY DEF ChannelInv
<1>2. QED
  BY <1>1, Invariant, PTL

\* A Read that fails, with the error seen without a lock, does so after every
\* byte of its stream was returned.
THEOREM ReadersGetEverything == Spec => []EndsWithEverything
<1>1. ASSUME ChannelInv PROVE EndsWithEverything
  <2> SUFFICES ASSUME NEW s \in Streams, reader[s] = "ended"
               PROVE  got[s] = expected[s]
    BY DEF EndsWithEverything
  <2>1. buf[s] = <<>> /\ err
    BY <1>1 DEF ChannelInv, Drained
  <2>2. Pending(s) = <<>>
    BY <1>1, <2>1 DEF ChannelInv, TypeOK, Pending
  <2>3. got[s] \o <<>> = got[s]
    BY <1>1, ConcatEmptySeq DEF ChannelInv, TypeOK
  <2>4. (got[s] \o <<>>) \o <<>> = expected[s]
    BY <1>1, <2>1, <2>2 DEF ChannelInv, NothingLost
  <2>5. QED
    BY <2>3, <2>4, Zenon
<1>2. QED
  BY <1>1, Invariant, PTL
=============================================================================
