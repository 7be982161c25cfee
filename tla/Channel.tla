------------------------------ MODULE Channel ------------------------------
(***************************************************************************)
(* The reading side of a k8schannel.Connection: exec and port-forward       *)
(* connections carry several numbered streams over one websocket.  One       *)
(* goroutine reads the websocket and appends to the buffers of the streams;  *)
(* each stream has one reader, which waits on the stream's sync.Cond.        *)
(*                                                                          *)
(* Acquiring a lock, a look at the unguarded field err, and entering Wait    *)
(* are steps of their own.                                                   *)
(***************************************************************************)
EXTENDS Naturals, Sequences

CONSTANTS
    Streams,    \* numbers of the streams in use
    NeedsInit,  \* whether the first frame of a stream is dropped
    MaxFrames,  \* bound: frames that arrive
    MaxBytes,   \* bound: bytes in a frame
    MaxCloses   \* bound: calls of Close by users of the connection

ASSUME ChannelAssumption ==
    /\ NeedsInit \in BOOLEAN
    /\ MaxFrames \in Nat /\ MaxBytes \in Nat /\ MaxCloses \in Nat

VARIABLES
    initialized,  \* of every stream, whether its frames are kept
    buf,          \* the buffer of every stream
    err,          \* whether the connection has its error
    reader,       \* where the reader of every stream is
    pump,         \* what the goroutine that reads the websocket does
    frames,       \* frames that arrived so far
    closes,       \* calls of Close so far
    heard,        \* history: the streams a frame has arrived for
    expected,     \* history: the bytes of every stream, the init frame left out
    got           \* history: the bytes that Read returned

vars == <<initialized, buf, err, reader, pump, frames, closes, heard, expected,
          got>>

Idle == [at |-> "read"]

Init ==
    /\ initialized = [s \in Streams |-> ~NeedsInit]
    /\ buf = [s \in Streams |-> <<>>]
    /\ err = FALSE
    /\ reader = [s \in Streams |-> "out"]
    /\ pump = Idle /\ frames = 0 /\ closes = 0 /\ heard = {}
    /\ expected = [s \in Streams |-> <<>>]
    /\ got = [s \in Streams |-> <<>>]

\* The reader holds the lock of its stream, and gives it up in Wait.
Locked(s) == reader[s] \in {"check", "copied", "checkErr", "beforeWait"}

\* Broadcast wakes those who wait now.
Broadcast(S) ==
    [s \in Streams |-> IF s \in S /\ reader[s] = "waiting" THEN "locking"
                       ELSE reader[s]]

-----------------------------------------------------------------------------
(* The goroutine that reads the websocket.                                  *)

\* A frame of n bytes; no two bytes that ever arrive are the same.
Frame(n) == [i \in 1..n |-> <<frames + 1, i>>]

ReadMessage(s, n) ==
    /\ pump = Idle /\ frames < MaxFrames
    /\ frames' = frames + 1
    /\ pump' = [at |-> "push", stream |-> s, data |-> Frame(n)]
    /\ heard' = heard \cup {s}
    /\ expected' = IF NeedsInit /\ s \notin heard THEN expected
                   ELSE [expected EXCEPT ![s] = @ \o Frame(n)]
    /\ UNCHANGED <<initialized, buf, err, reader, closes, got>>

\* Mutant: who waits is not told of the data.
pushStreamDataSilently ==
    /\ pump.at = "push" /\ ~Locked(pump.stream)
    /\ pump' = Idle
    /\ initialized' = [initialized EXCEPT ![pump.stream] = TRUE]
    /\ buf' = IF initialized[pump.stream]
              THEN [buf EXCEPT ![pump.stream] = @ \o pump.data] ELSE buf
    /\ reader' = reader
    /\ UNCHANGED <<err, frames, closes, heard, expected, got>>

\* Mutant: the first frame is kept.
pushStreamDataAlways ==
    /\ pump.at = "push" /\ ~Locked(pump.stream)
    /\ pump' = Idle
    /\ initialized' = [initialized EXCEPT ![pump.stream] = TRUE]
    /\ buf' = [buf EXCEPT ![pump.stream] = @ \o pump.data]
    /\ reader' = Broadcast({pump.stream})
    /\ UNCHANGED <<err, frames, closes, heard, expected, got>>

\* Under the lock of the stream, all of it.
pushStreamData ==
    /\ pump.at = "push" /\ ~Locked(pump.stream)
    /\ pump' = Idle
    /\ IF initialized[pump.stream]
       THEN /\ buf' = [buf EXCEPT ![pump.stream] = @ \o pump.data]
            /\ reader' = Broadcast({pump.stream})
            /\ UNCHANGED initialized
       ELSE /\ initialized' = [initialized EXCEPT ![pump.stream] = TRUE]
            /\ UNCHANGED <<buf, reader>>
    /\ UNCHANGED <<err, frames, closes, heard, expected, got>>

\* The websocket is closed, or broken.  No lock is held.
ReadError ==
    /\ pump = Idle
    /\ err' = TRUE /\ pump' = [at |-> "close"]
    /\ UNCHANGED <<initialized, buf, reader, frames, closes, heard, expected,
                   got>>

CloseAfterError ==
    /\ pump.at = "close" /\ pump' = [at |-> "gone"]
    /\ reader' = Broadcast(Streams)
    /\ UNCHANGED <<initialized, buf, err, frames, closes, heard, expected, got>>

\* A user closes one of the streams, which only tells the other side.
Close ==
    /\ closes < MaxCloses /\ closes' = closes + 1
    /\ reader' = Broadcast(Streams)
    /\ UNCHANGED <<initialized, buf, err, pump, frames, heard, expected, got>>

-----------------------------------------------------------------------------
(* The reader of a stream, which calls Read until it fails.                 *)

Go(s, from, to) == reader[s] = from /\ reader' = [reader EXCEPT ![s] = to]

others == <<initialized, err, pump, frames, closes, heard, expected>>

Read(s) == Go(s, "out", "locking") /\ UNCHANGED <<others, buf, got>>

Lock(s) == Go(s, "locking", "check") /\ UNCHANGED <<others, buf, got>>

CopyOut(s, n) ==
    /\ Go(s, "check", "copied") /\ n \in 1..Len(buf[s])
    /\ got' = [got EXCEPT ![s] = @ \o SubSeq(buf[s], 1, n)]
    /\ buf' = [buf EXCEPT ![s] = SubSeq(buf[s], n + 1, Len(buf[s]))]
    /\ UNCHANGED others

\* Mutant: what is left in the buffer when the error is seen is not read.
ReturnCopiedEarly(s) ==
    /\ Go(s, "copied", IF err THEN "ended" ELSE "out")
    /\ UNCHANGED <<others, buf, got>>

\* The last bytes are returned together with the error.
ReturnCopied(s) ==
    /\ Go(s, "copied", IF buf[s] = <<>> /\ err THEN "ended" ELSE "out")
    /\ UNCHANGED <<others, buf, got>>

BufferEmpty(s) ==
    /\ Go(s, "check", "checkErr") /\ buf[s] = <<>>
    /\ UNCHANGED <<others, buf, got>>

CheckErr(s) ==
    /\ Go(s, "checkErr", IF err THEN "ended" ELSE "beforeWait")
    /\ UNCHANGED <<others, buf, got>>

Wait(s) == Go(s, "beforeWait", "waiting") /\ UNCHANGED <<others, buf, got>>

-----------------------------------------------------------------------------
Reading(s) ==
    \/ Read(s) \/ Lock(s) \/ ReturnCopied(s) \/ BufferEmpty(s) \/ CheckErr(s)
    \/ Wait(s) \/ \E n \in 1..MaxFrames * MaxBytes : CopyOut(s, n)

Pumping == pushStreamData \/ CloseAfterError

Next == \/ Pumping \/ ReadError \/ Close
        \/ \E s \in Streams, n \in 0..MaxBytes : ReadMessage(s, n)
        \/ \E s \in Streams : Reading(s)

Spec == Init /\ [][Next]_vars

\* Goroutines that can go on do; whether anything arrives is not up to them.
FairSpec ==
    Spec /\ WF_vars(Pumping) /\ \A s \in Streams : WF_vars(Reading(s))

-----------------------------------------------------------------------------
(* Properties.                                                              *)

Bytes == (1..MaxFrames) \X (1..MaxBytes)

\* Every variable holds a value of its type, and the connection has its error
\* exactly when the goroutine of the websocket has left its loop.
TypeOK ==
    /\ initialized \in [Streams -> BOOLEAN]
    /\ buf \in [Streams -> Seq(Bytes)]
    /\ err \in BOOLEAN /\ (err <=> pump.at \in {"close", "gone"})
    /\ reader \in [Streams -> {"out", "locking", "check", "copied", "checkErr",
                               "beforeWait", "waiting", "ended"}]
    /\ pump \in {Idle, [at |-> "close"], [at |-> "gone"]}
                \cup [at : {"push"}, stream : Streams, data : Seq(Bytes)]
    /\ frames \in 0..MaxFrames /\ closes \in 0..MaxCloses
    /\ heard \subseteq Streams
    /\ expected \in [Streams -> Seq(Bytes)] /\ got \in [Streams -> Seq(Bytes)]

Pending(s) ==
    IF pump.at = "push" /\ pump.stream = s /\ initialized[s] THEN pump.data
    ELSE <<>>

\* What a reader got, what its stream has buffered and what is on the way are
\* together the bytes that arrived for the stream after its init frame: none
\* lost, repeated, out of order or from another stream.
NothingLost ==
    \A s \in Streams : got[s] \o buf[s] \o Pending(s) = expected[s]

\* A reader whose Read has failed had got everything that arrived before.
EndsWithEverything ==
    \A s \in Streams : reader[s] = "ended" => got[s] = expected[s]

\* Bytes that arrive are read: a reader never sleeps through a push.
BytesAreRead ==
    \A s \in Streams, k \in 1..MaxFrames * MaxBytes :
        Len(expected[s]) >= k ~> Len(got[s]) >= k

\* "ensure all readers are broadcasted": when the connection fails every Read
\* returns.
ReadersEnd == \A s \in Streams : err ~> reader[s] = "ended"
=============================================================================
