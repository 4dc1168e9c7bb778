------------------------------- MODULE Frame -------------------------------
(***************************************************************************)
(* The frame protocol of src/src/transport/frame.cpp.                      *)
(*                                                                         *)
(* A byte stream is a sequence of cells.  A frame is two cells, its header *)
(* and its body (payload and checksum), so that a chunk of the stream may  *)
(* end inside a frame.  What the checks of the decoder tell apart is the   *)
(* type: "foreign" stands for a wrong magic, version or length, "corrupt"  *)
(* for a payload that does not match its checksum, "odd" for a number that *)
(* is no FrameType.                                                        *)
(***************************************************************************)
EXTENDS Naturals, Sequences

CONSTANT MaxBuffer   \* max_frame_bytes + kFrameHeaderBytes, in cells

ASSUME BufferAssumption == MaxBuffer \in Nat /\ MaxBuffer >= 2

FrameType == {"hello", "welcome", "ingest", "ingest_ack", "stats", "stats_reply",
              "ping", "pong", "bye", "error", "odd", "corrupt", "foreign"}

Frame(type, arg) == [type |-> type, arg |-> arg]

encode_frame(f) == <<[part |-> "header", frame |-> f], [part |-> "body", frame |-> f]>>

\* The stream of several frames.
encode_frames(fs) ==
  [i \in 1..(2 * Len(fs)) |->
     [part |-> IF i % 2 = 1 THEN "header" ELSE "body", frame |-> fs[(i + 1) \div 2]]]

\* FrameDecoder::feed refuses a chunk that would overfill the buffer.
FeedRefused(buffer, chunk) == Len(buffer) + Len(chunk) > MaxBuffer

\* FrameDecoder::next: a frame, nothing yet, or a protocol error.  A body where
\* a header is expected does not start with the magic.
NextIsError(buffer) ==
  /\ buffer # <<>>
  /\ \/ buffer[1].part = "body"
     \/ buffer[1].frame.type = "foreign"
     \/ Len(buffer) > 1 /\ buffer[1].frame.type = "corrupt"

NextIsFrame(buffer) == Len(buffer) > 1 /\ ~NextIsError(buffer)

NextFrame(buffer) == buffer[1].frame

consume(buffer) == Tail(Tail(buffer))

\* What one recv_some may return of the bytes that have arrived.
Chunks(stream) == {SubSeq(stream, 1, n) : n \in 1..Len(stream)}

After(stream, chunk) == SubSeq(stream, Len(chunk) + 1, Len(stream))
=============================================================================
