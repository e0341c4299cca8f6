----------------------------- MODULE VoiceStream -----------------------------
(***************************************************************************)
(* What the Voice extension promises to the clients of its TCP server: one *)
(* stream of samples, played frame by frame.  A client's samples come in   *)
(* the order they were sent and without a gap, the first of them together  *)
(* with what is to be played next; where clients overlap, the stream is    *)
(* the saturated sum.  A client that has fallen behind goes on with what   *)
(* is to be played next.                                                   *)
(***************************************************************************)
EXTENDS Integers, Sequences

CONSTANTS
  Writers,    \* the clients
  Samples,    \* what a client may send
  FrameSize,  \* samples played at once
  Capacity,   \* how far ahead of the played ones a client's samples may be
  MaxChunk,   \* samples a client sends at once, at most
  Low, High   \* the range of a sample

VARIABLES
  stream,  \* the samples not yet played, the next one first
  place    \* how many of them come before a client's next sample

vars == <<stream, place>>

Chunks == UNION {[1 .. n -> Samples] : n \in 0 .. MaxChunk}

(* The sample closest to the sum. *)
Sum(a, b) ==
  CHOOSE s \in Low .. High :
    \A t \in Low .. High : (s - (a + b)) * (s - (a + b)) <= (t - (a + b)) * (t - (a + b))

Init == stream = <<>> /\ place = [w \in Writers |-> 0]

Write(w, data) ==
  LET end == place[w] + Len(data)
  IN  /\ end <= Capacity
      /\ stream' = [k \in 1 .. (IF end > Len(stream) THEN end ELSE Len(stream)) |->
                     LET i == k - place[w]
                     IN  IF i \notin 1 .. Len(data) THEN stream[k]
                         ELSE IF k <= Len(stream) THEN Sum(stream[k], data[i]) ELSE data[i]]
      /\ place' = [place EXCEPT ![w] = end]

Play ==
  /\ Len(stream) >= FrameSize
  /\ stream' = SubSeq(stream, FrameSize + 1, Len(stream))
  /\ place' = [w \in Writers |-> IF place[w] < FrameSize THEN 0 ELSE place[w] - FrameSize]

(* The client disconnects; another may take its place. *)
Leave(w) == place' = [place EXCEPT ![w] = 0] /\ UNCHANGED stream

Next ==
  \/ Play
  \/ \E w \in Writers : Leave(w) \/ \E data \in Chunks : Write(w, data)

Spec == Init /\ [][Next]_vars
=============================================================================
