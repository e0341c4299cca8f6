-------------------------------- MODULE Voice --------------------------------
(***************************************************************************)
(* The Voice extension (extension.cpp): a TCP server that mixes what its   *)
(* clients send and broadcasts it as the voice of SourceTV.  Everything    *)
(* runs in OnGameFrame: HandleNetwork accepts a client, then looks at each *)
(* polled socket in turn; HandleVoiceData plays what is due.  An action is *)
(* one turn of one of their loops.  The network and the clock go on at any *)
(* time: what has arrived is chosen when the code asks.                    *)
(***************************************************************************)
EXTENDS MixBuffer, SequencesExt

CONSTANTS
  MAX_CLIENTS,
  FrameSize,     \* samples encoded at once: 512
  MaxFrames,     \* frames played per game frame: 5
  RecvSize,      \* sizeof(aBuf), in bytes: 32768
  Prebuffer,     \* samples needed to start playing: 100 ms
  MaxAhead,      \* frames the voice channel may be ahead of the clock: 500 ms
  Samples,       \* what the clients send
  MaxLead,       \* samples a client has in the buffer ahead of the player, at most
  Faults         \* the calls that may fail: "accept", "encode"; "unnoticed": also for a frame
                 \*   with which a client's data ends

ASSUME VoiceAssumption ==
  /\ MAX_CLIENTS \in Nat \ {0} /\ FrameSize \in Nat \ {0} /\ MaxFrames \in Nat \ {0}
  /\ RecvSize \in Nat \ {0} /\ Prebuffer \in Nat /\ MaxAhead \in Nat
  /\ Samples \subseteq AllSamples /\ 0 \in AllSamples
  /\ MaxLead \in Nat /\ Faults \subseteq {"accept", "encode", "unnoticed"}

Clients == 1 .. MAX_CLIENTS
Sockets == 1 .. MAX_CLIENTS
Closed  == 0  \* the socket -1

VARIABLES
  socket,   \* m_Socket
  new,      \* m_New: nothing received yet
  writeIndex,  \* m_BufferWriteIndex
  lastLength,  \* m_LastLength
  unEven,   \* m_UnEven: m_Remainder is the first half of the next sample
  polls,    \* the fds of m_aPollFds behind the listener's: m_PollFds - 1 of them
  polled,   \* how many of them poll looked at
  entry,    \* the one HandleNetwork is at
  compress, \* CompressPollFds
  phase,    \* where the frame is
  frames, left,  \* FramesAvailable and how many are left
  ring,     \* m_Buffer
  refused,  \* (history) polls holds entries of failed accepts; no action reads it
  ahead     \* m_AvailableTime - getTime() in frames; -1 if negative

clientVars == <<socket, new, writeIndex, lastLength, unEven>>
pollVars   == <<polls, polled, entry, compress, refused>>
playVars   == <<frames, left, ahead>>
vars == <<socket, new, writeIndex, lastLength, unEven, polls, polled, entry, compress,
          refused, phase, frames, left, ring, ahead>>

Init ==
  /\ socket = [c \in Clients |-> Closed] /\ new = [c \in Clients |-> FALSE]
  /\ writeIndex = [c \in Clients |-> 0] /\ lastLength = [c \in Clients |-> 0]
  /\ unEven = [c \in Clients |-> FALSE]
  /\ polls = <<>> /\ polled = 0 /\ entry = 1 /\ compress = FALSE /\ refused = FALSE
  /\ phase = "idle" /\ frames = 0 /\ left = 0
  /\ ring = EmptyRing /\ ahead = -1

Lowest(S) == CHOOSE x \in S : \A y \in S : x <= y
FreeSlots == {c \in Clients : socket[c] = Closed}
Joined(c) == socket[c] # Closed /\ ~ new[c]
-----------------------------------------------------------------------------
(* Between frames: the clock. *)

Tick ==
  /\ phase = "idle" /\ ahead >= 0
  /\ ahead' = ahead - 1
  /\ UNCHANGED <<clientVars, pollVars, phase, frames, left, ring>>

-----------------------------------------------------------------------------
(* HandleNetwork. *)

(* poll: nothing to do. *)
PollNothing ==
  /\ phase = "idle"
  /\ phase' = "voice"
  /\ UNCHANGED <<clientVars, pollVars, playVars, ring>>

BeginRead == polled' = Len(polls) /\ entry' = 1 /\ compress' = FALSE

(* No client waits to be accepted, or no slot is free. *)
PollClients ==
  /\ phase = "idle"
  /\ phase' = "read" /\ BeginRead
  /\ UNCHANGED <<clientVars, polls, refused, playVars, ring>>

(* A client is accepted into the lowest free slot; -1 if accept fails.  Nothing checks for *)
(* the end of m_aPollFds: writing behind it is undefined.                                  *)
Accept ==
  /\ phase = "idle" /\ FreeSlots # {}
  /\ LET c == Lowest(FreeSlots)
     IN  \E s \in {Lowest(Sockets \ {socket[d] : d \in Clients})}
                    \cup (IF "accept" \in Faults THEN {Closed} ELSE {}) :
           /\ socket' = [socket EXCEPT ![c] = s]
           /\ new' = [new EXCEPT ![c] = TRUE]
           /\ writeIndex' = [writeIndex EXCEPT ![c] = 0]
           /\ lastLength' = [lastLength EXCEPT ![c] = 0]
           /\ unEven' = [unEven EXCEPT ![c] = FALSE]
           /\ IF Len(polls) < MAX_CLIENTS
                THEN /\ polls' = Append(polls, s) /\ refused' = (refused \/ s = Closed)
                     /\ phase' = "read" /\ BeginRead
                ELSE phase' = "overrun" /\ UNCHANGED pollVars
  /\ UNCHANGED <<playVars, ring>>

(* The client of the entry looked at, if its socket is still open. *)
AtEntry(c) ==
  /\ phase = "read" /\ entry <= polled /\ polls[entry] # Closed
  /\ c = Lowest({d \in Clients : socket[d] = polls[entry]})

NextEntry == entry' = entry + 1 /\ UNCHANGED <<polled, refused, phase, playVars>>

(* No event, a new entry, or FIONREAD fails. *)
Skip ==
  /\ phase = "read" /\ entry <= Len(polls)
  /\ NextEntry
  /\ UNCHANGED <<clientVars, polls, compress, ring>>

CloseClient(c) ==
  /\ socket' = [socket EXCEPT ![c] = Closed]
  /\ polls' = [polls EXCEPT ![entry] = Closed]
  /\ compress' = TRUE

(* POLLHUP *)
HangUp(c) ==
  /\ AtEntry(c)
  /\ CloseClient(c)
  /\ NextEntry
  /\ UNCHANGED <<new, writeIndex, lastLength, unEven, ring>>

(* POLLIN: a client's first data starts at the read index. *)
Start(c) == IF new[c] THEN ring.read ELSE writeIndex[c]

BeginData(c) == AtEntry(c) /\ new' = [new EXCEPT ![c] = FALSE]

(* What waits in the socket would not fit. *)
TooFull(c) ==
  /\ BeginData(c)
  /\ RecvSize > CurrentFree(ring, Start(c)) * 2
  /\ writeIndex' = [writeIndex EXCEPT ![c] = Start(c)]
  /\ NextEntry
  /\ UNCHANGED <<socket, lastLength, unEven, polls, compress, ring>>

(* recv returns 0 or -1. *)
Disconnect(c) ==
  /\ BeginData(c)
  /\ writeIndex' = [writeIndex EXCEPT ![c] = Start(c)]
  /\ unEven' = [unEven EXCEPT ![c] = FALSE]
  /\ CloseClient(c)
  /\ NextEntry
  /\ UNCHANGED <<lastLength, ring>>

(* What recv takes: at least a byte of what waited, and what has arrived since.  An uneven  *)
(* byte left over from before comes first, one left over now is kept for later.             *)
Data(c, bytes) == [1 .. (bytes + IF unEven[c] THEN 1 ELSE 0) \div 2 -> Samples]

BeginRecv(c, bytes) ==
  /\ BeginData(c)
  /\ CurrentFree(ring, Start(c)) > 0
  /\ IF unEven[c]
       THEN bytes < RecvSize /\ unEven' = [unEven EXCEPT ![c] = bytes % 2 = 0]
       ELSE unEven' = [unEven EXCEPT ![c] = bytes % 2 = 1]
  /\ NextEntry
  /\ UNCHANGED <<socket, polls, compress>>

(* OnDataReceived skips the silence a client begins with or that follows on more than a    *)
(* second without data (getTime returns 0 if it fails).                                    *)
Audible(data) == {i \in DOMAIN data : data[i] # 0}

Kept(data) ==
  {data} \cup {SubSeq(data, i, Len(data)) : i \in {j \in Audible(data) : j = Lowest(Audible(data))}}

PushData(c, data) ==
  /\ Len(data) <= CurrentFree(ring, Start(c))
  /\ ring' = Push(ring, Start(c), data)
  /\ writeIndex' = [writeIndex EXCEPT ![c] = WriteEnd(ring, Start(c), Len(data))]
  /\ lastLength' = [lastLength EXCEPT ![c] = CurrentLength(ring', writeIndex'[c])]

Receive(c) ==
  \E bytes \in 1 .. RecvSize :
    /\ BeginRecv(c, bytes)
    /\ \E data \in Data(c, bytes) : \E kept \in Kept(data) : PushData(c, kept)
    /\ lastLength'[c] <= MaxLead

PushNothing(c) ==
  /\ writeIndex' = [writeIndex EXCEPT ![c] = Start(c)]
  /\ lastLength' = [lastLength EXCEPT ![c] = CurrentLength(ring, Start(c))]
  /\ UNCHANGED ring

(* Nothing but silence, after silence. *)
Ignore(c) ==
  \E bytes \in 1 .. RecvSize :
    /\ BeginRecv(c, bytes)
    /\ \E data \in Data(c, bytes) : Audible(data) = {}
    /\ PushNothing(c)

(* The push fails: more has arrived than fits. *)
Drop(c) ==
  \E bytes \in 1 .. RecvSize :
    /\ BeginRecv(c, bytes)
    /\ \E data \in Data(c, bytes) : \E kept \in Kept(data) : Len(kept) > CurrentFree(ring, Start(c))
    /\ PushNothing(c)

EndReadUncompressed ==
  /\ phase = "read" /\ entry > Len(polls)
  /\ polled' = 0 /\ entry' = 1 /\ compress' = FALSE
  /\ phase' = "voice"
  /\ UNCHANGED <<clientVars, polls, refused, playVars, ring>>

EndRead ==
  /\ phase = "read" /\ entry > Len(polls)
  /\ polled' = 0 /\ entry' = 1 /\ compress' = FALSE
  /\ phase' = (IF compress THEN "compress" ELSE "voice")
  /\ UNCHANGED <<clientVars, polls, refused, playVars, ring>>

ClosedEntries == {i \in DOMAIN polls : polls[i] = Closed}

(* The first entry of a closed socket is removed; those behind it move up. *)
CompressPollFds ==
  /\ phase = "compress" /\ ClosedEntries # {}
  /\ polls' = RemoveAt(polls, Lowest(ClosedEntries))
  /\ UNCHANGED <<clientVars, polled, entry, compress, refused, phase, playVars, ring>>

EndCompress ==
  /\ phase = "compress" /\ ClosedEntries = {}
  /\ refused' = FALSE
  /\ phase' = "voice"
  /\ UNCHANGED <<clientVars, polls, polled, entry, compress, playVars, ring>>

HandleNetwork ==
  \/ PollNothing \/ PollClients \/ Accept
  \/ Skip \/ EndRead \/ CompressPollFds \/ EndCompress
  \/ \E c \in Clients : HangUp(c) \/ TooFull(c) \/ Disconnect(c)
                        \/ Receive(c) \/ Ignore(c) \/ Drop(c)
-----------------------------------------------------------------------------
(* HandleVoiceData. *)

FramesAvailable == ring.length \div FrameSize

MayPlay ==
  /\ FramesAvailable > 0
  /\ ahead >= 0 \/ ring.length >= Prebuffer
  /\ ahead <= MaxAhead

(* Nothing to play yet, enough played, or SourceTV is not there. *)
PlayNothing ==
  /\ phase = "voice"
  /\ phase' = "idle"
  /\ UNCHANGED <<clientVars, pollVars, playVars, ring>>

BeginPlay ==
  /\ phase = "voice" /\ MayPlay
  /\ frames' = (IF FramesAvailable < MaxFrames THEN FramesAvailable ELSE MaxFrames)
  /\ left' = frames'
  /\ phase' = "play"
  /\ UNCHANGED <<clientVars, pollVars, ring, ahead>>

(* "Check for buffer underruns" *)
UnderrunBy(r) == {c \in Clients : Joined(c) /\ CurrentLength(r, writeIndex[c]) > lastLength[c]}

PlayFrameToOldIndex ==
  /\ phase = "play" /\ left > 0
  /\ ring' = Popped(ring, FrameSize)
  /\ LET underrun == UnderrunBy(ring')
     IN  /\ writeIndex' = [c \in Clients |-> IF c \in underrun THEN ring.read ELSE writeIndex[c]]
         /\ lastLength' = [c \in Clients |-> IF c \in underrun THEN 0 ELSE lastLength[c]]
  /\ left' = left - 1
  /\ UNCHANGED <<socket, new, unEven, pollVars, phase, frames, ahead>>

(* A frame leaves the ring; clients left behind by it go on at the read index. *)
PlayFrame ==
  /\ phase = "play" /\ left > 0
  /\ ring' = Popped(ring, FrameSize)
  /\ LET underrun == UnderrunBy(ring')
     IN  /\ writeIndex' = [c \in Clients |-> IF c \in underrun THEN ring'.read ELSE writeIndex[c]]
         /\ lastLength' = [c \in Clients |-> IF c \in underrun THEN 0 ELSE lastLength[c]]
  /\ left' = left - 1
  /\ UNCHANGED <<socket, new, unEven, pollVars, phase, frames, ahead>>

(* celt_encode gives nothing: the frame is lost, its underruns are not looked for. *)
EncodeFails ==
  /\ "encode" \in Faults
  /\ UnderrunBy(Popped(ring, FrameSize)) # {} => "unnoticed" \in Faults
  /\ phase = "play" /\ left > 0
  /\ ring' = Popped(ring, FrameSize)
  /\ frames' = 0 /\ left' = 0 /\ phase' = "idle"
  /\ UNCHANGED <<clientVars, pollVars, ahead>>

(* m_AvailableTime, now at least, moves on by what was played. *)
EndPlay ==
  /\ phase = "play" /\ left = 0
  /\ ahead' = (IF ahead < 0 THEN 0 ELSE ahead) + frames
  /\ frames' = 0 /\ phase' = "idle"
  /\ UNCHANGED <<clientVars, pollVars, left, ring>>

HandleVoiceData == PlayNothing \/ BeginPlay \/ PlayFrame \/ EncodeFails \/ EndPlay

Next == Tick \/ HandleNetwork \/ HandleVoiceData

Spec == Init /\ [][Next]_vars
-----------------------------------------------------------------------------
TypeOK ==
  /\ socket \in [Clients -> Sockets \cup {Closed}]
  /\ new \in [Clients -> BOOLEAN] /\ unEven \in [Clients -> BOOLEAN]
  /\ writeIndex \in [Clients -> Cells] /\ lastLength \in [Clients -> Cells]
  /\ polls \in Seq(Sockets \cup {Closed}) /\ Len(polls) <= MAX_CLIENTS
  /\ polled \in 0 .. MAX_CLIENTS /\ entry \in 1 .. MAX_CLIENTS + 1 /\ compress \in BOOLEAN
  /\ refused \in BOOLEAN
  /\ phase \in {"idle", "read", "compress", "voice", "play", "overrun"}
  /\ frames \in 0 .. MaxFrames /\ left \in 0 .. frames
  /\ ring \in [buf: [Cells -> AllSamples], read: Cells, length: Cells]
  /\ ahead \in -1 .. MaxAhead + MaxFrames

(* Every connected client is polled, by one entry, and nothing else is; the fixed array is *)
(* long enough unless an accept has failed since it was last compressed.                   *)
PollsClients ==
  LET Open == DOMAIN polls \ ClosedEntries
  IN  /\ phase # "overrun" =>
           /\ {polls[i] : i \in Open} = {socket[c] : c \in Clients} \ {Closed}
           /\ \A i, j \in Open : polls[i] = polls[j] => i = j
           /\ \A c, d \in Clients : socket[c] = socket[d] /\ socket[c] # Closed => c = d
      /\ phase = "overrun" => refused

(* No client's write index is left behind the read index, where it would pass for one that *)
(* is almost a lap ahead: HandleVoiceData notices every underrun.                          *)
UnderrunsNoticed ==
  \A c \in Clients : Joined(c) => CurrentLength(ring, writeIndex[c]) <= ring.length

(* The bounds of the underrun test: a client's data leaves more than a frame free, and every *)
(* frame with which it ends is looked at.                                                   *)
LeadFits == MaxLead + FrameSize < BufferSize /\ "unnoticed" \notin Faults

(* An entry of a closed socket waits to be removed, or is one of a failed accept. *)
PollInv ==
  /\ phase = "read" => polled <= Len(polls)
  /\ compress => phase = "read"
  /\ ClosedEntries # {} => compress \/ refused \/ phase \in {"compress", "overrun"}

(* The frames to play are there. *)
PlayInv == phase = "play" => ahead <= MaxAhead /\ left * FrameSize <= ring.length

(* Since a client last sent, the player has only come closer. *)
LagInv ==
  LeadFits =>
    \A c \in Clients :
      /\ socket[c] # Closed /\ new[c] => lastLength[c] = 0
      /\ Joined(c) => CurrentLength(ring, writeIndex[c]) <= lastLength[c] /\ lastLength[c] <= MaxLead

(* The inductive invariant. *)
IndInv == TypeOK /\ PollsClients /\ PollInv /\ PlayInv /\ LagInv /\ (LeadFits => UnderrunsNoticed)

(* The clients' samples are played as the promise says. *)
Contents == [k \in 1 .. ring.length |-> ring.buf[Advance(ring.read, k - 1)]]

Stream == INSTANCE VoiceStream WITH
  Writers <- Clients, Capacity <- BufferSize - 1, MaxChunk <- RecvSize \div 2, Low <- INT16_MIN, High <- INT16_MAX,
  stream <- Contents,
  place <- [c \in Clients |-> IF Joined(c) THEN CurrentLength(ring, writeIndex[c]) ELSE 0]

StreamSpec == Stream!Spec
=============================================================================
