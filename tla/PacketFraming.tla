--------------------------- MODULE PacketFraming ---------------------------
(***************************************************************************)
(* How a PacketSession (src/librzu/src/lib/NetSession) cuts the bytes of   *)
(* its Stream (src/librzu/src/lib/Stream) into packets.  TCP delivers the  *)
(* peer's bytes in chunks of any length; onReadCompleted appends a chunk   *)
(* to recvBuffer and onDataReceived takes the packets out of it in a loop, *)
(* whose iterations are the steps of this module.                          *)
(*                                                                         *)
(* A byte is the pair of the packet it belongs to and its position in it;  *)
(* the bytes 1 .. HeaderSize of a packet spell its size.  Read out of      *)
(* place, they spell any size.                                             *)
(*                                                                         *)
(* StopsAtWholeHeader is a mutated form of the definition that follows it  *)
(* (PROJECT.json says what it breaks).                                     *)
(***************************************************************************)
EXTENDS Integers, Sequences

CONSTANTS
  Sizes,           \* the sizes the peer's packets announce
  HeaderSize,      \* bytes of the size field (4 in the code)
  MaxPacketSize,   \* PacketSession::MAX_PACKET_SIZE
  MaxPackets,      \* bound: packets sent on one connection
  MaxConnections   \* bound: connections of the session

VARIABLES
  sent,                \* the sizes of the packets the peer sent
  wire,                \* bytes on their way
  recvBuffer,          \* Stream::recvBuffer
  currentMessageSize,  \* bytes of the current packet that are still to be read
  discardPacket,
  inLoop,              \* is onDataReceived running?
  got,                 \* what was dispatched: packets of the peer, or 0 for garbage
  connections,         \* connections made so far
  residue              \* did a connection begin with bytes of an earlier one?

vars ==
  <<sent, wire, recvBuffer, currentMessageSize, discardPacket, inLoop, got,
    connections, residue>>

history == <<connections, residue>>

buffer == <<currentMessageSize, discardPacket>>

-----------------------------------------------------------------------------
Larger(m, n) == IF m > n THEN m ELSE n

\* The bytes of packet p of size n; one that announces less than a header still
\* has the header.
Bytes(p, n) == [k \in 1 .. Larger(n, HeaderSize) |-> <<p, k>>]

\* Is the sequence of bytes b the part of packet p that starts after position from?
PartOf(b, p, from) == b = [k \in 1 .. Len(b) |-> <<p, from + k>>]

\* The size that the first bytes of recvBuffer spell.
SpelledSizes ==
  LET h == SubSeq(recvBuffer, 1, HeaderSize)
      whole == {p \in DOMAIN sent : PartOf(h, p, 0)}
  IN  IF whole = {} THEN Sizes ELSE {sent[p] : p \in whole}

Rest(n) == SubSeq(recvBuffer, n + 1, Len(recvBuffer))

Init ==
  /\ sent = << >>
  /\ wire = << >>
  /\ recvBuffer = << >>
  /\ currentMessageSize = 0
  /\ discardPacket = FALSE
  /\ inLoop = FALSE
  /\ got = << >>
  /\ connections = 1
  /\ residue = FALSE

\* The peer sends a packet.
PeerSends(n) ==
  /\ Len(sent) < MaxPackets
  /\ sent' = Append(sent, n)
  /\ wire' = wire \o Bytes(Len(sent) + 1, n)
  /\ UNCHANGED <<recvBuffer, buffer, inLoop, got, history>>

\* A chunk of n bytes arrives.
onReadCompleted(n) ==
  /\ ~inLoop
  /\ n <= Len(wire)
  /\ recvBuffer' = recvBuffer \o SubSeq(wire, 1, n)
  /\ wire' = SubSeq(wire, n + 1, Len(wire))
  /\ inLoop' = TRUE
  /\ UNCHANGED <<sent, buffer, got, history>>

StopsAtWholeHeader(size, available) ==
  \/ size = 0 /\ available > HeaderSize
  \/ size # 0 /\ available >= size

\* The condition at the end of the loop.
LoopsAgain(size, available) ==
  \/ size = 0 /\ available >= HeaderSize
  \/ size # 0 /\ available >= size

\* The rest of an iteration, once the size (not 0) of a packet is known: it is skipped
\* as far as it has arrived, or dispatched when all of it has.
Consume(bytes, size, discard) ==
  \/ /\ discard
     /\ LET n == IF Len(bytes) > size THEN size ELSE Len(bytes)
        IN  /\ recvBuffer' = SubSeq(bytes, n + 1, Len(bytes))
            /\ currentMessageSize' = size - n
            /\ inLoop' = LoopsAgain(size - n, Len(bytes) - n)
     /\ UNCHANGED got
  \/ /\ ~discard /\ Len(bytes) >= size
     /\ LET body == SubSeq(bytes, 1, size)
            whose == {p \in DOMAIN sent :
                        PartOf(body, p, HeaderSize) /\ sent[p] = size + HeaderSize}
        IN  got' = Append(got, IF whose = {} THEN 0 ELSE CHOOSE p \in whose : TRUE)
     /\ recvBuffer' = SubSeq(bytes, size + 1, Len(bytes))
     /\ currentMessageSize' = 0
     /\ inLoop' = LoopsAgain(0, Len(bytes) - size)
  \/ /\ ~discard /\ Len(bytes) < size
     /\ recvBuffer' = bytes
     /\ currentMessageSize' = size
     /\ inLoop' = LoopsAgain(size, Len(bytes))
     /\ UNCHANGED got

TooBig(n) == n > MaxPacketSize

\* One iteration of onDataReceived.
onDataReceived ==
  /\ inLoop
  /\ \/ /\ currentMessageSize = 0 /\ Len(recvBuffer) < HeaderSize
        /\ inLoop' = FALSE
        /\ UNCHANGED <<recvBuffer, buffer, got>>
     \/ /\ currentMessageSize = 0 /\ Len(recvBuffer) >= HeaderSize
        /\ \E n \in SpelledSizes :
             IF n <= HeaderSize
             THEN /\ recvBuffer' = Rest(HeaderSize)
                  /\ inLoop' = LoopsAgain(0, Len(Rest(HeaderSize)))
                  /\ UNCHANGED <<buffer, got>>
             ELSE /\ discardPacket' = TooBig(n)
                  /\ Consume(Rest(HeaderSize), n - HeaderSize, TooBig(n))
     \/ /\ currentMessageSize # 0
        /\ Consume(recvBuffer, currentMessageSize, discardPacket)
        /\ UNCHANGED discardPacket
  /\ UNCHANGED <<sent, wire, history>>

\* The connection is lost and the same session connects again, as the sessions
\* of rzgamereconnect do: the stream is used again, with its recvBuffer, and
\* onConnected resets the packet in progress.
Reconnect ==
  /\ ~inLoop
  /\ connections < MaxConnections
  /\ connections' = connections + 1
  /\ currentMessageSize' = 0
  /\ discardPacket' = FALSE
  /\ sent' = << >> /\ wire' = << >> /\ got' = << >>
  /\ recvBuffer' = [k \in DOMAIN recvBuffer |-> <<0, k>>]
  /\ residue' = (residue \/ recvBuffer # << >>)
  /\ UNCHANGED inLoop

Next ==
  \/ \E n \in Sizes : PeerSends(n)
  \/ \E n \in 1 .. Len(wire) : onReadCompleted(n)
  \/ onDataReceived
  \/ Reconnect

Spec == Init /\ [][Next]_vars

-----------------------------------------------------------------------------
(* Properties                                                               *)

Deliverable == {p \in DOMAIN sent : HeaderSize < sent[p] /\ sent[p] <= MaxPacketSize}

\* However the bytes are cut into chunks, only packets the peer sent on this
\* connection are dispatched, whole, once and in their order; the ones that are
\* too big or too small are skipped and do not hide the ones behind them.
DispatchedInOrder ==
  /\ \A k \in DOMAIN got : got[k] \in Deliverable
  /\ \A j, k \in DOMAIN got : j < k => got[j] < got[k]
  /\ \A k \in DOMAIN got, p \in Deliverable :
       p < got[k] => \E j \in DOMAIN got : got[j] = p

\* ... on the first connection, and on a later one that begins with an empty
\* recvBuffer, even if the connection before was lost in the middle of a packet.
FramedOnCleanConnection == ~residue => DispatchedInOrder

\* Nothing is forgotten in the buffer: when all bytes have arrived and the loop
\* has ended, every packet has been dispatched.
NothingLeft ==
  ~residue /\ wire = << >> /\ ~inLoop =>
    /\ recvBuffer = << >>
    /\ currentMessageSize = 0
    /\ \A p \in Deliverable : \E k \in DOMAIN got : got[k] = p

\* Packets are dispatched whole, once and in order, and all of them, as long as
\* no part of a packet is left over from an earlier connection.
Framed == FramedOnCleanConnection /\ NothingLeft

=============================================================================
