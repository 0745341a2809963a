-------------------------- MODULE MavlinkEncoding --------------------------
(***************************************************************************)
(* Two programs that were built with the generated headers, each on its    *)
(* host and with its dialect: one packs messages, always into the same     *)
(* mavlink_message_t, or sends them without one; the other parses into its *)
(* channel's buffer and decodes.  Nothing is lost on the way: that is the  *)
(* subject of MavlinkStream.                                               *)
(***************************************************************************)
EXTENDS MavlinkWire

CONSTANTS
  Known,             \* messages of each dialect
  Seeds,             \* MAVLINK_MESSAGE_CRCS of each dialect
  Pairs,             \* a sender and a receiver, each a dialect and a host
  First,             \* messages that may come first, to be overwritten
  MaxPackings,       \* bound: messages sent
  BufferBytes        \* sizeof(payload64)

Dialects == DOMAIN Known
Hosts == {Swaps, Copies, Struct}

ASSUME KnownAssumption ==
  /\ BufferBytes \in Nat
  /\ \A d \in Dialects : \A m \in Known[d] :
       WellFormed(m) /\ m.len + 2 <= BufferBytes
ASSUME PairsAssumption ==
  \A p \in Pairs : \A k \in {1, 2} : p[k].dialect \in Dialects /\ p[k].host \in Hosts
(* A receiver that uses an identifier for something else has another seed. *)
ASSUME SeedsAssumption ==
  \A c, d \in Dialects : \A m \in Known[c], k \in Known[d] :
    m.id = k.id /\ Seeds[d][m.id + 1] = m.crc => k = m

VARIABLES
  pair,              \* the two programs
  msg,               \* payload64 of the sender's message
  packings,          \* messages packed so far
  sent,              \* the message packed last
  frame,             \* what is on its way, or Nothing
  rxmsg,             \* payload64 of the receiver's channel buffer
  accepted           \* the message mavlink_parse_char() returned, or Nothing

vars == <<pair, msg, packings, sent, frame, rxmsg, accepted>>

Nothing == [id |-> -1]
Blank == [b \in 0 .. BufferBytes - 1 |-> Garbage]

Sender   == pair[1]
Receiver == pair[2]

Init ==
  /\ pair \in Pairs
  /\ msg = Blank /\ rxmsg = Blank
  /\ packings = 0
  /\ sent = Nothing /\ frame = Nothing /\ accepted = Nothing

Sum(seed, half, value) == [half |-> half, seed |-> seed, packing |-> value]

(* A buffer with the payload written over its beginning and, if there is   *)
(* one, a checksum behind the payload: mavlink_ck_a(msg), mavlink_ck_b().  *)
Overwritten(buffer, payload, len) ==
  [b \in DOMAIN buffer |-> IF b < len THEN payload[b] ELSE buffer[b]]

Finalized(host, m, value) ==
  [b \in 0 .. m.len + 1 |->
     IF b < m.len THEN Packed(host, m, value)[b]
     ELSE Sum(m.crc, IF b = m.len THEN "low" ELSE "high", value)]

Transmit(m, payload) ==
  /\ frame' = [id |-> m.id, len |-> m.len, payload |-> payload]
  /\ packings' = packings + 1
  /\ sent' = m
  /\ accepted' = Nothing
  /\ UNCHANGED <<pair, rxmsg>>

MayPack(m) ==
  /\ frame = Nothing
  /\ packings < MaxPackings
  /\ m \in Known[Sender.dialect]
  /\ packings = 0 => m \in First

(* Mutant of Pack: the message is not finalized.                           *)
PackUnfinalized(m) ==
  /\ MayPack(m)
  /\ msg' = Overwritten(msg, Packed(Sender.host, m, packings + 1), m.len)
  /\ Transmit(m, [b \in 0 .. m.len + 1 |-> msg'[b]])

(* mavlink_msg_*_pack() or _encode() into the message, which keeps what    *)
(* the last one left behind its end, then mavlink_msg_to_send_buffer().    *)
Pack(m) ==
  LET whole == Finalized(Sender.host, m, packings + 1) IN
  /\ MayPack(m)
  /\ msg' = Overwritten(msg, whole, m.len + 2)
  /\ Transmit(m, [b \in 0 .. m.len + 1 |-> msg'[b]])

(* mavlink_msg_*_send(): from a buffer of its own.                         *)
Send(m) ==
  /\ MayPack(m)
  /\ Transmit(m, Finalized(Sender.host, m, packings + 1))
  /\ UNCHANGED msg

(* Mutant of ChecksumFits: built without MAVLINK_CRC_EXTRA.                *)
ChecksumFitsAll(f) == TRUE

(* The receiver's own seed for the identifier has to be in the sum.        *)
ChecksumFits(f) == Seeds[Receiver.dialect][f.id + 1] = f.payload[f.len].seed

(* mavlink_parse_char() for the bytes of the frame: the payload is written *)
(* to the buffer whatever comes of it, the checksum only if it fits; then  *)
(* the program decodes the message if its dialect has the identifier.      *)
Parse ==
  LET fits  == ChecksumFits(frame)
      named == {m \in Known[Receiver.dialect] : m.id = frame.id}
  IN
  /\ frame # Nothing
  /\ rxmsg' = Overwritten(rxmsg, frame.payload,
                          frame.len + IF fits THEN 2 ELSE 0)
  /\ accepted' = IF fits /\ named # {} THEN CHOOSE m \in named : TRUE
                 ELSE Nothing
  /\ frame' = Nothing
  /\ UNCHANGED <<pair, msg, packings, sent>>

Next ==
  \/ \E m \in Known[Sender.dialect] : Pack(m) \/ Send(m)
  \/ Parse

Spec == Init /\ [][Next]_vars

-----------------------------------------------------------------------------

(* Every byte that is sent was written for this message: none is left over *)
(* in the reused message from an earlier one, and none was never written,  *)
(* neither a gap between two fields nor padding of the struct.             *)
NothingStaleIsSent ==
  frame # Nothing =>
    \A b \in DOMAIN frame.payload :
      /\ b < BufferBytes
      /\ frame.payload[b] # Garbage
      /\ frame.payload[b].packing = packings

(* What the receiver reads, by the getters and as a struct, is what the    *)
(* sender packed, field by field, whatever the byte order and alignment of *)
(* the two hosts and whatever the receiver's buffer held before.           *)
DecodedAsPacked ==
  accepted # Nothing =>
    LET host == Receiver.host IN
    /\ Decoded(host, accepted, rxmsg) = Memory(host, sent, packings)
    /\ \A i \in 1 .. Len(sent.fields) :
         Got(host, accepted.fields[i], rxmsg)
           = Memory(host, sent, packings)[i]

(* Several dialects use the same identifiers for different messages.  The  *)
(* checksum seeds keep a receiver of one from taking a message of another  *)
(* for its own: what it accepts has the names and types it expects.        *)
SeedsTellMessagesApart ==
  accepted # Nothing => accepted.fields = sent.fields

(* A receiver whose dialect has the message accepts it: its table has the  *)
(* seed that the sender's pack function uses.                              *)
KnownIsAccepted ==
  packings > 0 /\ frame = Nothing /\ sent \in Known[Receiver.dialect] =>
    accepted = sent
=============================================================================
