--------------------------- MODULE MavlinkParser ---------------------------
(***************************************************************************)
(* mavlink_parse_char() of mavlink_helpers.h: how the bytes of one channel *)
(* become messages.  Every action is one call with one byte c.             *)
(*                                                                         *)
(* The code's bytes are numbers below W = 256, its start sign is 254, its  *)
(* payload array has 264 bytes, and its checksum is the X.25 CRC, in two   *)
(* bytes; here the checksum is any with one step per byte.                 *)
(***************************************************************************)
EXTENDS Integers, Sequences

CONSTANTS
  W,                 \* bytes are numbers modulo W
  STX,               \* MAVLINK_STX
  BufSize,           \* bytes of payload64
  Counts,            \* success_count is a number modulo this, 2^16
  Sums,              \* values of the checksum
  SumInit,           \* crc_init()
  Accumulate(_, _),  \* crc_accumulate(): byte and sum
  Low(_), High(_),   \* the two bytes of a sum
  Extra(_)           \* MAVLINK_MESSAGE_CRC(), by message identifier

Byte == 0 .. W - 1

ASSUME BytesAssumption == W \in Nat \ {0} /\ STX \in Byte
ASSUME BufSizeAssumption == BufSize \in Nat /\ BufSize >= W + 1
ASSUME CountsAssumption == Counts \in Nat \ {0}
ASSUME SumsAssumption ==
  /\ SumInit \in Sums
  /\ \A c \in Byte, s \in Sums : Accumulate(c, s) \in Sums
  /\ \A id \in Byte : Extra(id) \in Byte
  /\ \A s \in Sums : Low(s) \in Byte /\ High(s) \in Byte

VARIABLES
  parse_state,       \* of mavlink_status_t, with the code's names
  packet_idx,
  rxmsg,             \* the channel's message, without its payload
  payload,           \* payload64, as bytes
  checksum,          \* rxmsg->checksum
  current_rx_seq, success_count,
  r_status,          \* what the latest call returned of the status
  returned           \* the message it returned, or Nothing

vars == <<parse_state, packet_idx, rxmsg, payload, checksum,
          current_rx_seq, success_count, r_status, returned>>

States == {"IDLE", "GOT_STX", "GOT_LENGTH", "GOT_SEQ", "GOT_SYSID",
           "GOT_COMPID", "GOT_MSGID", "GOT_PAYLOAD", "GOT_CRC1"}

Header == [len : Byte, seq : Byte, sysid : Byte, compid : Byte, msgid : Byte]
Nothing == [len |-> -1]

(* UNINIT and IDLE are handled alike.                                      *)
Init ==
  /\ parse_state = "IDLE"
  /\ packet_idx = 0
  /\ rxmsg = [len |-> 0, seq |-> 0, sysid |-> 0, compid |-> 0, msgid |-> 0]
  /\ payload = [i \in 0 .. BufSize - 1 |-> 0]
  /\ checksum \in Sums
  /\ current_rx_seq = 0 /\ success_count = 0
  /\ r_status = [current_rx_seq |-> 0, success |-> 0, drop |-> 0]
  /\ returned = Nothing

(* The end of a call that completes no message: parse_error, 0 or 1, is    *)
(* reported as the drop count and cleared.                                 *)
Incomplete(errors) ==
  /\ r_status' = [current_rx_seq |-> (current_rx_seq + 1) % W,
                  success |-> success_count, drop |-> errors]
  /\ returned' = Nothing
  /\ UNCHANGED <<current_rx_seq, success_count>>

Update(c) == checksum' = Accumulate(c, checksum)

(* A start sign in the states that look for one.                           *)
Start ==
  /\ parse_state' = "GOT_STX"
  /\ rxmsg' = [rxmsg EXCEPT !.len = 0]
  /\ checksum' = SumInit

Idle(c) ==
  /\ parse_state = "IDLE"
  /\ IF c = STX THEN Start ELSE UNCHANGED <<parse_state, rxmsg, checksum>>
  /\ Incomplete(0)
  /\ UNCHANGED <<packet_idx, payload>>

(* Mutant of Length: the index of the last message is kept.                *)
LengthKeepsIndex(c) ==
  /\ parse_state = "GOT_STX"
  /\ parse_state' = "GOT_LENGTH"
  /\ rxmsg' = [rxmsg EXCEPT !.len = c]
  /\ Update(c)
  /\ Incomplete(0)
  /\ UNCHANGED <<packet_idx, payload>>

(* The other branch, for a message just received or a length above         *)
(* MAVLINK_MAX_PAYLOAD_LEN = 255, is never taken.                          *)
Length(c) ==
  /\ parse_state = "GOT_STX"
  /\ parse_state' = "GOT_LENGTH"
  /\ rxmsg' = [rxmsg EXCEPT !.len = c]
  /\ packet_idx' = 0
  /\ Update(c)
  /\ Incomplete(0)
  /\ UNCHANGED payload

(* The four header bytes between the length and the payload.  A message of *)
(* length 0 has no payload to wait for.                                    *)
HeaderByte(c, at, field, next) ==
  /\ parse_state = at
  /\ parse_state' = next
  /\ rxmsg' = [rxmsg EXCEPT ![field] = c]
  /\ Update(c)
  /\ Incomplete(0)
  /\ UNCHANGED <<packet_idx, payload>>

SeqNr(c)  == HeaderByte(c, "GOT_LENGTH", "seq", "GOT_SEQ")
SysId(c)  == HeaderByte(c, "GOT_SEQ", "sysid", "GOT_SYSID")
CompId(c) == HeaderByte(c, "GOT_SYSID", "compid", "GOT_COMPID")

MsgId(c)  == HeaderByte(c, "GOT_COMPID", "msgid",
                        IF rxmsg.len = 0 THEN "GOT_PAYLOAD" ELSE "GOT_MSGID")

(* Mutant of Payload: one byte too many.                                   *)
PayloadLong(c) ==
  /\ parse_state = "GOT_MSGID"
  /\ payload' = [payload EXCEPT ![packet_idx] = c]
  /\ packet_idx' = (packet_idx + 1) % W
  /\ parse_state' = IF packet_idx = rxmsg.len THEN "GOT_PAYLOAD" ELSE "GOT_MSGID"
  /\ Update(c)
  /\ Incomplete(0)
  /\ UNCHANGED rxmsg

Payload(c) ==
  /\ parse_state = "GOT_MSGID"
  /\ payload' = [payload EXCEPT ![packet_idx] = c]
  /\ packet_idx' = (packet_idx + 1) % W
  /\ parse_state' = IF packet_idx' = rxmsg.len THEN "GOT_PAYLOAD" ELSE "GOT_MSGID"
  /\ Update(c)
  /\ Incomplete(0)
  /\ UNCHANGED rxmsg

(* Mutant of Reject: a rejected byte is not looked at again.               *)
RejectForgets(c) ==
  /\ parse_state' = "IDLE"
  /\ UNCHANGED rxmsg
  /\ Incomplete(1)
  /\ UNCHANGED <<packet_idx, payload>>

(* Mutant of Reject: it waits for a start sign in its state.               *)
RejectWaits(c) ==
  /\ parse_state' = IF c = STX THEN "GOT_STX" ELSE parse_state
  /\ rxmsg' = IF c = STX THEN [rxmsg EXCEPT !.len = 0] ELSE rxmsg
  /\ Incomplete(1)
  /\ UNCHANGED <<packet_idx, payload>>

(* A checksum byte that does not fit ends the frame, and may begin the     *)
(* next one.                                                               *)
Reject(c) ==
  /\ IF c = STX THEN parse_state' = "GOT_STX" /\ rxmsg' = [rxmsg EXCEPT !.len = 0]
                ELSE parse_state' = "IDLE" /\ UNCHANGED rxmsg
  /\ Incomplete(1)
  /\ UNCHANGED <<packet_idx, payload>>

(* The seed of the message enters the sum before the first checksum byte   *)
(* is compared with it.                                                    *)
Checksum1(c) ==
  LET sum == Accumulate(Extra(rxmsg.msgid), checksum) IN
  /\ parse_state = "GOT_PAYLOAD"
  /\ IF c = Low(sum)
       THEN /\ parse_state' = "GOT_CRC1"
            /\ payload' = [payload EXCEPT ![packet_idx] = c]
            /\ checksum' = sum
            /\ Incomplete(0)
            /\ UNCHANGED <<packet_idx, rxmsg>>
       ELSE /\ Reject(c)
            /\ checksum' = IF c = STX THEN SumInit ELSE sum

(* Mutant of Counted: the count is an int.                                 *)
CountedWide == success_count + 1

Counted == (success_count + 1) % Counts

(* The last byte: the message is copied out with its payload and checksum. *)
Checksum2(c) ==
  /\ parse_state = "GOT_CRC1"
  /\ IF c = High(checksum)
       THEN /\ parse_state' = "IDLE"
            /\ payload' = [payload EXCEPT ![packet_idx + 1] = c]
            /\ current_rx_seq' = rxmsg.seq
            /\ success_count' = Counted
            /\ returned' = rxmsg
            /\ r_status' = [current_rx_seq |-> (rxmsg.seq + 1) % W,
                            success |-> success_count', drop |-> 0]
            /\ UNCHANGED <<packet_idx, rxmsg, checksum>>
       ELSE /\ Reject(c)
            /\ checksum' = IF c = STX THEN SumInit ELSE checksum

Parse(c) ==
  \/ Idle(c) \/ Length(c)
  \/ SeqNr(c) \/ SysId(c) \/ CompId(c) \/ MsgId(c)
  \/ Payload(c) \/ Checksum1(c) \/ Checksum2(c)

Next == \E c \in Byte : Parse(c)

Spec == Init /\ [][Next]_vars

-----------------------------------------------------------------------------

TypeOK ==
  /\ parse_state \in States
  /\ packet_idx \in Byte
  /\ rxmsg \in Header
  /\ payload \in [0 .. BufSize - 1 -> Byte]
  /\ checksum \in Sums
  /\ current_rx_seq \in Byte
  /\ success_count \in 0 .. Counts - 1
  /\ r_status \in [current_rx_seq : Byte, success : 0 .. Counts - 1, drop : 0..1]
  /\ returned \in Header \cup {Nothing}

(* payload[packet_idx++] and the two checksum bytes behind the payload     *)
(* stay inside the array whatever arrives, although nothing but the types  *)
(* of packet_idx and len, and the place where one is compared with the     *)
(* other, bounds them.                                                     *)
WritesInBuffer ==
  /\ parse_state = "GOT_MSGID" => packet_idx < rxmsg.len /\ packet_idx < BufSize
  /\ parse_state = "GOT_PAYLOAD" => packet_idx < BufSize
  /\ parse_state = "GOT_CRC1" => packet_idx + 1 < BufSize

(* A returned message had its whole payload written by its own frame, and  *)
(* its checksum is where mavlink_ck_a() and mavlink_ck_b() look for it.    *)
WholeMessage ==
  returned # Nothing =>
    /\ packet_idx = returned.len
    /\ payload[packet_idx] = Low(checksum)
    /\ payload[packet_idx + 1] = High(checksum)

(* The state machine is a receiver of frames, byte by byte: what it has    *)
(* received of one can be told from its state, the sum apart, which has to *)
(* be right by itself.                                                     *)
Stored == [i \in 1 .. packet_idx |-> payload[i - 1]]
Whole  == <<STX, rxmsg.len, rxmsg.seq, rxmsg.sysid, rxmsg.compid, rxmsg.msgid>>
            \o Stored

Received ==
  CASE parse_state = "IDLE" -> <<>>
    [] parse_state = "GOT_STX" -> <<STX>>
    [] parse_state = "GOT_LENGTH" -> <<STX, rxmsg.len>>
    [] parse_state = "GOT_SEQ" -> <<STX, rxmsg.len, rxmsg.seq>>
    [] parse_state = "GOT_SYSID" -> <<STX, rxmsg.len, rxmsg.seq, rxmsg.sysid>>
    [] parse_state = "GOT_COMPID" ->
         <<STX, rxmsg.len, rxmsg.seq, rxmsg.sysid, rxmsg.compid>>
    [] parse_state \in {"GOT_MSGID", "GOT_PAYLOAD"} -> Whole
    [] parse_state = "GOT_CRC1" -> Append(Whole, payload[packet_idx])

Returned ==
  IF returned = Nothing THEN <<>>
  ELSE <<rxmsg.seq, rxmsg.sysid, rxmsg.compid, rxmsg.msgid>>
         \o [i \in 1 .. rxmsg.len |-> payload[i - 1]]

Receiver == INSTANCE MavlinkReceiver WITH prefix <- Received, message <- Returned

ImplementsReceiver ==
  Receiver!Init /\ [][\A c \in Byte : Parse(c) => Receiver!Receive(c)]_vars
=============================================================================
