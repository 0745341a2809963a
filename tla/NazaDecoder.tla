----------------------------- MODULE NazaDecoder -----------------------------
(***************************************************************************)
(* The state machine at the heart of NazaDecoderLib::decode()              *)
(* (naza_telemetry/NazaDecoderLib.cc, and its copy for the Arduino): how   *)
(* the bytes of the Naza's GPS and compass line become messages.  Every    *)
(* action is one call of decode() with one byte.  What decode() makes of   *)
(* a message, once it is complete, is left out.                            *)
(*                                                                         *)
(* The code's bytes are numbers modulo W = 256, its header 0x55 0xAA, its  *)
(* messages 0x10 with 0x3A bytes and 0x20 with 0x06, its buffer 58 bytes.  *)
(***************************************************************************)
EXTENDS Integers, Sequences

CONSTANTS
  W,                 \* bytes are numbers modulo W
  Header1, Header2,  \* the two header bytes
  Lengths,           \* payload length accepted for each message id
  BufSize,           \* length of the payload array
  None               \* NAZA_MESSAGE_NONE

ASSUME WAssumption == W \in Nat \ {0}
Bytes == 0 .. W - 1
ASSUME HeaderAssumption == Header1 \in Bytes /\ Header2 \in Bytes
ASSUME BufSizeAssumption == BufSize \in Nat \ {0}
ASSUME LengthsAssumption ==
  /\ DOMAIN Lengths \subseteq Bytes
  /\ \A id \in DOMAIN Lengths : Lengths[id] \in Bytes /\ Lengths[id] \in 1..BufSize
ASSUME NoneAssumption == None \notin DOMAIN Lengths

VARIABLES
  seq,               \* part of the frame expected next, 0 to 6
  msgId, msgLen,     \* as received; what is left of an earlier frame stays
  cnt,               \* bytes of payload received
  payload,
  cs1, cs2,          \* checksums of what was received
  result             \* what the latest call returned

sums == <<cs1, cs2>>
vars == <<seq, msgId, msgLen, cnt, payload, sums, result>>

Init ==
  /\ seq = 0 /\ cnt = 0 /\ msgId = 0 /\ msgLen = 0
  /\ cs1 = 0 /\ cs2 = 0
  /\ payload = [i \in 0 .. BufSize - 1 |-> 0]
  /\ result = None

(* Mutant of UpdateCS: the sums are int, like the bytes.                   *)
UpdateCSWide(b) ==
  /\ cs1' = cs1 + b
  /\ cs2' = cs2 + cs1'

(* updateCS(): both sums are of type uint8_t.                              *)
UpdateCS(b) ==
  /\ cs1' = (cs1 + b) % W
  /\ cs2' = (cs2 + cs1') % W

ReceiveHeader1(b) ==
  /\ seq = 0 /\ b = Header1
  /\ seq' = 1
  /\ result' = None
  /\ UNCHANGED <<msgId, msgLen, cnt, payload, sums>>

(* Mutant of ReceiveHeader2: the sums of the last frame are kept.          *)
ReceiveHeader2KeepsSums(b) ==
  /\ seq = 1 /\ b = Header2
  /\ seq' = 2
  /\ result' = None
  /\ UNCHANGED <<msgId, msgLen, cnt, payload, sums>>

ReceiveHeader2(b) ==
  /\ seq = 1 /\ b = Header2
  /\ cs1' = 0 /\ cs2' = 0
  /\ seq' = 2
  /\ result' = None
  /\ UNCHANGED <<msgId, msgLen, cnt, payload>>

ReceiveId(b) ==
  /\ seq = 2
  /\ msgId' = b
  /\ UpdateCS(b)
  /\ seq' = 3
  /\ result' = None
  /\ UNCHANGED <<msgLen, cnt, payload>>

(* Mutant of LengthFits: any length is accepted, as before 20141130.       *)
LengthIsAnything(b) == b \in 1 .. W - 1

LengthFits(b) == msgId \in DOMAIN Lengths /\ b = Lengths[msgId]

(* Mutant of ReceiveLength: cnt is not reset.                              *)
ReceiveLengthKeepsCnt(b) ==
  /\ seq = 3 /\ LengthFits(b)
  /\ msgLen' = b
  /\ UpdateCS(b)
  /\ seq' = 4
  /\ result' = None
  /\ UNCHANGED <<msgId, cnt, payload>>

ReceiveLength(b) ==
  /\ seq = 3 /\ LengthFits(b)
  /\ msgLen' = b
  /\ cnt' = 0
  /\ UpdateCS(b)
  /\ seq' = 4
  /\ result' = None
  /\ UNCHANGED <<msgId, payload>>

(* Mutant of ReceivePayload: one byte too many.                            *)
ReceivePayloadLong(b) ==
  /\ seq = 4
  /\ payload' = [payload EXCEPT ![cnt] = b]
  /\ cnt' = cnt + 1
  /\ UpdateCS(b)
  /\ seq' = IF cnt' > msgLen THEN 5 ELSE 4
  /\ result' = None
  /\ UNCHANGED <<msgId, msgLen>>

ReceivePayload(b) ==
  /\ seq = 4
  /\ payload' = [payload EXCEPT ![cnt] = b]
  /\ cnt' = cnt + 1
  /\ UpdateCS(b)
  /\ seq' = IF cnt' >= msgLen THEN 5 ELSE 4
  /\ result' = None
  /\ UNCHANGED <<msgId, msgLen>>

ReceiveChecksum1(b) ==
  /\ seq = 5 /\ b = cs1
  /\ seq' = 6
  /\ result' = None
  /\ UNCHANGED <<msgId, msgLen, cnt, payload, sums>>

(* The last byte: seq passes through 7 and the message is returned.        *)
ReceiveChecksum2(b) ==
  /\ seq = 6 /\ b = cs2
  /\ seq' = 0
  /\ result' = msgId
  /\ UNCHANGED <<msgId, msgLen, cnt, payload, sums>>

(* Mutant of Reject: a wrong first checksum is waited out.                 *)
RejectWaits(b) ==
  /\ \/ seq = 0 /\ b # Header1
     \/ seq = 1 /\ b # Header2
     \/ seq = 3 /\ ~ LengthFits(b)
     \/ seq = 5 /\ b # cs1
     \/ seq = 6 /\ b # cs2
  /\ seq' = IF seq = 5 THEN 5 ELSE 0
  /\ result' = None
  /\ UNCHANGED <<msgId, msgLen, cnt, payload, sums>>

(* Any other byte ends the frame.  It is not looked at again, even if it   *)
(* is a first header byte.                                                 *)
Reject(b) ==
  /\ \/ seq = 0 /\ b # Header1
     \/ seq = 1 /\ b # Header2
     \/ seq = 3 /\ ~ LengthFits(b)
     \/ seq = 5 /\ b # cs1
     \/ seq = 6 /\ b # cs2
  /\ seq' = 0
  /\ result' = None
  /\ UNCHANGED <<msgId, msgLen, cnt, payload, sums>>

Decode(b) ==
  \/ ReceiveHeader1(b) \/ ReceiveHeader2(b)
  \/ ReceiveId(b) \/ ReceiveLength(b) \/ ReceivePayload(b)
  \/ ReceiveChecksum1(b) \/ ReceiveChecksum2(b)
  \/ Reject(b)

Next == \E b \in Bytes : Decode(b)

Spec == Init /\ [][Next]_vars

-----------------------------------------------------------------------------

TypeOK ==
  /\ seq \in 0..6
  /\ msgId \in Bytes /\ msgLen \in Bytes
  /\ cnt \in 0..BufSize
  /\ payload \in [0 .. BufSize - 1 -> Bytes]
  /\ cs1 \in Bytes /\ cs2 \in Bytes
  /\ result \in DOMAIN Lengths \cup {None}

(* payload[cnt++] stays inside the array whatever arrives, and the length  *)
(* compared with is that of the message being received, not one left from  *)
(* an earlier frame.  (Changelog of the library, 20141130: "added msgLen   *)
(* checking to protect against exceeding the message buffer".)             *)
WritesInBuffer == seq = 4 => cnt < BufSize /\ cnt < msgLen

(* A message that is returned had its whole payload written by its own     *)
(* frame: nothing decoded from it comes from an earlier message.           *)
WholePayload ==
  result # None => result = msgId /\ msgLen = Lengths[msgId] /\ cnt = msgLen

(* The state machine is a receiver of frames.  What it has received can    *)
(* be told from its state, the checksums apart: they have to be right by   *)
(* themselves.                                                             *)
Stored == [i \in 1..cnt |-> payload[i - 1]]
Whole  == <<Header1, Header2>> \o <<msgId, msgLen>> \o Stored

Received ==
  CASE seq = 0 -> <<>>
    [] seq = 1 -> <<Header1>>
    [] seq = 2 -> <<Header1, Header2>>
    [] seq = 3 -> <<Header1, Header2, msgId>>
    [] seq \in {4, 5} -> Whole
    [] seq = 6 -> Append(Whole, cs1)

Returned ==
  [id      |-> result,
   payload |-> IF result = None THEN <<>>
               ELSE [i \in 1..msgLen |-> payload[i - 1]]]

Receiver == INSTANCE FrameReceiver WITH prefix <- Received, returned <- Returned

ImplementsFrameReceiver ==
  Receiver!Init /\ [][\A b \in Bytes : Decode(b) => Receiver!Receive(b)]_vars
=============================================================================
