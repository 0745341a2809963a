--------------------------- MODULE MavlinkStream ---------------------------
(***************************************************************************)
(* The parser of MavlinkParser at the end of a line: a sender that packs   *)
(* messages on one channel (mavlink_finalize_message_chan() and            *)
(* mavlink_msg_to_send_buffer()), and a line that may lose a byte, damage  *)
(* one or add one between two frames.                                      *)
(***************************************************************************)
EXTENDS MavlinkParser

CONSTANTS
  Messages,          \* what is sent: msgid and payload; seq is the channel's
  SysId0, CompId0,   \* of the sender
  MaxFrames,         \* bound: frames sent
  MaxDisturbances    \* bound: bytes lost, damaged or added

ASSUME MessagesAssumption ==
  /\ Messages \subseteq [seq : Byte, msgid : Byte, payload : Seq(Byte)]
  /\ \A m \in Messages : Len(m.payload) \in Byte
  /\ SysId0 \in Byte /\ CompId0 \in Byte

VARIABLES
  current_tx_seq,    \* of the sender's channel
  sent,              \* the message of the latest frame
  pending,           \* bytes of that frame not on the line yet
  frames, disturbances,
  \* History variables:
  intact,            \* the frame found the parser idle and no disturbance
  settled,           \* bytes of plain, undisturbed frames in a row, as far as
                     \* they matter; Unsettled in any other frame
  short,             \* "none"; "now": of this frame exactly one byte behind
                     \* the header was lost, and no start sign follows it;
                     \* "before": of the frame before this one
  since              \* messages returned since that frame began

parser == vars
line   == <<current_tx_seq, sent, pending, frames, disturbances, intact,
            settled, short, since>>
all    == <<parser, line>>

Unsettled == -1
Enough == W + 7       \* the longest frame is W + 7 bytes long

Body(m) ==
  <<Len(m.payload), m.seq, SysId0, CompId0, m.msgid>> \o m.payload

(* The sum over the message behind its start sign, and over the seed.      *)
CRC(body, msgid) == Accumulate(Extra(msgid), Receiver!Running(<<STX>> \o body))

(* Mutant of Frame: the seed of the message is left out.                   *)
FrameUnseeded(m) ==
  LET sum == Receiver!Running(<<STX>> \o Body(m))
  IN <<STX>> \o Body(m) \o <<Low(sum), High(sum)>>

Frame(m) ==
  LET sum == CRC(Body(m), m.msgid)
  IN <<STX>> \o Body(m) \o <<Low(sum), High(sum)>>

(* A frame whose only start sign is its first byte.                        *)
IsPlain(f) == \A i \in 2 .. Len(f) : f[i] # STX

(* The stream may be joined at any sequence number; or nothing is sent and *)
(* the line carries whatever bytes.                                        *)
NoSender == sent = Nothing

StreamInit ==
  /\ Init
  /\ current_tx_seq \in Byte
  /\ sent \in Messages \cup {Nothing}
  /\ sent = Nothing => current_tx_seq = 0
  /\ pending = <<>>
  /\ frames = 0 /\ disturbances = 0
  /\ intact = FALSE
  /\ settled = Unsettled
  /\ short = "none" /\ since = 0

Begin(m) ==
  /\ pending = <<>> /\ ~ NoSender
  /\ frames < MaxFrames
  /\ frames' = frames + 1
  /\ sent' = [m EXCEPT !.seq = current_tx_seq]
  /\ pending' = Frame(sent')
  /\ current_tx_seq' = (current_tx_seq + 1) % W
  /\ intact' = (parse_state = "IDLE")
  /\ settled' = IF ~ IsPlain(pending') THEN Unsettled
                ELSE IF settled = Unsettled THEN 0 ELSE settled
  /\ short' = IF short = "now" THEN "before" ELSE "none"
  /\ since' = IF short = "now" THEN since ELSE 0
  /\ UNCHANGED <<parser, disturbances>>

Count == since' = since + IF returned' # Nothing THEN 1 ELSE 0

Arrive ==
  /\ pending # <<>>
  /\ Parse(Head(pending))
  /\ pending' = Tail(pending)
  /\ settled' = IF settled \in {Unsettled, Enough} THEN settled ELSE settled + 1
  /\ Count
  /\ UNCHANGED <<current_tx_seq, sent, frames, disturbances, intact, short>>

Disturb ==
  /\ disturbances < MaxDisturbances
  /\ disturbances' = disturbances + IF NoSender THEN 0 ELSE 1
  /\ intact' = FALSE
  /\ settled' = Unsettled
  /\ UNCHANGED <<current_tx_seq, sent, frames>>

Lose ==
  /\ pending # <<>>
  /\ Disturb
  /\ pending' = Tail(pending)
  /\ short' = IF /\ intact
                 /\ Len(pending) <= Len(sent.payload) + 2
                 /\ IsPlain(<<0>> \o Tail(pending))
              THEN "now" ELSE "none"
  /\ since' = 0
  /\ UNCHANGED parser

Damage(b) ==
  /\ pending # <<>> /\ b # Head(pending)
  /\ Disturb
  /\ Parse(b)
  /\ pending' = Tail(pending)
  /\ short' = "none"
  /\ Count

Noise(b) ==
  /\ pending = <<>>
  /\ Disturb
  /\ Parse(b)
  /\ short' = "none"
  /\ IF NoSender THEN UNCHANGED since ELSE Count
  /\ UNCHANGED pending

StreamNext ==
  \/ \E m \in Messages : Begin(m)
  \/ Arrive
  \/ Lose
  \/ \E b \in Byte : Damage(b) \/ Noise(b)

StreamSpec == StreamInit /\ [][StreamNext]_all

-----------------------------------------------------------------------------

AsSent ==
  /\ returned' = [len |-> Len(sent.payload), seq |-> sent.seq, sysid |-> SysId0,
                  compid |-> CompId0, msgid |-> sent.msgid]
  /\ \A i \in DOMAIN sent.payload : payload'[i - 1] = sent.payload[i]

(* A frame that finds the parser idle and is not disturbed is returned     *)
(* with its last byte, neither earlier nor changed, whatever the parser    *)
(* has been through and whatever bytes it has, start signs among them.     *)
IntactFrameIsReturned ==
  [][Arrive /\ intact =>
       IF pending' = <<>> THEN AsSent ELSE returned' = Nothing]_all

(* From any state the parser is in, undisturbed frames without a stray     *)
(* start sign bring it back in step after the bytes of one frame of the    *)
(* greatest length: a false frame cannot hold it any longer than that.     *)
SettlesWithinOneFrame ==
  pending = <<>> /\ settled = Enough => parse_state = "IDLE"

(* A frame that lost one byte behind its header costs at most one message: *)
(* the parser is then a byte behind and takes the next start sign for a    *)
(* checksum byte, but looks at it again.                                   *)
OneByteCostsOneMessage ==
  short = "before" /\ pending = <<>> => since >= 1
=============================================================================
