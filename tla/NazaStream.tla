----------------------------- MODULE NazaStream -----------------------------
(***************************************************************************)
(* The decoder of NazaDecoder at the end of a line: a Naza that sends one  *)
(* frame after the other, and a line that may lose a byte, damage one or   *)
(* add one between two frames.                                             *)
(***************************************************************************)
EXTENDS NazaDecoder

VARIABLES
  sent,              \* the message of the latest frame, an id and a payload
  pending,           \* bytes of that frame not on the line yet
  \* History variables:
  intact,            \* the frame met an idle decoder and no disturbance since
  plain              \* nothing but plain frames, undisturbed, since it began

decoder == <<seq, msgId, msgLen, cnt, payload, cs1, cs2, result>>
line    == <<sent, pending, intact, plain>>
all     == <<decoder, line>>

Messages ==
  UNION { { [id |-> id, payload |-> p] : p \in [1..Lengths[id] -> Bytes] }
          : id \in DOMAIN Lengths }

(* The frame of a message, in the terms of the abstract receiver.          *)
Frame(m) ==
  LET body == <<m.id, Lengths[m.id]>> \o m.payload
  IN <<Header1, Header2>> \o body
       \o <<Receiver!Checksum1(body), Receiver!Checksum2(body)>>

(* A frame whose only first header byte is its first byte.                 *)
IsPlain(f) == \A i \in 2..Len(f) : f[i] # Header1

StreamInit ==
  /\ Init
  /\ sent \in {CHOOSE m \in Messages : TRUE}
  /\ pending = <<>>
  /\ intact = FALSE
  /\ plain = FALSE

Begin(m) ==
  /\ pending = <<>>
  /\ sent' = m
  /\ pending' = Frame(m)
  /\ intact' = (seq = 0)
  /\ plain' = IsPlain(Frame(m))
  /\ UNCHANGED decoder

Arrive ==
  /\ pending # <<>>
  /\ Decode(Head(pending))
  /\ pending' = Tail(pending)
  /\ UNCHANGED <<sent, intact, plain>>

Disturbed == intact' = FALSE /\ plain' = FALSE

Lose ==
  /\ pending # <<>>
  /\ pending' = Tail(pending)
  /\ Disturbed
  /\ UNCHANGED <<decoder, sent>>

Damage(b) ==
  /\ pending # <<>> /\ b # Head(pending)
  /\ Decode(b)
  /\ pending' = Tail(pending)
  /\ Disturbed
  /\ UNCHANGED sent

Noise(b) ==
  /\ pending = <<>>
  /\ Decode(b)
  /\ Disturbed
  /\ UNCHANGED <<sent, pending>>

StreamNext ==
  \/ \E m \in Messages : Begin(m)
  \/ Arrive
  \/ Lose
  \/ \E b \in Bytes : Damage(b) \/ Noise(b)

StreamSpec == StreamInit /\ [][StreamNext]_all

-----------------------------------------------------------------------------

(* A frame that finds the decoder idle and is not disturbed is returned    *)
(* with its last byte, neither earlier nor changed, whatever the decoder   *)
(* has been through and whatever bytes its payload has, header bytes among *)
(* them.                                                                   *)
IntactFrameIsReturned ==
  [][Arrive /\ intact =>
       IF pending' = <<>>
         THEN result' = sent.id
              /\ \A i \in 1..Lengths[sent.id] : payload'[i - 1] = sent.payload[i]
         ELSE result' = None]_all

(* After any disturbance the decoder finds back to the frames: if the line *)
(* settles, plain frames keep coming and none is disturbed any more, then  *)
(* messages keep being returned.  The state in the middle of a frame that  *)
(* never was one is left again, although rejected bytes are not looked at  *)
(* again.  (Frames with a first header byte in their payload can be missed *)
(* for ever, if they are all alike.)                                       *)
Resynchronises ==
  <>[]plain /\ []<>(pending = <<>>) /\ []<>(pending # <<>>) => []<>(result # None)
=============================================================================
