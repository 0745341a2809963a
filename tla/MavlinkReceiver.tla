--------------------------- MODULE MavlinkReceiver ---------------------------
(***************************************************************************)
(* What a receiver of MAVLink frames promises, without a state machine: it *)
(* holds the bytes since a start sign for as long as some frame begins     *)
(* with them, and hands the message over with the last of them.  A byte    *)
(* that fits no frame is dropped with them; only where a checksum was due  *)
(* may it begin the next frame.                                            *)
(***************************************************************************)
EXTENDS Integers, Sequences

CONSTANTS
  W, STX, SumInit, Accumulate(_, _), Low(_), High(_), Extra(_)

VARIABLES
  prefix,            \* the beginning of a frame, as received
  message            \* what the latest byte completed: the header behind the
                     \* length, and the payload; or nothing

vars == <<prefix, message>>

Byte == 0 .. W - 1

(* A frame: start sign, length, sequence number, system, component,        *)
(* message identifier, payload, and the two bytes of the checksum over all *)
(* but the start sign, with the seed of the message.                       *)
Size(s) == 8 + s[2]

(* The sum over all bytes of s but the first.                              *)
Running(s) ==
  LET crc[n \in 0 .. Len(s)] ==
        IF n < 2 THEN SumInit ELSE Accumulate(s[n], crc[n - 1])
  IN crc[Len(s)]

Sum(s) == Accumulate(Extra(s[6]), Running(SubSeq(s, 1, 6 + s[2])))

ChecksumDue(s) == Len(s) > 5 /\ Len(s) >= Size(s) - 2

Continues(s, b) ==
  CASE s = <<>> -> b = STX
    [] ChecksumDue(s) -> b = IF Len(s) = Size(s) - 2 THEN Low(Sum(s)) ELSE High(Sum(s))
    [] OTHER -> TRUE

Init == prefix = <<>> /\ message = <<>>

Accept(b) ==
  LET longer == Append(prefix, b) IN
  /\ Continues(prefix, b)
  /\ IF ChecksumDue(longer) /\ Len(longer) = Size(longer)
       THEN /\ message' = SubSeq(longer, 3, Size(longer) - 2)
            /\ prefix' = <<>>
       ELSE /\ message' = <<>>
            /\ prefix' = longer

Drop(b) ==
  /\ ~ Continues(prefix, b)
  /\ prefix' = IF b = STX THEN <<b>> ELSE <<>>
  /\ message' = <<>>

Receive(b) == Accept(b) \/ Drop(b)

Next == \E b \in Byte : Receive(b)

Spec == Init /\ [][Next]_vars
=============================================================================
