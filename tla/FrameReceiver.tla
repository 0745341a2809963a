---------------------------- MODULE FrameReceiver ----------------------------
(***************************************************************************)
(* What a receiver of Naza frames promises, without a state machine: it    *)
(* holds the bytes since the first one of a header, as long as some frame  *)
(* begins with them, and hands a frame over with its last byte.  A frame   *)
(* is two header bytes, an id, the length that belongs to the id, that     *)
(* many bytes of payload, and two checksums over all but the header.       *)
(***************************************************************************)
EXTENDS Integers, Sequences

CONSTANTS
  W,                 \* bytes are numbers modulo W
  Header1, Header2,  \* the two header bytes
  Lengths,           \* payload length of each message id
  None               \* the id returned when no message is complete

VARIABLES
  prefix,            \* the beginning of a frame, as received
  returned           \* the message the latest byte completed, or Nothing

vars == <<prefix, returned>>

Bytes == 0 .. W - 1

Nothing == [id |-> None, payload |-> <<>>]

(* The checksums in closed form: the sum of the bytes, and the sum of the  *)
(* sums of its beginnings, in which byte i counts n - i + 1 times.         *)
Total(s, weight(_)) ==
  LET upto[n \in 0..Len(s)] ==
        IF n = 0 THEN 0 ELSE upto[n - 1] + weight(n) * s[n]
  IN upto[Len(s)] % W

Checksum1(s) == LET one(i) == 1 IN Total(s, one)
Checksum2(s) == LET rest(i) == Len(s) - i + 1 IN Total(s, rest)

(* Byte n of a frame is not free to be anything, given the bytes before.   *)
LengthOf(s)  == Lengths[s[3]]
Body(s)      == SubSeq(s, 3, 4 + LengthOf(s))
Size(s)      == LengthOf(s) + 6

Continues(s, b) ==
  LET n == Len(s) + 1 IN
  /\ n = 1 => b = Header1
  /\ n = 2 => b = Header2
  /\ n = 4 => s[3] \in DOMAIN Lengths /\ b = LengthOf(s)
  /\ n > 4 /\ n = Size(s) - 1 => b = Checksum1(Body(s))
  /\ n > 4 /\ n = Size(s)     => b = Checksum2(Body(s))

Completes(s) == Len(s) > 4 /\ Len(s) = Size(s)

Init == prefix = <<>> /\ returned = Nothing

Accept(b) ==
  LET longer == Append(prefix, b) IN
  /\ Continues(prefix, b)
  /\ IF Completes(longer)
       THEN /\ returned' = [id |-> longer[3],
                            payload |-> SubSeq(longer, 5, 4 + LengthOf(longer))]
            /\ prefix' = <<>>
       ELSE /\ returned' = Nothing
            /\ prefix' = longer

Drop(b) ==
  /\ ~ Continues(prefix, b)
  /\ prefix' = <<>>
  /\ returned' = Nothing

Receive(b) == Accept(b) \/ Drop(b)

Next == \E b \in Bytes : Receive(b)

Spec == Init /\ [][Next]_vars
=============================================================================
