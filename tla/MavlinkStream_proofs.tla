------------------------ MODULE MavlinkStream_proofs ------------------------
(***************************************************************************)
(* What holds of mavlink_parse_char(), whatever arrives and at the end of  *)
(* a disturbed line, for every byte width, every checksum and every        *)
(* payload array with room for the longest payload and its checksum.       *)
(***************************************************************************)
EXTENDS MavlinkStream, WellFoundedInduction, SequenceTheorems, TLAPS

USE BytesAssumption, BufSizeAssumption, CountsAssumption DEF Byte

(* Where the index stands: at 0 until the payload begins, inside the       *)
(* payload while it is received, at its end when the checksum is.          *)
IndexOK ==
  /\ parse_state \in {"GOT_LENGTH", "GOT_SEQ", "GOT_SYSID", "GOT_COMPID"}
       => packet_idx = 0
  /\ parse_state = "GOT_MSGID" => packet_idx < rxmsg.len
  /\ parse_state \in {"GOT_PAYLOAD", "GOT_CRC1"} => packet_idx = rxmsg.len

(* The first checksum byte is stored behind the payload.                   *)
LowStored == parse_state = "GOT_CRC1" => payload[packet_idx] = Low(checksum)

(* These and the types are inductive.                                      *)
IInv == TypeOK /\ IndexOK /\ LowStored /\ WholeMessage

(* The index may reach the length of any message and one more.             *)
LEMMA WritesFollow == IInv => WritesInBuffer
BY DEF IInv, TypeOK, IndexOK, WritesInBuffer, Header

(* Nothing is stored or returned at first.                                 *)
LEMMA IInvInit == Init => IInv
<1> SUFFICES ASSUME Init PROVE IInv
  OBVIOUS
<1>1. payload \in [0 .. BufSize - 1 -> Byte]
  BY DEF Init
<1>2. rxmsg \in Header
  BY DEF Init, Header
<1>3. r_status \in [current_rx_seq : Byte, success : 0 .. Counts - 1, drop : 0..1]
  BY DEF Init
<1>4. TypeOK
  BY <1>1, <1>2, <1>3 DEF Init, TypeOK, States
<1> QED BY <1>4 DEF Init, IInv, IndexOK, LowStored, WholeMessage

-----------------------------------------------------------------------------

(* What a call reports that returns no message.                            *)
LEMMA IncompleteTypes ==
  ASSUME TypeOK, NEW e \in 0..1, Incomplete(e)
  PROVE  /\ current_rx_seq' \in Byte
         /\ success_count' \in 0 .. Counts - 1
         /\ r_status' \in [current_rx_seq : Byte, success : 0 .. Counts - 1, drop : 0..1]
         /\ returned' = Nothing
<1>1. (current_rx_seq + 1) % W \in Byte
  BY DEF TypeOK
<1> QED BY <1>1 DEF Incomplete, TypeOK

(* A byte and a sum make a sum.                                            *)
LEMMA UpdateTypes ==
  ASSUME TypeOK, NEW c \in Byte, Update(c) PROVE checksum' \in Sums
BY SumsAssumption DEF Update, TypeOK

(* A start sign resets the length only.                                    *)
LEMMA EmptyHeader ==
  ASSUME TypeOK PROVE [rxmsg EXCEPT !.len = 0] \in Header
<1>1. rxmsg \in [len : Byte, seq : Byte, sysid : Byte, compid : Byte, msgid : Byte]
  BY DEF TypeOK, Header
<1>2. 0 \in Byte
  OBVIOUS
<1> HIDE DEF Byte
<1> QED BY <1>1, <1>2 DEF Header

(* The calls that wait for more, and those that reject a byte.             *)
LEMMA IdleStep == ASSUME IInv, NEW c \in Byte, Idle(c) PROVE IInv'
<1> USE DEF IInv
<1>1. rxmsg' \in Header /\ checksum' \in Sums
  <2>1. CASE c = STX
    <3>1. rxmsg' = [rxmsg EXCEPT !.len = 0] /\ checksum' = SumInit
      BY <2>1 DEF Idle, Start
    <3> QED BY <3>1, SumsAssumption, EmptyHeader
  <2>2. CASE c # STX
    BY <2>2 DEF Idle, TypeOK
  <2> QED BY <2>1, <2>2
<1>2. parse_state' \in {"IDLE", "GOT_STX"}
  BY DEF Idle, Start
<1>3. TypeOK'
  BY <1>1, <1>2, IncompleteTypes DEF Idle, TypeOK, States
<1>4. returned' = Nothing
  BY DEF Idle, Incomplete
<1> QED BY <1>2, <1>3, <1>4 DEF IndexOK, LowStored, WholeMessage

(* The length byte starts the index over.                                  *)
LEMMA LengthStep == ASSUME IInv, NEW c \in Byte, Length(c) PROVE IInv'
<1> USE DEF IInv
<1>1. rxmsg' \in Header
  BY DEF Length, TypeOK, Header
<1>2. TypeOK'
  <2>1. TypeOK
    OBVIOUS
  <2>2. checksum' \in Sums
    BY <2>1, UpdateTypes DEF Length
  <2>3. /\ current_rx_seq' \in Byte /\ success_count' \in 0 .. Counts - 1
        /\ r_status' \in [current_rx_seq : Byte, success : 0 .. Counts - 1, drop : 0..1]
        /\ returned' = Nothing
    BY <2>1, IncompleteTypes DEF Length
  <2> QED BY <1>1, <2>1, <2>2, <2>3 DEF Length, TypeOK, States
<1>3. returned' = Nothing
  BY DEF Length, Incomplete
<1> QED BY <1>2, <1>3 DEF Length, IndexOK, LowStored, WholeMessage

(* The header bytes leave the index alone.                                 *)
LEMMA HeaderStep ==
  ASSUME IInv, NEW c \in Byte, SeqNr(c) \/ SysId(c) \/ CompId(c) \/ MsgId(c)
  PROVE  IInv'
<1> USE DEF IInv
<1>1. rxmsg' \in Header
  BY DEF SeqNr, SysId, CompId, MsgId, HeaderByte, TypeOK, Header
<1>2. Update(c) /\ Incomplete(0) /\ UNCHANGED <<packet_idx, payload>>
  BY DEF SeqNr, SysId, CompId, MsgId, HeaderByte
<1>3. parse_state' \in States
  BY DEF SeqNr, SysId, CompId, MsgId, HeaderByte, States
<1>4. TypeOK'
  BY <1>1, <1>2, <1>3, IncompleteTypes, UpdateTypes DEF TypeOK
<1>5. returned' = Nothing
  BY <1>2 DEF Incomplete
<1>6. IndexOK'
  <2>1. CASE SeqNr(c) \/ SysId(c) \/ CompId(c)
    BY <2>1, <1>2 DEF SeqNr, SysId, CompId, HeaderByte, IndexOK
  <2>2. CASE MsgId(c)
    <3>1. packet_idx' = 0 /\ rxmsg'.len = rxmsg.len /\ rxmsg.len \in Byte
      BY <2>2, <1>2 DEF MsgId, HeaderByte, IndexOK, TypeOK, Header
    <3> QED BY <2>2, <3>1 DEF MsgId, HeaderByte, IndexOK
  <2> QED BY <2>1, <2>2
<1>7. parse_state' # "GOT_CRC1"
  BY DEF SeqNr, SysId, CompId, MsgId, HeaderByte
<1> QED BY <1>4, <1>5, <1>6, <1>7 DEF LowStored, WholeMessage

(* A payload byte is stored below the length, and the last of them ends    *)
(* the payload.                                                            *)
LEMMA PayloadStep == ASSUME IInv, NEW c \in Byte, Payload(c) PROVE IInv'
<1> USE DEF IInv
<1>1. packet_idx < rxmsg.len /\ rxmsg.len \in Byte /\ packet_idx \in Byte
  BY DEF Payload, IndexOK, TypeOK, Header
<1>2. packet_idx' = packet_idx + 1 /\ packet_idx' \in Byte /\ packet_idx' <= rxmsg.len
  BY <1>1 DEF Payload
<1>3. payload' \in [0 .. BufSize - 1 -> Byte]
  BY DEF Payload, TypeOK
<1>4. TypeOK'
  BY <1>2, <1>3, IncompleteTypes, UpdateTypes DEF Payload, TypeOK, States
<1>5. returned' = Nothing
  BY DEF Payload, Incomplete
<1> QED BY <1>1, <1>2, <1>4, <1>5 DEF Payload, IndexOK, LowStored, WholeMessage

(* A rejected checksum byte.                                               *)
LEMMA RejectStep ==
  ASSUME IInv, NEW c \in Byte, Reject(c), checksum' \in Sums PROVE IInv'
<1> USE DEF IInv
<1>1. rxmsg' \in Header
  <2>1. CASE c = STX
    <3>1. rxmsg' = [rxmsg EXCEPT !.len = 0]
      BY <2>1 DEF Reject
    <3> QED BY <3>1, EmptyHeader
  <2>2. CASE c # STX
    BY <2>2 DEF Reject, TypeOK
  <2> QED BY <2>1, <2>2
<1>2. parse_state' \in {"IDLE", "GOT_STX"}
  BY DEF Reject
<1>3. TypeOK'
  BY <1>1, <1>2, IncompleteTypes DEF Reject, TypeOK, States
<1>4. returned' = Nothing
  BY DEF Reject, Incomplete
<1> QED BY <1>2, <1>3, <1>4 DEF IndexOK, LowStored, WholeMessage

(* The first checksum byte is stored behind the payload.                   *)
LEMMA Checksum1Step == ASSUME IInv, NEW c \in Byte, Checksum1(c) PROVE IInv'
<1> USE DEF IInv
<1> DEFINE sum == Accumulate(Extra(rxmsg.msgid), checksum)
<1>1. sum \in Sums
  BY SumsAssumption DEF TypeOK, Header
<1>2. CASE c = Low(sum)
  <2>1. packet_idx = rxmsg.len /\ packet_idx \in 0 .. BufSize - 1
    BY DEF Checksum1, IndexOK, TypeOK
  <2>2. payload' \in [0 .. BufSize - 1 -> Byte] /\ payload'[packet_idx] = c
    BY <1>2, <2>1 DEF Checksum1, TypeOK
  <2>3. /\ parse_state' = "GOT_CRC1" /\ checksum' = sum /\ Incomplete(0)
        /\ packet_idx' = packet_idx /\ rxmsg' = rxmsg
    BY <1>2 DEF Checksum1
  <2>4. TypeOK'
    BY <1>1, <2>2, <2>3, IncompleteTypes DEF TypeOK, States
  <2>5. returned' = Nothing
    BY <2>3 DEF Incomplete
  <2> QED BY <1>2, <2>1, <2>2, <2>3, <2>4, <2>5 DEF IndexOK, LowStored, WholeMessage
<1>3. CASE c # Low(sum)
  <2>1. Reject(c) /\ checksum' \in Sums
    BY <1>1, <1>3, SumsAssumption DEF Checksum1
  <2> QED BY <2>1, RejectStep
<1> QED BY <1>2, <1>3

(* The second one is stored behind it and returns the message.             *)
LEMMA Checksum2Step == ASSUME IInv, NEW c \in Byte, Checksum2(c) PROVE IInv'
<1> USE DEF IInv
<1>1. CASE c = High(checksum)
  <2>1. /\ packet_idx = rxmsg.len /\ packet_idx + 1 \in 0 .. BufSize - 1
        /\ packet_idx \in 0 .. BufSize - 1 /\ payload[packet_idx] = Low(checksum)
    BY DEF Checksum2, IndexOK, TypeOK, LowStored
  <2>2. /\ payload' \in [0 .. BufSize - 1 -> Byte]
        /\ payload'[packet_idx + 1] = c
        /\ payload'[packet_idx] = Low(checksum)
    <3>1. payload' = [payload EXCEPT ![packet_idx + 1] = c]
      BY <1>1 DEF Checksum2
    <3>2. payload \in [0 .. BufSize - 1 -> Byte]
      BY DEF TypeOK
    <3>3. packet_idx # packet_idx + 1
      BY <2>1
    <3> QED BY <2>1, <3>1, <3>2, <3>3
  <2>3. Counted \in 0 .. Counts - 1
    BY DEF Counted, TypeOK
  <2>4. rxmsg.seq \in Byte /\ (rxmsg.seq + 1) % W \in Byte
    BY DEF TypeOK, Header
  <2>5. /\ parse_state' = "IDLE" /\ returned' = rxmsg
        /\ packet_idx' = packet_idx /\ rxmsg' = rxmsg /\ checksum' = checksum
        /\ current_rx_seq' = rxmsg.seq /\ success_count' = Counted
        /\ r_status' = [current_rx_seq |-> (rxmsg.seq + 1) % W,
                        success |-> Counted, drop |-> 0]
    BY <1>1 DEF Checksum2
  <2>6. r_status' \in [current_rx_seq : Byte, success : 0 .. Counts - 1, drop : 0..1]
    BY <2>3, <2>4, <2>5
  <2>7. TypeOK'
    BY <2>2, <2>3, <2>4, <2>5, <2>6 DEF TypeOK, States
  <2>8. WholeMessage'
    BY <1>1, <2>1, <2>2, <2>5 DEF WholeMessage
  <2> QED BY <2>5, <2>7, <2>8 DEF IndexOK, LowStored
<1>2. CASE c # High(checksum)
  <2>1. Reject(c) /\ checksum' \in Sums
    BY <1>2, SumsAssumption DEF Checksum2, TypeOK
  <2> QED BY <2>1, RejectStep
<1> QED BY <1>1, <1>2

(* Every call preserves it.                                                *)
LEMMA IInvStep == IInv /\ [Next]_vars => IInv'
<1> SUFFICES ASSUME IInv, [Next]_vars PROVE IInv'
  OBVIOUS
<1>1. ASSUME NEW c \in Byte, Parse(c) PROVE IInv'
  BY <1>1, IdleStep, LengthStep, HeaderStep, PayloadStep, Checksum1Step,
     Checksum2Step DEF Parse
<1>2. CASE UNCHANGED vars
  BY <1>2 DEF vars, IInv, TypeOK, IndexOK, LowStored, WholeMessage
<1> QED BY <1>1, <1>2 DEF Next

(* Every reachable state satisfies the inductive invariant.                *)
THEOREM Invariance == Spec => []IInv
BY IInvInit, IInvStep, PTL DEF Spec

-----------------------------------------------------------------------------

(* Every variable of the parser keeps its type.                            *)
THEOREM Typing == Spec => []TypeOK
<1>1. IInv => TypeOK
  BY DEF IInv
<1> QED BY <1>1, Invariance, PTL

(* No byte that arrives is stored outside the payload array.               *)
THEOREM BufferSafety == Spec => []WritesInBuffer
BY WritesFollow, Invariance, PTL

(* A message that is returned was received as a whole by its own frame,    *)
(* with its checksum behind the payload.                                   *)
THEOREM Wholeness == Spec => []WholeMessage
<1>1. IInv => WholeMessage
  BY DEF IInv
<1> QED BY <1>1, Invariance, PTL

-----------------------------------------------------------------------------
(* The checksum, byte by byte.                                             *)

(* Induction up to L, with a set for the predicate: the least number that  *)
(* is not in it has a predecessor that is.                                 *)
LEMMA Induction ==
  ASSUME NEW L \in Nat, NEW T, 0 \in T,
         \A n \in 1 .. L : n - 1 \in T => n \in T
  PROVE  \A n \in 0 .. L : n \in T
<1> DEFINE R == OpToRel(<, Nat)
           Rest == {n \in 0 .. L : n \notin T}
<1> SUFFICES ASSUME Rest # {} PROVE FALSE
  OBVIOUS
<1>1. IsWellFoundedOn(R, Nat)
  BY NatLessThanWellFounded
<1>2. \A m, n \in Nat : m < n => <<m, n>> \in R
  BY DEF OpToRel
<1> HIDE DEF R
<1>3. Rest \subseteq Nat
  OBVIOUS
<1>4. PICK n \in Rest : \A m \in Rest : ~ (<<m, n>> \in R)
  <2> HIDE DEF Rest
  <2> QED BY <1>1, <1>3, WFMin
<1>5. n \in 1 .. L /\ n - 1 \in 0 .. L /\ n - 1 \in Nat /\ n - 1 < n
  BY <1>4
<1>6. <<n - 1, n>> \in R
  BY <1>2, <1>5
<1>7. n - 1 \notin Rest
  BY <1>4, <1>6
<1> QED BY <1>4, <1>5, <1>7

(* The sums of the beginnings of s.                                        *)
IsCrc(f, s, L) ==
  f = [n \in 0 .. L |-> IF n < 2 THEN SumInit ELSE Accumulate(s[n], f[n - 1])]

(* There are such sums, for every s.                                       *)
LEMMA CrcExists ==
  ASSUME NEW s, NEW L \in Nat
  PROVE  \E f : IsCrc(f, s, L)
<1> DEFINE T == {k \in Nat : \E f : IsCrc(f, s, k)}
<1>1. 0 \in T
  <2> DEFINE f == [n \in 0 .. 0 |-> SumInit]
  <2>1. IsCrc(f, s, 0)
    BY DEF IsCrc
  <2> QED BY <2>1
<1>2. ASSUME NEW k \in 1 .. L, k - 1 \in T
      PROVE  k \in T
  <2>1. PICK f : IsCrc(f, s, k - 1)
    BY <1>2
  <2> DEFINE last == IF k < 2 THEN SumInit ELSE Accumulate(s[k], f[k - 1])
             h == [n \in 0 .. k |-> IF n = k THEN last ELSE f[n]]
  <2>2. ASSUME NEW n \in 0 .. k
        PROVE  h[n] = IF n < 2 THEN SumInit ELSE Accumulate(s[n], h[n - 1])
    <3>1. CASE n = k
      BY <3>1
    <3>2. CASE n # k
      BY <2>1, <3>2 DEF IsCrc
    <3> QED BY <3>1, <3>2
  <2>3. IsCrc(h, s, k)
    BY <2>2 DEF IsCrc
  <2> QED BY <2>3
<1>3. \A k \in 0 .. L : k \in T
  <2> HIDE DEF T
  <2> QED BY <1>1, <1>2, Induction
<1> QED BY <1>3

(* What they are.                                                          *)
LEMMA CrcValues ==
  ASSUME NEW f, NEW s, NEW L \in Nat, IsCrc(f, s, L), NEW n \in 0 .. L
  PROVE  f[n] = IF n < 2 THEN SumInit ELSE Accumulate(s[n], f[n - 1])
BY DEF IsCrc

(* The sum over a sequence is the last of them: the function that defines  *)
(* it exists.                                                              *)
LEMMA RunningIsCrc ==
  ASSUME NEW s, Len(s) \in Nat
  PROVE  \E f : IsCrc(f, s, Len(s)) /\ Receiver!Running(s) = f[Len(s)]
<1> DEFINE Is(f) == f = [n \in 0 .. Len(s) |->
                           IF n < 2 THEN SumInit ELSE Accumulate(s[n], f[n - 1])]
           f == CHOOSE f : Is(f)
<1>1. Receiver!Running(s) = f[Len(s)]
  BY DEF Receiver!Running
<1>2. \A h : IsCrc(h, s, Len(s)) <=> Is(h)
  BY DEF IsCrc
<1>3. \E h : Is(h)
  BY <1>2, CrcExists
<1> HIDE DEF Is
<1>4. Is(f)
  BY <1>3
<1> QED BY <1>1, <1>2, <1>4

(* The sum of nothing but a start sign is that of no bytes.                *)
LEMMA RunningStarts == Receiver!Running(<<STX>>) = SumInit
<1>1. Len(<<STX>>) = 1 /\ Len(<<STX>>) \in Nat
  OBVIOUS
<1>2. PICK f : IsCrc(f, <<STX>>, 1) /\ Receiver!Running(<<STX>>) = f[1]
  BY <1>1, RunningIsCrc
<1> QED BY <1>2, CrcValues, 1 \in 0 .. 1

(* Every further byte is accumulated.                                      *)
LEMMA RunningGrows ==
  ASSUME NEW s \in Seq(Byte), s # <<>>, NEW c \in Byte
  PROVE  Receiver!Running(Append(s, c)) = Accumulate(c, Receiver!Running(s))
<1> DEFINE t == Append(s, c)
           L == Len(s)
<1>1. /\ L \in Nat \ {0} /\ Len(t) = L + 1 /\ t[L + 1] = c
      /\ \A n \in 1 .. L : t[n] = s[n]
  <2>1. /\ Len(t) = L + 1 /\ t[L + 1] = c
        /\ \A n \in 1 .. L : t[n] = s[n]
    BY AppendProperties
  <2>2. L \in Nat \ {0}
    BY EmptySeq, LenProperties
  <2> QED BY <2>1, <2>2
<1> HIDE DEF t, L
<1>2. PICK f : IsCrc(f, s, L) /\ Receiver!Running(s) = f[L]
  BY <1>1, RunningIsCrc DEF L
<1>3. PICK g : IsCrc(g, t, L + 1) /\ Receiver!Running(t) = g[L + 1]
  <2>1. Len(t) \in Nat
    BY <1>1
  <2> QED BY <1>1, <2>1, RunningIsCrc
<1>4. \A n \in 0 .. L : g[n] = f[n]
  <2> DEFINE T == {n \in 0 .. L : g[n] = f[n]}
  <2>1. \A n \in 0 .. L : /\ f[n] = IF n < 2 THEN SumInit ELSE Accumulate(s[n], f[n - 1])
                          /\ g[n] = IF n < 2 THEN SumInit ELSE Accumulate(t[n], g[n - 1])
    <3> TAKE n \in 0 .. L
    <3>1. n \in 0 .. L + 1 /\ L + 1 \in Nat /\ L \in Nat
      BY <1>1
    <3> QED BY <1>2, <1>3, <3>1, CrcValues
  <2>2. 0 \in T
    BY <1>1, <2>1
  <2>3. ASSUME NEW n \in 1 .. L, n - 1 \in T PROVE n \in T
    <3>1. n \in 0 .. L /\ t[n] = s[n] /\ g[n - 1] = f[n - 1]
      BY <1>1, <2>3
    <3> QED BY <2>1, <3>1
  <2>4. \A n \in 0 .. L : n \in T
    <3> HIDE DEF T
    <3> QED BY <1>1, <2>2, <2>3, Induction
  <2> QED BY <2>4
<1>5. g[L + 1] = Accumulate(t[L + 1], g[L])
  <2>1. L + 1 \in 0 .. L + 1 /\ ~ (L + 1 < 2) /\ (L + 1) - 1 = L /\ L + 1 \in Nat
    BY <1>1
  <2> QED BY <1>3, <2>1, CrcValues
<1>6. g[L] = f[L]
  BY <1>1, <1>4
<1> QED BY <1>1, <1>2, <1>3, <1>5, <1>6 DEF t

-----------------------------------------------------------------------------
(* Sequences of bytes.                                                     *)

(* Two sequences in one, element by element.                               *)
LEMMA Joined ==
  ASSUME NEW s \in Seq(Byte), NEW t \in Seq(Byte)
  PROVE  /\ s \o t \in Seq(Byte) /\ Len(s \o t) = Len(s) + Len(t)
         /\ \A i \in 1 .. Len(s) : (s \o t)[i] = s[i]
         /\ \A i \in 1 .. Len(t) : (s \o t)[Len(s) + i] = t[i]
<1>1. /\ s \o t \in Seq(Byte) /\ Len(s \o t) = Len(s) + Len(t)
      /\ \A i \in 1 .. Len(s) + Len(t) :
            (s \o t)[i] = IF i <= Len(s) THEN s[i] ELSE t[i - Len(s)]
  BY ConcatProperties
<1>2. PICK k \in Nat, l \in Nat : k = Len(s) /\ l = Len(t)
  BY LenProperties
<1>3. \A i \in 1 .. k : i \in 1 .. k + l /\ i <= k
  OBVIOUS
<1>4. \A i \in 1 .. l : k + i \in 1 .. k + l /\ ~ (k + i <= k) /\ (k + i) - k = i
  OBVIOUS
<1> QED BY <1>1, <1>2, <1>3, <1>4

(* An element behind two sequences is behind the second of them.           *)
LEMMA ConcatAppend ==
  ASSUME NEW S, NEW s \in Seq(S), NEW t \in Seq(S), NEW e \in S
  PROVE  s \o t \in Seq(S) /\ s \o Append(t, e) = Append(s \o t, e)
<1>1. s \o t \in Seq(S) /\ <<e>> \in Seq(S)
  BY ConcatProperties
<1>2. Append(t, e) = t \o <<e>> /\ Append(s \o t, e) = (s \o t) \o <<e>>
  BY <1>1, AppendIsConcat
<1> QED BY <1>1, <1>2, ConcatAssociative

(* A part of a sequence, element by element.                               *)
LEMMA Slice ==
  ASSUME NEW s \in Seq(Byte), NEW m \in Int, NEW n \in Int,
         1 <= m, m <= n + 1, n <= Len(s)
  PROVE  /\ SubSeq(s, m, n) \in Seq(Byte)
         /\ Len(SubSeq(s, m, n)) = n - m + 1
         /\ \A i \in 1 .. n - m + 1 : SubSeq(s, m, n)[i] = s[i + m - 1]
<1>1. \A i \in m .. n : s[i] \in Byte
  BY ElementOfSeq, LenProperties
<1>2. /\ SubSeq(s, m, n) \in Seq(Byte)
      /\ Len(SubSeq(s, m, n)) = IF m <= n THEN n - m + 1 ELSE 0
      /\ \A i \in 1 .. n - m + 1 : SubSeq(s, m, n)[i] = s[m + i - 1]
  BY <1>1, SubSeqProperties
<1>3. \A i \in 1 .. n - m + 1 : m + i - 1 = i + m - 1
  OBVIOUS
<1> QED BY <1>2, <1>3

(* The beginnings of a sequence, one byte after the other.                 *)
LEMMA Beginning ==
  ASSUME NEW f \in Seq(Byte), NEW k \in Nat, k <= Len(f)
  PROVE  /\ SubSeq(f, 1, k) \in Seq(Byte) /\ Len(SubSeq(f, 1, k)) = k
         /\ \A i \in 1 .. k : SubSeq(f, 1, k)[i] = f[i]
<1>1. \A i \in 1 .. k : f[i] \in Byte
  BY ElementOfSeq, LenProperties
<1>2. /\ SubSeq(f, 1, k) \in Seq(Byte)
      /\ Len(SubSeq(f, 1, k)) = IF 1 <= k THEN k - 1 + 1 ELSE 0
      /\ \A i \in 1 .. k - 1 + 1 : SubSeq(f, 1, k)[i] = f[1 + i - 1]
  BY <1>1, SubSeqProperties
<1>3. k - 1 + 1 = k /\ \A i \in 1 .. k : 1 + i - 1 = i
  OBVIOUS
<1> QED BY <1>2, <1>3

(* The beginning of a sequence and its next byte are the beginning one     *)
(* longer.                                                                 *)
LEMMA NextByte ==
  ASSUME NEW f \in Seq(Byte), NEW k \in Nat, k < Len(f)
  PROVE  /\ f[k + 1] \in Byte
         /\ Append(SubSeq(f, 1, k), f[k + 1]) = SubSeq(f, 1, k + 1)
<1>1. f[k + 1] \in Byte
  <2>1. k + 1 \in 1 .. Len(f)
    BY LenProperties
  <2> QED BY <2>1, ElementOfSeq
<1> DEFINE s == SubSeq(f, 1, k)
           t == Append(s, f[k + 1])
           u == SubSeq(f, 1, k + 1)
<1>2. s \in Seq(Byte) /\ Len(s) = k /\ \A i \in 1 .. k : s[i] = f[i]
  <2>1. k <= Len(f)
    BY LenProperties
  <2> QED BY <2>1, Beginning
<1>3. u \in Seq(Byte) /\ Len(u) = k + 1 /\ \A i \in 1 .. k + 1 : u[i] = f[i]
  <2>1. PICK l \in Nat : l = k + 1 /\ l <= Len(f)
    BY LenProperties
  <2> QED BY <2>1, Beginning
<1> HIDE DEF s, u
<1>4. /\ t \in Seq(Byte) /\ Len(t) = Len(s) + 1
      /\ \A i \in 1 .. Len(s) : t[i] = s[i]
      /\ t[Len(s) + 1] = f[k + 1]
  BY <1>1, <1>2, AppendProperties
<1> HIDE DEF t
<1>5. \A i \in 1 .. k + 1 : t[i] = u[i]
  <2> TAKE i \in 1 .. k + 1
  <2>1. i \in 1 .. k \/ i = k + 1
    OBVIOUS
  <2> QED BY <1>2, <1>3, <1>4, <2>1
<1>6. t = u
  BY <1>2, <1>3, <1>4, <1>5, SeqEqual
<1> QED BY <1>1, <1>6 DEF s, t, u

(* Sequences written out, with one byte more.                              *)
LEMMA Lengthened ==
  /\ \A u, v \in Byte : Append(<<u>>, v) = <<u, v>>
  /\ \A u, v, w \in Byte : Append(<<u, v>>, w) = <<u, v, w>>
  /\ \A u, v, w, x \in Byte : Append(<<u, v, w>>, x) = <<u, v, w, x>>
  /\ \A u, v, w, x, y \in Byte : Append(<<u, v, w, x>>, y) = <<u, v, w, x, y>>
  /\ \A u, v, w, x, y, z \in Byte : Append(<<u, v, w, x, y>>, z) = <<u, v, w, x, y, z>>
<1>1. ASSUME NEW u \in Byte, NEW v \in Byte
      PROVE  Append(<<u>>, v) = <<u, v>>
  <2> DEFINE s == Append(<<u>>, v)
             t == <<u, v>>
  <2>1. /\ t \in Seq(Byte) /\ Len(t) = 2
        /\ t[1] = u /\ t[2] = v
    OBVIOUS
  <2>2. /\ <<u>> \in Seq(Byte) /\ Len(<<u>>) = 1
        /\ <<u>>[1] = u
    OBVIOUS
  <2>3. /\ s \in Seq(Byte) /\ Len(s) = 2
        /\ s[1] = u /\ s[2] = v
    BY <2>2, AppendProperties
  <2> HIDE DEF s, t
  <2>4. \A i \in 1 .. Len(s) : s[i] = t[i]
    BY <2>1, <2>3
  <2>5. s = t
    BY <2>1, <2>3, <2>4, SeqEqual
  <2> QED BY <2>5 DEF s, t
<1>2. ASSUME NEW u \in Byte, NEW v \in Byte, NEW w \in Byte
      PROVE  Append(<<u, v>>, w) = <<u, v, w>>
  <2> DEFINE s == Append(<<u, v>>, w)
             t == <<u, v, w>>
  <2>1. /\ t \in Seq(Byte) /\ Len(t) = 3
        /\ t[1] = u /\ t[2] = v /\ t[3] = w
    OBVIOUS
  <2>2. /\ <<u, v>> \in Seq(Byte) /\ Len(<<u, v>>) = 2
        /\ <<u, v>>[1] = u /\ <<u, v>>[2] = v
    OBVIOUS
  <2>3. /\ s \in Seq(Byte) /\ Len(s) = 3
        /\ s[1] = u /\ s[2] = v /\ s[3] = w
    BY <2>2, AppendProperties
  <2> HIDE DEF s, t
  <2>4. \A i \in 1 .. Len(s) : s[i] = t[i]
    BY <2>1, <2>3
  <2>5. s = t
    BY <2>1, <2>3, <2>4, SeqEqual
  <2> QED BY <2>5 DEF s, t
<1>3. ASSUME NEW u \in Byte, NEW v \in Byte, NEW w \in Byte,
             NEW x \in Byte
      PROVE  Append(<<u, v, w>>, x) = <<u, v, w, x>>
  <2> DEFINE s == Append(<<u, v, w>>, x)
             t == <<u, v, w, x>>
  <2>1. /\ t \in Seq(Byte) /\ Len(t) = 4
        /\ t[1] = u /\ t[2] = v /\ t[3] = w /\ t[4] = x
    OBVIOUS
  <2>2. /\ <<u, v, w>> \in Seq(Byte) /\ Len(<<u, v, w>>) = 3
        /\ <<u, v, w>>[1] = u /\ <<u, v, w>>[2] = v
        /\ <<u, v, w>>[3] = w
    OBVIOUS
  <2>3. /\ s \in Seq(Byte) /\ Len(s) = 4
        /\ s[1] = u /\ s[2] = v /\ s[3] = w /\ s[4] = x
    BY <2>2, AppendProperties
  <2> HIDE DEF s, t
  <2>4. \A i \in 1 .. Len(s) : s[i] = t[i]
    BY <2>1, <2>3
  <2>5. s = t
    BY <2>1, <2>3, <2>4, SeqEqual
  <2> QED BY <2>5 DEF s, t
<1>4. ASSUME NEW u \in Byte, NEW v \in Byte, NEW w \in Byte,
             NEW x \in Byte, NEW y \in Byte
      PROVE  Append(<<u, v, w, x>>, y) = <<u, v, w, x, y>>
  <2> DEFINE s == Append(<<u, v, w, x>>, y)
             t == <<u, v, w, x, y>>
  <2>1. /\ t \in Seq(Byte) /\ Len(t) = 5
        /\ t[1] = u /\ t[2] = v /\ t[3] = w /\ t[4] = x /\ t[5] = y
    OBVIOUS
  <2>2. /\ <<u, v, w, x>> \in Seq(Byte) /\ Len(<<u, v, w, x>>) = 4
        /\ <<u, v, w, x>>[1] = u /\ <<u, v, w, x>>[2] = v
        /\ <<u, v, w, x>>[3] = w /\ <<u, v, w, x>>[4] = x
    OBVIOUS
  <2>3. /\ s \in Seq(Byte) /\ Len(s) = 5
        /\ s[1] = u /\ s[2] = v /\ s[3] = w /\ s[4] = x /\ s[5] = y
    BY <2>2, AppendProperties
  <2> HIDE DEF s, t
  <2>4. \A i \in 1 .. Len(s) : s[i] = t[i]
    BY <2>1, <2>3
  <2>5. s = t
    BY <2>1, <2>3, <2>4, SeqEqual
  <2> QED BY <2>5 DEF s, t
<1>5. ASSUME NEW u \in Byte, NEW v \in Byte, NEW w \in Byte,
             NEW x \in Byte, NEW y \in Byte, NEW z \in Byte
      PROVE  Append(<<u, v, w, x, y>>, z) = <<u, v, w, x, y, z>>
  <2> DEFINE s == Append(<<u, v, w, x, y>>, z)
             t == <<u, v, w, x, y, z>>
  <2>1. /\ t \in Seq(Byte) /\ Len(t) = 6
        /\ t[1] = u /\ t[2] = v /\ t[3] = w /\ t[4] = x /\ t[5] = y /\ t[6] = z
    OBVIOUS
  <2>2. /\ <<u, v, w, x, y>> \in Seq(Byte) /\ Len(<<u, v, w, x, y>>) = 5
        /\ <<u, v, w, x, y>>[1] = u /\ <<u, v, w, x, y>>[2] = v
        /\ <<u, v, w, x, y>>[3] = w /\ <<u, v, w, x, y>>[4] = x
        /\ <<u, v, w, x, y>>[5] = y
    OBVIOUS
  <2>3. /\ s \in Seq(Byte) /\ Len(s) = 6
        /\ s[1] = u /\ s[2] = v /\ s[3] = w /\ s[4] = x /\ s[5] = y /\ s[6] = z
    BY <2>2, AppendProperties
  <2> HIDE DEF s, t
  <2>4. \A i \in 1 .. Len(s) : s[i] = t[i]
    BY <2>1, <2>3
  <2>5. s = t
    BY <2>1, <2>3, <2>4, SeqEqual
  <2> QED BY <2>5 DEF s, t
<1> QED BY <1>1, <1>2, <1>3, <1>4, <1>5

-----------------------------------------------------------------------------
(* The parser receives frames.                                             *)

(* The payload stored so far.                                              *)
LEMMA StoredFacts ==
  ASSUME TypeOK
  PROVE  Stored \in Seq(Byte) /\ Len(Stored) = packet_idx /\ packet_idx \in Nat
<1>1. \A i \in 1 .. packet_idx : payload[i - 1] \in Byte
  BY DEF TypeOK
<1> QED BY <1>1 DEF Stored, TypeOK

(* A frame without its checksum.                                           *)
LEMMA WholeFacts ==
  ASSUME TypeOK
  PROVE  /\ Whole \in Seq(Byte) /\ Len(Whole) = 6 + packet_idx
         /\ Whole[2] = rxmsg.len /\ Whole[3] = rxmsg.seq /\ Whole[4] = rxmsg.sysid
         /\ Whole[5] = rxmsg.compid /\ Whole[6] = rxmsg.msgid
         /\ \A i \in 1 .. packet_idx : Whole[6 + i] = payload[i - 1]
<1> DEFINE head == <<STX, rxmsg.len, rxmsg.seq, rxmsg.sysid, rxmsg.compid,
                     rxmsg.msgid>>
<1>1. rxmsg \in Header
  BY DEF TypeOK
<1>2. /\ head \in Seq(Byte) /\ Len(head) = 6
      /\ head[2] = rxmsg.len /\ head[3] = rxmsg.seq /\ head[4] = rxmsg.sysid
      /\ head[5] = rxmsg.compid /\ head[6] = rxmsg.msgid
  BY <1>1 DEF Header
<1>3. Stored \in Seq(Byte) /\ Len(Stored) = packet_idx /\ packet_idx \in Nat
  BY StoredFacts
<1>4. Whole = head \o Stored
  BY DEF Whole
<1> HIDE DEF head
<1>5. /\ Whole \in Seq(Byte) /\ Len(Whole) = Len(head) + Len(Stored)
      /\ \A i \in 1 .. Len(head) : Whole[i] = head[i]
      /\ \A i \in 1 .. Len(Stored) : Whole[Len(head) + i] = Stored[i]
  BY <1>2, <1>3, <1>4, Joined
<1>6. \A i \in 2 .. 6 : i \in 1 .. Len(head)
  BY <1>2
<1>7. /\ Whole[2] = head[2] /\ Whole[3] = head[3] /\ Whole[4] = head[4]
      /\ Whole[5] = head[5] /\ Whole[6] = head[6]
  BY <1>5, <1>6
<1>8. \A i \in 1 .. packet_idx : Stored[i] = payload[i - 1]
  BY DEF Stored
<1> QED BY <1>2, <1>3, <1>5, <1>7, <1>8

(* What Received is in each state.                                         *)
LEMMA ReceivedIs ==
  /\ parse_state = "IDLE" => Received = <<>>
  /\ parse_state = "GOT_STX" => Received = <<STX>>
  /\ parse_state = "GOT_LENGTH" => Received = <<STX, rxmsg.len>>
  /\ parse_state = "GOT_SEQ" => Received = <<STX, rxmsg.len, rxmsg.seq>>
  /\ parse_state = "GOT_SYSID" =>
       Received = <<STX, rxmsg.len, rxmsg.seq, rxmsg.sysid>>
  /\ parse_state = "GOT_COMPID" =>
       Received = <<STX, rxmsg.len, rxmsg.seq, rxmsg.sysid, rxmsg.compid>>
  /\ parse_state \in {"GOT_MSGID", "GOT_PAYLOAD"} => Received = Whole
  /\ parse_state = "GOT_CRC1" => Received = Append(Whole, payload[packet_idx])
BY DEF Received

(* How much of the header has been received.                               *)
HeaderBytes ==
  CASE parse_state = "IDLE" -> 0
    [] parse_state = "GOT_STX" -> 1
    [] parse_state = "GOT_LENGTH" -> 2
    [] parse_state = "GOT_SEQ" -> 3
    [] parse_state = "GOT_SYSID" -> 4
    [] parse_state = "GOT_COMPID" -> 5
    [] OTHER -> 6

(* In terms of the receiver: the length of what is held, the length the    *)
(* frame will have, and what of it the state machine keeps.                *)
LEMMA HeldIs ==
  ASSUME IInv
  PROVE  /\ Received \in Seq(Byte)
         /\ HeaderBytes \in 0 .. 6
         /\ HeaderBytes < 6 => Len(Received) = HeaderBytes
         /\ HeaderBytes = 0 <=> parse_state = "IDLE"
         /\ HeaderBytes = 6 =>
              /\ parse_state \in {"GOT_MSGID", "GOT_PAYLOAD", "GOT_CRC1"}
              /\ Len(Received) = IF parse_state = "GOT_CRC1"
                                   THEN packet_idx + 7 ELSE packet_idx + 6
              /\ \A i \in 1 .. packet_idx + 6 : Received[i] = Whole[i]
              /\ Received[2] = rxmsg.len /\ Received[6] = rxmsg.msgid
              /\ Receiver!Size(Received) = rxmsg.len + 8
              /\ rxmsg.len \in Nat /\ packet_idx \in Nat
<1>1. TypeOK /\ rxmsg \in Header /\ parse_state \in States
  BY DEF IInv, TypeOK
<1>2. /\ HeaderBytes \in 0 .. 6
      /\ HeaderBytes = 0 <=> parse_state = "IDLE"
      /\ HeaderBytes = 6 => parse_state \in {"GOT_MSGID", "GOT_PAYLOAD", "GOT_CRC1"}
  BY <1>1 DEF HeaderBytes, States
<1>3. CASE HeaderBytes < 6
  <2>1. CASE parse_state = "IDLE"
    BY <2>1, ReceivedIs DEF HeaderBytes
  <2>2. CASE parse_state = "GOT_STX"
    <3>1. Received = <<STX>> /\ HeaderBytes = 1
      BY <2>2, ReceivedIs DEF HeaderBytes
    <3> QED BY <1>2, <2>2, <3>1
  <2>3. CASE parse_state = "GOT_LENGTH"
    <3>1. Received = <<STX, rxmsg.len>> /\ HeaderBytes = 2
      BY <2>3, ReceivedIs DEF HeaderBytes
    <3> QED BY <1>1, <1>2, <3>1 DEF Header
  <2>4. CASE parse_state = "GOT_SEQ"
    <3>1. Received = <<STX, rxmsg.len, rxmsg.seq>> /\ HeaderBytes = 3
      BY <2>4, ReceivedIs DEF HeaderBytes
    <3> QED BY <1>1, <1>2, <3>1 DEF Header
  <2>5. CASE parse_state = "GOT_SYSID"
    <3>1. Received = <<STX, rxmsg.len, rxmsg.seq, rxmsg.sysid>> /\ HeaderBytes = 4
      BY <2>5, ReceivedIs DEF HeaderBytes
    <3> QED BY <1>1, <1>2, <3>1 DEF Header
  <2>6. CASE parse_state = "GOT_COMPID"
    <3>1. /\ Received = <<STX, rxmsg.len, rxmsg.seq, rxmsg.sysid, rxmsg.compid>>
          /\ HeaderBytes = 5
      BY <2>6, ReceivedIs DEF HeaderBytes
    <3> QED BY <1>1, <1>2, <3>1 DEF Header
  <2>7. ~ (parse_state \in {"GOT_MSGID", "GOT_PAYLOAD", "GOT_CRC1"})
    BY <1>3 DEF HeaderBytes
  <2> QED BY <1>1, <2>1, <2>2, <2>3, <2>4, <2>5, <2>6, <2>7 DEF States
<1>4. CASE HeaderBytes = 6
  <2>1. /\ Whole \in Seq(Byte) /\ Len(Whole) = 6 + packet_idx
        /\ Whole[2] = rxmsg.len /\ Whole[6] = rxmsg.msgid
        /\ packet_idx \in Nat
    BY <1>1, StoredFacts, WholeFacts
  <2>2. /\ Received \in Seq(Byte)
        /\ Len(Received) = IF parse_state = "GOT_CRC1"
                             THEN packet_idx + 7 ELSE packet_idx + 6
        /\ \A i \in 1 .. packet_idx + 6 : Received[i] = Whole[i]
    <3>1. CASE parse_state \in {"GOT_MSGID", "GOT_PAYLOAD"}
      BY <2>1, <3>1, ReceivedIs
    <3>2. CASE parse_state = "GOT_CRC1"
      <4> DEFINE c == payload[packet_idx]
      <4>1. c \in Byte
        BY <1>1 DEF TypeOK
      <4> HIDE DEF c
      <4>2. /\ Append(Whole, c) \in Seq(Byte)
            /\ Len(Append(Whole, c)) = Len(Whole) + 1
            /\ \A i \in 1 .. Len(Whole) : Append(Whole, c)[i] = Whole[i]
        BY <2>1, <4>1, AppendProperties
      <4>3. Received = Append(Whole, c)
        BY <3>2, ReceivedIs DEF c
      <4> QED BY <2>1, <3>2, <4>2, <4>3
    <3> QED BY <1>2, <1>4, <3>1, <3>2
  <2>3. Received[2] = rxmsg.len /\ Received[6] = rxmsg.msgid
    <3>1. 2 \in 1 .. packet_idx + 6 /\ 6 \in 1 .. packet_idx + 6
      BY <2>1
    <3> QED BY <2>1, <2>2, <3>1
  <2>4. rxmsg.len \in Nat
    BY <1>1 DEF Header
  <2>5. Receiver!Size(Received) = rxmsg.len + 8
    BY <2>3, <2>4 DEF Receiver!Size
  <2> QED BY <1>2, <1>4, <2>1, <2>2, <2>3, <2>4, <2>5
<1> QED BY <1>2, <1>3, <1>4

(* The checksum is that of the bytes received, with the seed of the        *)
(* message once it is compared.                                            *)
SumOK ==
  /\ parse_state \notin {"IDLE", "GOT_CRC1"} => checksum = Receiver!Running(Received)
  /\ parse_state = "GOT_CRC1" =>
       checksum = Accumulate(Extra(rxmsg.msgid), Receiver!Running(Whole))

(* The sum a frame has to end with.                                        *)
LEMMA SumIs ==
  ASSUME IInv, parse_state \in {"GOT_PAYLOAD", "GOT_CRC1"}
  PROVE  Receiver!Sum(Received) = Accumulate(Extra(rxmsg.msgid), Receiver!Running(Whole))
<1>1. /\ packet_idx = rxmsg.len /\ packet_idx \in Nat
      /\ Whole \in Seq(Byte) /\ Len(Whole) = 6 + packet_idx
  BY StoredFacts, WholeFacts DEF IInv, IndexOK
<1>2. /\ Received \in Seq(Byte) /\ Len(Received) >= packet_idx + 6
      /\ \A i \in 1 .. packet_idx + 6 : Received[i] = Whole[i]
      /\ Received[2] = rxmsg.len /\ Received[6] = rxmsg.msgid
  <2>1. HeaderBytes = 6
    BY DEF HeaderBytes
  <2> QED BY <1>1, <2>1, HeldIs
<1>3. PICK l \in Nat : l = 6 + packet_idx /\ l <= Len(Received)
  BY <1>1, <1>2
<1>4. /\ SubSeq(Received, 1, l) \in Seq(Byte) /\ Len(SubSeq(Received, 1, l)) = l
      /\ \A i \in 1 .. l : SubSeq(Received, 1, l)[i] = Received[i]
  BY <1>2, <1>3, Beginning
<1>5. \A i \in 1 .. l : SubSeq(Received, 1, l)[i] = Whole[i]
  BY <1>1, <1>2, <1>3, <1>4
<1>6. SubSeq(Received, 1, l) = Whole
  BY <1>1, <1>3, <1>4, <1>5, SeqEqual
<1> QED BY <1>1, <1>2, <1>3, <1>6 DEF Receiver!Sum

(* The parser goes on with exactly the bytes some frame goes on with.      *)
LEMMA GoesOn ==
  ASSUME IInv, SumOK, NEW c \in Byte
  PROVE  Receiver!Continues(Received, c) <=>
           /\ parse_state = "IDLE" => c = STX
           /\ parse_state = "GOT_PAYLOAD" =>
                c = Low(Accumulate(Extra(rxmsg.msgid), checksum))
           /\ parse_state = "GOT_CRC1" => c = High(checksum)
<1>1. parse_state \in States
  BY DEF IInv, TypeOK
<1>2. CASE parse_state = "IDLE"
  <2>1. Received = <<>>
    BY <1>2, ReceivedIs
  <2>2. Receiver!Continues(<<>>, c) <=> c = STX
    <3>1. ~ Receiver!ChecksumDue(<<>>)
      BY DEF Receiver!ChecksumDue
    <3> QED BY <3>1 DEF Receiver!Continues
  <2> QED BY <1>2, <2>1, <2>2
<1>3. CASE parse_state # "IDLE" /\ HeaderBytes < 6
  <2>1. HeaderBytes \in 1 .. 5 /\ Len(Received) = HeaderBytes
    <3>1. /\ HeaderBytes \in 0 .. 6 /\ HeaderBytes # 0
          /\ Len(Received) = HeaderBytes
      BY <1>3, HeldIs
    <3> QED BY <1>3, <3>1
  <2>2. Received # <<>> /\ ~ Receiver!ChecksumDue(Received)
    <3>1. Len(Received) # 0 /\ ~ (Len(Received) > 5)
      BY <2>1
    <3>2. Received # <<>>
      BY <3>1
    <3> QED BY <3>1, <3>2 DEF Receiver!ChecksumDue
  <2>3. parse_state \notin {"GOT_PAYLOAD", "GOT_CRC1"}
    BY <1>3 DEF HeaderBytes
  <2> QED BY <1>3, <2>2, <2>3 DEF Receiver!Continues
<1>4. CASE HeaderBytes = 6
  <2>1. /\ parse_state \in {"GOT_MSGID", "GOT_PAYLOAD", "GOT_CRC1"}
        /\ Len(Received) = IF parse_state = "GOT_CRC1"
                             THEN packet_idx + 7 ELSE packet_idx + 6
        /\ Receiver!Size(Received) = rxmsg.len + 8
        /\ rxmsg.len \in Nat /\ packet_idx \in Nat
    BY <1>4, HeldIs
  <2>2. Received # <<>>
    BY <2>1
  <2>3. CASE parse_state = "GOT_MSGID"
    <3>1. packet_idx < rxmsg.len
      BY <2>3 DEF IInv, IndexOK
    <3>2. ~ Receiver!ChecksumDue(Received)
      BY <2>1, <2>3, <3>1 DEF Receiver!ChecksumDue
    <3> QED BY <2>2, <2>3, <3>2 DEF Receiver!Continues
  <2>4. CASE parse_state = "GOT_PAYLOAD"
    <3>1. packet_idx = rxmsg.len
      BY <2>4 DEF IInv, IndexOK
    <3>2. Receiver!ChecksumDue(Received) /\ Len(Received) = Receiver!Size(Received) - 2
      BY <2>1, <2>4, <3>1 DEF Receiver!ChecksumDue
    <3>3. Receiver!Sum(Received) = Accumulate(Extra(rxmsg.msgid), checksum)
      <4>1. Received = Whole
        BY <2>4, ReceivedIs
      <4> QED BY <2>4, <4>1, SumIs DEF SumOK
    <3> QED BY <2>2, <2>4, <3>2, <3>3 DEF Receiver!Continues
  <2>5. CASE parse_state = "GOT_CRC1"
    <3>1. packet_idx = rxmsg.len
      BY <2>5 DEF IInv, IndexOK
    <3>2. Receiver!ChecksumDue(Received) /\ Len(Received) # Receiver!Size(Received) - 2
      BY <2>1, <2>5, <3>1 DEF Receiver!ChecksumDue
    <3>3. Receiver!Sum(Received) = checksum
      BY <2>5, SumIs DEF SumOK
    <3> QED BY <2>2, <2>5, <3>2, <3>3 DEF Receiver!Continues
  <2> QED BY <2>1, <2>3, <2>4, <2>5
<1> QED BY <1>2, <1>3, <1>4, HeldIs

(* The payload grows by the byte received.                                 *)
LEMMA StoredGrows ==
  ASSUME IInv, NEW c \in Byte, Payload(c)
  PROVE  Stored' = Append(Stored, c)
<1>1. /\ packet_idx \in Byte /\ packet_idx < rxmsg.len /\ rxmsg.len \in Byte
      /\ payload \in [0 .. BufSize - 1 -> Byte]
  BY DEF Payload, IInv, IndexOK, TypeOK, Header
<1>2. /\ packet_idx' = packet_idx + 1
      /\ payload' = [payload EXCEPT ![packet_idx] = c]
      /\ packet_idx \in 0 .. BufSize - 1
  <2>1. packet_idx + 1 \in 0 .. W - 1
    BY <1>1
  <2>2. (packet_idx + 1) % W = packet_idx + 1
    BY <2>1
  <2>3. packet_idx \in 0 .. BufSize - 1
    BY <1>1
  <2> QED BY <2>2, <2>3 DEF Payload
<1> DEFINE s == Stored'
           t == Append(Stored, c)
<1>3. /\ t \in Seq(Byte) /\ Len(t) = packet_idx + 1
      /\ \A i \in 1 .. packet_idx : t[i] = payload[i - 1]
      /\ t[packet_idx + 1] = c
  BY StoredFacts, AppendProperties DEF Stored, IInv
<1>4. s = [i \in 1 .. packet_idx + 1 |-> payload'[i - 1]]
  BY <1>2 DEF Stored
<1>5. s \in Seq(Byte) /\ Len(s) = packet_idx + 1
  <2>1. \A i \in 1 .. packet_idx + 1 : payload'[i - 1] \in Byte
    BY <1>1, <1>2
  <2> QED BY <1>1, <1>4, <2>1
<1>6. \A i \in 1 .. packet_idx : payload'[i - 1] = payload[i - 1]
  BY <1>1, <1>2
<1>7. payload'[packet_idx] = c /\ (packet_idx + 1) - 1 = packet_idx
  BY <1>1, <1>2
<1> HIDE DEF t
<1>8. \A i \in 1 .. packet_idx + 1 : s[i] = t[i]
  <2> TAKE i \in 1 .. packet_idx + 1
  <2>1. i \in 1 .. packet_idx \/ i = packet_idx + 1
    BY <1>1
  <2>2. s[i] = payload'[i - 1]
    BY <1>4
  <2> HIDE DEF s
  <2> QED BY <1>3, <1>6, <1>7, <2>1, <2>2
<1> HIDE DEF s
<1>9. s = t
  BY <1>3, <1>5, <1>8, SeqEqual
<1> QED BY <1>9 DEF s, t

(* The bytes before the checksum.                                          *)
Waits(c) == Length(c) \/ SeqNr(c) \/ SysId(c) \/ CompId(c) \/ MsgId(c) \/ Payload(c)

(* The bytes before the checksum: what has been received grows by each of  *)
(* them.                                                                   *)
LEMMA Grows ==
  ASSUME IInv, NEW c \in Byte, Waits(c)
  PROVE  Received' = Append(Received, c)
<1>1. /\ rxmsg.len \in Byte /\ rxmsg.seq \in Byte /\ rxmsg.sysid \in Byte
      /\ rxmsg.compid \in Byte /\ rxmsg.msgid \in Byte /\ rxmsg \in Header
  BY DEF IInv, TypeOK, Header
<1>2. CASE Length(c)
  <2>1. Received = <<STX>> /\ Received' = <<STX, c>>
    BY <1>1, <1>2 DEF Length, Received, Header
  <2> QED BY <2>1, Lengthened
<1>3. CASE SeqNr(c)
  <2>1. Received = <<STX, rxmsg.len>> /\ Received' = <<STX, rxmsg.len, c>>
    BY <1>1, <1>3 DEF SeqNr, HeaderByte, Received, Header
  <2>2. Append(<<STX, rxmsg.len>>, c) = <<STX, rxmsg.len, c>>
    <3> HIDE DEF Byte
    <3> QED BY <1>1, Lengthened
  <2> QED BY <2>1, <2>2
<1>4. CASE SysId(c)
  <2>1. /\ Received = <<STX, rxmsg.len, rxmsg.seq>>
        /\ Received' = <<STX, rxmsg.len, rxmsg.seq, c>>
    BY <1>1, <1>4 DEF SysId, HeaderByte, Received, Header
  <2>2. Append(<<STX, rxmsg.len, rxmsg.seq>>, c) = <<STX, rxmsg.len, rxmsg.seq, c>>
    <3> HIDE DEF Byte
    <3> QED BY <1>1, Lengthened
  <2> QED BY <2>1, <2>2
<1>5. CASE CompId(c)
  <2>1. /\ Received = <<STX, rxmsg.len, rxmsg.seq, rxmsg.sysid>>
        /\ Received' = <<STX, rxmsg.len, rxmsg.seq, rxmsg.sysid, c>>
    BY <1>1, <1>5 DEF CompId, HeaderByte, Received, Header
  <2>2. Append(<<STX, rxmsg.len, rxmsg.seq, rxmsg.sysid>>, c)
          = <<STX, rxmsg.len, rxmsg.seq, rxmsg.sysid, c>>
    <3> HIDE DEF Byte
    <3> QED BY <1>1, Lengthened
  <2> QED BY <2>1, <2>2
<1>6. CASE MsgId(c)
  <2>1. /\ parse_state = "GOT_COMPID" /\ parse_state' \in {"GOT_MSGID", "GOT_PAYLOAD"}
        /\ packet_idx' = 0 /\ rxmsg' = [rxmsg EXCEPT !.msgid = c]
    BY <1>6 DEF MsgId, HeaderByte, IInv, IndexOK
  <2>2. Received = <<STX, rxmsg.len, rxmsg.seq, rxmsg.sysid, rxmsg.compid>>
    BY <2>1, ReceivedIs
  <2>3. Received' = Whole'
    BY <2>1 DEF Received
  <2>4. Stored' = <<>>
    BY <2>1 DEF Stored
  <2>5. /\ rxmsg'.len = rxmsg.len /\ rxmsg'.seq = rxmsg.seq
        /\ rxmsg'.sysid = rxmsg.sysid /\ rxmsg'.compid = rxmsg.compid
        /\ rxmsg'.msgid = c
    BY <1>1, <2>1 DEF Header
  <2> DEFINE h == <<STX, rxmsg.len, rxmsg.seq, rxmsg.sysid, rxmsg.compid, c>>
  <2>6. Whole' = h \o <<>>
    BY <2>4, <2>5 DEF Whole
  <2>7. h \in Seq(Byte)
    BY <1>1
  <2>8. Append(<<STX, rxmsg.len, rxmsg.seq, rxmsg.sysid, rxmsg.compid>>, c) = h
    <3> HIDE DEF Byte
    <3> QED BY <1>1, Lengthened
  <2> HIDE DEF h
  <2>9. Received' = h
    BY <2>3, <2>6, <2>7, ConcatEmptySeq
  <2> QED BY <2>2, <2>8, <2>9
<1>7. CASE Payload(c)
  <2> DEFINE h == <<STX, rxmsg.len, rxmsg.seq, rxmsg.sysid, rxmsg.compid, rxmsg.msgid>>
  <2>1. h \in Seq(Byte)
    BY <1>1
  <2>2. Received = h \o Stored /\ Received' = h \o Stored'
    BY <1>7 DEF Payload, Received, Whole
  <2> HIDE DEF h
  <2>3. Stored' = Append(Stored, c)
    BY <1>7, StoredGrows
  <2>4. Stored \in Seq(Byte)
    BY StoredFacts DEF IInv
  <2> QED BY <2>1, <2>2, <2>3, <2>4, ConcatAppend
<1> QED BY <1>2, <1>3, <1>4, <1>5, <1>6, <1>7 DEF Waits

(* A checksum byte is stored behind the payload.                           *)
LEMMA ChecksumStored ==
  ASSUME IInv, NEW c \in Byte, parse_state = "GOT_PAYLOAD" \/ parse_state = "GOT_CRC1",
         \/ payload' = [payload EXCEPT ![packet_idx] = c]
         \/ payload' = [payload EXCEPT ![packet_idx + 1] = c],
         UNCHANGED <<packet_idx, rxmsg>>
  PROVE  Whole' = Whole /\ \A i \in 1 .. packet_idx : payload'[i - 1] = payload[i - 1]
<1>1. packet_idx \in Nat /\ payload \in [0 .. BufSize - 1 -> Byte]
  BY DEF IInv, TypeOK
<1>2. ASSUME NEW i \in 1 .. packet_idx PROVE payload'[i - 1] = payload[i - 1]
  <2>1. i - 1 # packet_idx /\ i - 1 # packet_idx + 1
    BY <1>1
  <2> QED BY <1>1, <2>1
<1>3. Stored' = Stored
  BY <1>2 DEF Stored
<1> QED BY <1>2, <1>3 DEF Whole

(* A rejected byte leaves nothing but a start sign.                        *)
LEMMA RejectDrops ==
  ASSUME NEW c \in Byte, Reject(c), checksum' = SumInit \/ c # STX
  PROVE  Received' = (IF c = STX THEN <<c>> ELSE <<>>) /\ SumOK'
<1>1. CASE c = STX
  <2>1. parse_state' = "GOT_STX" /\ checksum' = SumInit
    BY <1>1 DEF Reject
  <2>2. Received' = <<STX>>
    BY <2>1 DEF Received
  <2> QED BY <1>1, <2>1, <2>2, RunningStarts DEF SumOK
<1>2. CASE c # STX
  BY <1>2 DEF Reject, Received, SumOK
<1> QED BY <1>1, <1>2

(* The checksum starts with a start sign and goes on with every byte.      *)
LEMMA SumOKStep ==
  ASSUME IInv, SumOK, NEW c \in Byte, Parse(c)
  PROVE  SumOK'
<1>1. CASE Idle(c)
  <2>1. CASE c = STX
    <3>1. parse_state' = "GOT_STX" /\ checksum' = SumInit
      BY <1>1, <2>1 DEF Idle, Start
    <3>2. Received' = <<STX>>
      BY <3>1 DEF Received
    <3> QED BY <3>1, <3>2, RunningStarts DEF SumOK
  <2>2. CASE c # STX
    BY <1>1, <2>2 DEF Idle, SumOK
  <2> QED BY <2>1, <2>2
<1>2. CASE Waits(c)
  <2>1. /\ parse_state \notin {"IDLE", "GOT_CRC1"}
        /\ parse_state' \notin {"IDLE", "GOT_CRC1"}
        /\ checksum' = Accumulate(c, checksum)
    BY <1>2 DEF Waits, Length, SeqNr, SysId, CompId, MsgId, HeaderByte, Payload, Update
  <2>2. Received \in Seq(Byte) /\ Received # <<>>
    <3>1. Len(Received) # 0
      <4>1. HeaderBytes # 0 /\ HeaderBytes \in 0 .. 6
        BY <2>1, HeldIs
      <4>2. CASE HeaderBytes < 6
        BY <4>1, <4>2, HeldIs
      <4>3. CASE HeaderBytes = 6
        BY <4>3, HeldIs
      <4> QED BY <4>1, <4>2, <4>3
    <3> QED BY <3>1, HeldIs
  <2>3. Received' = Append(Received, c)
    BY <1>2, Grows
  <2>4. Receiver!Running(Received') = Accumulate(c, Receiver!Running(Received))
    BY <2>2, <2>3, RunningGrows
  <2> QED BY <2>1, <2>4 DEF SumOK
<1>3. CASE Checksum1(c)
  <2> DEFINE sum == Accumulate(Extra(rxmsg.msgid), checksum)
  <2>1. CASE c = Low(sum)
    <3>1. /\ parse_state = "GOT_PAYLOAD" /\ parse_state' = "GOT_CRC1"
          /\ payload' = [payload EXCEPT ![packet_idx] = c]
          /\ checksum' = sum /\ UNCHANGED <<packet_idx, rxmsg>>
      BY <1>3, <2>1 DEF Checksum1
    <3>2. Whole' = Whole
      BY <3>1, ChecksumStored
    <3>3. checksum = Receiver!Running(Whole)
      BY <3>1, ReceivedIs DEF SumOK
    <3> QED BY <3>1, <3>2, <3>3 DEF SumOK
  <2>2. CASE c # Low(sum)
    BY <1>3, <2>2, RejectDrops DEF Checksum1
  <2> QED BY <2>1, <2>2
<1>4. CASE Checksum2(c)
  <2>1. CASE c = High(checksum)
    BY <1>4, <2>1 DEF Checksum2, SumOK
  <2>2. CASE c # High(checksum)
    BY <1>4, <2>2, RejectDrops DEF Checksum2
  <2> QED BY <2>1, <2>2
<1> QED BY <1>1, <1>2, <1>3, <1>4 DEF Parse, Waits

(* What is held with one byte more: the last byte of a checksum completes  *)
(* a frame, and no other byte does.                                        *)
LEMMA LongerIs ==
  ASSUME IInv, NEW c \in Byte
  PROVE  LET longer == Append(Received, c) IN
         /\ longer \in Seq(Byte)
         /\ Receiver!ChecksumDue(longer) /\ Len(longer) = Receiver!Size(longer)
              <=> parse_state = "GOT_CRC1"
         /\ parse_state = "GOT_CRC1" =>
              /\ Receiver!Size(longer) = packet_idx + 8
              /\ \A i \in 1 .. packet_idx + 6 : longer[i] = Whole[i]
<1> DEFINE longer == Append(Received, c)
<1>1. /\ longer \in Seq(Byte)
      /\ Len(longer) = Len(Received) + 1
      /\ \A i \in 1 .. Len(Received) : longer[i] = Received[i]
  BY HeldIs, AppendProperties
<1> HIDE DEF longer
<1>2. HeaderBytes \in 0 .. 6
  BY HeldIs
<1>3. CASE HeaderBytes < 6
  <2>1. Len(longer) <= 6
    BY <1>1, <1>2, <1>3, HeldIs
  <2>2. ~ (Receiver!ChecksumDue(longer) /\ Len(longer) = Receiver!Size(longer))
    <3> SUFFICES ASSUME Len(longer) > 5, Len(longer) = Receiver!Size(longer) PROVE FALSE
      BY DEF Receiver!ChecksumDue
    <3>1. longer[2] \in Byte
      <4>1. 2 \in 1 .. Len(longer)
        BY <1>1
      <4> QED BY <1>1, <4>1, ElementOfSeq
    <3> QED BY <2>1, <3>1 DEF Receiver!Size
  <2>3. parse_state # "GOT_CRC1"
    BY <1>3 DEF HeaderBytes
  <2> QED BY <1>1, <2>2, <2>3 DEF longer
<1>4. CASE HeaderBytes = 6
  <2>1. /\ parse_state \in {"GOT_MSGID", "GOT_PAYLOAD", "GOT_CRC1"}
        /\ Len(Received) = IF parse_state = "GOT_CRC1"
                             THEN packet_idx + 7 ELSE packet_idx + 6
        /\ \A i \in 1 .. packet_idx + 6 : Received[i] = Whole[i]
        /\ Received[2] = rxmsg.len
        /\ rxmsg.len \in Nat /\ packet_idx \in Nat
    BY <1>4, HeldIs
  <2>2. longer[2] = rxmsg.len
    <3>1. 2 \in 1 .. Len(Received)
      BY <2>1
    <3> QED BY <1>1, <2>1, <3>1
  <2>3. Receiver!Size(longer) = rxmsg.len + 8
    BY <2>1, <2>2 DEF Receiver!Size
  <2>4. \A i \in 1 .. packet_idx + 6 : longer[i] = Whole[i]
    BY <1>1, <2>1
  <2>5. /\ parse_state = "GOT_MSGID" => packet_idx < rxmsg.len
        /\ parse_state \in {"GOT_PAYLOAD", "GOT_CRC1"} => packet_idx = rxmsg.len
    BY DEF IInv, IndexOK
  <2>6. Receiver!ChecksumDue(longer) /\ Len(longer) = Receiver!Size(longer)
           <=> parse_state = "GOT_CRC1"
    BY <1>1, <2>1, <2>3, <2>5 DEF Receiver!ChecksumDue
  <2> QED BY <1>1, <2>1, <2>3, <2>4, <2>5, <2>6 DEF longer
<1>5. HeaderBytes < 6 \/ HeaderBytes = 6
  BY <1>2
<1> QED BY <1>3, <1>4, <1>5

(* The message returned with the last byte is the one in the frame.        *)
LEMMA ReturnedIs ==
  ASSUME IInv, NEW c \in Byte, parse_state = "GOT_CRC1", returned' = rxmsg,
         payload' = [payload EXCEPT ![packet_idx + 1] = c],
         UNCHANGED <<packet_idx, rxmsg>>
  PROVE  LET longer == Append(Received, c)
         IN Returned' = SubSeq(longer, 3, Receiver!Size(longer) - 2)
<1> DEFINE longer == Append(Received, c)
           head == <<rxmsg.seq, rxmsg.sysid, rxmsg.compid, rxmsg.msgid>>
           part == SubSeq(longer, 3, packet_idx + 6)
<1>1. packet_idx = rxmsg.len /\ rxmsg \in Header /\ packet_idx \in Nat
  BY DEF IInv, IndexOK, TypeOK, Header
<1>2. /\ head \in Seq(Byte) /\ Len(head) = 4
      /\ head[1] = rxmsg.seq /\ head[2] = rxmsg.sysid
      /\ head[3] = rxmsg.compid /\ head[4] = rxmsg.msgid
  BY <1>1 DEF Header
<1>3. Returned' = head \o Stored
  <2>1. rxmsg.len \in Nat /\ rxmsg # [len |-> -1]
    <3>1. rxmsg.len \in Nat
      BY <1>1 DEF Header
    <3>2. [len |-> -1].len = -1
      OBVIOUS
    <3> QED BY <3>1, <3>2
  <2>2. returned' # Nothing /\ rxmsg' = rxmsg
    BY <2>1 DEF Nothing
  <2>3. Returned' = head \o [i \in 1 .. rxmsg.len |-> payload'[i - 1]]
    BY <2>2 DEF Returned
  <2>4. \A i \in 1 .. packet_idx : payload'[i - 1] = payload[i - 1]
    BY ChecksumStored
  <2>5. [i \in 1 .. rxmsg.len |-> payload'[i - 1]] = Stored
    BY <1>1, <2>4 DEF Stored
  <2> QED BY <2>3, <2>5
<1>4. Stored \in Seq(Byte) /\ Len(Stored) = packet_idx
  BY StoredFacts DEF IInv
<1> DEFINE msg == head \o Stored
<1> HIDE DEF head
<1>5. /\ msg \in Seq(Byte) /\ Len(msg) = 4 + packet_idx
      /\ \A i \in 1 .. 4 : msg[i] = head[i]
      /\ \A i \in 1 .. packet_idx : msg[4 + i] = Stored[i]
  <2>1. /\ msg \in Seq(Byte) /\ Len(msg) = Len(head) + Len(Stored)
        /\ \A i \in 1 .. Len(head) : msg[i] = head[i]
        /\ \A i \in 1 .. Len(Stored) : msg[Len(head) + i] = Stored[i]
    BY <1>2, <1>4, Joined
  <2> QED BY <1>1, <1>2, <1>4, <2>1
<1>6. /\ longer \in Seq(Byte) /\ Receiver!Size(longer) = packet_idx + 8
      /\ Len(longer) = packet_idx + 8
      /\ \A i \in 1 .. packet_idx + 6 : longer[i] = Whole[i]
  BY LongerIs
<1> HIDE DEF longer, msg
<1>7. /\ part \in Seq(Byte) /\ Len(part) = packet_idx + 4
      /\ \A i \in 1 .. packet_idx + 4 : part[i] = longer[i + 2]
  <2>1. PICK n \in Int : /\ n = packet_idx + 6 /\ n - 3 + 1 = packet_idx + 4
                         /\ 1 <= 3 /\ 3 <= n + 1 /\ n <= Len(longer)
    <3>1. packet_idx \in Nat /\ Len(longer) = packet_idx + 8
      BY <1>1, <1>6
    <3> QED BY <3>1
  <2>2. /\ SubSeq(longer, 3, n) \in Seq(Byte)
        /\ Len(SubSeq(longer, 3, n)) = n - 3 + 1
        /\ \A i \in 1 .. n - 3 + 1 : SubSeq(longer, 3, n)[i] = longer[i + 3 - 1]
    <3>1. longer \in Seq(Byte) /\ 1 <= 3 /\ 3 <= n + 1 /\ n <= Len(longer)
      BY <1>6, <2>1
    <3> QED BY <3>1, Slice
  <2>3. \A i \in 1 .. packet_idx + 4 : i + 3 - 1 = i + 2
    BY <1>1
  <2> QED BY <2>1, <2>2, <2>3
<1>8. /\ Whole[3] = rxmsg.seq /\ Whole[4] = rxmsg.sysid
      /\ Whole[5] = rxmsg.compid /\ Whole[6] = rxmsg.msgid
      /\ \A i \in 1 .. packet_idx : Whole[6 + i] = Stored[i]
  <2>1. \A i \in 1 .. packet_idx : Stored[i] = payload[i - 1]
    BY DEF Stored
  <2> QED BY <2>1, WholeFacts DEF IInv
<1> HIDE DEF part
<1>9. \A i \in 1 .. packet_idx + 4 : part[i] = msg[i]
  <2> TAKE i \in 1 .. packet_idx + 4
  <2>1. i + 2 \in 1 .. packet_idx + 6
    BY <1>1
  <2>2. part[i] = Whole[i + 2]
    BY <1>6, <1>7, <2>1
  <2>3. CASE i \in 1 .. 4
    <3>1. msg[i] = head[i]
      BY <1>5, <2>3
    <3> QED BY <1>2, <1>8, <2>2, <2>3, <3>1
  <2>4. CASE i > 4
    <3>1. PICK j \in 1 .. packet_idx : i = 4 + j /\ i + 2 = 6 + j
      <4>1. i - 4 \in 1 .. packet_idx /\ i = 4 + (i - 4) /\ i + 2 = 6 + (i - 4)
        BY <1>1, <2>4
      <4> QED BY <4>1
    <3> QED BY <1>5, <1>8, <2>2, <3>1
  <2> QED BY <1>1, <2>3, <2>4
<1>10. part = msg
  <2>1. Len(msg) = packet_idx + 4
    BY <1>1, <1>5
  <2> QED BY <1>5, <1>7, <1>9, <2>1, SeqEqual
<1>11. Receiver!Size(longer) - 2 = packet_idx + 6
  BY <1>1, <1>6
<1> QED BY <1>3, <1>10, <1>11 DEF longer, msg, part

(* Every byte is received the way the abstract receiver does it.           *)
LEMMA ParseReceives ==
  ASSUME IInv, SumOK, NEW c \in Byte, Parse(c)
  PROVE  Receiver!Receive(c)
<1> DEFINE longer == Append(Received, c)
<1>1. returned' = Nothing => Returned' = <<>>
  BY DEF Returned
<1>2. ASSUME returned' = Nothing, parse_state # "GOT_CRC1",
             Receiver!Continues(Received, c), Received' = longer
      PROVE  Receiver!Receive(c)
  <2>1. ~ (Receiver!ChecksumDue(longer) /\ Len(longer) = Receiver!Size(longer))
    BY <1>2, LongerIs
  <2> QED BY <1>1, <1>2, <2>1 DEF Receiver!Accept, Receiver!Receive
<1>3. ASSUME Reject(c), checksum' = SumInit \/ c # STX,
             ~ Receiver!Continues(Received, c)
      PROVE  Receiver!Receive(c)
  <2>1. Received' = IF c = STX THEN <<c>> ELSE <<>>
    BY <1>3, RejectDrops
  <2>2. returned' = Nothing
    BY <1>3 DEF Reject, Incomplete
  <2> QED BY <1>1, <1>3, <2>1, <2>2 DEF Receiver!Drop, Receiver!Receive
<1>4. CASE Idle(c)
  <2>1. /\ Received = <<>> /\ longer = <<c>> /\ returned' = Nothing
        /\ parse_state = "IDLE"
    BY <1>4 DEF Idle, Incomplete, Received
  <2>2. CASE c = STX
    <3>1. Received' = <<STX>>
      BY <1>4, <2>2 DEF Idle, Start, Received
    <3> QED BY <1>2, <2>1, <2>2, <3>1, GoesOn
  <2>3. CASE c # STX
    <3>1. Received' = <<>>
      BY <1>4, <2>3 DEF Idle, Received
    <3>2. ~ Receiver!Continues(Received, c)
      BY <2>1, <2>3, GoesOn
    <3> QED BY <1>1, <2>1, <2>3, <3>1, <3>2 DEF Receiver!Drop, Receiver!Receive
  <2> QED BY <2>2, <2>3
<1>5. CASE Waits(c)
  <2>1. /\ returned' = Nothing
        /\ parse_state \notin {"IDLE", "GOT_PAYLOAD", "GOT_CRC1"}
    BY <1>5 DEF Waits, Length, SeqNr, SysId, CompId, MsgId, HeaderByte, Payload, Incomplete
  <2>2. Received' = longer
    BY <1>5, Grows
  <2>3. Receiver!Continues(Received, c)
    BY <2>1, GoesOn
  <2> QED BY <1>2, <2>1, <2>2, <2>3
<1>6. CASE Checksum1(c)
  <2> DEFINE sum == Accumulate(Extra(rxmsg.msgid), checksum)
  <2>1. parse_state = "GOT_PAYLOAD"
    BY <1>6 DEF Checksum1
  <2>2. Receiver!Continues(Received, c) <=> c = Low(sum)
    BY <2>1, GoesOn
  <2>3. CASE c = Low(sum)
    <3>1. /\ parse_state' = "GOT_CRC1" /\ returned' = Nothing
          /\ payload' = [payload EXCEPT ![packet_idx] = c]
          /\ UNCHANGED <<packet_idx, rxmsg>>
      BY <1>6, <2>3 DEF Checksum1, Incomplete
    <3>2. Whole' = Whole
      BY <2>1, <3>1, ChecksumStored
    <3>3. payload'[packet_idx] = c
      <4>1. packet_idx \in 0 .. BufSize - 1 /\ payload \in [0 .. BufSize - 1 -> Byte]
        BY DEF IInv, TypeOK
      <4> QED BY <3>1, <4>1
    <3>4. Received = Whole
      BY <2>1, ReceivedIs
    <3>5. Received' = Append(Whole', payload'[packet_idx'])
      BY <3>1 DEF Received
    <3>6. Received' = longer
      BY <3>1, <3>2, <3>3, <3>4, <3>5
    <3> QED BY <1>2, <2>1, <2>2, <2>3, <3>1, <3>6
  <2>4. CASE c # Low(sum)
    BY <1>3, <1>6, <2>2, <2>4 DEF Checksum1
  <2> QED BY <2>3, <2>4
<1>7. CASE Checksum2(c)
  <2>1. parse_state = "GOT_CRC1"
    BY <1>7 DEF Checksum2
  <2>2. Receiver!Continues(Received, c) <=> c = High(checksum)
    BY <2>1, GoesOn
  <2>3. CASE c = High(checksum)
    <3>1. /\ parse_state' = "IDLE" /\ returned' = rxmsg
          /\ payload' = [payload EXCEPT ![packet_idx + 1] = c]
          /\ UNCHANGED <<packet_idx, rxmsg>>
      BY <1>7, <2>3 DEF Checksum2
    <3>2. Received' = <<>>
      BY <3>1 DEF Received
    <3>3. Returned' = SubSeq(longer, 3, Receiver!Size(longer) - 2)
      BY <2>1, <3>1, ReturnedIs
    <3>4. Receiver!ChecksumDue(longer) /\ Len(longer) = Receiver!Size(longer)
      BY <2>1, LongerIs
    <3> QED BY <2>2, <2>3, <3>2, <3>3, <3>4 DEF Receiver!Accept, Receiver!Receive
  <2>4. CASE c # High(checksum)
    BY <1>3, <1>7, <2>2, <2>4 DEF Checksum2
  <2> QED BY <2>3, <2>4
<1> QED BY <1>4, <1>5, <1>6, <1>7 DEF Parse, Waits

(* The invariant with the checksum.                                        *)
(* What the refinement needs of the parser: where its bytes are stored,    *)
(* and that its checksum is the sum over what it holds.                    *)
RInv == IInv /\ SumOK

(* At first there is nothing to sum up.                                    *)
LEMMA RInvInit == Init => RInv
<1>1. Init => SumOK
  BY DEF Init, SumOK
<1> QED BY <1>1, IInvInit DEF RInv

(* Every call keeps the sum right.                                         *)
LEMMA RInvStep == RInv /\ [Next]_vars => RInv'
<1> SUFFICES ASSUME RInv, [Next]_vars PROVE RInv'
  OBVIOUS
<1>1. IInv'
  BY IInvStep DEF RInv
<1>2. CASE Next
  <2>1. PICK c \in Byte : Parse(c)
    BY <1>2 DEF Next
  <2>2. SumOK'
    BY <2>1, SumOKStep DEF RInv
  <2> QED BY <1>1, <2>2 DEF RInv
<1>3. CASE UNCHANGED vars
  <2>1. SumOK'
    BY <1>3 DEF RInv, SumOK, Received, Whole, Stored, vars
  <2> QED BY <1>1, <2>1 DEF RInv
<1> QED BY <1>2, <1>3

(* The parser implements the abstract receiver: of all bytes that arrive,  *)
(* it hands over exactly the frames with the right checksum, drops a byte  *)
(* that fits no frame together with what went before, and takes the next   *)
(* start sign for what it is.                                              *)
THEOREM FramesAreReceived == Spec => ImplementsReceiver
<1>1. Init => Receiver!Init
  BY DEF Init, Receiver!Init, Received, Returned
<1>2. RInv /\ [Next]_vars =>
        [\A c \in Byte : Parse(c) => Receiver!Receive(c)]_vars
  BY ParseReceives DEF RInv
<1> QED BY <1>1, <1>2, RInvInit, RInvStep, PTL DEF Spec, ImplementsReceiver

-----------------------------------------------------------------------------
(* Frames on the line.                                                     *)

(* The sum of any bytes is a checksum.                                     *)
LEMMA RunningIsSum ==
  ASSUME NEW s \in Seq(Byte)
  PROVE  Receiver!Running(s) \in Sums
<1> DEFINE L == Len(s)
<1>1. L \in Nat /\ \A n \in 1 .. L : s[n] \in Byte
  BY LenProperties, ElementOfSeq
<1>2. PICK f : IsCrc(f, s, L) /\ Receiver!Running(s) = f[L]
  BY <1>1, RunningIsCrc
<1> HIDE DEF L
<1> DEFINE T == {n \in 0 .. L : f[n] \in Sums}
<1>3. \A n \in 0 .. L : f[n] = IF n < 2 THEN SumInit ELSE Accumulate(s[n], f[n - 1])
  BY <1>1, <1>2, CrcValues
<1>4. 0 \in T
  BY <1>1, <1>3, SumsAssumption
<1>5. ASSUME NEW n \in 1 .. L, n - 1 \in T PROVE n \in T
  <2>1. n \in 0 .. L /\ s[n] \in Byte /\ f[n - 1] \in Sums
    BY <1>1, <1>5
  <2>2. Accumulate(s[n], f[n - 1]) \in Sums
    BY <2>1, SumsAssumption
  <2> QED BY <1>3, <2>1, <2>2, SumsAssumption
<1>6. \A n \in 0 .. L : n \in T
  <2> HIDE DEF T
  <2> QED BY <1>1, <1>4, <1>5, Induction
<1> QED BY <1>1, <1>2, <1>6 DEF L

(* A message with a sequence number.                                       *)
Sendable ==
  {m \in [seq : Byte, msgid : Byte, payload : Seq(Byte)] : Len(m.payload) \in Byte}

(* What the checksum is of, and the checksum.                              *)
Front(m) == <<STX>> \o Body(m)
SumOf(m) == Accumulate(Extra(m.msgid), Receiver!Running(Front(m)))

(* A frame without its checksum, byte by byte.                             *)
LEMMA FrontIs ==
  ASSUME NEW m \in Sendable
  PROVE  LET n == Len(m.payload) IN
         /\ n \in Byte
         /\ Front(m) \in Seq(Byte) /\ Len(Front(m)) = n + 6
         /\ Front(m)[1] = STX /\ Front(m)[2] = n /\ Front(m)[3] = m.seq
         /\ Front(m)[4] = SysId0 /\ Front(m)[5] = CompId0 /\ Front(m)[6] = m.msgid
         /\ \A i \in 1 .. n : Front(m)[6 + i] = m.payload[i]
<1> DEFINE n == Len(m.payload)
           start == <<STX>>
           head == <<n, m.seq, SysId0, CompId0, m.msgid>>
<1>1. /\ m.payload \in Seq(Byte) /\ n \in Byte /\ m.seq \in Byte /\ m.msgid \in Byte
      /\ SysId0 \in Byte /\ CompId0 \in Byte
  BY MessagesAssumption DEF Sendable
<1> HIDE DEF n
<1>2. start \in Seq(Byte) /\ Len(start) = 1 /\ start[1] = STX
  OBVIOUS
<1>3. /\ head \in Seq(Byte) /\ Len(head) = 5
      /\ head[1] = n /\ head[2] = m.seq /\ head[3] = SysId0
      /\ head[4] = CompId0 /\ head[5] = m.msgid
  BY <1>1
<1>4. Front(m) = start \o Body(m) /\ Body(m) = head \o m.payload
  BY DEF Front, Body, n
<1> HIDE DEF start, head
<1>5. /\ Body(m) \in Seq(Byte) /\ Len(Body(m)) = 5 + n
      /\ \A i \in 1 .. 5 : Body(m)[i] = head[i]
      /\ \A i \in 1 .. n : Body(m)[5 + i] = m.payload[i]
  <2>1. /\ head \o m.payload \in Seq(Byte)
        /\ Len(head \o m.payload) = Len(head) + Len(m.payload)
        /\ \A i \in 1 .. Len(head) : (head \o m.payload)[i] = head[i]
        /\ \A i \in 1 .. Len(m.payload) : (head \o m.payload)[Len(head) + i] = m.payload[i]
    BY <1>1, <1>3, Joined
  <2> QED BY <1>3, <1>4, <2>1 DEF n
<1>6. /\ Front(m) \in Seq(Byte) /\ Len(Front(m)) = 1 + (5 + n)
      /\ Front(m)[1] = STX
      /\ \A i \in 1 .. 5 + n : Front(m)[1 + i] = Body(m)[i]
  <2> DEFINE body == Body(m)
  <2>1. body \in Seq(Byte) /\ Len(body) = 5 + n /\ Front(m) = start \o body
    BY <1>4, <1>5
  <2> HIDE DEF body
  <2>2. /\ start \o body \in Seq(Byte)
        /\ Len(start \o body) = Len(start) + Len(body)
        /\ \A i \in 1 .. Len(start) : (start \o body)[i] = start[i]
        /\ \A i \in 1 .. Len(body) : (start \o body)[Len(start) + i] = body[i]
    BY <1>2, <2>1, Joined
  <2>3. 1 \in 1 .. Len(start)
    BY <1>2
  <2> QED BY <1>2, <2>1, <2>2, <2>3 DEF body
<1>7. /\ Front(m)[2] = n /\ Front(m)[3] = m.seq
      /\ Front(m)[4] = SysId0 /\ Front(m)[5] = CompId0 /\ Front(m)[6] = m.msgid
  <2>1. ASSUME NEW i \in 1 .. 5 PROVE Front(m)[1 + i] = head[i]
    <3>1. i \in 1 .. 5 + n
      BY <1>1
    <3> QED BY <1>5, <1>6, <3>1
  <2>2. /\ Front(m)[1 + 1] = head[1] /\ Front(m)[1 + 2] = head[2]
        /\ Front(m)[1 + 3] = head[3] /\ Front(m)[1 + 4] = head[4]
        /\ Front(m)[1 + 5] = head[5]
    BY <2>1
  <2> QED BY <1>3, <2>2
<1>8. ASSUME NEW i \in 1 .. n PROVE Front(m)[6 + i] = m.payload[i]
  <2>1. PICK j \in 1 .. 5 + n : j = 5 + i /\ 1 + j = 6 + i
    <3>1. 5 + i \in 1 .. 5 + n /\ 1 + (5 + i) = 6 + i
      BY <1>1
    <3> QED BY <3>1
  <2> QED BY <1>5, <1>6, <2>1
<1>9. 1 + (5 + n) = n + 6
  BY <1>1
<1> QED BY <1>1, <1>6, <1>7, <1>8, <1>9 DEF n

(* A frame, byte by byte.                                                  *)
LEMMA FrameIs ==
  ASSUME NEW m \in Sendable
  PROVE  LET n == Len(m.payload) IN
         /\ n \in Byte
         /\ Frame(m) \in Seq(Byte) /\ Len(Frame(m)) = n + 8
         /\ \A i \in 1 .. n + 6 : Frame(m)[i] = Front(m)[i]
         /\ Frame(m)[n + 7] = Low(SumOf(m)) /\ Frame(m)[n + 8] = High(SumOf(m))
<1> DEFINE n == Len(m.payload)
           front == Front(m)
           last == <<Low(SumOf(m)), High(SumOf(m))>>
<1>1. n \in Byte /\ front \in Seq(Byte) /\ Len(front) = n + 6
  BY FrontIs
<1>2. SumOf(m) \in Sums
  <2>1. Receiver!Running(Front(m)) \in Sums
    BY <1>1, RunningIsSum
  <2>2. Extra(m.msgid) \in Byte
    BY SumsAssumption DEF Sendable
  <2> QED BY <2>1, <2>2, SumsAssumption DEF SumOf
<1>3. /\ last \in Seq(Byte) /\ Len(last) = 2
      /\ last[1] = Low(SumOf(m)) /\ last[2] = High(SumOf(m))
  BY <1>2, SumsAssumption
<1>4. Frame(m) = front \o last
  BY DEF Frame, CRC, Front, SumOf
<1> HIDE DEF n, front, last
<1>5. /\ front \o last \in Seq(Byte) /\ Len(front \o last) = Len(front) + Len(last)
      /\ \A i \in 1 .. Len(front) : (front \o last)[i] = front[i]
      /\ \A i \in 1 .. Len(last) : (front \o last)[Len(front) + i] = last[i]
  BY <1>1, <1>3, Joined
<1>6. (n + 6) + 1 = n + 7 /\ (n + 6) + 2 = n + 8 /\ 1 \in 1 .. Len(last) /\ 2 \in 1 .. Len(last)
  BY <1>1, <1>3
<1>7. Frame(m)[n + 7] = last[1] /\ Frame(m)[n + 8] = last[2]
  BY <1>1, <1>4, <1>5, <1>6
<1>8. /\ Frame(m) \in Seq(Byte) /\ Len(Frame(m)) = n + 8
      /\ \A i \in 1 .. n + 6 : Frame(m)[i] = front[i]
  BY <1>1, <1>3, <1>4, <1>5, <1>6
<1> QED BY <1>1, <1>3, <1>7, <1>8 DEF n, front

(* What the receiver sees in the first k bytes of a frame.                 *)
LEMMA FrameFacts ==
  ASSUME NEW m \in Sendable, NEW k \in Nat, k <= Len(Frame(m))
  PROVE  LET n == Len(m.payload)
             s == SubSeq(Frame(m), 1, k)
         IN /\ s \in Seq(Byte) /\ Len(s) = k
            /\ k >= 2 => s[2] = n /\ Receiver!Size(s) = n + 8
            /\ k >= n + 6 => Receiver!Sum(s) = SumOf(m)
            /\ k >= n + 6 => \A i \in 1 .. n + 6 : s[i] = Front(m)[i]
<1> DEFINE n == Len(m.payload)
           s == SubSeq(Frame(m), 1, k)
           front == Front(m)
<1>1. /\ n \in Nat /\ Frame(m) \in Seq(Byte) /\ Len(Frame(m)) = n + 8
      /\ \A i \in 1 .. n + 6 : Frame(m)[i] = front[i]
      /\ front \in Seq(Byte) /\ Len(front) = n + 6 /\ front[2] = n /\ front[6] = m.msgid
  BY FrameIs, FrontIs
<1>2. s \in Seq(Byte) /\ Len(s) = k /\ \A i \in 1 .. k : s[i] = Frame(m)[i]
  BY <1>1, Beginning
<1> HIDE DEF s, n, front
<1>3. ASSUME k >= 2 PROVE s[2] = n /\ Receiver!Size(s) = n + 8
  <2>1. 2 \in 1 .. k /\ 2 \in 1 .. n + 6
    BY <1>1, <1>3
  <2>2. s[2] = n
    BY <1>1, <1>2, <2>1
  <2> QED BY <1>1, <2>2 DEF Receiver!Size
<1>4. ASSUME k >= n + 6
      PROVE  /\ \A i \in 1 .. n + 6 : s[i] = front[i]
             /\ Receiver!Sum(s) = SumOf(m)
  <2>1. \A i \in 1 .. n + 6 : i \in 1 .. k /\ s[i] = front[i]
    BY <1>1, <1>2, <1>4
  <2>2. s[2] = n /\ s[6] = m.msgid
    <3>1. 2 \in 1 .. n + 6 /\ 6 \in 1 .. n + 6
      BY <1>1
    <3> QED BY <1>1, <2>1, <3>1
  <2>3. PICK l \in Nat : l = 6 + n /\ l = n + 6 /\ l <= Len(s)
    BY <1>1, <1>2, <1>4
  <2>4. /\ SubSeq(s, 1, l) \in Seq(Byte) /\ Len(SubSeq(s, 1, l)) = l
        /\ \A i \in 1 .. l : SubSeq(s, 1, l)[i] = s[i]
    BY <1>2, <2>3, Beginning
  <2>5. \A i \in 1 .. l : SubSeq(s, 1, l)[i] = front[i]
    BY <2>1, <2>3, <2>4
  <2>6. SubSeq(s, 1, l) = front
    BY <1>1, <2>3, <2>4, <2>5, SeqEqual
  <2> QED BY <2>1, <2>2, <2>3, <2>6 DEF Receiver!Sum, SumOf, front
<1> QED BY <1>2, <1>3, <1>4 DEF s, n, front

(* A frame goes on with its own bytes.                                     *)
LEMMA FrameContinues ==
  ASSUME NEW m \in Sendable, NEW k \in Nat, k < Len(Frame(m))
  PROVE  Receiver!Continues(SubSeq(Frame(m), 1, k), Frame(m)[k + 1])
<1> DEFINE n == Len(m.payload)
           s == SubSeq(Frame(m), 1, k)
           b == Frame(m)[k + 1]
<1>1. /\ n \in Nat /\ Len(Frame(m)) = n + 8
      /\ Frame(m)[n + 7] = Low(SumOf(m)) /\ Frame(m)[n + 8] = High(SumOf(m))
      /\ \A i \in 1 .. n + 6 : Frame(m)[i] = Front(m)[i]
      /\ Front(m)[1] = STX
  BY FrameIs, FrontIs
<1>2. /\ Len(s) = k /\ k <= n + 7
      /\ k >= 2 => Receiver!Size(s) = n + 8
      /\ k >= n + 6 => Receiver!Sum(s) = SumOf(m)
  <2>1. k <= Len(Frame(m)) /\ k <= n + 7
    <3> HIDE DEF n
    <3> QED BY <1>1
  <2> QED BY <2>1, FrameFacts
<1> HIDE DEF n
<1>3. CASE k = 0
  <2>1. s = <<>>
    BY <1>3, SubSeqEmpty
  <2>2. b = STX
    <3>1. 1 \in 1 .. n + 6 /\ k + 1 = 1
      BY <1>1, <1>3
    <3> QED BY <1>1, <3>1
  <2>3. Receiver!Continues(<<>>, STX)
    <3>1. ~ Receiver!ChecksumDue(<<>>)
      BY DEF Receiver!ChecksumDue
    <3> QED BY <3>1 DEF Receiver!Continues
  <2> QED BY <2>1, <2>2, <2>3
<1> HIDE DEF s, b
<1>4. CASE k > 0
  <2>1. Len(s) # 0 /\ s # <<>>
    <3>1. Len(s) # 0
      BY <1>2, <1>4
    <3> QED BY <3>1
  <2>2. ASSUME Receiver!ChecksumDue(s)
        PROVE  b = IF Len(s) = Receiver!Size(s) - 2 THEN Low(Receiver!Sum(s))
                                                    ELSE High(Receiver!Sum(s))
    <3>1. Len(s) > 5 /\ Len(s) >= Receiver!Size(s) - 2
      BY <2>2 DEF Receiver!ChecksumDue
    <3>2. k >= n + 6 /\ Receiver!Size(s) - 2 = n + 6
      BY <1>1, <1>2, <3>1
    <3>3. CASE k = n + 6
      <4>1. k + 1 = n + 7
        BY <1>1, <3>3
      <4> QED BY <1>1, <1>2, <3>2, <3>3, <4>1 DEF b
    <3>4. CASE k = n + 7
      <4>1. k + 1 = n + 8 /\ k # n + 6
        BY <1>1, <3>4
      <4> QED BY <1>1, <1>2, <3>2, <3>4, <4>1 DEF b
    <3> QED BY <1>1, <1>2, <3>2, <3>3, <3>4
  <2>3. Receiver!Continues(s, b)
    BY <2>1, <2>2 DEF Receiver!Continues
  <2> QED BY <2>3 DEF s, b
<1> QED BY <1>3, <1>4 DEF s, b

(* The end of a sequence, from its byte k + 1 on.                          *)
LEMMA Ending ==
  ASSUME NEW f \in Seq(Byte), NEW k \in Nat, k < Len(f)
  PROVE  LET r == SubSeq(f, k + 1, Len(f)) IN
         /\ r \in Seq(Byte) /\ Len(r) = Len(f) - k /\ r # <<>>
         /\ \A i \in 1 .. Len(f) - k : r[i] = f[k + i]
         /\ Head(r) = f[k + 1] /\ f[k + 1] \in Byte
         /\ Tail(r) = SubSeq(f, (k + 1) + 1, Len(f))
         /\ k + 1 = Len(f) => Tail(r) = <<>>
<1> DEFINE r == SubSeq(f, k + 1, Len(f))
<1>1. PICK m \in Int, n \in Int :
           /\ m = k + 1 /\ n = Len(f) /\ 1 <= m /\ m <= n /\ m <= n + 1
           /\ n - m + 1 = Len(f) - k
  BY LenProperties
<1>2. /\ r \in Seq(Byte) /\ Len(r) = Len(f) - k
      /\ \A i \in 1 .. Len(f) - k : r[i] = f[k + i]
  <2>1. /\ SubSeq(f, m, n) \in Seq(Byte) /\ Len(SubSeq(f, m, n)) = n - m + 1
        /\ \A i \in 1 .. n - m + 1 : SubSeq(f, m, n)[i] = f[i + m - 1]
    <3>1. n <= Len(f) /\ 1 <= m /\ m <= n + 1
      BY <1>1
    <3> QED BY <3>1, Slice
  <2>2. \A i \in 1 .. Len(f) - k : i + m - 1 = k + i
    BY <1>1
  <2> QED BY <1>1, <2>1, <2>2
<1>3. r # <<>>
  <2>1. Len(r) # 0
    BY <1>2, LenProperties
  <2> HIDE DEF r
  <2> QED BY <2>1
<1>4. f[k + 1] \in Byte
  <2>1. k + 1 \in 1 .. Len(f)
    BY LenProperties
  <2> QED BY <2>1, ElementOfSeq
<1>5. Head(r) = f[k + 1] /\ Tail(r) = SubSeq(f, (k + 1) + 1, Len(f))
  <2>1. k + 1 \in 1 .. Len(f) /\ Len(f) \in k + 1 .. Len(f)
    BY LenProperties
  <2> QED BY <2>1, HeadTailOfSubSeq
<1>6. k + 1 = Len(f) => Tail(r) = <<>>
  <2> SUFFICES ASSUME k + 1 = Len(f) PROVE Tail(r) = <<>>
    OBVIOUS
  <2>1. (k + 1) + 1 \in Int /\ Len(f) \in Int /\ Len(f) < (k + 1) + 1
    BY LenProperties
  <2>2. SubSeq(f, (k + 1) + 1, Len(f)) = <<>>
    BY <2>1, SubSeqEmpty
  <2> QED BY <1>5, <2>2
<1> QED BY <1>2, <1>3, <1>4, <1>5, <1>6

-----------------------------------------------------------------------------
(* The parser in step with the line, and out of it.                        *)

(* The latest frame, all but its first k bytes, is pending.                *)
Left(k) ==
  /\ k < Len(Frame(sent))
  /\ pending = SubSeq(Frame(sent), k + 1, Len(Frame(sent)))

(* The parser holds exactly what of that frame is not pending.             *)
Synced ==
  /\ sent \in Sendable
  /\ \E k \in Nat : Left(k) /\ Received = SubSeq(Frame(sent), 1, k)

(* No start sign is pending.                                               *)
NoStart == \A i \in 1 .. Len(pending) : pending[i] # STX

(* What is pending is the rest of the latest frame.                        *)
OnTheLine == pending # <<>> => sent \in Sendable /\ \E k \in Nat : Left(k)

(* An undisturbed frame that found the parser idle keeps it in step.       *)
InStep == intact /\ pending # <<>> => Synced

(* In a row of plain frames the parser is in step, waits for the start of  *)
(* the next frame, or has held a false frame since the row began.          *)
Settling ==
  settled # Unsettled =>
    /\ settled \in 0 .. Enough
    /\ pending # <<>> => IsPlain(Frame(sent))
    /\ \/ Synced
       \/ Received = <<>> /\ NoStart
       \/ Len(Received) > settled

(* A byte behind the header lost, the parser is one byte behind or has     *)
(* given the frame up.  The next start sign is then taken for the last     *)
(* byte of the checksum; either it is right, or the parser is in step.     *)
OneShort ==
  /\ since \in Nat
  /\ short = "now" =>
       /\ NoStart
       /\ \/ Received = <<>>
          \/ /\ Len(Received) >= 6
             /\ Len(Received) + Len(pending) + 1 = Receiver!Size(Received)
  /\ short = "before" =>
       \/ since >= 1
       \/ Synced
       \/ /\ sent \in Sendable /\ Left(0)
          /\ Len(Received) >= 6
          /\ Len(Received) + 1 = Receiver!Size(Received)

(* The line and how the parser stands to it, which is inductive together   *)
(* with what holds of the parser by itself.                                *)
LineInv ==
  /\ pending \in Seq(Byte) /\ current_tx_seq \in Byte
  /\ OnTheLine /\ InStep /\ Settling /\ OneShort

SInv == RInv /\ LineInv

(* What a byte does to the bytes held.                                     *)
LEMMA HoldsOn ==
  ASSUME RInv, NEW c \in Byte, Parse(c)
  PROVE  LET longer == Append(Received, c)
             done == Receiver!ChecksumDue(longer) /\ Len(longer) = Receiver!Size(longer)
         IN /\ done <=> parse_state = "GOT_CRC1"
            /\ Receiver!Continues(Received, c) /\ ~ done =>
                 Received' = longer /\ returned' = Nothing
            /\ Receiver!Continues(Received, c) /\ done =>
                 Received' = <<>> /\ returned' = rxmsg /\ returned' # Nothing
            /\ ~ Receiver!Continues(Received, c) =>
                 Received' = IF c = STX THEN <<c>> ELSE <<>>
<1> DEFINE longer == Append(Received, c)
           done == Receiver!ChecksumDue(longer) /\ Len(longer) = Receiver!Size(longer)
<1>1. IInv /\ SumOK
  BY DEF RInv
<1>2. done <=> parse_state = "GOT_CRC1"
  BY <1>1, LongerIs
<1>3. Receiver!Accept(c) \/ Receiver!Drop(c)
  BY <1>1, ParseReceives DEF Receiver!Receive
<1>4. parse_state # "GOT_CRC1" => returned' = Nothing
  BY DEF Parse, Idle, Length, SeqNr, SysId, CompId, MsgId, HeaderByte, Payload,
         Checksum1, Checksum2, Reject, Incomplete
<1>5. Receiver!Continues(Received, c) /\ ~ done => Received' = longer /\ returned' = Nothing
  BY <1>2, <1>3, <1>4 DEF Receiver!Accept, Receiver!Drop
<1>6. Receiver!Continues(Received, c) /\ done =>
        Received' = <<>> /\ returned' = rxmsg /\ returned' # Nothing
  <2> SUFFICES ASSUME Receiver!Continues(Received, c), done
               PROVE  Received' = <<>> /\ returned' = rxmsg /\ returned' # Nothing
    OBVIOUS
  <2>1. parse_state = "GOT_CRC1"
    BY <1>2
  <2>2. Checksum2(c)
    BY <2>1 DEF Parse, Idle, Length, SeqNr, SysId, CompId, MsgId, HeaderByte, Payload,
                Checksum1
  <2>3. c = High(checksum)
    BY <1>1, <2>1, GoesOn
  <2>4. parse_state' = "IDLE" /\ returned' = rxmsg
    BY <2>2, <2>3 DEF Checksum2
  <2>5. Received' = <<>>
    BY <2>4 DEF Received
  <2>6. rxmsg # Nothing
    <3>1. rxmsg.len \in Nat
      BY <1>1 DEF IInv, TypeOK, Header
    <3>2. [len |-> -1].len = -1
      OBVIOUS
    <3> QED BY <3>1, <3>2 DEF Nothing
  <2> QED BY <2>4, <2>5, <2>6
<1>7. ~ Receiver!Continues(Received, c) => Received' = IF c = STX THEN <<c>> ELSE <<>>
  BY <1>3 DEF Receiver!Accept, Receiver!Drop
<1> QED BY <1>2, <1>5, <1>6, <1>7

(* The frame's own next byte keeps the parser in step; its last byte       *)
(* returns the message as it was sent.                                     *)
LEMMA SyncedStep ==
  ASSUME RInv, sent \in Sendable, NEW k \in Nat, Left(k),
         Received = SubSeq(Frame(sent), 1, k),
         Parse(Head(pending)), pending' = Tail(pending)
  PROVE  /\ k + 1 # Len(Frame(sent)) =>
              /\ k + 1 < Len(Frame(sent))
              /\ pending' = SubSeq(Frame(sent), (k + 1) + 1, Len(Frame(sent)))
              /\ Received' = SubSeq(Frame(sent), 1, k + 1)
              /\ returned' = Nothing
         /\ k + 1 = Len(Frame(sent)) =>
              /\ pending' = <<>> /\ Received' = <<>>
              /\ AsSent /\ returned' # Nothing
<1> DEFINE f == Frame(sent)
           n == Len(sent.payload)
           c == f[k + 1]
           longer == SubSeq(f, 1, k + 1)
<1>1. n \in Nat /\ f \in Seq(Byte) /\ Len(f) = n + 8 /\ k < Len(f)
  <2>1. n \in Nat /\ f \in Seq(Byte) /\ Len(f) = n + 8
    BY FrameIs
  <2> QED BY <2>1 DEF Left
<1>2. /\ c \in Byte /\ Parse(c) /\ pending' = SubSeq(f, (k + 1) + 1, Len(f))
      /\ k + 1 = Len(f) => pending' = <<>>
  BY <1>1, Ending DEF Left
<1>3. Append(Received, c) = longer
  BY <1>1, NextByte
<1>4. Receiver!Continues(Received, c)
  BY <1>1, FrameContinues
<1>5. PICK l \in Nat : l = k + 1 /\ l <= Len(f)
  BY <1>1
<1>6. /\ longer \in Seq(Byte) /\ Len(longer) = k + 1
      /\ k + 1 >= 2 => longer[2] = n /\ Receiver!Size(longer) = n + 8
      /\ k + 1 >= n + 6 => \A i \in 1 .. n + 6 : longer[i] = Front(sent)[i]
  BY <1>5, FrameFacts
<1> HIDE DEF f, c, longer, n
<1> DEFINE done == Receiver!ChecksumDue(longer) /\ Len(longer) = Receiver!Size(longer)
<1>7. done <=> k + 1 = Len(f)
  <2>1. CASE k + 1 >= 2
    BY <1>1, <1>6, <2>1 DEF Receiver!ChecksumDue
  <2>2. CASE ~ (k + 1 >= 2)
    BY <1>1, <1>6, <2>2 DEF Receiver!ChecksumDue
  <2> QED BY <2>1, <2>2
<1>8. /\ done <=> parse_state = "GOT_CRC1"
      /\ ~ done => Received' = longer /\ returned' = Nothing
      /\ done => Received' = <<>> /\ returned' = rxmsg /\ returned' # Nothing
  BY <1>2, <1>3, <1>4, HoldsOn
<1> HIDE DEF done
<1>9. CASE k + 1 # Len(f)
  <2>1. k + 1 < Len(f)
    BY <1>1, <1>9
  <2> QED BY <1>2, <1>7, <1>8, <1>9, <2>1 DEF f, longer
<1>10. CASE k + 1 = Len(f)
  <2>1. parse_state = "GOT_CRC1" /\ returned' = rxmsg
    BY <1>7, <1>8, <1>10
  <2>2. IInv /\ TypeOK /\ packet_idx = rxmsg.len /\ packet_idx \in Nat /\ rxmsg \in Header
    BY <2>1 DEF RInv, IInv, IndexOK, TypeOK
  <2>3. /\ Receiver!Size(longer) = packet_idx + 8
        /\ \A i \in 1 .. packet_idx + 6 : longer[i] = Whole[i]
    BY <1>2, <1>3, <2>1, <2>2, LongerIs
  <2>4. packet_idx = n /\ rxmsg.len = n
    BY <1>1, <1>6, <1>10, <2>2, <2>3
  <2>5. \A i \in 1 .. n + 6 : Whole[i] = Front(sent)[i]
    BY <1>1, <1>6, <1>10, <2>3, <2>4
  <2>6. /\ Whole[3] = rxmsg.seq /\ Whole[4] = rxmsg.sysid
        /\ Whole[5] = rxmsg.compid /\ Whole[6] = rxmsg.msgid
        /\ \A i \in 1 .. n : Whole[6 + i] = payload[i - 1]
    BY <2>2, <2>4, WholeFacts
  <2>7. /\ Front(sent)[3] = sent.seq /\ Front(sent)[4] = SysId0
        /\ Front(sent)[5] = CompId0 /\ Front(sent)[6] = sent.msgid
        /\ \A i \in 1 .. n : Front(sent)[6 + i] = sent.payload[i]
    BY FrontIs DEF n
  <2>8. /\ rxmsg.seq = sent.seq /\ rxmsg.sysid = SysId0
        /\ rxmsg.compid = CompId0 /\ rxmsg.msgid = sent.msgid
    <3>1. 3 \in 1 .. n + 6 /\ 4 \in 1 .. n + 6 /\ 5 \in 1 .. n + 6 /\ 6 \in 1 .. n + 6
      BY <1>1
    <3> QED BY <2>5, <2>6, <2>7, <3>1
  <2>9. returned' = [len |-> n, seq |-> sent.seq, sysid |-> SysId0,
                     compid |-> CompId0, msgid |-> sent.msgid]
    BY <2>1, <2>2, <2>4, <2>8 DEF Header
  <2>10. \A i \in 1 .. n : payload'[i - 1] = sent.payload[i]
    <3>1. /\ payload' = [payload EXCEPT ![packet_idx + 1] = c]
          /\ UNCHANGED <<packet_idx, rxmsg>>
      <4>1. c = High(checksum)
        BY <1>2, <1>4, <2>1, GoesOn DEF RInv
      <4>2. Checksum2(c)
        BY <1>2, <2>1 DEF Parse, Idle, Length, SeqNr, SysId, CompId, MsgId, HeaderByte,
                          Payload, Checksum1
      <4> QED BY <4>1, <4>2 DEF Checksum2
    <3>2. \A i \in 1 .. packet_idx : payload'[i - 1] = payload[i - 1]
      BY <1>2, <2>1, <2>2, <3>1, ChecksumStored
    <3>3. \A i \in 1 .. n : 6 + i \in 1 .. n + 6
      BY <1>1
    <3> QED BY <2>4, <2>5, <2>6, <2>7, <3>2, <3>3
  <2>11. AsSent
    <3>1. DOMAIN sent.payload = 1 .. n
      BY LenProperties DEF Sendable, n
    <3> QED BY <2>9, <2>10, <3>1 DEF AsSent, n
  <2> QED BY <1>2, <1>7, <1>8, <1>10, <2>11 DEF f
<1> QED BY <1>9, <1>10 DEF f

(* Whatever the line does to it, the parser makes its own steps.           *)
LEMMA ParserOfLine ==
  /\ StreamInit => Init
  /\ pending \in Seq(Byte) /\ [StreamNext]_all => [Next]_vars
<1>1. StreamInit => Init
  BY DEF StreamInit
<1>2. ASSUME pending \in Seq(Byte), [StreamNext]_all PROVE [Next]_vars
  <2>1. UNCHANGED parser => UNCHANGED vars
    BY DEF parser, vars
  <2>2. CASE (\E m \in Messages : Begin(m)) \/ Lose
    BY <2>1, <2>2 DEF Begin, Lose
  <2>3. CASE Arrive
    <3>1. Head(pending) \in Byte
      BY <1>2, <2>3, HeadTailProperties DEF Arrive
    <3> QED BY <2>3, <3>1 DEF Arrive, Next
  <2>4. CASE \E b \in Byte : Damage(b) \/ Noise(b)
    BY <2>4 DEF Damage, Noise, Next
  <2>5. CASE UNCHANGED all
    BY <2>1, <2>5 DEF all
  <2> QED BY <1>2, <2>2, <2>3, <2>4, <2>5 DEF StreamNext
<1> QED BY <1>1, <1>2

(* A frame on the line, before and behind its byte k + 1.                  *)
LEMMA LeftIs ==
  ASSUME sent \in Sendable, NEW k \in Nat, Left(k)
  PROVE  LET f == Frame(sent) IN
         /\ f \in Seq(Byte) /\ Len(f) = Len(sent.payload) + 8 /\ Len(sent.payload) \in Nat
         /\ k < Len(f) /\ Len(pending) = Len(f) - k /\ pending # <<>>
         /\ Head(pending) = f[k + 1] /\ f[k + 1] \in Byte
         /\ Len(Tail(pending)) = Len(f) - k - 1
         /\ \A i \in 1 .. Len(f) - k - 1 : /\ Tail(pending)[i] = f[k + 1 + i]
                                           /\ Tail(pending)[i] = pending[i + 1]
         /\ Tail(pending) = SubSeq(f, (k + 1) + 1, Len(f))
         /\ Tail(pending) # <<>> => k + 1 < Len(f)
<1> DEFINE f == Frame(sent)
<1>1. /\ f \in Seq(Byte) /\ Len(f) = Len(sent.payload) + 8 /\ Len(sent.payload) \in Nat
      /\ k < Len(f) /\ pending = SubSeq(f, k + 1, Len(f))
  BY FrameIs DEF Left
<1> HIDE DEF f
<1>2. /\ pending \in Seq(Byte) /\ Len(pending) = Len(f) - k /\ pending # <<>>
      /\ \A i \in 1 .. Len(f) - k : pending[i] = f[k + i]
      /\ Head(pending) = f[k + 1] /\ f[k + 1] \in Byte
      /\ Tail(pending) = SubSeq(f, (k + 1) + 1, Len(f))
      /\ k + 1 = Len(f) => Tail(pending) = <<>>
  BY <1>1, Ending
<1>3. /\ Tail(pending) \in Seq(Byte)
      /\ Len(Tail(pending)) = Len(pending) - 1
      /\ \A i \in 1 .. Len(pending) - 1 : Tail(pending)[i] = pending[i + 1]
  BY <1>2, HeadTailProperties
<1>4. Len(f) \in Nat /\ Len(Tail(pending)) = Len(f) - k - 1
  BY <1>1, <1>2, <1>3
<1>5. \A i \in 1 .. Len(f) - k - 1 : /\ Tail(pending)[i] = f[k + 1 + i]
                                     /\ Tail(pending)[i] = pending[i + 1]
  <2> TAKE i \in 1 .. Len(f) - k - 1
  <2>1. i \in 1 .. Len(pending) - 1 /\ i + 1 \in 1 .. Len(f) - k /\ k + (i + 1) = k + 1 + i
    BY <1>1, <1>2, <1>4
  <2> QED BY <1>2, <1>3, <2>1
<1>6. Tail(pending) # <<>> => k + 1 < Len(f)
  <2>1. Tail(pending) # <<>> => k + 1 # Len(f)
    BY <1>2
  <2>2. k < Len(f)
    BY <1>1
  <2> QED BY <1>4, <2>1, <2>2
<1> QED BY <1>1, <1>2, <1>4, <1>5, <1>6 DEF f

(* The first byte of a sequence.                                           *)
LEMMA FirstByte ==
  ASSUME NEW f \in Seq(Byte), Len(f) > 0
  PROVE  SubSeq(f, 1, 1) = <<f[1]>> /\ SubSeq(f, 1, 0) = <<>>
<1>1. SubSeq(f, 1, 0) = <<>>
  BY SubSeqEmpty
<1>2. PICK k \in Nat : k = 0 /\ k < Len(f) /\ k + 1 = 1
  BY LenProperties
<1>3. f[k + 1] \in Byte /\ Append(SubSeq(f, 1, k), f[k + 1]) = SubSeq(f, 1, k + 1)
  BY <1>2, NextByte
<1>4. Append(<<>>, f[1]) = <<f[1]>>
  OBVIOUS
<1> QED BY <1>1, <1>2, <1>3, <1>4

(* A frame begins.                                                         *)
LEMMA BeginStep ==
  ASSUME SInv, NEW m \in Messages, Begin(m)
  PROVE  LineInv'
<1> DEFINE f == Frame(sent')
<1>1. /\ pending = <<>> /\ sent' = [m EXCEPT !.seq = current_tx_seq]
      /\ pending' = f /\ current_tx_seq' = (current_tx_seq + 1) % W
      /\ intact' = (parse_state = "IDLE") /\ parse_state' = parse_state
      /\ Received' = Received
  BY DEF Begin, parser, vars, Received, Whole, Stored
<1>2. sent' \in Sendable
  <2>1. m \in [seq : Byte, msgid : Byte, payload : Seq(Byte)] /\ Len(m.payload) \in Byte
    BY MessagesAssumption
  <2>2. current_tx_seq \in Byte
    BY DEF SInv, LineInv
  <2> QED BY <1>1, <2>1, <2>2 DEF Sendable
<1>3. Frame(sent)' = f
  BY DEF Frame
<1>4. f \in Seq(Byte) /\ Len(f) \in Nat /\ 0 < Len(f)
  BY <1>2, FrameIs
<1> HIDE DEF f
<1>5. f = SubSeq(f, 0 + 1, Len(f)) /\ SubSeq(f, 1, 0) = <<>>
  BY <1>4, SubSeqFull, FirstByte
<1>6. Left(0)'
  BY <1>1, <1>3, <1>4, <1>5 DEF Left
<1>7. Received = <<>> => Synced'
  <2> SUFFICES ASSUME Received = <<>> PROVE Synced'
    OBVIOUS
  <2>1. Received' = SubSeq(f, 1, 0) /\ 0 \in Nat
    BY <1>1, <1>5
  <2> QED BY <1>2, <1>3, <1>6, <2>1 DEF Synced
<1>8. InStep'
  <2>1. intact' => Received = <<>>
    BY <1>1, ReceivedIs
  <2> QED BY <1>7, <2>1 DEF InStep
<1>9. ~ Synced
  BY <1>1, LeftIs DEF Synced
<1>10. Len(Received) \in Nat
  BY HeldIs, LenProperties DEF SInv, RInv
<1>11. Settling'
  <2> SUFFICES ASSUME settled' # Unsettled
               PROVE  /\ settled' \in 0 .. Enough
                      /\ IsPlain(pending')
                      /\ Synced' \/ Len(Received') > settled'
    BY <1>1, <1>3 DEF Settling, IsPlain, Enough, Unsettled
  <2>1. /\ IsPlain(pending')
        /\ settled' = IF settled = Unsettled THEN 0 ELSE settled
    BY DEF Begin
  <2>2. CASE Received = <<>>
    <3>1. settled' \in 0 .. Enough
      <4>1. settled # Unsettled => settled \in 0 .. Enough
        BY DEF SInv, LineInv, Settling
      <4>2. 0 \in 0 .. Enough
        BY DEF Enough
      <4> QED BY <2>1, <4>1, <4>2
    <3> QED BY <1>7, <2>1, <2>2, <3>1
  <2>3. CASE Received # <<>>
    <3>1. CASE settled = Unsettled
      <4>1. Len(Received) # 0
        BY <2>3, HeldIs, EmptySeq DEF SInv, RInv
      <4> QED BY <1>1, <1>10, <2>1, <3>1, <4>1 DEF Enough
    <3>2. CASE settled # Unsettled
      <4>1. settled \in 0 .. Enough /\ Len(Received) > settled
        BY <1>9, <2>3, <3>2 DEF SInv, LineInv, Settling
      <4> QED BY <1>1, <2>1, <3>2, <4>1
    <3> QED BY <3>1, <3>2
  <2> QED BY <2>2, <2>3
<1>12. OneShort'
  <2>1. /\ short' = IF short = "now" THEN "before" ELSE "none"
        /\ since' = IF short = "now" THEN since ELSE 0
    BY DEF Begin
  <2>2. since' \in Nat
    BY <2>1 DEF SInv, LineInv, OneShort
  <2>3. CASE short = "now"
    <3>1. CASE Received = <<>>
      BY <1>7, <2>1, <2>2, <2>3, <3>1 DEF OneShort
    <3>2. CASE Received # <<>>
      <4>1. /\ Len(Received) >= 6
            /\ Len(Received) + Len(pending) + 1 = Receiver!Size(Received)
        BY <2>3, <3>2 DEF SInv, LineInv, OneShort
      <4>2. Len(pending) = 0
        BY <1>1
      <4>3. Len(Received') >= 6 /\ Len(Received') + 1 = Receiver!Size(Received')
        BY <1>1, <1>10, <4>1, <4>2
      <4> QED BY <1>2, <1>6, <2>1, <2>2, <2>3, <4>3 DEF OneShort
    <3> QED BY <3>1, <3>2
  <2>4. CASE short # "now"
    BY <2>1, <2>2, <2>4 DEF OneShort
  <2> QED BY <2>3, <2>4
<1>13. OnTheLine'
  BY <1>2, <1>6, 0 \in Nat DEF OnTheLine
<1>14. current_tx_seq' \in Byte
  BY <1>1 DEF SInv, LineInv
<1> QED BY <1>1, <1>4, <1>8, <1>11, <1>12, <1>13, <1>14 DEF LineInv

(* What is held is never longer than the longest frame without its last    *)
(* byte.                                                                   *)
LEMMA HeldIsShort ==
  ASSUME RInv
  PROVE  Received \in Seq(Byte) /\ Len(Received) \in 0 .. W + 6
<1>1. IInv
  BY DEF RInv
<1>2. Received \in Seq(Byte) /\ HeaderBytes \in 0 .. 6
  BY <1>1, HeldIs
<1>3. CASE HeaderBytes < 6
  <2>1. Len(Received) = HeaderBytes
    BY <1>1, <1>3, HeldIs
  <2> QED BY <1>2, <1>3, <2>1
<1>4. CASE HeaderBytes = 6
  <2>1. /\ Len(Received) = packet_idx + 7 \/ Len(Received) = packet_idx + 6
        /\ packet_idx \in 0 .. W - 1
    BY <1>1, <1>4, HeldIs DEF IInv, TypeOK
  <2> QED BY <1>2, <2>1
<1> QED BY <1>2, <1>3, <1>4

(* A parser that holds nothing drops everything but a start sign.          *)
LEMMA DropsAll ==
  ASSUME RInv, NEW c \in Byte, Parse(c), Received = <<>>, c # STX
  PROVE  Received' = <<>>
<1>1. ~ Receiver!ChecksumDue(<<>>)
  BY DEF Receiver!ChecksumDue
<1>2. ~ Receiver!Continues(Received, c)
  BY <1>1 DEF Receiver!Continues
<1> QED BY <1>2, HoldsOn

(* The next byte of a frame arrives: what the line has left of it, and     *)
(* what that means to a parser in step.                                    *)
LEMMA NextArrives ==
  ASSUME SInv, Arrive
  PROVE  /\ sent \in Sendable /\ sent' = sent /\ Frame(sent)' = Frame(sent)
         /\ \E k \in Nat : Left(k)
         /\ pending' # <<>> => \E k \in Nat : Left(k)'
         /\ Synced /\ pending' # <<>> => Synced' /\ returned' = Nothing
         /\ Synced /\ pending' = <<>> =>
              Received' = <<>> /\ AsSent /\ returned' # Nothing
<1>1. /\ pending # <<>> /\ Parse(Head(pending)) /\ pending' = Tail(pending)
      /\ sent' = sent
  BY DEF Arrive
<1>2. Frame(sent)' = Frame(sent)
  BY <1>1 DEF Frame
<1>3. sent \in Sendable /\ \E k \in Nat : Left(k)
  BY <1>1 DEF SInv, LineInv, OnTheLine
<1>4. ASSUME pending' # <<>> PROVE \E k \in Nat : Left(k)'
  <2>1. PICK k \in Nat : Left(k)
    BY <1>3
  <2>2. /\ k + 1 \in Nat /\ k + 1 < Len(Frame(sent))
        /\ pending' = SubSeq(Frame(sent), (k + 1) + 1, Len(Frame(sent)))
    <3>1. /\ k + 1 < Len(Frame(sent))
          /\ pending' = SubSeq(Frame(sent), (k + 1) + 1, Len(Frame(sent)))
      BY <1>1, <1>3, <1>4, <2>1, LeftIs
    <3> QED BY <3>1
  <2>3. Left(k + 1)'
    BY <1>2, <2>2 DEF Left
  <2> QED BY <2>2, <2>3
<1>5. ASSUME Synced
      PROVE  /\ pending' # <<>> => Synced' /\ returned' = Nothing
             /\ pending' = <<>> => Received' = <<>> /\ AsSent /\ returned' # Nothing
  <2>1. PICK k \in Nat : Left(k) /\ Received = SubSeq(Frame(sent), 1, k)
    BY <1>5 DEF Synced
  <2>2. RInv
    BY DEF SInv
  <2>3. /\ Len(Frame(sent)) \in Nat
        /\ k + 1 # Len(Frame(sent)) =>
              /\ k + 1 < Len(Frame(sent))
              /\ pending' = SubSeq(Frame(sent), (k + 1) + 1, Len(Frame(sent)))
              /\ Received' = SubSeq(Frame(sent), 1, k + 1)
              /\ returned' = Nothing
        /\ k + 1 = Len(Frame(sent)) =>
              pending' = <<>> /\ Received' = <<>> /\ AsSent /\ returned' # Nothing
    BY <1>1, <1>3, <2>1, <2>2, SyncedStep, LeftIs
  <2>4. CASE k + 1 = Len(Frame(sent))
    BY <2>3, <2>4
  <2>5. CASE k + 1 # Len(Frame(sent))
    <3>1. k + 1 \in Nat /\ Left(k + 1)'
      BY <1>2, <2>3, <2>5 DEF Left
    <3>2. Received' = SubSeq(Frame(sent)', 1, k + 1)
      BY <1>2, <2>3, <2>5
    <3>3. Synced'
      BY <1>1, <1>3, <3>1, <3>2 DEF Synced
    <3>4. pending' # <<>>
      <4>1. /\ k + 1 < Len(Frame(sent)) /\ Frame(sent) \in Seq(Byte)
            /\ pending' = SubSeq(Frame(sent), (k + 1) + 1, Len(Frame(sent)))
        BY <1>3, <2>1, <2>3, <2>5, LeftIs
      <4> QED BY <3>1, <4>1, Ending
    <3> QED BY <2>3, <2>5, <3>3, <3>4
  <2> QED BY <2>4, <2>5
<1> QED BY <1>1, <1>2, <1>3, <1>4, <1>5

(* Every frame begins with a start sign.                                   *)
LEMMA StartsWithSTX ==
  ASSUME sent \in Sendable
  PROVE  /\ Frame(sent)[1] = STX
         /\ Left(0) => Head(pending) = STX
<1> DEFINE f == Frame(sent)
           n == Len(sent.payload)
<1>1. Front(sent)[1] = STX
  BY FrontIs
<1>2. n \in Byte /\ \A i \in 1 .. n + 6 : f[i] = Front(sent)[i]
  BY FrameIs
<1>3. 1 \in 1 .. n + 6
  BY <1>2 DEF Byte
<1>4. f[1] = STX
  BY <1>1, <1>2, <1>3
<1>5. Left(0) => Head(pending) = f[0 + 1]
  BY LeftIs, 0 \in Nat
<1> QED BY <1>4, <1>5

(* A start sign that a parser out of step drops what it holds for is the   *)
(* first byte of the frame on the line.                                    *)
LEMMA BackInStep ==
  ASSUME SInv, Arrive, Left(0), Received' = <<STX>>
  PROVE  Synced'
<1>1. sent \in Sendable /\ sent' = sent /\ Frame(sent)' = Frame(sent)
  BY NextArrives
<1> DEFINE f == Frame(sent)
<1>2. /\ f \in Seq(Byte) /\ Len(f) = Len(sent.payload) + 8 /\ Len(sent.payload) \in Nat
      /\ f[1] = STX
  <2>1. f[1] = STX
    BY <1>1, StartsWithSTX
  <2>2. Len(sent.payload) \in Byte /\ f \in Seq(Byte) /\ Len(f) = Len(sent.payload) + 8
    BY <1>1, FrameIs
  <2> QED BY <2>1, <2>2 DEF Byte
<1>3. Tail(pending) = SubSeq(f, (0 + 1) + 1, Len(f)) /\ pending' = Tail(pending)
  BY <1>1, LeftIs, 0 \in Nat DEF Arrive
<1> HIDE DEF f
<1>4. SubSeq(f, 1, 1) = <<STX>>
  BY <1>2, FirstByte
<1>5. 1 \in Nat /\ 0 + 1 = 1 /\ 1 < Len(f)
  BY <1>2
<1>6. Left(1)'
  BY <1>1, <1>3, <1>5 DEF Left, f
<1>7. Received' = SubSeq(Frame(sent)', 1, 1)
  BY <1>1, <1>4 DEF f
<1> QED BY <1>1, <1>5, <1>6, <1>7 DEF Synced

(* In a row of plain frames.                                               *)
LEMMA ArriveSettles ==
  ASSUME SInv, Arrive PROVE Settling'
<1> SUFFICES ASSUME settled' # Unsettled
             PROVE  /\ settled' \in 0 .. Enough
                    /\ IsPlain(Frame(sent)')
                    /\ \/ Synced'
                       \/ Received' = <<>> /\ NoStart'
                       \/ Len(Received') > settled'
  BY DEF Settling, IsPlain, Enough, Unsettled
<1>1. /\ pending # <<>> /\ Parse(Head(pending)) /\ pending' = Tail(pending)
      /\ settled' = IF settled \in {Unsettled, Enough} THEN settled ELSE settled + 1
  BY DEF Arrive
<1>2. /\ settled \in 0 .. Enough /\ IsPlain(Frame(sent))
      /\ \/ Synced
         \/ Received = <<>> /\ NoStart
         \/ Len(Received) > settled
  BY <1>1 DEF SInv, LineInv, Settling
<1>3. sent \in Sendable /\ Frame(sent)' = Frame(sent)
  BY NextArrives
<1>4. PICK k \in Nat : Left(k)
  BY NextArrives
<1> DEFINE f == Frame(sent)
           c == Head(pending)
<1>5. /\ f \in Seq(Byte) /\ Len(f) \in Nat /\ k < Len(f) /\ Len(pending) = Len(f) - k
      /\ c = f[k + 1] /\ c \in Byte
      /\ Len(pending') = Len(f) - k - 1
      /\ \A i \in 1 .. Len(f) - k - 1 : /\ pending'[i] = f[k + 1 + i]
                                        /\ pending'[i] = pending[i + 1]
  BY <1>1, <1>3, <1>4, LeftIs
<1>6. settled' \in 0 .. Enough /\ IsPlain(Frame(sent)')
  <2>1. settled' \in 0 .. Enough
    BY <1>1, <1>2 DEF Enough
  <2> QED BY <1>2, <1>3, <2>1
<1>7. RInv
  BY DEF SInv
<1> HIDE DEF f, c
<1>8. CASE Synced
  <2>1. CASE pending' = <<>>
    <3>1. Received' = <<>>
      BY <1>8, <2>1, NextArrives
    <3>2. NoStart'
      BY <2>1 DEF NoStart
    <3> QED BY <1>6, <3>1, <3>2
  <2>2. CASE pending' # <<>>
    BY <1>6, <1>8, <2>2, NextArrives
  <2> QED BY <2>1, <2>2
<1>9. CASE Received = <<>> /\ NoStart
  <2>1. c # STX
    <3>1. 1 \in 1 .. Len(pending) /\ c = pending[1]
      BY <1>1, <1>5 DEF c
    <3> QED BY <1>9, <3>1 DEF NoStart
  <2>2. Received' = <<>>
    BY <1>1, <1>5, <1>7, <1>9, <2>1, DropsAll DEF c
  <2>3. NoStart'
    <3>1. ASSUME NEW i \in 1 .. Len(pending') PROVE pending'[i] # STX
      <4>1. i \in 1 .. Len(f) - k - 1 /\ i + 1 \in 1 .. Len(pending)
        BY <1>5
      <4> QED BY <1>5, <1>9, <4>1 DEF NoStart
    <3> QED BY <3>1 DEF NoStart
  <2> QED BY <1>6, <2>2, <2>3
<1>10. CASE Len(Received) > settled
  <2>1. Received \in Seq(Byte) /\ Len(Received) \in 0 .. W + 6
    BY <1>7, HeldIsShort
  <2>2. settled' = settled + 1
    BY <1>1, <1>2, <1>10, <2>1 DEF Enough, Unsettled
  <2>3. CASE Received' = Append(Received, c)
    <3>1. Len(Received') = Len(Received) + 1
      BY <1>5, <2>1, <2>3, AppendProperties
    <3> QED BY <1>2, <1>6, <1>10, <2>1, <2>2, <3>1
  <2>4. CASE Received' = <<>>
    <3>1. ASSUME NEW i \in 1 .. Len(pending') PROVE pending'[i] # STX
      <4>1. i \in 1 .. Len(f) - k - 1 /\ k + 1 + i \in 2 .. Len(f)
        BY <1>5
      <4>2. f[k + 1 + i] # STX
        BY <1>2, <4>1 DEF IsPlain, f
      <4> QED BY <1>5, <4>1, <4>2
    <3> QED BY <1>6, <2>4, <3>1 DEF NoStart
  <2>5. CASE Received' = <<c>> /\ c = STX
    <3>1. k = 0
      <4>1. k + 1 \notin 2 .. Len(f)
        BY <1>2, <1>5, <2>5 DEF IsPlain, f
      <4> QED BY <1>5, <4>1
    <3> QED BY <1>4, <1>6, <2>5, <3>1, BackInStep
  <2>6. \/ Received' = Append(Received, c) \/ Received' = <<>>
        \/ Received' = <<c>> /\ c = STX
    BY <1>1, <1>5, <1>7, HoldsOn DEF c
  <2> QED BY <2>3, <2>4, <2>5, <2>6
<1> QED BY <1>2, <1>8, <1>9, <1>10

(* Behind the header a byte that goes on with the frame is the last of it  *)
(* exactly where the length says so.                                       *)
LEMMA Further ==
  ASSUME RInv, NEW c \in Byte, Parse(c), Len(Received) >= 6,
         Receiver!Continues(Received, c)
  PROVE  /\ Len(Received) \in Nat /\ Receiver!Size(Received) \in Nat
         /\ Len(Received) + 1 # Receiver!Size(Received) =>
              /\ Len(Received') = Len(Received) + 1
              /\ Receiver!Size(Received') = Receiver!Size(Received)
         /\ Len(Received) + 1 = Receiver!Size(Received) => returned' # Nothing
<1> DEFINE longer == Append(Received, c)
           n == Len(Received)
<1>1. Received \in Seq(Byte) /\ n \in Nat /\ n >= 6
  BY HeldIsShort
<1>2. 2 \in 1 .. n
  BY <1>1
<1>3. Received[2] \in Byte
  BY <1>1, <1>2, ElementOfSeq
<1>4. Len(longer) = n + 1 /\ longer[2] = Received[2]
  BY <1>1, <1>2, AppendProperties
<1> DEFINE done == Receiver!ChecksumDue(longer) /\ Len(longer) = Receiver!Size(longer)
<1>5. /\ ~ done => Received' = longer
      /\ done => returned' # Nothing
  BY HoldsOn
<1> HIDE DEF longer, n
<1>6. Receiver!Size(longer) = Receiver!Size(Received) /\ Receiver!Size(Received) \in Nat
  BY <1>3, <1>4 DEF Receiver!Size, Byte
<1>7. done <=> n + 1 = Receiver!Size(Received)
  BY <1>1, <1>2, <1>4, <1>6 DEF Receiver!ChecksumDue
<1> HIDE DEF done
<1> QED BY <1>1, <1>4, <1>5, <1>6, <1>7 DEF n

(* A byte of the frame that was one short, or of the frame behind it.      *)
LEMMA ArriveShort ==
  ASSUME SInv, Arrive PROVE OneShort'
<1> DEFINE c == Head(pending)
<1>1. /\ pending # <<>> /\ Parse(c) /\ pending' = Tail(pending) /\ short' = short
      /\ since' = since + IF returned' # Nothing THEN 1 ELSE 0
  BY DEF Arrive, Count
<1>2. since \in Nat /\ since' \in Nat
  BY <1>1 DEF SInv, LineInv, OneShort
<1>3. since' >= since /\ (returned' # Nothing => since' >= 1)
  BY <1>1, <1>2
<1>4. sent \in Sendable /\ sent' = sent
  BY NextArrives
<1>5. PICK k \in Nat : Left(k)
  BY NextArrives
<1> DEFINE f == Frame(sent)
<1>6. /\ Len(f) \in Nat /\ k < Len(f) /\ Len(pending) = Len(f) - k
      /\ c = f[k + 1] /\ c \in Byte
      /\ Len(pending') = Len(f) - k - 1
      /\ \A i \in 1 .. Len(f) - k - 1 : pending'[i] = pending[i + 1]
  BY <1>1, <1>4, <1>5, LeftIs
<1>7. RInv /\ Received \in Seq(Byte) /\ Len(Received) \in Nat
  BY HeldIsShort DEF SInv
<1>8. ~ Receiver!Continues(Received, c) => Received' = IF c = STX THEN <<c>> ELSE <<>>
  BY <1>1, <1>6, <1>7, HoldsOn
<1> HIDE DEF f, c
<1>9. ASSUME short = "now"
      PROVE  /\ NoStart'
             /\ \/ Received' = <<>>
                \/ /\ Len(Received') >= 6
                   /\ Len(Received') + Len(pending') + 1 = Receiver!Size(Received')
  <2>1. /\ NoStart
        /\ \/ Received = <<>>
           \/ /\ Len(Received) >= 6
              /\ Len(Received) + Len(pending) + 1 = Receiver!Size(Received)
    BY <1>9 DEF SInv, LineInv, OneShort
  <2>2. c # STX
    <3>1. 1 \in 1 .. Len(pending) /\ c = pending[1]
      BY <1>1, <1>6 DEF c
    <3> QED BY <2>1, <3>1 DEF NoStart
  <2>3. NoStart'
    <3>1. ASSUME NEW i \in 1 .. Len(pending') PROVE pending'[i] # STX
      <4>1. i \in 1 .. Len(f) - k - 1 /\ i + 1 \in 1 .. Len(pending)
        BY <1>6
      <4> QED BY <1>6, <2>1, <4>1 DEF NoStart
    <3> QED BY <3>1 DEF NoStart
  <2>4. CASE Received = <<>>
    <3>1. Received' = <<>>
      BY <1>1, <1>6, <1>7, <2>2, <2>4, DropsAll
    <3> QED BY <2>3, <3>1
  <2>5. CASE /\ Len(Received) >= 6
             /\ Len(Received) + Len(pending) + 1 = Receiver!Size(Received)
    <3>1. CASE Receiver!Continues(Received, c)
      <4>1. Len(Received) + 1 # Receiver!Size(Received)
        BY <1>6, <1>7, <2>5
      <4>2. /\ Len(Received') = Len(Received) + 1
            /\ Receiver!Size(Received') = Receiver!Size(Received)
        BY <1>1, <1>6, <1>7, <2>5, <3>1, <4>1, Further
      <4>3. Len(Received') >= 6
        BY <1>7, <2>5, <4>2
      <4>4. Len(Received') + Len(pending') + 1 = Receiver!Size(Received')
        BY <1>6, <1>7, <2>5, <4>2
      <4> QED BY <2>3, <4>3, <4>4
    <3>2. CASE ~ Receiver!Continues(Received, c)
      BY <1>8, <2>2, <2>3, <3>2
    <3> QED BY <3>1, <3>2
  <2> QED BY <2>1, <2>4, <2>5
<1>10. ASSUME short = "before"
       PROVE  since' >= 1 \/ Synced'
  <2>1. \/ since >= 1
        \/ Synced
        \/ /\ sent \in Sendable /\ Left(0)
           /\ Len(Received) >= 6
           /\ Len(Received) + 1 = Receiver!Size(Received)
    BY <1>10 DEF SInv, LineInv, OneShort
  <2>2. CASE since >= 1
    BY <1>2, <1>3, <2>2
  <2>3. CASE Synced
    BY <1>3, <2>3, NextArrives
  <2>4. CASE /\ Left(0) /\ Len(Received) >= 6
             /\ Len(Received) + 1 = Receiver!Size(Received)
    <3>1. CASE Receiver!Continues(Received, c)
      <4>1. returned' # Nothing
        BY <1>1, <1>6, <1>7, <2>4, <3>1, Further
      <4> QED BY <1>3, <4>1
    <3>2. CASE ~ Receiver!Continues(Received, c)
      <4>1. c = STX
        BY <1>4, <2>4, StartsWithSTX DEF c
      <4>2. Received' = <<STX>>
        BY <1>8, <3>2, <4>1
      <4> QED BY <2>4, <4>2, BackInStep
    <3> QED BY <3>1, <3>2
  <2> QED BY <2>1, <2>2, <2>3, <2>4
<1> QED BY <1>1, <1>2, <1>9, <1>10 DEF OneShort

(* A byte of the latest frame arrives.                                     *)
LEMMA ArriveStep ==
  ASSUME SInv, Arrive PROVE LineInv'
<1>1. /\ pending # <<>> /\ pending' = Tail(pending) /\ intact' = intact
      /\ current_tx_seq' = current_tx_seq
  BY DEF Arrive
<1>2. pending \in Seq(Byte) /\ current_tx_seq \in Byte /\ InStep
  BY DEF SInv, LineInv
<1>3. pending' \in Seq(Byte) /\ current_tx_seq' \in Byte
  BY <1>1, <1>2, HeadTailProperties
<1>4. OnTheLine'
  BY NextArrives DEF OnTheLine
<1>5. InStep'
  BY <1>1, <1>2, NextArrives DEF InStep
<1>6. Settling' /\ OneShort'
  BY ArriveSettles, ArriveShort
<1> QED BY <1>3, <1>4, <1>5, <1>6 DEF LineInv

(* Whatever becomes of the next byte, the rest of its frame is pending.    *)
LEMMA RestOnTheLine ==
  ASSUME pending \in Seq(Byte), OnTheLine, pending # <<>>,
         pending' = Tail(pending), sent' = sent
  PROVE  pending' \in Seq(Byte) /\ OnTheLine'
<1>1. pending' \in Seq(Byte)
  BY HeadTailProperties
<1>2. PICK k \in Nat : sent \in Sendable /\ Left(k)
  BY DEF OnTheLine
<1>3. ASSUME pending' # <<>> PROVE Left(k + 1)' /\ k + 1 \in Nat
  <2>1. /\ k + 1 \in Nat /\ k + 1 < Len(Frame(sent))
        /\ pending' = SubSeq(Frame(sent), (k + 1) + 1, Len(Frame(sent)))
    <3>1. /\ k + 1 < Len(Frame(sent))
          /\ pending' = SubSeq(Frame(sent), (k + 1) + 1, Len(Frame(sent)))
      BY <1>2, <1>3, LeftIs
    <3>2. k + 1 \in Nat
      OBVIOUS
    <3> QED BY <3>1, <3>2
  <2>2. Frame(sent)' = Frame(sent)
    BY DEF Frame
  <2> QED BY <2>1, <2>2 DEF Left
<1> QED BY <1>1, <1>2, <1>3 DEF OnTheLine

(* A byte behind the header is lost: the parser, which was in step, lacks  *)
(* just that byte.                                                         *)
LEMMA LostIsShort ==
  ASSUME SInv, Lose, short' = "now"
  PROVE  /\ NoStart'
         /\ Len(Received') >= 6
         /\ Len(Received') + Len(pending') + 1 = Receiver!Size(Received')
<1>1. /\ pending # <<>> /\ pending' = Tail(pending) /\ Received' = Received
      /\ intact /\ Len(pending) <= Len(sent.payload) + 2
      /\ IsPlain(<<0>> \o Tail(pending))
  BY DEF Lose, vars, parser, Received, Whole, Stored
<1>2. PICK k \in Nat : /\ sent \in Sendable /\ Left(k)
                       /\ Received = SubSeq(Frame(sent), 1, k)
  BY <1>1 DEF SInv, LineInv, InStep, Synced
<1> DEFINE f == Frame(sent)
           n == Len(sent.payload)
<1>3. /\ Len(f) = n + 8 /\ n \in Nat /\ k < Len(f)
      /\ Len(pending) = Len(f) - k /\ Len(pending') = Len(f) - k - 1
  BY <1>1, <1>2, LeftIs
<1>4. k >= 6 /\ k <= Len(f)
  BY <1>1, <1>3
<1>5. Len(Received) = k /\ (k >= 2 => Receiver!Size(Received) = n + 8)
  BY <1>2, <1>4, FrameFacts
<1>6. /\ Len(Received') >= 6
      /\ Len(Received') + Len(pending') + 1 = Receiver!Size(Received')
  <2> HIDE DEF f, n
  <2> QED BY <1>1, <1>3, <1>4, <1>5
<1>7. NoStart'
  <2>1. <<0>> \in Seq(Byte) /\ Len(<<0>>) = 1
    BY BytesAssumption DEF Byte
  <2>2. Tail(pending) \in Seq(Byte) /\ Len(Tail(pending)) \in Nat
    BY <1>1, HeadTailProperties, LenProperties DEF SInv, LineInv
  <2> DEFINE t == Tail(pending)
             z == <<0>> \o t
  <2>3. /\ Len(z) = 1 + Len(t)
        /\ \A i \in 1 .. Len(t) : z[1 + i] = t[i]
    BY <2>1, <2>2, Joined
  <2>4. \A i \in 2 .. Len(z) : z[i] # STX
    BY <1>1 DEF IsPlain
  <2> HIDE DEF t, z
  <2>5. \A i \in 1 .. Len(t) : 1 + i \in 2 .. Len(z)
    BY <2>2, <2>3 DEF t
  <2>6. \A i \in 1 .. Len(t) : t[i] # STX
    BY <2>3, <2>4, <2>5
  <2> QED BY <1>1, <2>6 DEF NoStart, t
<1> QED BY <1>6, <1>7

(* The line loses a byte, damages one or adds one.                         *)
LEMMA DisturbStep ==
  ASSUME SInv, NEW b \in Byte, Lose \/ Damage(b) \/ Noise(b)
  PROVE  LineInv'
<1>1. /\ sent' = sent /\ current_tx_seq' = current_tx_seq
      /\ intact' = FALSE /\ settled' = Unsettled
  BY DEF Lose, Damage, Noise, Disturb
<1>2. pending \in Seq(Byte) /\ current_tx_seq' \in Byte /\ OnTheLine /\ since \in Nat
  BY <1>1 DEF SInv, LineInv, OneShort
<1>3. pending' \in Seq(Byte) /\ OnTheLine'
  <2>1. CASE Lose \/ Damage(b)
    <3>1. pending # <<>> /\ pending' = Tail(pending)
      BY <2>1 DEF Lose, Damage
    <3> QED BY <1>1, <1>2, <3>1, RestOnTheLine
  <2>2. CASE Noise(b)
    BY <1>2, <2>2 DEF Noise, OnTheLine
  <2> QED BY <2>1, <2>2
<1>4. InStep' /\ Settling'
  BY <1>1 DEF InStep, Settling
<1>5. since' \in Nat
  BY <1>2 DEF Lose, Damage, Noise, Count
<1>6. short' \in {"none", "now"}
  BY DEF Lose, Damage, Noise
<1>7. short' = "now" => Lose
  BY DEF Damage, Noise
<1>8. OneShort'
  BY <1>5, <1>6, <1>7, LostIsShort DEF OneShort
<1> QED BY <1>2, <1>3, <1>4, <1>8 DEF LineInv

(* At first nothing is pending.                                            *)
LEMMA SInvInit == StreamInit => SInv
<1> SUFFICES ASSUME StreamInit PROVE SInv
  OBVIOUS
<1>1. RInv
  BY RInvInit, ParserOfLine
<1>2. pending = <<>> /\ current_tx_seq \in Byte
  BY DEF StreamInit
<1>3. pending \in Seq(Byte)
  BY <1>2
<1>4. OnTheLine /\ InStep /\ Settling
  BY <1>2 DEF StreamInit, OnTheLine, InStep, Settling
<1>5. OneShort
  BY DEF StreamInit, OneShort
<1> QED BY <1>1, <1>2, <1>3, <1>4, <1>5 DEF SInv, LineInv

(* The line and the parser preserve it, byte by byte, frame by frame and   *)
(* disturbance by disturbance.                                             *)
LEMMA SInvStep == SInv /\ [StreamNext]_all => SInv'
<1> SUFFICES ASSUME SInv, [StreamNext]_all PROVE SInv'
  OBVIOUS
<1>1. RInv /\ pending \in Seq(Byte)
  BY DEF SInv, LineInv
<1>2. RInv'
  BY <1>1, ParserOfLine, RInvStep
<1> SUFFICES LineInv'
  BY <1>2 DEF SInv
<1>3. ASSUME NEW m \in Messages, Begin(m) PROVE LineInv'
  BY <1>3, BeginStep
<1>4. CASE Arrive
  BY <1>4, ArriveStep
<1>5. CASE Lose
  <2>1. 0 \in Byte
    BY BytesAssumption DEF Byte
  <2> QED BY <1>5, <2>1, DisturbStep
<1>6. ASSUME NEW b \in Byte, Damage(b) \/ Noise(b) PROVE LineInv'
  BY <1>6, DisturbStep
<1>7. CASE UNCHANGED all
  <2>1. /\ UNCHANGED line
        /\ UNCHANGED <<parse_state, rxmsg, packet_idx, payload>>
    BY <1>7 DEF all, parser, vars
  <2>2. /\ pending' = pending /\ sent' = sent /\ current_tx_seq' = current_tx_seq
        /\ intact' = intact /\ settled' = settled /\ short' = short /\ since' = since
    BY <2>1 DEF line
  <2>3. Received' = Received /\ Frame(sent)' = Frame(sent)
    BY <2>1, <2>2 DEF Received, Whole, Stored, Frame
  <2>4. Synced' = Synced /\ Left(0)' = Left(0)
    BY <2>2, <2>3 DEF Synced, Left
  <2>5. OnTheLine' = OnTheLine /\ NoStart' = NoStart
    BY <2>2, <2>3 DEF OnTheLine, NoStart, Left
  <2>6. InStep' = InStep
    BY <2>2, <2>4 DEF InStep
  <2>7. Settling' = Settling
    BY <2>2, <2>3, <2>4, <2>5 DEF Settling, IsPlain, Enough, Unsettled
  <2>8. OneShort' = OneShort
    BY <2>2, <2>3, <2>4, <2>5 DEF OneShort
  <2> QED BY <2>2, <2>5, <2>6, <2>7, <2>8 DEF SInv, LineInv
<1> QED BY <1>3, <1>4, <1>5, <1>6, <1>7 DEF StreamNext

(* So it holds in every reachable state.                                   *)
LEMMA StreamInvariance == StreamSpec => []SInv
<1> QED BY SInvInit, SInvStep, PTL DEF StreamSpec

(* For every set of messages, every checksum and every bound on what the   *)
(* line does: a frame that finds the parser idle and is not disturbed is   *)
(* returned with its last byte and not before, as it was sent.             *)
THEOREM IntactFrames == StreamSpec => IntactFrameIsReturned
<1>1. ASSUME SInv, [StreamNext]_all
      PROVE  [Arrive /\ intact =>
                IF pending' = <<>> THEN AsSent ELSE returned' = Nothing]_all
  <2> SUFFICES ASSUME Arrive, intact
               PROVE  IF pending' = <<>> THEN AsSent ELSE returned' = Nothing
    OBVIOUS
  <2>1. Synced
    BY <1>1 DEF SInv, LineInv, InStep, Arrive
  <2> QED BY <1>1, <2>1, NextArrives
<1> QED BY <1>1, StreamInvariance, PTL DEF StreamSpec, IntactFrameIsReturned

(* However the line was disturbed, and whatever false frame the parser     *)
(* holds: behind the bytes of one frame of the greatest length without a   *)
(* stray start sign, undisturbed, it waits for the next frame.             *)
THEOREM Resynchronised == StreamSpec => []SettlesWithinOneFrame
<1>1. SInv => SettlesWithinOneFrame
  <2> SUFFICES ASSUME SInv, pending = <<>>, settled = Enough
               PROVE  parse_state = "IDLE"
    BY DEF SettlesWithinOneFrame
  <2>1. ~ Synced
    BY LeftIs DEF Synced
  <2>2. settled # Unsettled
    BY BytesAssumption DEF Enough, Unsettled
  <2>3. RInv /\ IInv
    BY DEF SInv, RInv
  <2>4. Len(Received) \in 0 .. W + 6
    BY <2>3, HeldIsShort
  <2>5. ~ (Len(Received) > settled)
    BY <2>4, BytesAssumption DEF Enough
  <2>6. Received = <<>>
    BY <2>1, <2>2, <2>5 DEF SInv, LineInv, Settling
  <2>7. Len(Received) = 0
    BY <2>6
  <2>8. HeaderBytes \in 0 .. 6 /\ (HeaderBytes = 0 <=> parse_state = "IDLE")
    BY <2>3, HeldIs
  <2>9. HeaderBytes < 6 => Len(Received) = HeaderBytes
    BY <2>3, HeldIs
  <2>10. HeaderBytes = 6 => Len(Received) >= 6
    <3>1. HeaderBytes = 6 =>
            /\ Len(Received) = packet_idx + 7 \/ Len(Received) = packet_idx + 6
            /\ packet_idx \in Nat
      BY <2>3, HeldIs
    <3> QED BY <3>1
  <2> QED BY <2>7, <2>8, <2>9, <2>10
<1> QED BY <1>1, StreamInvariance, PTL

(* One byte behind the header lost costs at most one message: that frame   *)
(* or the next one, if no start sign is in the rest of the first.          *)
THEOREM LostByte == StreamSpec => []OneByteCostsOneMessage
<1>1. SInv => OneByteCostsOneMessage
  <2> SUFFICES ASSUME SInv, short = "before", pending = <<>>
               PROVE  since >= 1
    BY DEF OneByteCostsOneMessage
  <2>1. ~ Synced /\ ~ (sent \in Sendable /\ Left(0))
    BY LeftIs, 0 \in Nat DEF Synced
  <2> QED BY <2>1 DEF SInv, LineInv, OneShort
<1> QED BY <1>1, StreamInvariance, PTL
=============================================================================
