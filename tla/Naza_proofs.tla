----------------------------- MODULE Naza_proofs -----------------------------
(***************************************************************************)
(* What holds of the Naza frame decoder, at the end of a line and in the   *)
(* converter, for every table of message lengths that fit the buffer,      *)
(* every header and every byte width, whatever arrives.                    *)
(***************************************************************************)
EXTENDS NazaStream, NazaTelemetry, WellFoundedInduction, SequenceTheorems, TLAPS

USE WAssumption, HeaderAssumption, BufSizeAssumption, LengthsAssumption,
    NoneAssumption DEF Bytes

(* Induction up to L, with a set for the predicate: the least number that  *)
(* is not in it has a predecessor that is.                                 *)
LEMMA Induction ==
  ASSUME NEW L \in Nat, NEW T, 0 \in T,
         \A n \in 1 .. L : n - 1 \in T => n \in T
  PROVE  \A n \in 0 .. L : n \in T
<1> DEFINE R == OpToRel(<, Nat)
           Rest == {n \in 0 .. L : n \notin T}
<1> SUFFICES ASSUME Rest # {} PROVE FALSE
  OBVIOUS
<1>1. IsWellFoundedOn(R, Nat)
  BY NatLessThanWellFounded
<1>2. \A m, n \in Nat : m < n => <<m, n>> \in R
  BY DEF OpToRel
<1> HIDE DEF R
<1>3. Rest \subseteq Nat
  OBVIOUS
<1>4. PICK n \in Rest : \A m \in Rest : ~ (<<m, n>> \in R)
  <2> HIDE DEF Rest
  <2> QED BY <1>1, <1>3, WFMin
<1>5. n \in 1 .. L /\ n - 1 \in 0 .. L /\ n - 1 \in Nat /\ n - 1 < n
  BY <1>4
<1>6. <<n - 1, n>> \in R
  BY <1>2, <1>5
<1>7. n - 1 \notin Rest
  BY <1>4, <1>6
<1> QED BY <1>4, <1>5, <1>7

(* The sums f of the beginnings of g.                                      *)
IsSum(f, g, L) ==
  f = [n \in 0 .. L |-> IF n = 0 THEN 0 ELSE f[n - 1] + g[n]]

(* There are such sums, for every g.                                       *)
LEMMA SumExists ==
  ASSUME NEW g, NEW L \in Nat
  PROVE  \E f : IsSum(f, g, L)
<1> DEFINE T == {k \in Nat : \E f : IsSum(f, g, k)}
<1>1. 0 \in T
  <2> DEFINE f == [n \in 0 .. 0 |-> 0]
  <2>1. IsSum(f, g, 0)
    BY DEF IsSum
  <2> QED BY <2>1
<1>2. ASSUME NEW k \in 1 .. L, k - 1 \in T
      PROVE  k \in T
  <2>1. PICK f : IsSum(f, g, k - 1)
    BY <1>2
  <2> DEFINE h == [n \in 0 .. k |-> IF n = k THEN f[k - 1] + g[k] ELSE f[n]]
  <2>2. ASSUME NEW n \in 0 .. k
        PROVE  h[n] = IF n = 0 THEN 0 ELSE h[n - 1] + g[n]
    <3>1. CASE n = k
      BY <3>1
    <3>2. CASE n # k
      BY <2>1, <3>2 DEF IsSum
    <3> QED BY <3>1, <3>2
  <2>3. IsSum(h, g, k)
    BY <2>2 DEF IsSum
  <2> QED BY <2>3
<1>3. \A k \in 0 .. L : k \in T
  <2> HIDE DEF T
  <2> QED BY <1>1, <1>2, Induction
<1> QED BY <1>3

(* Their first one and how they grow.                                      *)
LEMMA SumValues ==
  ASSUME NEW f, NEW g, NEW L \in Nat, IsSum(f, g, L)
  PROVE  /\ f[0] = 0
         /\ \A n \in 1 .. L : f[n] = f[n - 1] + g[n]
BY DEF IsSum

(* Sums of natural numbers are natural numbers.                            *)
LEMMA SumIsNat ==
  ASSUME NEW f, NEW g, NEW L \in Nat, IsSum(f, g, L),
         \A n \in 1 .. L : g[n] \in Nat
  PROVE  \A n \in 0 .. L : f[n] \in Nat
<1> DEFINE T == {n \in 0 .. L : f[n] \in Nat}
<1>1. 0 \in T
  BY SumValues
<1>2. \A n \in 1 .. L : n - 1 \in T => n \in T
  BY SumValues
<1>3. \A n \in 0 .. L : n \in T
  <2> HIDE DEF T
  <2> QED BY <1>1, <1>2, Induction
<1> QED BY <1>3

(* What the two checksums of a body s add up: every byte once, and every   *)
(* byte as often as there are bytes from it to the end.                    *)
Ones(s)  == [n \in 1 .. Len(s) |-> s[n]]
Rests(s) == [n \in 1 .. Len(s) |-> (Len(s) - n + 1) * s[n]]

(* The first checksum is the last of these sums, modulo W: the function    *)
(* that defines it exists and is that sum.                                 *)
LEMMA Checksum1IsSum ==
  ASSUME NEW s \in Seq(Bytes)
  PROVE  \E f : IsSum(f, Ones(s), Len(s)) /\ Receiver!Checksum1(s) = f[Len(s)] % W
<1> DEFINE Is(f) == f = [n \in 0 .. Len(s) |-> IF n = 0 THEN 0 ELSE f[n-1] + 1 * s[n]]
           f == CHOOSE f : Is(f)
<1>1. Receiver!Checksum1(s) = f[Len(s)] % W
  BY DEF Receiver!Checksum1, Receiver!Total
<1>2. \A h : IsSum(h, Ones(s), Len(s)) <=> Is(h)
  <2> TAKE h
  <2>1. [n \in 0 .. Len(s) |-> IF n = 0 THEN 0 ELSE h[n-1] + Ones(s)[n]]
        = [n \in 0 .. Len(s) |-> IF n = 0 THEN 0 ELSE h[n-1] + 1 * s[n]]
    BY DEF Ones
  <2> QED BY <2>1 DEF IsSum
<1>3. \E h : Is(h)
  BY <1>2, SumExists, Len(s) \in Nat
<1> HIDE DEF Is
<1>4. Is(f)
  BY <1>3
<1> QED BY <1>1, <1>2, <1>4

(* And so is the second.                                                   *)
LEMMA Checksum2IsSum ==
  ASSUME NEW s \in Seq(Bytes)
  PROVE  \E f : IsSum(f, Rests(s), Len(s)) /\ Receiver!Checksum2(s) = f[Len(s)] % W
<1> DEFINE Is(f) == f = [n \in 0 .. Len(s) |-> IF n = 0 THEN 0 ELSE f[n-1] + (Len(s) - n + 1) * s[n]]
           f == CHOOSE f : Is(f)
<1>1. Receiver!Checksum2(s) = f[Len(s)] % W
  BY DEF Receiver!Checksum2, Receiver!Total
<1>2. \A h : IsSum(h, Rests(s), Len(s)) <=> Is(h)
  <2> TAKE h
  <2>1. [n \in 0 .. Len(s) |-> IF n = 0 THEN 0 ELSE h[n-1] + Rests(s)[n]]
        = [n \in 0 .. Len(s) |-> IF n = 0 THEN 0 ELSE h[n-1] + (Len(s) - n + 1) * s[n]]
    BY DEF Rests
  <2> QED BY <2>1 DEF IsSum
<1>3. \E h : Is(h)
  BY <1>2, SumExists, Len(s) \in Nat
<1> HIDE DEF Is
<1>4. Is(f)
  BY <1>3
<1> QED BY <1>1, <1>2, <1>4

(* Arithmetic modulo W.                                                    *)
LEMMA Remainder ==
  ASSUME NEW q \in Int, NEW r \in 0 .. W - 1
  PROVE  (q * W + r) % W = r
OBVIOUS

(* Quotient and remainder of a natural number.                             *)
LEMMA Division ==
  ASSUME NEW x \in Nat
  PROVE  x \div W \in Nat /\ x % W \in 0 .. W - 1 /\ x = (x \div W) * W + (x % W)
OBVIOUS

(* A product with a sum.                                                   *)
LEMMA Distributes ==
  ASSUME NEW x \in Nat, NEW y \in Nat, NEW z \in Nat
  PROVE  x * z \in Nat /\ (x + y) * z = x * z + y * z
OBVIOUS

(* A remainder may be taken before an addition or after it.                *)
LEMMA ModSum ==
  ASSUME NEW x \in Nat, NEW y \in Nat
  PROVE  ((x % W) + y) % W = (x + y) % W
<1>1. PICK q \in Nat, r \in 0 .. W - 1 : q = x \div W /\ r = x % W /\ x = q * W + r
  BY Division
<1>2. PICK p \in Nat, m \in 0 .. W - 1 : p = (r + y) \div W /\ m = (r + y) % W /\ r + y = p * W + m
  <2>1. r + y \in Nat
    BY <1>1
  <2> QED BY <2>1, Division
<1>3. x + y = (q + p) * W + m
  <2>1. (q + p) * W = q * W + p * W /\ q * W \in Nat /\ p * W \in Nat
    BY Distributes
  <2>2. \A a, b \in Nat : x = a + r /\ r + y = b + m => x + y = (a + b) + m
    OBVIOUS
  <2> QED BY <1>1, <1>2, <2>1, <2>2
<1>4. (x + y) % W = m
  BY <1>3, Remainder, q + p \in Int
<1> QED BY <1>1, <1>2, <1>4

(* The remainder of a sum is that of the sum of the remainders.            *)
LEMMA ModSums ==
  ASSUME NEW x \in Nat, NEW y \in Nat
  PROVE  (x + y) % W = ((x % W) + (y % W)) % W
<1>1. y % W \in Nat
  BY Division
<1>2. ((x % W) + (y % W)) % W = (x + (y % W)) % W
  BY <1>1, ModSum
<1>3. ((y % W) + x) % W = (y + x) % W
  BY ModSum
<1>4. (y % W) + x = x + (y % W) /\ y + x = x + y
  BY <1>1
<1> QED BY <1>2, <1>3, <1>4

(* One more byte: the first checksum grows by it and the second by the     *)
(* new first one, which is what updateCS() does.                           *)
LEMMA Checksums ==
  ASSUME NEW s \in Seq(Bytes), NEW b \in Bytes
  PROVE  LET t == Append(s, b) IN
         /\ Receiver!Checksum1(t) = (Receiver!Checksum1(s) + b) % W
         /\ Receiver!Checksum2(t) = (Receiver!Checksum2(s) + Receiver!Checksum1(t)) % W
<1> DEFINE t == Append(s, b)
           L == Len(s)
<1>1. /\ t \in Seq(Bytes) /\ L \in Nat /\ Len(t) = L + 1
      /\ t[L + 1] = b
      /\ \A n \in 1 .. L : t[n] = s[n] /\ s[n] \in Nat /\ t[n] \in Nat
  BY AppendProperties, ElementOfSeq
<1> HIDE DEF t, L
<1>2. PICK f : IsSum(f, Ones(s), L) /\ Receiver!Checksum1(s) = f[L] % W
  BY Checksum1IsSum DEF L
<1>3. PICK g : IsSum(g, Ones(t), L + 1) /\ Receiver!Checksum1(t) = g[L + 1] % W
  BY <1>1, Checksum1IsSum
<1>4. PICK h : IsSum(h, Rests(s), L) /\ Receiver!Checksum2(s) = h[L] % W
  BY Checksum2IsSum DEF L
<1>5. PICK k : IsSum(k, Rests(t), L + 1) /\ Receiver!Checksum2(t) = k[L + 1] % W
  BY <1>1, Checksum2IsSum
<1>6. \A n \in 1 .. L :
         /\ f[n] = f[n - 1] + s[n] /\ g[n] = g[n - 1] + s[n]
         /\ h[n] = h[n - 1] + (L - n + 1) * s[n]
         /\ k[n] = k[n - 1] + (L - n + 2) * s[n]
  <2> TAKE n \in 1 .. L
  <2>1. n \in 1 .. L + 1 /\ (L + 1) - n + 1 = L - n + 2
    BY <1>1
  <2>2. Ones(s)[n] = s[n] /\ Rests(s)[n] = (L - n + 1) * s[n]
    BY DEF Ones, Rests, L
  <2>3. Ones(t)[n] = s[n] /\ Rests(t)[n] = (L - n + 2) * s[n]
    BY <1>1, <2>1 DEF Ones, Rests
  <2>4. f[n] = f[n - 1] + Ones(s)[n] /\ h[n] = h[n - 1] + Rests(s)[n]
    BY <1>1, <1>2, <1>4, SumValues
  <2>5. g[n] = g[n - 1] + Ones(t)[n] /\ k[n] = k[n - 1] + Rests(t)[n]
    BY <1>1, <1>3, <1>5, <2>1, SumValues
  <2> QED BY <2>2, <2>3, <2>4, <2>5
<1>7. f[0] = 0 /\ g[0] = 0 /\ h[0] = 0 /\ k[0] = 0
  BY <1>1, <1>2, <1>3, <1>4, <1>5, SumValues
<1>8. g[L + 1] = g[L] + b /\ k[L + 1] = k[L] + b
  <2>1. Ones(t)[L + 1] = b /\ Rests(t)[L + 1] = b
    BY <1>1 DEF Ones, Rests
  <2>2. g[L + 1] = g[L] + Ones(t)[L + 1] /\ k[L + 1] = k[L] + Rests(t)[L + 1]
    BY <1>1, <1>3, <1>5, SumValues
  <2> QED BY <2>1, <2>2
<1>9. \A n \in 0 .. L : /\ f[n] \in Nat /\ h[n] \in Nat
                        /\ g[n] = f[n] /\ k[n] = h[n] + f[n]
  <2> DEFINE T == {n \in 0 .. L : /\ f[n] \in Nat /\ h[n] \in Nat
                                 /\ g[n] = f[n] /\ k[n] = h[n] + f[n]}
  <2>1. 0 \in T
    BY <1>1, <1>7
  <2>2. ASSUME NEW n \in 1 .. L, n - 1 \in T
        PROVE  n \in T
    <3>1. s[n] \in Nat /\ L - n + 1 \in Nat
      BY <1>1
    <3>2. PICK p \in Nat : p = (L - n + 1) * s[n] /\ (L - n + 2) * s[n] = p + s[n]
      <4>1. PICK c \in Nat : c = L - n + 1 /\ L - n + 2 = c + 1
        BY <1>1
      <4>2. c * s[n] \in Nat /\ (c + 1) * s[n] = c * s[n] + 1 * s[n]
        BY <3>1, Distributes
      <4>3. 1 * s[n] = s[n]
        BY <3>1
      <4> QED BY <4>1, <4>2, <4>3
    <3>3. /\ f[n] = f[n - 1] + s[n] /\ g[n] = g[n - 1] + s[n]
          /\ h[n] = h[n - 1] + p /\ k[n] = k[n - 1] + (p + s[n])
      BY <1>6, <3>2
    <3>4. /\ f[n - 1] \in Nat /\ h[n - 1] \in Nat
          /\ g[n - 1] = f[n - 1] /\ k[n - 1] = h[n - 1] + f[n - 1]
      BY <2>2
    <3>5. n \in 0 .. L
      BY <1>1
    <3>6. PICK a \in Nat, c \in Nat, d \in Nat :
                 a = f[n - 1] /\ c = h[n - 1] /\ d = s[n]
      BY <3>1, <3>4
    <3>7. f[n] = a + d /\ g[n] = a + d /\ h[n] = c + p /\ k[n] = (c + a) + (p + d)
      BY <3>3, <3>4, <3>6
    <3>8. (c + a) + (p + d) = (c + p) + (a + d) /\ a + d \in Nat /\ c + p \in Nat
      OBVIOUS
    <3> QED BY <3>5, <3>7, <3>8
  <2>3. \A n \in 0 .. L : n \in T
    <3> HIDE DEF T
    <3> QED BY <1>1, <2>1, <2>2, Induction
  <2> QED BY <2>3
<1>10. /\ f[L] \in Nat /\ h[L] \in Nat /\ b \in Nat /\ L \in 0 .. L
       /\ g[L + 1] = f[L] + b /\ k[L + 1] = h[L] + g[L + 1]
  BY <1>1, <1>8, <1>9
<1>11. Receiver!Checksum1(t) = (Receiver!Checksum1(s) + b) % W
  <2>1. ((f[L] % W) + b) % W = (f[L] + b) % W
    BY <1>10, ModSum
  <2> QED BY <1>2, <1>3, <1>10, <2>1
<1>12. Receiver!Checksum2(t) = (Receiver!Checksum2(s) + Receiver!Checksum1(t)) % W
  <2>1. g[L + 1] \in Nat /\ h[L] \in Nat /\ k[L + 1] = h[L] + g[L + 1]
    BY <1>10
  <2>2. (h[L] + g[L + 1]) % W = ((h[L] % W) + (g[L + 1] % W)) % W
    BY <2>1, ModSums
  <2> QED BY <1>3, <1>4, <1>5, <2>1, <2>2
<1> QED BY <1>11, <1>12 DEF t

(* Before the first byte both are 0.                                       *)
LEMMA EmptyChecksums ==
  Receiver!Checksum1(<<>>) = 0 /\ Receiver!Checksum2(<<>>) = 0
<1>1. <<>> \in Seq(Bytes) /\ Len(<<>>) = 0
  OBVIOUS
<1>2. 0 % W = 0
  OBVIOUS
<1> QED BY <1>1, <1>2, Checksum1IsSum, Checksum2IsSum, SumValues

-----------------------------------------------------------------------------
(* The decoder, whatever arrives.                                          *)

(* updateCS() keeps both sums bytes.                                       *)
LEMMA SumsAreBytes ==
  ASSUME cs1 \in Bytes, cs2 \in Bytes, NEW b \in Bytes, UpdateCS(b)
  PROVE  cs1' \in Bytes /\ cs2' \in Bytes
<1>1. cs1' \in Bytes
  BY DEF UpdateCS
<1> QED BY <1>1 DEF UpdateCS

-----------------------------------------------------------------------------

(* While a payload is received, its length is that of its id and the       *)
(* buffer is not full; once it is received, it is received as a whole.     *)
LengthMatches == seq \in {4, 5, 6} => LengthFits(msgLen)
PayloadIsWhole == seq \in {5, 6} => cnt = msgLen

IInv == /\ TypeOK
        /\ WritesInBuffer
        /\ WholePayload
        /\ LengthMatches
        /\ PayloadIsWhole

(* The decoder begins with nothing received.                               *)
LEMMA IInvInit == Init => IInv
<1> SUFFICES ASSUME Init PROVE IInv
  OBVIOUS
<1>1. payload \in [0 .. BufSize - 1 -> Bytes]
  BY DEF Init
<1> QED BY <1>1 DEF Init, IInv, TypeOK, WritesInBuffer, WholePayload,
                    LengthMatches, PayloadIsWhole

(* Every call of decode() preserves it.                                    *)
LEMMA IInvStep == IInv /\ [Next]_vars => IInv'
<1> SUFFICES ASSUME IInv, [Next]_vars PROVE IInv'
  OBVIOUS
<1> USE DEF IInv, TypeOK, WritesInBuffer, WholePayload, LengthMatches,
            PayloadIsWhole, LengthFits, sums
<1>1. ASSUME NEW b \in Bytes, ReceiveHeader1(b) PROVE IInv'
  BY <1>1 DEF ReceiveHeader1
<1>2. ASSUME NEW b \in Bytes, ReceiveHeader2(b) PROVE IInv'
  BY <1>2 DEF ReceiveHeader2
<1>3. ASSUME NEW b \in Bytes, ReceiveId(b) PROVE IInv'
  BY <1>3, SumsAreBytes DEF ReceiveId
<1>4. ASSUME NEW b \in Bytes, ReceiveLength(b) PROVE IInv'
  BY <1>4, SumsAreBytes DEF ReceiveLength
<1>5. ASSUME NEW b \in Bytes, ReceivePayload(b) PROVE IInv'
  <2>1. payload' \in [0 .. BufSize - 1 -> Bytes]
    BY <1>5 DEF ReceivePayload
  <2>2. cs1' \in Bytes /\ cs2' \in Bytes
    BY <1>5, SumsAreBytes DEF ReceivePayload
  <2>3. /\ cnt' \in 0..BufSize
        /\ cnt' <= msgLen
        /\ seq' = IF cnt' = msgLen THEN 5 ELSE 4
    BY <1>5 DEF ReceivePayload
  <2>4. /\ seq = 4 /\ msgLen <= BufSize
        /\ UNCHANGED <<msgId, msgLen>>
        /\ result' = None
    BY <1>5 DEF ReceivePayload
  <2>5. CASE cnt' = msgLen
    BY <1>5, <2>1, <2>2, <2>3, <2>4, <2>5 DEF ReceivePayload
  <2>6. CASE cnt' # msgLen
    <3>1. seq' = 4 /\ cnt' < msgLen' /\ msgLen' = msgLen /\ cnt' \in 0 .. BufSize
      BY <2>3, <2>4, <2>6
    <3>2. TypeOK'
      BY <2>1, <2>2, <2>4, <3>1
    <3>3. (WritesInBuffer /\ LengthMatches)'
      BY <2>4, <3>1
    <3>4. (WholePayload /\ PayloadIsWhole)'
      BY <2>4, <3>1
    <3> QED BY <3>2, <3>3, <3>4
  <2> QED BY <2>5, <2>6
<1>6. ASSUME NEW b \in Bytes, ReceiveChecksum1(b) PROVE IInv'
  BY <1>6 DEF ReceiveChecksum1
<1>7. ASSUME NEW b \in Bytes, ReceiveChecksum2(b) PROVE IInv'
  BY <1>7 DEF ReceiveChecksum2
<1>8. ASSUME NEW b \in Bytes, Reject(b) PROVE IInv'
  BY <1>8 DEF Reject
<1>9. CASE UNCHANGED vars
  BY <1>9 DEF vars
<1> QED
  BY <1>1, <1>2, <1>3, <1>4, <1>5, <1>6, <1>7, <1>8, <1>9 DEF Next, Decode

(* So it holds in every reachable state.                                   *)
LEMMA Invariance == Spec => []IInv
  BY IInvInit, IInvStep, PTL DEF Spec

(* Every reachable state of the decoder has its type.                      *)
THEOREM Typing == Spec => []TypeOK
<1>1. IInv => TypeOK
  BY DEF IInv
<1> QED BY <1>1, Invariance, PTL

(* No sequence of bytes makes decode() write outside payload[].            *)
THEOREM BufferSafety == Spec => []WritesInBuffer
<1>1. IInv => WritesInBuffer
  BY DEF IInv
<1> QED BY <1>1, Invariance, PTL

(* A returned message has had all of its payload received in its frame.    *)
THEOREM WholeMessages == Spec => []WholePayload
<1>1. IInv => WholePayload
  BY DEF IInv
<1> QED BY <1>1, Invariance, PTL

-----------------------------------------------------------------------------
(* The decoder receives frames.                                            *)

(* What the checksums cover.                                               *)
Covered ==
  CASE seq = 3 -> <<msgId>>
    [] seq \in {4, 5, 6} -> <<msgId, msgLen>> \o Stored
    [] OTHER -> <<>>

(* The running sums are the checksums of what they cover.                  *)
SumsOK ==
  seq \in 2 .. 6 => /\ cs1 = Receiver!Checksum1(Covered)
                    /\ cs2 = Receiver!Checksum2(Covered)

(* The payload so far is as many bytes as the counter says.                *)
LEMMA StoredFacts ==
  ASSUME TypeOK
  PROVE  Stored \in Seq(Bytes) /\ Len(Stored) = cnt /\ cnt \in Nat
<1>1. \A i \in 1 .. cnt : payload[i - 1] \in Bytes
  BY DEF TypeOK
<1> QED BY <1>1 DEF Stored, TypeOK

(* All that has been received of a frame, byte by byte.                    *)
LEMMA WholeFacts ==
  ASSUME TypeOK
  PROVE  /\ <<msgId, msgLen>> \o Stored \in Seq(Bytes)
         /\ Whole \in Seq(Bytes) /\ Len(Whole) = 4 + cnt
         /\ Whole[1] = Header1 /\ Whole[2] = Header2
         /\ Whole[3] = msgId /\ Whole[4] = msgLen
         /\ \A i \in 1 .. cnt : Whole[4 + i] = payload[i - 1]
<1>1. <<Header1, Header2>> \in Seq(Bytes) /\ <<msgId, msgLen>> \in Seq(Bytes)
  BY DEF TypeOK
<1>2. Stored \in Seq(Bytes) /\ Len(Stored) = cnt /\ cnt \in Nat
  BY StoredFacts
<1> DEFINE head == <<Header1, Header2>> \o <<msgId, msgLen>>
<1>3. /\ head \in Seq(Bytes) /\ Len(head) = 4
      /\ head[1] = Header1 /\ head[2] = Header2 /\ head[3] = msgId /\ head[4] = msgLen
  <2>1. /\ Len(<<Header1, Header2>>) = 2 /\ Len(<<msgId, msgLen>>) = 2
        /\ <<Header1, Header2>>[1] = Header1 /\ <<Header1, Header2>>[2] = Header2
        /\ <<msgId, msgLen>>[1] = msgId /\ <<msgId, msgLen>>[2] = msgLen
    OBVIOUS
  <2> QED BY <1>1, <2>1, ConcatProperties
<1>4. Whole = head \o Stored
  BY DEF Whole
<1> HIDE DEF head
<1>5. /\ Whole \in Seq(Bytes) /\ Len(Whole) = 4 + cnt
      /\ \A i \in 1 .. 4 + cnt : Whole[i] = IF i <= 4 THEN head[i] ELSE Stored[i - 4]
  <2>1. /\ head \o Stored \in Seq(Bytes)
        /\ Len(head \o Stored) = Len(head) + Len(Stored)
        /\ \A i \in 1 .. Len(head) + Len(Stored) :
              (head \o Stored)[i] = IF i <= Len(head) THEN head[i] ELSE Stored[i - Len(head)]
    BY <1>2, <1>3, ConcatProperties
  <2> QED BY <1>2, <1>3, <1>4, <2>1
<1>6. \A i \in 1 .. cnt : Whole[4 + i] = payload[i - 1]
  <2> TAKE i \in 1 .. cnt
  <2>1. 4 + i \in 1 .. 4 + cnt /\ ~ (4 + i <= 4) /\ (4 + i) - 4 = i
    BY <1>2
  <2> QED BY <1>5, <2>1 DEF Stored
<1> QED BY <1>1, <1>2, <1>3, <1>5, <1>6, ConcatProperties

(* Two sequences in one, element by element.                               *)
LEMMA Joined ==
  ASSUME NEW s \in Seq(Bytes), NEW t \in Seq(Bytes)
  PROVE  /\ s \o t \in Seq(Bytes) /\ Len(s \o t) = Len(s) + Len(t)
         /\ \A i \in 1 .. Len(s) : (s \o t)[i] = s[i]
         /\ \A i \in 1 .. Len(t) : (s \o t)[Len(s) + i] = t[i]
<1>1. /\ s \o t \in Seq(Bytes) /\ Len(s \o t) = Len(s) + Len(t)
      /\ \A i \in 1 .. Len(s) + Len(t) :
            (s \o t)[i] = IF i <= Len(s) THEN s[i] ELSE t[i - Len(s)]
  BY ConcatProperties
<1>2. PICK k \in Nat, l \in Nat : k = Len(s) /\ l = Len(t)
  BY LenProperties
<1>3. \A i \in 1 .. k : i \in 1 .. k + l /\ i <= k
  OBVIOUS
<1>4. \A i \in 1 .. l : k + i \in 1 .. k + l /\ ~ (k + i <= k) /\ (k + i) - k = i
  OBVIOUS
<1> QED BY <1>1, <1>2, <1>3, <1>4

(* An element behind two sequences is behind the second of them.           *)
LEMMA ConcatAppend ==
  ASSUME NEW S, NEW s \in Seq(S), NEW t \in Seq(S), NEW e \in S
  PROVE  s \o t \in Seq(S) /\ s \o Append(t, e) = Append(s \o t, e)
<1>1. s \o t \in Seq(S) /\ <<e>> \in Seq(S)
  BY ConcatProperties
<1>2. Append(t, e) = t \o <<e>> /\ Append(s \o t, e) = (s \o t) \o <<e>>
  BY <1>1, AppendIsConcat
<1> QED BY <1>1, <1>2, ConcatAssociative

(* The payload grows by the byte received.                                 *)
LEMMA StoredGrows ==
  ASSUME TypeOK, WritesInBuffer, NEW b \in Bytes, ReceivePayload(b)
  PROVE  Stored' = Append(Stored, b)
<1>1. /\ cnt \in 0 .. BufSize - 1 /\ cnt' = cnt + 1
      /\ payload' = [payload EXCEPT ![cnt] = b]
  BY DEF ReceivePayload, TypeOK, WritesInBuffer
<1>2. /\ Append(Stored, b) \in Seq(Bytes) /\ Len(Append(Stored, b)) = cnt + 1
      /\ \A i \in 1 .. cnt : Append(Stored, b)[i] = payload[i - 1]
      /\ Append(Stored, b)[cnt + 1] = b
  BY StoredFacts, AppendProperties DEF Stored
<1>3. \A i \in 1 .. cnt : payload'[i - 1] = payload[i - 1]
  BY <1>1 DEF TypeOK
<1>4. payload'[cnt] = b /\ (cnt + 1) - 1 = cnt
  BY <1>1 DEF TypeOK
<1>5. Stored' = [i \in 1 .. cnt + 1 |-> payload'[i - 1]]
  BY <1>1 DEF Stored
<1>6. Stored' \in Seq(Bytes) /\ Len(Stored') = cnt + 1
  <2>1. \A i \in 1 .. cnt + 1 : payload'[i - 1] \in Bytes
    BY <1>1 DEF TypeOK
  <2> QED BY <1>1, <1>5, <2>1
<1>7. \A i \in 1 .. cnt + 1 : Stored'[i] = Append(Stored, b)[i]
  BY <1>1, <1>2, <1>3, <1>4, <1>5
<1> QED BY <1>2, <1>6, <1>7, SeqEqual

(* A byte that is summed up is covered from then on.                       *)
LEMMA CoveredGrows ==
  ASSUME TypeOK, WritesInBuffer, NEW b \in Bytes,
         ReceiveId(b) \/ ReceiveLength(b) \/ ReceivePayload(b)
  PROVE  Covered \in Seq(Bytes) /\ Covered' = Append(Covered, b)
<1>1. CASE ReceiveId(b)
  BY <1>1 DEF ReceiveId, Covered
<1>2. CASE ReceiveLength(b)
  <2>1. Stored' = <<>>
    BY <1>2 DEF ReceiveLength, Stored
  <2>2. Covered = <<msgId>> /\ Covered' = <<msgId, b>>
    BY <1>2, <2>1 DEF ReceiveLength, Covered
  <2> QED BY <2>2 DEF TypeOK
<1>3. CASE ReceivePayload(b)
  <2>1. /\ cnt \in 0 .. BufSize - 1 /\ cnt' = cnt + 1 /\ seq' \in {4, 5}
        /\ payload' = [payload EXCEPT ![cnt] = b] /\ seq = 4
        /\ msgId' = msgId /\ msgLen' = msgLen
    BY <1>3 DEF ReceivePayload, TypeOK, WritesInBuffer
  <2>2. Stored' = Append(Stored, b)
    BY <1>3, StoredGrows
  <2>3. Covered = <<msgId, msgLen>> \o Stored /\ Covered' = <<msgId, msgLen>> \o Stored'
    BY <2>1 DEF Covered
  <2>4. <<msgId, msgLen>> \in Seq(Bytes)
    BY DEF TypeOK
  <2> QED BY <2>2, <2>3, <2>4, StoredFacts, ConcatAppend
<1> QED BY <1>1, <1>2, <1>3

(* The sums start with the second header byte and go on with every byte    *)
(* that is covered.                                                        *)
LEMMA SumsOKStep ==
  ASSUME TypeOK, WritesInBuffer, SumsOK, NEW b \in Bytes, Decode(b)
  PROVE  SumsOK'
<1>1. CASE ReceiveHeader2(b)
  BY <1>1, EmptyChecksums DEF ReceiveHeader2, SumsOK, Covered
<1>2. CASE ReceiveId(b) \/ ReceiveLength(b) \/ ReceivePayload(b)
  <2>1. Covered \in Seq(Bytes) /\ Covered' = Append(Covered, b)
    BY <1>2, CoveredGrows
  <2>2. /\ Receiver!Checksum1(Covered') = (Receiver!Checksum1(Covered) + b) % W
        /\ Receiver!Checksum2(Covered')
             = (Receiver!Checksum2(Covered) + Receiver!Checksum1(Covered')) % W
    BY <2>1, Checksums
  <2>3. seq \in 2 .. 6 /\ UpdateCS(b)
    BY <1>2 DEF ReceiveId, ReceiveLength, ReceivePayload
  <2>4. cs1' = Receiver!Checksum1(Covered') /\ cs2' = Receiver!Checksum2(Covered')
    BY <2>2, <2>3 DEF SumsOK, UpdateCS
  <2> QED BY <2>4 DEF SumsOK
<1>3. CASE ReceiveChecksum1(b)
  <2>1. Covered' = Covered /\ seq = 5
    BY <1>3 DEF ReceiveChecksum1, Covered, Stored
  <2> QED BY <1>3, <2>1 DEF ReceiveChecksum1, SumsOK, sums
<1>4. CASE ReceiveHeader1(b) \/ ReceiveChecksum2(b) \/ Reject(b)
  <2>1. seq' \notin 2 .. 6
    BY <1>4 DEF ReceiveHeader1, ReceiveChecksum2, Reject
  <2> QED BY <2>1 DEF SumsOK
<1> QED BY <1>1, <1>2, <1>3, <1>4 DEF Decode

(* What Received is in each state.                                         *)
LEMMA ReceivedIs ==
  ASSUME TypeOK
  PROVE  /\ seq = 0 => Received = <<>>
         /\ seq = 1 => Received = <<Header1>>
         /\ seq = 2 => Received = <<Header1, Header2>>
         /\ seq = 3 => Received = <<Header1, Header2, msgId>>
         /\ seq \in {4, 5} => Received = Whole
         /\ seq = 6 => Received = Append(Whole, cs1)
BY DEF Received

(* A part of a sequence, element by element.                               *)
LEMMA Slice ==
  ASSUME NEW s \in Seq(Bytes), NEW m \in Int, NEW n \in Int,
         1 <= m, m <= n + 1, n <= Len(s)
  PROVE  /\ SubSeq(s, m, n) \in Seq(Bytes)
         /\ Len(SubSeq(s, m, n)) = n - m + 1
         /\ \A i \in 1 .. n - m + 1 : SubSeq(s, m, n)[i] = s[i + m - 1]
<1>1. \A i \in m .. n : s[i] \in Bytes
  BY ElementOfSeq, LenProperties
<1>2. /\ SubSeq(s, m, n) \in Seq(Bytes)
      /\ Len(SubSeq(s, m, n)) = IF m <= n THEN n - m + 1 ELSE 0
      /\ \A i \in 1 .. n - m + 1 : SubSeq(s, m, n)[i] = s[m + i - 1]
  <2> HIDE DEF Bytes
  <2> QED BY <1>1, SubSeqProperties
<1>3. \A i \in 1 .. n - m + 1 : m + i - 1 = i + m - 1
  OBVIOUS
<1> QED BY <1>2, <1>3

(* In terms of the receiver: the length of what is held, the length the    *)
(* frame will have and, once the payload is whole, the bytes its checksums *)
(* are of.                                                                 *)
LEMMA HeldIs ==
  ASSUME IInv
  PROVE  /\ Received \in Seq(Bytes)
         /\ seq \in 0 .. 3 => Len(Received) = seq
         /\ seq = 3 => Received[3] = msgId
         /\ seq \in {4, 5, 6} =>
              /\ Len(Received) = IF seq = 6 THEN cnt + 5 ELSE cnt + 4
              /\ \A i \in 1 .. cnt + 4 : Received[i] = Whole[i]
              /\ Received[3] = msgId
              /\ Receiver!LengthOf(Received) = msgLen
              /\ Receiver!Size(Received) = msgLen + 6
              /\ msgLen \in Nat \ {0}
<1>1. TypeOK
  BY DEF IInv
<1>2. CASE seq \in 0 .. 3
  <2>1. /\ <<>> \in Seq(Bytes) /\ Len(<<>>) = 0
        /\ <<Header1>> \in Seq(Bytes) /\ Len(<<Header1>>) = 1
        /\ <<Header1, Header2>> \in Seq(Bytes) /\ Len(<<Header1, Header2>>) = 2
    OBVIOUS
  <2>2. /\ <<Header1, Header2, msgId>> \in Seq(Bytes)
        /\ Len(<<Header1, Header2, msgId>>) = 3
        /\ <<Header1, Header2, msgId>>[3] = msgId
    BY <1>1 DEF TypeOK
  <2>3. CASE seq = 0
    BY <1>1, <2>1, <2>3, ReceivedIs
  <2>4. CASE seq = 1
    <3>1. Received = <<Header1>>
      BY <1>1, <2>4, ReceivedIs
    <3> QED BY <2>1, <2>4, <3>1
  <2>5. CASE seq = 2
    <3>1. Received = <<Header1, Header2>>
      BY <1>1, <2>5, ReceivedIs
    <3> QED BY <2>1, <2>5, <3>1
  <2>6. CASE seq = 3
    <3>1. Received = <<Header1, Header2, msgId>>
      BY <1>1, <2>6, ReceivedIs
    <3> QED BY <2>2, <2>6, <3>1
  <2> QED BY <1>2, <2>3, <2>4, <2>5, <2>6
<1>3. CASE seq \in {4, 5, 6}
  <2>1. msgId \in DOMAIN Lengths /\ msgLen = Lengths[msgId] /\ msgLen \in Nat \ {0}
    BY <1>3 DEF IInv, LengthMatches, LengthFits
  <2>2. cnt \in Nat /\ Whole \in Seq(Bytes) /\ Len(Whole) = 4 + cnt /\ Whole[3] = msgId
    BY <1>1, StoredFacts, WholeFacts
  <2>3. cs1 \in Bytes
    BY <1>1 DEF TypeOK
  <2>4. /\ Received \in Seq(Bytes)
        /\ Len(Received) = IF seq = 6 THEN cnt + 5 ELSE cnt + 4
        /\ \A i \in 1 .. cnt + 4 : Received[i] = Whole[i]
    <3>1. CASE seq \in {4, 5}
      BY <1>1, <2>2, <3>1, ReceivedIs
    <3>2. CASE seq = 6
      <4>1. /\ Append(Whole, cs1) \in Seq(Bytes)
            /\ Len(Append(Whole, cs1)) = Len(Whole) + 1
            /\ \A i \in 1 .. Len(Whole) : Append(Whole, cs1)[i] = Whole[i]
        BY <2>2, <2>3, AppendProperties
      <4>2. Received = Append(Whole, cs1)
        BY <1>1, <3>2, ReceivedIs
      <4> QED BY <2>2, <3>2, <4>1, <4>2
    <3> QED BY <1>3, <3>1, <3>2
  <2>5. Received[3] = msgId
    <3>1. 3 \in 1 .. cnt + 4
      BY <2>2
    <3> QED BY <2>2, <2>4, <3>1
  <2>6. Receiver!LengthOf(Received) = msgLen
    BY <2>1, <2>5 DEF Receiver!LengthOf
  <2>7. Receiver!Size(Received) = msgLen + 6
    BY <2>6 DEF Receiver!Size
  <2> QED BY <1>3, <2>1, <2>4, <2>5, <2>6, <2>7
<1> QED BY <1>1, <1>2, <1>3 DEF TypeOK

(* With the payload complete, the checksums cover what the receiver takes  *)
(* them of.                                                                *)
LEMMA BodyIs ==
  ASSUME IInv, seq \in {5, 6}
  PROVE  Receiver!Body(Received) = Covered
<1>1. TypeOK /\ cnt = msgLen
  BY DEF IInv, PayloadIsWhole
<1>2. cnt \in Nat /\ Stored \in Seq(Bytes) /\ Len(Stored) = cnt
  BY <1>1, StoredFacts
<1>3. /\ Received \in Seq(Bytes)
      /\ Len(Received) >= cnt + 4
      /\ \A i \in 1 .. cnt + 4 : Received[i] = Whole[i]
      /\ Receiver!LengthOf(Received) = cnt
  BY <1>1, <1>2, HeldIs
<1>4. Receiver!Body(Received) = SubSeq(Received, 3, 4 + cnt)
  BY <1>3 DEF Receiver!Body
<1>5. /\ SubSeq(Received, 3, 4 + cnt) \in Seq(Bytes)
      /\ Len(SubSeq(Received, 3, 4 + cnt)) = cnt + 2
      /\ \A i \in 1 .. cnt + 2 : SubSeq(Received, 3, 4 + cnt)[i] = Received[i + 2]
  <2>1. /\ 4 + cnt \in Int /\ 3 <= (4 + cnt) + 1 /\ 4 + cnt <= Len(Received)
        /\ (4 + cnt) - 3 + 1 = cnt + 2
    BY <1>2, <1>3
  <2>2. \A i \in 1 .. cnt + 2 : i + 3 - 1 = i + 2
    OBVIOUS
  <2> QED BY <1>2, <1>3, <2>1, <2>2, Slice
<1>6. /\ Whole[3] = msgId /\ Whole[4] = msgLen
      /\ \A i \in 1 .. cnt : Whole[4 + i] = Stored[i]
  BY <1>1, WholeFacts DEF Stored
<1>7. <<msgId, msgLen>> \in Seq(Bytes)
  BY <1>1 DEF TypeOK
<1>8. /\ Covered \in Seq(Bytes) /\ Len(Covered) = cnt + 2
      /\ Covered[1] = msgId /\ Covered[2] = msgLen
      /\ \A i \in 1 .. cnt : Covered[i + 2] = Stored[i]
  <2>1. Covered = <<msgId, msgLen>> \o Stored
    BY DEF Covered
  <2>2. Len(<<msgId, msgLen>>) = 2
    OBVIOUS
  <2> QED BY <1>2, <1>7, <2>1, <2>2, ConcatProperties
<1>9. \A i \in 1 .. cnt + 2 : Received[i + 2] = Covered[i]
  <2> TAKE i \in 1 .. cnt + 2
  <2>1. Received[i + 2] = Whole[i + 2]
    BY <1>2, <1>3
  <2>2. CASE i \in {1, 2}
    BY <1>6, <1>8, <2>1, <2>2
  <2>3. CASE i \in 3 .. cnt + 2
    <3>1. i - 2 \in 1 .. cnt /\ 4 + (i - 2) = i + 2 /\ (i - 2) + 2 = i
      BY <1>2, <2>3
    <3> QED BY <1>6, <1>8, <2>1, <3>1
  <2> QED BY <1>2, <2>2, <2>3
<1> QED BY <1>4, <1>5, <1>8, <1>9, SeqEqual

(* The decoder goes on with exactly the bytes some frame goes on with.     *)
LEMMA GoesOn ==
  ASSUME IInv, SumsOK, NEW b \in Bytes
  PROVE  Receiver!Continues(Received, b) <=>
           /\ seq = 0 => b = Header1
           /\ seq = 1 => b = Header2
           /\ seq = 3 => LengthFits(b)
           /\ seq = 5 => b = cs1
           /\ seq = 6 => b = cs2
<1>1. TypeOK /\ seq \in 0 .. 6
  BY DEF IInv, TypeOK
<1>2. CASE seq \in 0 .. 3
  <2>1. Len(Received) = seq /\ (seq = 3 => Received[3] = msgId)
    BY <1>2, HeldIs
  <2> QED BY <1>2, <2>1 DEF Receiver!Continues, Receiver!LengthOf, LengthFits
<1>3. CASE seq \in {4, 5, 6}
  <2>1. /\ Len(Received) = IF seq = 6 THEN cnt + 5 ELSE cnt + 4
        /\ Receiver!Size(Received) = msgLen + 6
        /\ msgLen \in Nat /\ cnt \in Nat
    BY <1>1, <1>3, HeldIs, StoredFacts
  <2>2. seq = 4 => cnt < msgLen
    BY DEF IInv, WritesInBuffer
  <2>3. seq \in {5, 6} => /\ cnt = msgLen /\ cnt > 0
                          /\ cs1 = Receiver!Checksum1(Receiver!Body(Received))
                          /\ cs2 = Receiver!Checksum2(Receiver!Body(Received))
    BY BodyIs, HeldIs DEF IInv, PayloadIsWhole, SumsOK
  <2>4. CASE seq = 4
    BY <2>1, <2>2, <2>4 DEF Receiver!Continues
  <2>5. CASE seq = 5
    BY <2>1, <2>3, <2>5 DEF Receiver!Continues
  <2>6. CASE seq = 6
    BY <2>1, <2>3, <2>6 DEF Receiver!Continues
  <2> QED BY <1>3, <2>4, <2>5, <2>6
<1> QED BY <1>1, <1>2, <1>3

(* What is held with one byte more.                                        *)
LEMMA LongerIs ==
  ASSUME IInv, NEW b \in Bytes
  PROVE  LET longer == Append(Received, b) IN
         /\ seq \in 0 .. 3 => ~ Receiver!Completes(longer)
         /\ seq \in {4, 5, 6} =>
              /\ longer \in Seq(Bytes)
              /\ Len(longer) = IF seq = 6 THEN cnt + 6 ELSE cnt + 5
              /\ \A i \in 1 .. cnt + 4 : longer[i] = Whole[i]
              /\ longer[3] = msgId
              /\ Receiver!LengthOf(longer) = msgLen
              /\ Receiver!Completes(longer) <=> seq = 6
<1> DEFINE longer == Append(Received, b)
<1>1. TypeOK
  BY DEF IInv
<1>2. /\ longer \in Seq(Bytes)
      /\ Len(longer) = Len(Received) + 1
      /\ \A i \in 1 .. Len(Received) : longer[i] = Received[i]
  BY HeldIs, AppendProperties
<1> HIDE DEF longer
<1>3. CASE seq \in 0 .. 3
  <2>1. ~ Len(longer) > 4
    BY <1>2, <1>3, HeldIs
  <2> QED BY <1>3, <2>1 DEF Receiver!Completes, longer
<1>4. CASE seq \in {4, 5, 6}
  <2>1. /\ Len(Received) = IF seq = 6 THEN cnt + 5 ELSE cnt + 4
        /\ \A i \in 1 .. cnt + 4 : Received[i] = Whole[i]
        /\ Received[3] = msgId
        /\ Receiver!LengthOf(Received) = msgLen
        /\ msgLen \in Nat /\ cnt \in Nat
    BY <1>1, <1>4, HeldIs, StoredFacts
  <2>2. /\ Len(longer) = IF seq = 6 THEN cnt + 6 ELSE cnt + 5
        /\ \A i \in 1 .. cnt + 4 : longer[i] = Whole[i]
    BY <1>2, <2>1
  <2>3. longer[3] = Received[3]
    <3>1. 3 \in 1 .. Len(Received)
      BY <2>1
    <3> QED BY <1>2, <3>1
  <2>4. Receiver!LengthOf(longer) = msgLen
    BY <2>1, <2>3 DEF Receiver!LengthOf
  <2>5. Receiver!Size(longer) = msgLen + 6
    BY <2>4 DEF Receiver!Size
  <2>6. seq = 4 => cnt < msgLen
    BY DEF IInv, WritesInBuffer
  <2>7. seq \in {5, 6} => cnt = msgLen
    BY DEF IInv, PayloadIsWhole
  <2>8. Receiver!Completes(longer) <=> seq = 6
    BY <1>4, <2>1, <2>2, <2>5, <2>6, <2>7 DEF Receiver!Completes
  <2> QED BY <1>2, <1>4, <2>1, <2>2, <2>3, <2>4, <2>8 DEF longer
<1> QED BY <1>1, <1>3, <1>4 DEF TypeOK

(* Sequences written out, with one byte more.                              *)
LEMMA Longer ==
  /\ \A w, x \in Bytes : Append(<<w>>, x) = <<w, x>>
  /\ \A w, x, y \in Bytes : Append(<<w, x>>, y) = <<w, x, y>>
  /\ \A w, x, y, z \in Bytes : Append(<<w, x, y>>, z) = <<w, x, y, z>>
  /\ \A w, x, y, z \in Bytes : <<w, x>> \o <<y, z>> = <<w, x, y, z>>
<1>1. ASSUME NEW w \in Bytes, NEW x \in Bytes
      PROVE  Append(<<w>>, x) = <<w, x>>
  <2> DEFINE s == Append(<<w>>, x)
             t == <<w, x>>
  <2>1. t \in Seq(Bytes) /\ Len(t) = 2 /\ t[1] = w /\ t[2] = x
    OBVIOUS
  <2>2. <<w>> \in Seq(Bytes) /\ Len(<<w>>) = 1 /\ <<w>>[1] = w
    OBVIOUS
  <2>3. s \in Seq(Bytes) /\ Len(s) = 2 /\ s[1] = w /\ s[2] = x
    BY <2>2, AppendProperties
  <2> HIDE DEF s, t
  <2>4. \A i \in 1 .. Len(s) : s[i] = t[i]
    BY <2>1, <2>3
  <2>5. s = t
    BY <2>1, <2>3, <2>4, SeqEqual
  <2> QED BY <2>5 DEF s, t
<1>2. ASSUME NEW w \in Bytes, NEW x \in Bytes, NEW y \in Bytes
      PROVE  Append(<<w, x>>, y) = <<w, x, y>>
  <2> DEFINE s == Append(<<w, x>>, y)
             t == <<w, x, y>>
  <2>1. t \in Seq(Bytes) /\ Len(t) = 3 /\ t[1] = w /\ t[2] = x /\ t[3] = y
    OBVIOUS
  <2>2. <<w, x>> \in Seq(Bytes) /\ Len(<<w, x>>) = 2 /\ <<w, x>>[1] = w /\ <<w, x>>[2] = x
    OBVIOUS
  <2>3. s \in Seq(Bytes) /\ Len(s) = 3 /\ s[1] = w /\ s[2] = x /\ s[3] = y
    BY <2>2, AppendProperties
  <2> HIDE DEF s, t
  <2>4. \A i \in 1 .. Len(s) : s[i] = t[i]
    BY <2>1, <2>3
  <2>5. s = t
    BY <2>1, <2>3, <2>4, SeqEqual
  <2> QED BY <2>5 DEF s, t
<1>3. ASSUME NEW w \in Bytes, NEW x \in Bytes, NEW y \in Bytes, NEW z \in Bytes
      PROVE  Append(<<w, x, y>>, z) = <<w, x, y, z>>
  <2> DEFINE s == Append(<<w, x, y>>, z)
             t == <<w, x, y, z>>
  <2>1. t \in Seq(Bytes) /\ Len(t) = 4 /\ t[1] = w /\ t[2] = x /\ t[3] = y /\ t[4] = z
    OBVIOUS
  <2>2. /\ <<w, x, y>> \in Seq(Bytes) /\ Len(<<w, x, y>>) = 3
        /\ <<w, x, y>>[1] = w /\ <<w, x, y>>[2] = x /\ <<w, x, y>>[3] = y
    OBVIOUS
  <2>3. s \in Seq(Bytes) /\ Len(s) = 4 /\ s[1] = w /\ s[2] = x /\ s[3] = y /\ s[4] = z
    BY <2>2, AppendProperties
  <2> HIDE DEF s, t
  <2>4. \A i \in 1 .. Len(s) : s[i] = t[i]
    BY <2>1, <2>3
  <2>5. s = t
    BY <2>1, <2>3, <2>4, SeqEqual
  <2> QED BY <2>5 DEF s, t
<1>4. ASSUME NEW w \in Bytes, NEW x \in Bytes, NEW y \in Bytes, NEW z \in Bytes
      PROVE  <<w, x>> \o <<y, z>> = <<w, x, y, z>>
  <2> DEFINE s == <<w, x>> \o <<y, z>>
             t == <<w, x, y, z>>
  <2>1. t \in Seq(Bytes) /\ Len(t) = 4 /\ t[1] = w /\ t[2] = x /\ t[3] = y /\ t[4] = z
    OBVIOUS
  <2>2. /\ <<w, x>> \in Seq(Bytes) /\ Len(<<w, x>>) = 2 /\ <<w, x>>[1] = w /\ <<w, x>>[2] = x
        /\ <<y, z>> \in Seq(Bytes) /\ Len(<<y, z>>) = 2 /\ <<y, z>>[1] = y /\ <<y, z>>[2] = z
    OBVIOUS
  <2>3. s \in Seq(Bytes) /\ Len(s) = 4 /\ s[1] = w /\ s[2] = x /\ s[3] = y /\ s[4] = z
    BY <2>2, ConcatProperties
  <2> HIDE DEF s, t
  <2>4. \A i \in 1 .. Len(s) : s[i] = t[i]
    BY <2>1, <2>3
  <2>5. s = t
    BY <2>1, <2>3, <2>4, SeqEqual
  <2> QED BY <2>5 DEF s, t
<1> QED BY <1>1, <1>2, <1>3, <1>4

(* Every byte decoded is received the way the abstract receiver does it.   *)
LEMMA DecodeReceives ==
  ASSUME IInv, SumsOK, NEW b \in Bytes, Decode(b)
  PROVE  Receiver!Receive(b)
<1> DEFINE longer == Append(Received, b)
<1>1. TypeOK /\ WritesInBuffer
  BY DEF IInv
<1>2. result' = None => Returned' = Receiver!Nothing
  BY DEF Returned, Receiver!Nothing
<1>3. ASSUME result' = None, ~ Receiver!Completes(longer),
             Receiver!Continues(Received, b), Received' = longer
      PROVE  Receiver!Accept(b)
  BY <1>2, <1>3 DEF Receiver!Accept
<1>4. CASE ReceiveHeader1(b)
  <2>1. Received = <<>> /\ Received' = <<b>> /\ longer = <<b>>
    BY <1>4 DEF ReceiveHeader1, Received
  <2> QED BY <1>3, <1>4, <2>1, GoesOn, LongerIs DEF ReceiveHeader1, Receiver!Receive
<1>5. CASE ReceiveHeader2(b)
  <2>1. Received = <<Header1>> /\ Received' = <<Header1, b>>
    BY <1>5 DEF ReceiveHeader2, Received
  <2>2. longer = <<Header1, b>>
    BY <2>1, Longer
  <2> QED BY <1>3, <1>5, <2>1, <2>2, GoesOn, LongerIs DEF ReceiveHeader2, Receiver!Receive
<1>6. CASE ReceiveId(b)
  <2>1. Received = <<Header1, Header2>> /\ Received' = <<Header1, Header2, b>>
    BY <1>6 DEF ReceiveId, Received
  <2>2. longer = <<Header1, Header2, b>>
    BY <2>1, Longer
  <2> QED BY <1>3, <1>6, <2>1, <2>2, GoesOn, LongerIs DEF ReceiveId, Receiver!Receive
<1>7. CASE ReceiveLength(b)
  <2>1. Stored' = <<>>
    BY <1>7 DEF ReceiveLength, Stored
  <2>2. Received = <<Header1, Header2, msgId>> /\ Received' = Whole'
    BY <1>7 DEF ReceiveLength, Received
  <2>3. Whole' = <<Header1, Header2, msgId, b>>
    <3>1. msgId \in Bytes
      BY <1>1 DEF TypeOK
    <3>2. <<Header1, Header2>> \o <<msgId, b>> = <<Header1, Header2, msgId, b>>
      BY <3>1, Longer
    <3>3. <<Header1, Header2, msgId, b>> \in Seq(Bytes)
      BY <3>1
    <3>4. Whole' = <<Header1, Header2>> \o <<msgId, b>> \o <<>>
      BY <1>7, <2>1 DEF ReceiveLength, Whole
    <3> QED BY <3>2, <3>3, <3>4, ConcatEmptySeq
  <2>4. longer = <<Header1, Header2, msgId, b>>
    <3>1. msgId \in Bytes
      BY <1>1 DEF TypeOK
    <3> QED BY <2>2, <3>1, Longer
  <2> QED BY <1>3, <1>7, <2>2, <2>3, <2>4, GoesOn, LongerIs DEF ReceiveLength, Receiver!Receive
<1>8. CASE ReceivePayload(b)
  <2>1. Received = Whole /\ Received' = Whole'
    BY <1>8 DEF ReceivePayload, Received
  <2>2. Whole' = <<Header1, Header2>> \o <<msgId, msgLen>> \o Append(Stored, b)
    BY <1>1, <1>8, StoredGrows DEF ReceivePayload, Whole
  <2>3. Whole' = Append(Whole, b)
    <3> DEFINE head == <<Header1, Header2>> \o <<msgId, msgLen>>
    <3>1. head \in Seq(Bytes)
      <4>1. <<Header1, Header2>> \in Seq(Bytes) /\ <<msgId, msgLen>> \in Seq(Bytes)
        BY <1>1 DEF TypeOK
      <4> QED BY <4>1, ConcatProperties
    <3>2. Whole' = head \o Append(Stored, b) /\ Whole = head \o Stored
      BY <2>2 DEF Whole
    <3> HIDE DEF head
    <3> QED BY <1>1, <3>1, <3>2, StoredFacts, ConcatAppend
  <2> QED BY <1>3, <1>8, <2>1, <2>3, GoesOn, LongerIs DEF ReceivePayload, Receiver!Receive
<1>9. CASE ReceiveChecksum1(b)
  <2>1. Received = Whole /\ Received' = Append(Whole', cs1')
    BY <1>9 DEF ReceiveChecksum1, Received
  <2>2. Whole' = Whole /\ cs1' = b
    BY <1>9 DEF ReceiveChecksum1, Whole, Stored, sums
  <2> QED BY <1>3, <1>9, <2>1, <2>2, GoesOn, LongerIs DEF ReceiveChecksum1, Receiver!Receive
<1>10. CASE ReceiveChecksum2(b)
  <2>1. Received' = <<>>
    BY <1>10 DEF ReceiveChecksum2, Received
  <2>2. /\ longer \in Seq(Bytes) /\ Len(longer) = cnt + 6
        /\ \A i \in 1 .. cnt + 4 : longer[i] = Whole[i]
        /\ longer[3] = msgId /\ Receiver!LengthOf(longer) = msgLen
        /\ Receiver!Completes(longer)
    BY <1>10, LongerIs DEF ReceiveChecksum2
  <2>3. Returned' = [id |-> longer[3],
                     payload |-> SubSeq(longer, 5, 4 + Receiver!LengthOf(longer))]
    <3> HIDE DEF longer
    <3>1. /\ result' = msgId /\ msgId # None /\ msgLen = cnt /\ cnt \in Nat
          /\ UNCHANGED <<msgLen, payload>>
      BY <1>1, <1>10, StoredFacts
         DEF ReceiveChecksum2, IInv, LengthMatches, LengthFits, PayloadIsWhole
    <3>2. /\ Stored \in Seq(Bytes) /\ Len(Stored) = cnt
          /\ \A i \in 1 .. cnt : Stored[i] = Whole[4 + i]
      BY <1>1, StoredFacts, WholeFacts DEF Stored
    <3>3. Returned' = [id |-> msgId, payload |-> Stored]
      BY <3>1 DEF Returned, Stored
    <3>4. PICK n \in Int : /\ n = 4 + cnt /\ n - 5 + 1 = cnt
                           /\ 5 <= n + 1 /\ n <= Len(longer)
      BY <2>2, <3>1
    <3>5. /\ SubSeq(longer, 5, 4 + cnt) \in Seq(Bytes)
          /\ Len(SubSeq(longer, 5, 4 + cnt)) = cnt
          /\ \A i \in 1 .. cnt : SubSeq(longer, 5, 4 + cnt)[i] = longer[i + 5 - 1]
      <4>1. /\ SubSeq(longer, 5, n) \in Seq(Bytes)
            /\ Len(SubSeq(longer, 5, n)) = n - 5 + 1
            /\ \A i \in 1 .. n - 5 + 1 : SubSeq(longer, 5, n)[i] = longer[i + 5 - 1]
        <5>1. PICK m \in Int : m = 5 /\ 1 <= m /\ m <= n + 1 /\ n <= Len(longer)
          BY <3>4
        <5>2. longer \in Seq(Bytes)
          BY <2>2
        <5>3. /\ SubSeq(longer, m, n) \in Seq(Bytes)
              /\ Len(SubSeq(longer, m, n)) = n - m + 1
              /\ \A i \in 1 .. n - m + 1 : SubSeq(longer, m, n)[i] = longer[i + m - 1]
          BY <5>1, <5>2, Slice
        <5> QED BY <5>1, <5>3
      <4> QED BY <3>4, <4>1
    <3>6. \A i \in 1 .. cnt : /\ i + 5 - 1 = 4 + i
                              /\ 4 + i \in 1 .. cnt + 4
      BY <3>1
    <3>7. ASSUME NEW i \in 1 .. cnt PROVE SubSeq(longer, 5, 4 + cnt)[i] = Stored[i]
      <4>1. SubSeq(longer, 5, 4 + cnt)[i] = longer[4 + i] /\ 4 + i \in 1 .. cnt + 4
        BY <3>5, <3>6
      <4>2. longer[4 + i] = Whole[4 + i]
        BY <2>2, <4>1
      <4> QED BY <3>2, <4>1, <4>2
    <3>8. SubSeq(longer, 5, 4 + cnt) = Stored
      BY <3>2, <3>5, <3>7, SeqEqual
    <3> QED BY <2>2, <3>1, <3>3, <3>8
  <2>4. Receiver!Continues(Received, b)
    BY <1>10, GoesOn DEF ReceiveChecksum2
  <2>5. Receiver!Accept(b)
    BY <2>1, <2>2, <2>3, <2>4 DEF Receiver!Accept
  <2> QED BY <2>5 DEF Receiver!Receive
<1>11. CASE Reject(b)
  <2>1. Received' = <<>>
    BY <1>11 DEF Reject, Received
  <2> QED BY <1>2, <1>11, <2>1, GoesOn DEF Reject, Receiver!Receive, Receiver!Drop
<1> QED BY <1>4, <1>5, <1>6, <1>7, <1>8, <1>9, <1>10, <1>11 DEF Decode

(* What the refinement needs of the decoder: that the payload is stored    *)
(* where it belongs, and that the running sums are right.                  *)
RInv == IInv /\ SumsOK

(* Nothing is summed up at first.                                          *)
LEMMA RInvInit == Init => RInv
<1>1. Init => SumsOK
  BY DEF Init, SumsOK
<1> QED BY <1>1, IInvInit DEF RInv

(* Every call keeps the sums right.                                        *)
LEMMA RInvStep == RInv /\ [Next]_vars => RInv'
<1> SUFFICES ASSUME RInv, [Next]_vars PROVE RInv'
  OBVIOUS
<1>1. IInv'
  BY IInvStep DEF RInv
<1>2. CASE Next
  <2>1. PICK b \in Bytes : Decode(b)
    BY <1>2 DEF Next
  <2>2. SumsOK'
    BY <2>1, SumsOKStep DEF RInv, IInv
  <2> QED BY <1>1, <2>2 DEF RInv
<1>3. CASE UNCHANGED vars
  <2>1. SumsOK'
    BY <1>3 DEF RInv, SumsOK, Covered, Stored, vars, sums
  <2> QED BY <1>1, <2>1 DEF RInv
<1> QED BY <1>2, <1>3

(* The decoder implements the abstract receiver: whatever bytes arrive, it *)
(* hands over exactly the frames among them, with the right checksums, and *)
(* never anything else.                                                    *)
THEOREM FramesAreReceived == Spec => ImplementsFrameReceiver
<1>1. Init => Receiver!Init
  BY DEF Init, Receiver!Init, Receiver!Nothing, Received, Returned
<1>2. RInv /\ [Next]_vars =>
        [\A b \in Bytes : Decode(b) => Receiver!Receive(b)]_vars
  BY DecodeReceives DEF RInv
<1> QED BY <1>1, <1>2, RInvInit, RInvStep, PTL DEF Spec, ImplementsFrameReceiver

-----------------------------------------------------------------------------
(* The line.                                                               *)

(* A sum modulo W is a byte.                                               *)
LEMMA ChecksumsAreBytes ==
  ASSUME NEW s \in Seq(Bytes)
  PROVE  Receiver!Checksum1(s) \in Bytes /\ Receiver!Checksum2(s) \in Bytes
<1>1. PICK f : IsSum(f, Ones(s), Len(s)) /\ Receiver!Checksum1(s) = f[Len(s)] % W
  BY Checksum1IsSum
<1>2. PICK h : IsSum(h, Rests(s), Len(s)) /\ Receiver!Checksum2(s) = h[Len(s)] % W
  BY Checksum2IsSum
<1>3. \A n \in 1 .. Len(s) : s[n] \in Nat /\ Len(s) - n + 1 \in Nat
  BY ElementOfSeq, LenProperties
<1>4. \A n \in 1 .. Len(s) : Ones(s)[n] \in Nat /\ Rests(s)[n] \in Nat
  BY <1>3, Distributes DEF Ones, Rests
<1>5. Len(s) \in Nat
  BY LenProperties
<1>6. f[Len(s)] \in Nat /\ h[Len(s)] \in Nat
  BY <1>1, <1>2, <1>4, <1>5, SumIsNat
<1> QED BY <1>1, <1>2, <1>6, Division

(* What the checksums of a frame of m are of.                              *)
BodyOf(m) == <<m.id, Lengths[m.id]>> \o m.payload

(* A frame, byte by byte.                                                  *)
LEMMA FrameIs ==
  ASSUME NEW m \in Messages
  PROVE  LET n == Lengths[m.id] IN
         /\ m.id \in DOMAIN Lengths /\ m.payload \in [1 .. n -> Bytes]
         /\ n \in Nat \ {0} /\ n \in Bytes
         /\ Frame(m) \in Seq(Bytes) /\ Len(Frame(m)) = n + 6
         /\ Frame(m)[1] = Header1 /\ Frame(m)[2] = Header2
         /\ BodyOf(m) \in Seq(Bytes) /\ Len(BodyOf(m)) = n + 2
         /\ \A i \in 1 .. n + 2 : Frame(m)[i + 2] = BodyOf(m)[i]
         /\ BodyOf(m)[1] = m.id /\ BodyOf(m)[2] = n
         /\ \A i \in 1 .. n : BodyOf(m)[i + 2] = m.payload[i]
         /\ Frame(m)[n + 5] = Receiver!Checksum1(BodyOf(m))
         /\ Frame(m)[n + 6] = Receiver!Checksum2(BodyOf(m))
<1> DEFINE n == Lengths[m.id]
           body == BodyOf(m)
           start == <<Header1, Header2>>
           last == <<Receiver!Checksum1(body), Receiver!Checksum2(body)>>
<1>1. m.id \in DOMAIN Lengths /\ m.payload \in [1 .. n -> Bytes]
  BY DEF Messages
<1>2. n \in Nat \ {0} /\ n \in Bytes /\ m.id \in Bytes
  BY <1>1
<1>3. m.payload \in Seq(Bytes) /\ Len(m.payload) = n
  BY <1>1, <1>2
<1>4. <<m.id, n>> \in Seq(Bytes) /\ Len(<<m.id, n>>) = 2 /\ <<m.id, n>>[1] = m.id /\ <<m.id, n>>[2] = n
  BY <1>2
<1>5. /\ body \in Seq(Bytes) /\ Len(body) = n + 2
      /\ body[1] = m.id /\ body[2] = n
      /\ \A i \in 1 .. n : body[i + 2] = m.payload[i]
  <2>1. body = <<m.id, n>> \o m.payload
    BY DEF BodyOf
  <2> DEFINE head == <<m.id, n>>
  <2> HIDE DEF n, body, head
  <2>2. /\ body \in Seq(Bytes) /\ Len(body) = Len(head) + Len(m.payload)
        /\ \A i \in 1 .. Len(head) : body[i] = head[i]
        /\ \A i \in 1 .. Len(m.payload) : body[Len(head) + i] = m.payload[i]
    BY <1>3, <1>4, <2>1, Joined DEF head
  <2>3. /\ body \in Seq(Bytes) /\ Len(body) = 2 + n
        /\ body[1] = m.id /\ body[2] = n
        /\ \A i \in 1 .. n : body[2 + i] = m.payload[i]
    BY <1>2, <1>3, <1>4, <2>2 DEF head
  <2>4. 2 + n = n + 2 /\ \A i \in 1 .. n : 2 + i = i + 2
    BY <1>2
  <2> QED BY <2>3, <2>4
<1> HIDE DEF n
<1>6. start \in Seq(Bytes) /\ Len(start) = 2 /\ start[1] = Header1 /\ start[2] = Header2
  OBVIOUS
<1>7. /\ last \in Seq(Bytes) /\ Len(last) = 2
      /\ last[1] = Receiver!Checksum1(body) /\ last[2] = Receiver!Checksum2(body)
  BY <1>5, ChecksumsAreBytes
<1>8. Frame(m) = (start \o body) \o last
  BY DEF Frame, BodyOf
<1> HIDE DEF body, start, last
<1>9. n + 2 \in Nat /\ n + 4 \in Nat /\ 2 + (n + 2) = n + 4 /\ (n + 4) + 2 = n + 6
  BY <1>2
<1>10. /\ start \o body \in Seq(Bytes) /\ Len(start \o body) = n + 4
       /\ \A i \in 1 .. 2 : (start \o body)[i] = start[i]
       /\ \A i \in 1 .. n + 2 : (start \o body)[2 + i] = body[i]
  <2>1. /\ start \o body \in Seq(Bytes) /\ Len(start \o body) = Len(start) + Len(body)
        /\ \A i \in 1 .. Len(start) : (start \o body)[i] = start[i]
        /\ \A i \in 1 .. Len(body) : (start \o body)[Len(start) + i] = body[i]
    BY <1>5, <1>6, Joined
  <2> QED BY <1>5, <1>6, <1>9, <2>1
<1>11. /\ Frame(m) \in Seq(Bytes) /\ Len(Frame(m)) = n + 6
       /\ \A i \in 1 .. n + 4 : Frame(m)[i] = (start \o body)[i]
       /\ \A i \in 1 .. 2 : Frame(m)[(n + 4) + i] = last[i]
  <2> DEFINE front == start \o body
  <2>1. front \in Seq(Bytes) /\ Len(front) = n + 4 /\ Frame(m) = front \o last
    BY <1>8, <1>10
  <2> HIDE DEF front
  <2>2. /\ front \o last \in Seq(Bytes) /\ Len(front \o last) = Len(front) + Len(last)
        /\ \A i \in 1 .. Len(front) : (front \o last)[i] = front[i]
        /\ \A i \in 1 .. Len(last) : (front \o last)[Len(front) + i] = last[i]
    BY <1>7, <2>1, Joined
  <2> QED BY <1>7, <1>9, <2>1, <2>2 DEF front
<1>12. Frame(m)[1] = Header1 /\ Frame(m)[2] = Header2
  <2>1. 1 \in 1 .. n + 4 /\ 2 \in 1 .. n + 4 /\ 1 \in 1 .. 2 /\ 2 \in 1 .. 2
    BY <1>2
  <2>2. Frame(m)[1] = (start \o body)[1] /\ Frame(m)[2] = (start \o body)[2]
    BY <1>11, <2>1
  <2>3. (start \o body)[1] = start[1] /\ (start \o body)[2] = start[2]
    BY <1>10, <2>1
  <2> QED BY <1>6, <2>2, <2>3
<1>13. \A i \in 1 .. n + 2 : Frame(m)[i + 2] = body[i]
  <2> TAKE i \in 1 .. n + 2
  <2>1. i + 2 \in 1 .. n + 4 /\ 2 + i = i + 2
    BY <1>2
  <2> QED BY <1>10, <1>11, <2>1
<1>14. Frame(m)[n + 5] = last[1] /\ Frame(m)[n + 6] = last[2]
  <2>1. (n + 4) + 1 = n + 5 /\ (n + 4) + 2 = n + 6
    BY <1>2
  <2> QED BY <1>11, <2>1
<1> QED BY <1>1, <1>2, <1>5, <1>7, <1>11, <1>12, <1>13, <1>14 DEF n, body

(* The beginnings of a sequence, one byte after the other.                 *)
LEMMA Beginning ==
  ASSUME NEW f \in Seq(Bytes), NEW k \in Nat, k <= Len(f)
  PROVE  /\ SubSeq(f, 1, k) \in Seq(Bytes) /\ Len(SubSeq(f, 1, k)) = k
         /\ \A i \in 1 .. k : SubSeq(f, 1, k)[i] = f[i]
<1>1. \A i \in 1 .. k : f[i] \in Bytes
  BY ElementOfSeq, LenProperties
<1>2. /\ SubSeq(f, 1, k) \in Seq(Bytes)
      /\ Len(SubSeq(f, 1, k)) = IF 1 <= k THEN k - 1 + 1 ELSE 0
      /\ \A i \in 1 .. k - 1 + 1 : SubSeq(f, 1, k)[i] = f[1 + i - 1]
  BY <1>1, SubSeqProperties
<1>3. k - 1 + 1 = k /\ \A i \in 1 .. k : 1 + i - 1 = i
  OBVIOUS
<1> QED BY <1>2, <1>3

(* The beginning of a sequence and its next byte are the beginning one     *)
(* longer.                                                                 *)
LEMMA NextByte ==
  ASSUME NEW f \in Seq(Bytes), NEW k \in Nat, k < Len(f)
  PROVE  /\ f[k + 1] \in Bytes
         /\ Append(SubSeq(f, 1, k), f[k + 1]) = SubSeq(f, 1, k + 1)
<1>1. f[k + 1] \in Bytes
  <2>1. k + 1 \in 1 .. Len(f)
    BY LenProperties
  <2> QED BY <2>1, ElementOfSeq
<1> DEFINE s == SubSeq(f, 1, k)
           t == Append(s, f[k + 1])
           u == SubSeq(f, 1, k + 1)
<1>2. s \in Seq(Bytes) /\ Len(s) = k /\ \A i \in 1 .. k : s[i] = f[i]
  <2>1. k <= Len(f)
    BY LenProperties
  <2> QED BY <2>1, Beginning
<1>3. u \in Seq(Bytes) /\ Len(u) = k + 1 /\ \A i \in 1 .. k + 1 : u[i] = f[i]
  <2>1. PICK l \in Nat : l = k + 1 /\ l <= Len(f)
    BY LenProperties
  <2> QED BY <2>1, Beginning
<1> HIDE DEF s, u
<1>4. /\ t \in Seq(Bytes) /\ Len(t) = Len(s) + 1
      /\ \A i \in 1 .. Len(s) : t[i] = s[i]
      /\ t[Len(s) + 1] = f[k + 1]
  BY <1>1, <1>2, AppendProperties
<1> HIDE DEF t
<1>5. \A i \in 1 .. k + 1 : t[i] = u[i]
  <2> TAKE i \in 1 .. k + 1
  <2>1. i \in 1 .. k \/ i = k + 1
    OBVIOUS
  <2> QED BY <1>2, <1>3, <1>4, <2>1
<1>6. t = u
  BY <1>2, <1>3, <1>4, <1>5, SeqEqual
<1> QED BY <1>1, <1>6 DEF s, t, u

(* What the receiver sees in the first k bytes of a frame.                 *)
LEMMA FrameFacts ==
  ASSUME NEW m \in Messages, NEW k \in Nat, k <= Len(Frame(m))
  PROVE  LET n == Lengths[m.id]
             s == SubSeq(Frame(m), 1, k)
         IN /\ s \in Seq(Bytes) /\ Len(s) = k
            /\ k >= 3 => /\ s[3] = m.id
                         /\ Receiver!LengthOf(s) = n
                         /\ Receiver!Size(s) = n + 6
            /\ k >= n + 4 => /\ Receiver!Body(s) = BodyOf(m)
                             /\ SubSeq(s, 5, 4 + n) = m.payload
<1> DEFINE n == Lengths[m.id]
           s == SubSeq(Frame(m), 1, k)
           body == BodyOf(m)
<1>1. /\ n \in Nat \ {0}
      /\ Frame(m) \in Seq(Bytes)
      /\ body \in Seq(Bytes) /\ Len(body) = n + 2
      /\ \A i \in 1 .. n + 2 : Frame(m)[i + 2] = body[i]
      /\ body[1] = m.id
      /\ \A i \in 1 .. n : body[i + 2] = m.payload[i]
      /\ m.payload \in [1 .. n -> Bytes]
  BY FrameIs
<1>2. s \in Seq(Bytes) /\ Len(s) = k /\ \A i \in 1 .. k : s[i] = Frame(m)[i]
  BY <1>1, Beginning
<1> HIDE DEF s, n, body
<1>3. ASSUME k >= 3
      PROVE  s[3] = m.id /\ Receiver!LengthOf(s) = n /\ Receiver!Size(s) = n + 6
  <2>1. 3 \in 1 .. k /\ 1 \in 1 .. n + 2 /\ 1 + 2 = 3
    BY <1>1, <1>3
  <2>2. s[3] = Frame(m)[3] /\ Frame(m)[1 + 2] = body[1]
    BY <1>1, <1>2, <2>1
  <2>3. s[3] = m.id
    BY <1>1, <2>1, <2>2
  <2> QED BY <2>3 DEF Receiver!LengthOf, Receiver!Size, n
<1>4. ASSUME k >= n + 4
      PROVE  Receiver!Body(s) = body /\ SubSeq(s, 5, 4 + n) = m.payload
  <2>1. PICK l \in Int : /\ l = 4 + n /\ 3 <= l + 1 /\ 5 <= l + 1 /\ l <= Len(s)
                         /\ l - 3 + 1 = n + 2 /\ l - 5 + 1 = n
    BY <1>1, <1>2, <1>4
  <2>2. /\ SubSeq(s, 3, l) \in Seq(Bytes) /\ Len(SubSeq(s, 3, l)) = l - 3 + 1
        /\ \A i \in 1 .. l - 3 + 1 : SubSeq(s, 3, l)[i] = s[i + 3 - 1]
    <3>1. s \in Seq(Bytes) /\ 1 <= 3 /\ 3 <= l + 1 /\ l <= Len(s)
      BY <1>2, <2>1
    <3> QED BY <3>1, Slice
  <2>3. /\ SubSeq(s, 5, l) \in Seq(Bytes) /\ Len(SubSeq(s, 5, l)) = l - 5 + 1
        /\ \A i \in 1 .. l - 5 + 1 : SubSeq(s, 5, l)[i] = s[i + 5 - 1]
    <3>1. s \in Seq(Bytes) /\ 1 <= 5 /\ 5 <= l + 1 /\ l <= Len(s)
      BY <1>2, <2>1
    <3> QED BY <3>1, Slice
  <2>4. ASSUME NEW i \in 1 .. n + 2
        PROVE  s[i + 2] = body[i]
    <3>1. i + 2 \in 1 .. k
      BY <1>1, <1>4
    <3> QED BY <1>1, <1>2, <3>1
  <2>5. SubSeq(s, 3, l) = body
    <3>1. \A i \in 1 .. n + 2 : i + 3 - 1 = i + 2
      BY <1>1
    <3>2. \A i \in 1 .. n + 2 : SubSeq(s, 3, l)[i] = body[i]
      BY <2>1, <2>2, <2>4, <3>1
    <3> QED BY <1>1, <2>1, <2>2, <3>2, SeqEqual
  <2>6. SubSeq(s, 5, l) = m.payload
    <3>1. \A i \in 1 .. n : i + 5 - 1 = (i + 2) + 2 /\ i + 2 \in 1 .. n + 2
      BY <1>1
    <3>2. ASSUME NEW i \in 1 .. n PROVE SubSeq(s, 5, l)[i] = m.payload[i]
      <4>1. SubSeq(s, 5, l)[i] = s[(i + 2) + 2] /\ i + 2 \in 1 .. n + 2
        BY <2>1, <2>3, <3>1
      <4>2. s[(i + 2) + 2] = body[i + 2]
        BY <2>4, <4>1
      <4> QED BY <1>1, <4>1, <4>2
    <3>3. m.payload \in Seq(Bytes) /\ Len(m.payload) = n
      <4>1. n \in Nat /\ m.payload \in [1 .. n -> Bytes]
        BY <1>1
      <4> QED BY <4>1
    <3>4. SubSeq(s, 5, l) \in Seq(Bytes) /\ Len(SubSeq(s, 5, l)) = n
      BY <2>1, <2>3
    <3> QED BY <3>2, <3>3, <3>4, SeqEqual
  <2>7. k >= 3
    BY <1>1, <1>4
  <2>8. Receiver!Body(s) = SubSeq(s, 3, l)
    BY <1>3, <2>1, <2>7 DEF Receiver!Body
  <2> QED BY <2>1, <2>5, <2>6, <2>8
<1> QED BY <1>2, <1>3, <1>4 DEF s, n, body

(* A frame goes on with its own bytes, and its last byte completes it.     *)
LEMMA FrameContinues ==
  ASSUME NEW m \in Messages, NEW k \in Nat, k < Len(Frame(m))
  PROVE  Receiver!Continues(SubSeq(Frame(m), 1, k), Frame(m)[k + 1])
<1> DEFINE n == Lengths[m.id]
           s == SubSeq(Frame(m), 1, k)
           b == Frame(m)[k + 1]
<1>1. /\ m.id \in DOMAIN Lengths /\ n \in Nat \ {0} /\ Len(Frame(m)) = n + 6
      /\ Frame(m)[1] = Header1 /\ Frame(m)[2] = Header2
      /\ Frame(m)[n + 5] = Receiver!Checksum1(BodyOf(m))
      /\ Frame(m)[n + 6] = Receiver!Checksum2(BodyOf(m))
  BY FrameIs
<1>2. Frame(m)[4] = n
  <2>1. 2 \in 1 .. n + 2 /\ 2 + 2 = 4
    BY <1>1
  <2>2. Frame(m)[2 + 2] = BodyOf(m)[2] /\ BodyOf(m)[2] = n
    BY <2>1, FrameIs
  <2> QED BY <2>1, <2>2
<1>3. k \in 0 .. n + 5 /\ k <= Len(Frame(m))
  <2> HIDE DEF n
  <2> QED BY <1>1
<1>4. /\ Len(s) = k
      /\ k >= 3 => s[3] = m.id /\ Receiver!LengthOf(s) = n /\ Receiver!Size(s) = n + 6
      /\ k >= n + 4 => Receiver!Body(s) = BodyOf(m)
  BY <1>3, FrameFacts
<1> HIDE DEF n, s
<1>5. CASE k = 0
  BY <1>1, <1>4, <1>5 DEF Receiver!Continues
<1>6. CASE k = 1
  BY <1>1, <1>4, <1>6 DEF Receiver!Continues
<1>7. CASE k = 2
  BY <1>4, <1>7 DEF Receiver!Continues
<1>8. CASE k = 3
  <2>1. Len(s) + 1 = 4 /\ b = n /\ Receiver!LengthOf(s) = n /\ s[3] \in DOMAIN Lengths
    BY <1>1, <1>2, <1>4, <1>8
  <2> HIDE DEF b
  <2>2. Receiver!Continues(s, b)
    BY <2>1 DEF Receiver!Continues
  <2> QED BY <2>2 DEF s, b
<1>9. CASE k >= 4
  <2>1. k = n + 4 => b = Receiver!Checksum1(Receiver!Body(s))
    <3>1. k = n + 4 => k + 1 = n + 5 /\ k >= n + 4
      BY <1>1
    <3> QED BY <1>1, <1>4, <3>1
  <2>2. k = n + 5 => b = Receiver!Checksum2(Receiver!Body(s))
    <3>1. k = n + 5 => k + 1 = n + 6 /\ k >= n + 4
      BY <1>1
    <3> QED BY <1>1, <1>4, <3>1
  <2> HIDE DEF b
  <2>3. Receiver!Continues(s, b)
    <3>1. Len(s) = k /\ Receiver!Size(s) = n + 6 /\ n \in Nat
      BY <1>1, <1>4, <1>9
    <3> QED BY <1>9, <2>1, <2>2, <3>1 DEF Receiver!Continues
  <2> QED BY <2>3 DEF s, b
<1>10. k = 0 \/ k = 1 \/ k = 2 \/ k = 3 \/ k >= 4
  OBVIOUS
<1> QED BY <1>5, <1>6, <1>7, <1>8, <1>9, <1>10 DEF s

(* While an undisturbed frame is on the line, the decoder holds what of it *)
(* has arrived and the rest is pending.                                    *)
InStep ==
  intact /\ pending # <<>> =>
    /\ sent \in Messages
    /\ \E k \in Nat : /\ k < Len(Frame(sent))
                      /\ Received = SubSeq(Frame(sent), 1, k)
                      /\ pending = SubSeq(Frame(sent), k + 1, Len(Frame(sent)))

SInv == RInv /\ pending \in Seq(Bytes) /\ InStep

(* The next byte of such a frame is accepted.                              *)
LEMMA ArriveInStep ==
  ASSUME SInv, Arrive, intact
  PROVE  /\ sent \in Messages
         /\ \E k \in Nat :
              /\ k < Len(Frame(sent))
              /\ k + 1 # Len(Frame(sent)) =>
                   /\ pending' = SubSeq(Frame(sent), (k + 1) + 1, Len(Frame(sent)))
                   /\ pending' # <<>>
                   /\ Received' = SubSeq(Frame(sent), 1, k + 1)
                   /\ result' = None
              /\ k + 1 = Len(Frame(sent)) =>
                   /\ pending' = <<>>
                   /\ Returned' = [id |-> sent.id, payload |-> sent.payload]
<1>1. sent \in Messages
  BY DEF SInv, InStep, Arrive
<1> DEFINE f == Frame(sent)
<1>2. PICK k \in Nat : /\ k < Len(f)
                       /\ Received = SubSeq(f, 1, k)
                       /\ pending = SubSeq(f, k + 1, Len(f))
  BY DEF SInv, InStep, Arrive
<1>3. f \in Seq(Bytes) /\ Len(f) \in Nat
  <2>1. f \in Seq(Bytes)
    BY <1>1, FrameIs
  <2> QED BY <2>1, LenProperties
<1> HIDE DEF f
<1>4. /\ Decode(Head(pending)) /\ pending' = Tail(pending)
  BY DEF Arrive
<1>5. Head(pending) = f[k + 1] /\ pending' = SubSeq(f, (k + 1) + 1, Len(f))
  <2>1. k + 1 \in 1 .. Len(f) /\ Len(f) \in k + 1 .. Len(f)
    BY <1>2, <1>3
  <2> QED BY <1>2, <1>3, <1>4, <2>1, HeadTailOfSubSeq
<1>6. f[k + 1] \in Bytes /\ Append(Received, f[k + 1]) = SubSeq(f, 1, k + 1)
  BY <1>2, <1>3, NextByte
<1>7. Receiver!Continues(Received, f[k + 1])
  BY <1>1, <1>2, FrameContinues DEF f
<1>8. Receiver!Accept(f[k + 1])
  <2>1. Receiver!Receive(f[k + 1])
    BY <1>4, <1>5, <1>6, DecodeReceives DEF SInv, RInv
  <2> QED BY <1>7, <2>1 DEF Receiver!Receive, Receiver!Drop
<1> DEFINE longer == SubSeq(f, 1, k + 1)
           n == Lengths[sent.id]
<1>9. n \in Nat \ {0} /\ Len(f) = n + 6
  BY <1>1, FrameIs DEF f
<1>10. PICK l \in Nat : l = k + 1 /\ l <= Len(f)
  BY <1>2, <1>3
<1>11. /\ Len(longer) = k + 1
       /\ k + 1 >= 3 => /\ longer[3] = sent.id
                        /\ Receiver!LengthOf(longer) = n
                        /\ Receiver!Size(longer) = n + 6
       /\ k + 1 >= n + 4 => SubSeq(longer, 5, 4 + n) = sent.payload
  BY <1>1, <1>10, FrameFacts DEF f
<1> HIDE DEF longer, n
<1>12. Receiver!Completes(longer) <=> k + 1 = Len(f)
  <2>1. CASE k + 1 > 4
    BY <1>9, <1>11, <2>1 DEF Receiver!Completes
  <2>2. CASE ~ (k + 1 > 4)
    BY <1>9, <1>11, <2>2 DEF Receiver!Completes
  <2> QED BY <2>1, <2>2
<1>13. IF Receiver!Completes(longer)
         THEN Returned' = [id |-> longer[3],
                           payload |-> SubSeq(longer, 5, 4 + Receiver!LengthOf(longer))]
         ELSE Returned' = Receiver!Nothing /\ Received' = longer
  BY <1>6, <1>8 DEF Receiver!Accept, longer
<1>14. CASE k + 1 # Len(f)
  <2>1. Returned' = Receiver!Nothing /\ Received' = longer
    BY <1>12, <1>13, <1>14
  <2>2. result' = None
    BY <2>1 DEF Returned, Receiver!Nothing
  <2>3. pending' # <<>>
    <3>1. PICK i \in Int : /\ i = (k + 1) + 1 /\ 1 <= i /\ i <= Len(f) + 1
                           /\ Len(f) - i + 1 > 0
      BY <1>2, <1>3, <1>14
    <3>2. Len(SubSeq(f, i, Len(f))) = Len(f) - i + 1
      <4>1. Len(f) \in Int /\ Len(f) <= Len(f)
        BY <1>3
      <4> QED BY <1>3, <3>1, <4>1, Slice
    <3>3. SubSeq(f, i, Len(f)) # <<>>
      <4>1. Len(<<>>) = 0 /\ Len(f) - i + 1 # 0
        BY <1>3, <3>1
      <4> QED BY <3>2, <4>1
    <3> QED BY <1>5, <3>1, <3>3
  <2> QED BY <1>1, <1>2, <1>5, <1>14, <2>1, <2>2, <2>3 DEF f, longer
<1>15. CASE k + 1 = Len(f)
  <2>1. k + 1 >= 3 /\ k + 1 >= n + 4
    BY <1>9, <1>15
  <2>2. Returned' = [id |-> sent.id, payload |-> sent.payload]
    BY <1>11, <1>12, <1>13, <1>15, <2>1
  <2>3. pending' = <<>>
    <3>1. (k + 1) + 1 \in Int /\ Len(f) \in Int /\ Len(f) < (k + 1) + 1
      BY <1>3, <1>15
    <3> QED BY <1>5, <3>1, SubSeqEmpty
  <2> QED BY <1>1, <1>2, <1>15, <2>2, <2>3 DEF f
<1> QED BY <1>14, <1>15

(* Whatever the line does to it, the decoder makes its own steps.          *)
LEMMA DecoderOfLine ==
  /\ StreamInit => Init
  /\ pending \in Seq(Bytes) /\ [StreamNext]_all => [Next]_vars
<1>1. StreamInit => Init
  BY DEF StreamInit
<1>2. ASSUME pending \in Seq(Bytes), [StreamNext]_all PROVE [Next]_vars
  <2>1. UNCHANGED decoder => UNCHANGED vars
    BY DEF decoder, vars, sums
  <2>2. CASE (\E m \in Messages : Begin(m)) \/ Lose
    BY <2>1, <2>2 DEF Begin, Lose
  <2>3. CASE Arrive
    <3>1. Head(pending) \in Bytes
      BY <1>2, <2>3, HeadTailProperties DEF Arrive
    <3> QED BY <2>3, <3>1 DEF Arrive, Next
  <2>4. CASE \E b \in Bytes : Damage(b) \/ Noise(b)
    BY <2>4 DEF Damage, Noise, Next
  <2>5. CASE UNCHANGED all
    BY <2>1, <2>5 DEF all
  <2> QED BY <1>2, <2>2, <2>3, <2>4, <2>5 DEF StreamNext
<1> QED BY <1>1, <1>2

(* Whatever the line does, an undisturbed frame and the decoder stay in    *)
(* step.                                                                   *)
LEMMA SInvStep == SInv /\ [StreamNext]_all => SInv'
<1> SUFFICES ASSUME SInv, [StreamNext]_all PROVE SInv'
  OBVIOUS
<1>1. RInv'
  BY DecoderOfLine, RInvStep DEF SInv
<1>2. pending \in Seq(Bytes)
  BY DEF SInv
<1>3. ASSUME NEW m \in Messages, Begin(m) PROVE SInv'
  <2>1. Frame(m) \in Seq(Bytes) /\ Len(Frame(m)) \in Nat /\ 0 < Len(Frame(m))
    <3>1. Frame(m) \in Seq(Bytes) /\ Len(Frame(m)) = Lengths[m.id] + 6 /\ Lengths[m.id] \in Nat
      BY FrameIs
    <3> QED BY <3>1
  <2>2. /\ pending' = Frame(m) /\ sent' = m /\ intact' = (seq = 0)
        /\ Received' = Received
    BY <1>3 DEF Begin, decoder, Received, Whole, Stored
  <2>3. Frame(m) = SubSeq(Frame(m), 0 + 1, Len(Frame(m)))
    BY <2>1, SubSeqFull
  <2>4. SubSeq(Frame(m), 1, 0) = <<>>
    BY SubSeqEmpty
  <2>5. intact' => Received' = SubSeq(Frame(m), 1, 0)
    <3>1. seq = 0 => Received = <<>>
      BY DEF Received
    <3> QED BY <2>2, <2>4, <3>1
  <2>6. intact' => \E k \in Nat :
           /\ k < Len(Frame(m))
           /\ Received' = SubSeq(Frame(m), 1, k)
           /\ pending' = SubSeq(Frame(m), k + 1, Len(Frame(m)))
    BY <2>1, <2>2, <2>3, <2>5
  <2>7. Frame(m) = Frame(sent)'
    BY <2>2 DEF Frame
  <2> QED BY <1>1, <2>1, <2>2, <2>6, <2>7 DEF SInv, InStep
<1>4. CASE Arrive
  <2>1. pending' \in Seq(Bytes) /\ sent' = sent /\ intact' = intact
    BY <1>2, <1>4, HeadTailProperties DEF Arrive
  <2>2. Frame(sent)' = Frame(sent)
    BY <2>1 DEF Frame
  <2>3. intact /\ pending' # <<>> =>
          /\ sent \in Messages
          /\ \E k \in Nat : /\ k < Len(Frame(sent))
                            /\ Received' = SubSeq(Frame(sent), 1, k)
                            /\ pending' = SubSeq(Frame(sent), k + 1, Len(Frame(sent)))
    <3> SUFFICES ASSUME intact, pending' # <<>>
                 PROVE  /\ sent \in Messages
                        /\ \E k \in Nat :
                             /\ k < Len(Frame(sent))
                             /\ Received' = SubSeq(Frame(sent), 1, k)
                             /\ pending' = SubSeq(Frame(sent), k + 1, Len(Frame(sent)))
      OBVIOUS
    <3>1. sent \in Messages
      BY <1>4, ArriveInStep
    <3>2. PICK k \in Nat :
              /\ k < Len(Frame(sent))
              /\ k + 1 # Len(Frame(sent)) =>
                   /\ pending' = SubSeq(Frame(sent), (k + 1) + 1, Len(Frame(sent)))
                   /\ Received' = SubSeq(Frame(sent), 1, k + 1)
              /\ k + 1 = Len(Frame(sent)) => pending' = <<>>
      BY <1>4, ArriveInStep
    <3>3. Len(Frame(sent)) \in Nat
      BY <3>1, FrameIs, LenProperties
    <3>4. k + 1 \in Nat /\ k + 1 < Len(Frame(sent))
      BY <3>2, <3>3
    <3> QED BY <3>1, <3>2, <3>4
  <2> QED BY <1>1, <2>1, <2>2, <2>3 DEF SInv, InStep
<1>5. CASE Lose \/ \E b \in Bytes : Damage(b) \/ Noise(b)
  <2>1. ~ intact' /\ pending' \in Seq(Bytes)
    BY <1>2, <1>5, HeadTailProperties DEF Lose, Damage, Noise, Disturbed
  <2> QED BY <1>1, <2>1 DEF SInv, InStep
<1>6. CASE UNCHANGED all
  <2>1. UNCHANGED <<pending, intact, sent>> /\ Received' = Received
    BY <1>6 DEF all, line, decoder, Received, Whole, Stored
  <2>2. Frame(sent)' = Frame(sent)
    BY <2>1 DEF Frame
  <2> QED BY <1>1, <2>1, <2>2 DEF SInv, InStep
<1> QED BY <1>3, <1>4, <1>5, <1>6 DEF StreamNext

(* An undisturbed frame that meets an idle decoder is returned with its    *)
(* last byte, as it was sent, and nothing is returned before.              *)
THEOREM IntactFrames == StreamSpec => IntactFrameIsReturned
<1>1. StreamInit => SInv
  BY RInvInit, DecoderOfLine DEF StreamInit, SInv, InStep
<1> DEFINE Returns ==
      IF pending' = <<>>
        THEN result' = sent.id
             /\ \A i \in 1..Lengths[sent.id] : payload'[i - 1] = sent.payload[i]
        ELSE result' = None
<1>2. ASSUME SInv, SInv', Arrive, intact PROVE Returns
  <2>1. sent \in Messages
    BY <1>2, ArriveInStep
  <2>2. CASE pending' # <<>>
    BY <1>2, <2>2, ArriveInStep
  <2>3. CASE pending' = <<>>
    <3>1. Returned' = [id |-> sent.id, payload |-> sent.payload]
      BY <1>2, <2>3, ArriveInStep
    <3>2. result' = sent.id /\ sent.id \in DOMAIN Lengths
      BY <2>1, <3>1, FrameIs DEF Returned
    <3>3. sent.payload = [i \in 1..msgLen' |-> payload'[i - 1]]
      BY <3>1, <3>2 DEF Returned
    <3>4. msgLen' = Lengths[sent.id]
      BY <1>2, <3>2 DEF SInv, RInv, IInv, WholePayload
    <3> QED BY <2>3, <3>2, <3>3, <3>4
  <2> QED BY <2>2, <2>3
<1>3. SInv /\ SInv' /\ [StreamNext]_all => [Arrive /\ intact => Returns]_all
  BY <1>2
<1> QED BY <1>1, <1>3, SInvStep, PTL DEF StreamSpec, IntactFrameIsReturned

-----------------------------------------------------------------------------
(* The converter.                                                          *)

(* Once a message has been made of the last byte, the decoder waits for a  *)
(* header, which one byte alone cannot be.                                 *)
OneLeft ==
  /\ after \in {0, 1}
  /\ ~ ended => after = 0
  /\ after = 1 => seq = 0 \/ (seq = 1 /\ buf = Header1)

(* decode() returns a message with the second checksum only, and is idle   *)
(* then.                                                                   *)
LEMMA Returns ==
  ASSUME NEW b, Decode(b), result' # None
  PROVE  seq = 6 /\ seq' = 0
BY DEF Decode, ReceiveHeader1, ReceiveHeader2, ReceiveId, ReceiveLength,
       ReceivePayload, ReceiveChecksum1, ReceiveChecksum2, Reject

(* A decoder that waits for a header goes on only with its bytes.          *)
LEMMA Waits ==
  ASSUME NEW b, Decode(b), seq = 0 \/ (seq = 1 /\ b # Header2)
  PROVE  seq' = 0 \/ (seq' = 1 /\ b = Header1)
BY DEF Decode, ReceiveHeader1, ReceiveHeader2, ReceiveId, ReceiveLength,
       ReceivePayload, ReceiveChecksum1, ReceiveChecksum2, Reject

(* However its input ends, the converter makes at most one more message    *)
(* out of the byte it then decodes for ever.                               *)
THEOREM EndOfInput == ConverterSpec => []OneMessageAfterTheEnd
<1>1. ConverterInit => OneLeft
  BY DEF ConverterInit, OneLeft
<1>2. ASSUME OneLeft, [ConverterNext]_converter PROVE OneLeft'
  <2> USE DEF OneLeft
  <2>1. CASE \E b \in Bytes : Read(b)
    BY <1>2, <2>1 DEF Read, vars, sums
  <2>2. CASE ReadNothing
    BY <1>2, <2>2 DEF ReadNothing, LastByte, vars, sums
  <2>3. CASE Check
    BY <1>2, <2>3 DEF Check, vars, sums
  <2>4. CASE DecodeByte
    <3>1. /\ Decode(buf) /\ UNCHANGED <<buf, ended>>
          /\ after' = IF ended /\ result' # None THEN after + 1 ELSE after
      BY <2>4 DEF DecodeByte
    <3>2. CASE ended /\ result' # None
      BY <1>2, <3>1, <3>2, Returns
    <3>3. CASE ~ (ended /\ result' # None)
      BY <1>2, <3>1, <3>3, Waits, HeadersDiffer
    <3> QED BY <3>2, <3>3
  <2>5. CASE Tick \/ SetClockBack
    BY <1>2, <2>5 DEF Tick, SetClockBack, vars, sums
  <2>6. CASE UNCHANGED converter
    BY <1>2, <2>6 DEF converter, vars, sums
  <2> QED BY <1>2, <2>1, <2>2, <2>3, <2>4, <2>5, <2>6 DEF ConverterNext
<1>3. OneLeft => OneMessageAfterTheEnd
  BY DEF OneLeft, OneMessageAfterTheEnd
<1> QED BY <1>1, <1>2, <1>3, PTL DEF ConverterSpec
=============================================================================
