----------------------- MODULE MavlinkEncoding_proofs -----------------------
(***************************************************************************)
(* What holds of packing and decoding for every set of messages with       *)
(* well-formed layouts, every table of seeds that tells them apart and     *)
(* every pair of hosts.                                                    *)
(***************************************************************************)
EXTENDS MavlinkEncoding, TLAPS

(* A field as the layout of a well-formed message has it.                  *)
IsField(f) == f.size \in {1, 2, 4, 8} /\ f.count \in Nat \ {0} /\ f.at \in Nat

(* Reversing the bytes of an element stays in the element and reverses the *)
(* weights.                                                                *)
LEMMA MirrorFacts ==
  ASSUME NEW f, IsField(f), NEW k \in 0 .. Size(f) - 1
  PROVE  /\ Size(f) \in Nat
         /\ Mirror(f, k) \in 0 .. Size(f) - 1
         /\ Mirror(f, k) \div f.size = k \div f.size
         /\ Mirror(f, k) % f.size = f.size - 1 - (k % f.size)
         /\ f.size - 1 - (Mirror(f, k) % f.size) = k % f.size
<1>1. CASE f.size = 1
  BY <1>1 DEF IsField, Size, Mirror
<1>2. CASE f.size = 2
  BY <1>2 DEF IsField, Size, Mirror
<1>3. CASE f.size = 4
  BY <1>3 DEF IsField, Size, Mirror
<1>4. CASE f.size = 8
  BY <1>4 DEF IsField, Size, Mirror
<1> QED BY <1>1, <1>2, <1>3, <1>4 DEF IsField

(* Byte k of a field on the wire, whatever the host: least weight first.   *)
OnWire(f, k, value) ==
  [field |-> f.name, element |-> k \div f.size, packing |-> value,
   weight |-> k % f.size]

(* Both ways to copy a field into a frame put its bytes in the same order  *)
(* on the wire.                                                            *)
LEMMA StoredOnWire ==
  ASSUME NEW host \in Hosts, NEW f, IsField(f), NEW k \in 0 .. Size(f) - 1, NEW v
  PROVE  /\ Stored(host, f, k, v) = OnWire(f, k, v)
         /\ host = Struct => InMemory(host, f, k, v) = OnWire(f, k, v)
<1>1. CASE host = Swaps
  BY <1>1, MirrorFacts DEF Stored, InMemory, OnWire, Swaps, Struct
<1>2. CASE host = Copies
  BY <1>2 DEF Stored, InMemory, OnWire, Copies, Struct
<1>3. CASE host = Struct
  BY <1>3 DEF Stored, InMemory, OnWire, Struct
<1> QED BY <1>1, <1>2, <1>3 DEF Hosts

(* The memory of a value on a host, read off the wire.                     *)
LEMMA MemoryFromWire ==
  ASSUME NEW host \in Hosts, NEW f, IsField(f), NEW k \in 0 .. Size(f) - 1, NEW v
  PROVE  InMemory(host, f, k, v)
           = OnWire(f, IF host.swap THEN Mirror(f, k) ELSE k, v)
<1>1. CASE host = Swaps
  BY <1>1, MirrorFacts DEF InMemory, OnWire, Swaps
<1>2. CASE host = Copies
  BY <1>2 DEF InMemory, OnWire, Copies
<1>3. CASE host = Struct
  BY <1>3 DEF InMemory, OnWire, Struct
<1> QED BY <1>1, <1>2, <1>3 DEF Hosts

-----------------------------------------------------------------------------

(* The fields of a well-formed message.                                    *)
LEMMA Fields ==
  ASSUME NEW m, WellFormed(m), NEW i \in 1 .. Len(m.fields)
  PROVE  /\ IsField(m.fields[i])
         /\ m.fields[i].at + Size(m.fields[i]) <= m.len
         /\ m.struct[i] = m.fields[i].at
         /\ Size(m.fields[i]) \in Nat
         /\ Len(m.fields) \in Nat
<1>1. /\ IsField(m.fields[i])
      /\ m.fields[i].at + Size(m.fields[i]) <= m.len
      /\ m.struct[i] = m.fields[i].at
      /\ Len(m.fields) \in Nat
  BY DEF WellFormed, IsField
<1>2. ASSUME NEW f, IsField(f) PROVE Size(f) \in Nat
  BY <1>2 DEF IsField, Size
<1> QED BY <1>1, <1>2

(* No two fields share a byte.                                             *)
LEMMA Disjoint ==
  ASSUME NEW m, WellFormed(m),
         NEW i \in 1 .. Len(m.fields), NEW j \in 1 .. Len(m.fields),
         NEW b, Covers(m.fields[i], m.fields[i].at, b),
         Covers(m.fields[j], m.fields[j].at, b)
  PROVE  i = j
<1>1. \A k \in 1 .. Len(m.fields) :
        /\ m.fields[k].at \in Nat /\ Size(m.fields[k]) \in Nat
        /\ Len(m.fields) \in Nat
  BY Fields DEF IsField
<1>2. \A k, l \in 1 .. Len(m.fields) :
        k < l => m.fields[k].at + Size(m.fields[k]) <= m.fields[l].at
  BY DEF WellFormed
<1>3. /\ b \in m.fields[i].at .. m.fields[i].at + Size(m.fields[i]) - 1
      /\ b \in m.fields[j].at .. m.fields[j].at + Size(m.fields[j]) - 1
  BY DEF Covers
<1>4. CASE i < j
  <2>1. m.fields[i].at + Size(m.fields[i]) <= m.fields[j].at
    BY <1>2, <1>4
  <2> QED BY <1>1, <1>3, <2>1
<1>5. CASE j < i
  <2>1. m.fields[j].at + Size(m.fields[j]) <= m.fields[i].at
    BY <1>2, <1>5
  <2> QED BY <1>1, <1>3, <2>1
<1> QED BY <1>1, <1>4, <1>5

(* Written field by field at the offsets of the layout, the payload holds  *)
(* each byte where the field has it.                                       *)
LEMMA ImageByte ==
  ASSUME NEW m, WellFormed(m), NEW offset, NEW bytes,
         \A j \in 1 .. Len(m.fields) : offset[j] = m.fields[j].at,
         NEW i \in 1 .. Len(m.fields), NEW k \in 0 .. Size(m.fields[i]) - 1
  PROVE  Image(m.fields, offset, m.len, bytes)[m.fields[i].at + k]
           = bytes[i][k]
<1> DEFINE b == m.fields[i].at + k
           writers == {j \in 1 .. Len(m.fields) : Covers(m.fields[j], offset[j], b)}
           last == CHOOSE l \in writers : \A j \in writers : j <= l
<1>1. m.fields[i].at \in Nat /\ Size(m.fields[i]) \in Nat /\ m.len \in Nat
  BY Fields DEF IsField, WellFormed
<1>2. b \in 0 .. m.len - 1 /\ Covers(m.fields[i], m.fields[i].at, b)
  BY <1>1, Fields DEF Covers
<1>3. writers = {i}
  <2>1. i \in writers
    BY <1>2
  <2>2. ASSUME NEW j \in writers PROVE j = i
    BY <1>2, Disjoint
  <2> QED BY <2>1, <2>2
<1>4. last = i
  <2>1. \E l \in writers : \A j \in writers : j <= l
    BY <1>3
  <2>2. last \in writers
    BY <2>1
  <2> QED BY <1>3, <2>2
<1>5. b - offset[i] = k
  BY <1>1
<1>6. Image(m.fields, offset, m.len, bytes)[b]
        = IF writers = {} THEN Garbage ELSE bytes[last][b - offset[last]]
  BY <1>2 DEF Image
<1> HIDE DEF last, writers
<1> QED BY <1>3, <1>4, <1>5, <1>6

(* A packed payload, on any host.                                          *)
LEMMA PackedByte ==
  ASSUME NEW m, WellFormed(m), NEW host \in Hosts, NEW v,
         NEW i \in 1 .. Len(m.fields), NEW k \in 0 .. Size(m.fields[i]) - 1
  PROVE  Packed(host, m, v)[m.fields[i].at + k] = OnWire(m.fields[i], k, v)
<1>1. IsField(m.fields[i])
  BY Fields
<1>2. CASE host = Struct
  <2>1. \A j \in 1 .. Len(m.fields) : m.struct[j] = m.fields[j].at
    BY Fields
  <2>2. Packed(host, m, v)[m.fields[i].at + k] = Memory(host, m, v)[i][k]
    BY <1>2, <2>1, ImageByte DEF Packed
  <2> QED BY <1>1, <1>2, <2>2, StoredOnWire DEF Memory
<1>3. CASE host # Struct
  <2>1. \A j \in 1 .. Len(m.fields) : WireOffset(m.fields)[j] = m.fields[j].at
    BY DEF WireOffset
  <2>2. Packed(host, m, v)[m.fields[i].at + k] = Puts(host, m, v)[i][k]
    BY <1>3, <2>1, ImageByte DEF Packed
  <2> QED BY <1>1, <2>2, StoredOnWire DEF Puts
<1> QED BY <1>2, <1>3

(* Every byte of a packed payload is of this packing.                      *)
LEMMA PackedIsFresh ==
  ASSUME NEW m, WellFormed(m), NEW host \in Hosts, NEW v, NEW b \in 0 .. m.len - 1
  PROVE  \E f, k : Packed(host, m, v)[b] = OnWire(f, k, v)
<1>1. PICK i \in 1 .. Len(m.fields) :
        b \in m.fields[i].at .. m.fields[i].at + Size(m.fields[i]) - 1
  <2>1. NoGap(m)
    BY DEF WellFormed
  <2> QED BY <2>1, Zenon DEF NoGap
<1>2. m.fields[i].at \in Nat /\ Size(m.fields[i]) \in Nat
  BY Fields DEF IsField
<1>3. /\ b - m.fields[i].at \in 0 .. Size(m.fields[i]) - 1
      /\ m.fields[i].at + (b - m.fields[i].at) = b
  BY <1>1, <1>2
<1>4. Packed(host, m, v)[m.fields[i].at + (b - m.fields[i].at)]
        = OnWire(m.fields[i], b - m.fields[i].at, v)
  BY <1>3, PackedByte
<1>5. Packed(host, m, v)[b] = OnWire(m.fields[i], b - m.fields[i].at, v)
  BY <1>3, <1>4
<1> QED BY <1>5, Zenon

(* Whatever buffer begins with a packed payload is decoded, by getters and *)
(* as a struct, into the memory of the values that were packed, on any     *)
(* pair of hosts.                                                          *)
THEOREM RoundTrip ==
  ASSUME NEW m, WellFormed(m), NEW g \in Hosts, NEW h \in Hosts, NEW v, NEW payload,
         \A b \in 0 .. m.len - 1 : payload[b] = Packed(g, m, v)[b]
  PROVE  /\ Decoded(h, m, payload) = Memory(h, m, v)
         /\ \A i \in 1 .. Len(m.fields) :
              Got(h, m.fields[i], payload) = Memory(h, m, v)[i]
<1>1. ASSUME NEW i \in 1 .. Len(m.fields), NEW k \in 0 .. Size(m.fields[i]) - 1
      PROVE  payload[m.fields[i].at + k] = OnWire(m.fields[i], k, v)
  <2>1. /\ m.fields[i].at \in Nat /\ Size(m.fields[i]) \in Nat /\ m.len \in Nat
        /\ m.fields[i].at + Size(m.fields[i]) <= m.len
    BY Fields DEF IsField, WellFormed
  <2>2. m.fields[i].at + k \in 0 .. m.len - 1
    BY <2>1
  <2> QED BY <2>2, PackedByte
<1>2. ASSUME NEW i \in 1 .. Len(m.fields), NEW k \in 0 .. Size(m.fields[i]) - 1
      PROVE  payload[m.fields[i].at + (IF h.swap THEN Mirror(m.fields[i], k) ELSE k)]
               = InMemory(h, m.fields[i], k, v)
  <2>1. IsField(m.fields[i]) /\ Mirror(m.fields[i], k) \in 0 .. Size(m.fields[i]) - 1
    BY Fields, MirrorFacts
  <2> QED BY <1>1, <2>1, MemoryFromWire
<1>3. ASSUME NEW i \in 1 .. Len(m.fields)
      PROVE  Got(h, m.fields[i], payload) = Memory(h, m, v)[i]
  BY <1>2 DEF Got, Memory
<1>4. ASSUME NEW i \in 1 .. Len(m.fields), ~ h.swap
      PROVE  [k \in 0 .. Size(m.fields[i]) - 1 |-> payload[m.struct[i] + k]]
               = Memory(h, m, v)[i]
  <2>1. m.struct[i] = m.fields[i].at
    BY Fields
  <2> QED BY <1>2, <1>4, <2>1 DEF Memory
<1>5. Decoded(h, m, payload) = Memory(h, m, v)
  <2>1. CASE h.swap
    BY <1>3, <2>1 DEF Decoded, Memory
  <2>2. CASE ~ h.swap
    BY <1>4, <2>2 DEF Decoded, Memory
  <2> QED BY <2>1, <2>2
<1> QED BY <1>3, <1>5

-----------------------------------------------------------------------------

(* What a frame carries and what was accepted.                             *)
FrameIsPacked ==
  frame # Nothing =>
    /\ sent \in Known[Sender.dialect]
    /\ packings \in Nat \ {0}
    /\ frame.id = sent.id /\ frame.len = sent.len
    /\ frame.payload = Finalized(Sender.host, sent, packings)

AcceptedIsSent ==
  accepted # Nothing =>
    /\ accepted = sent
    /\ sent \in Known[Sender.dialect]
    /\ \A b \in 0 .. sent.len - 1 :
         rxmsg[b] = Packed(Sender.host, sent, packings)[b]

IInv ==
  /\ pair \in Pairs
  /\ packings \in Nat
  /\ DOMAIN msg = 0 .. BufferBytes - 1
  /\ DOMAIN rxmsg = 0 .. BufferBytes - 1
  /\ FrameIsPacked
  /\ AcceptedIsSent

(* At first nothing is packed or accepted.                                 *)
LEMMA InitInvariant == Init => IInv
<1> SUFFICES ASSUME Init PROVE IInv
  OBVIOUS
<1>1. DOMAIN Blank = 0 .. BufferBytes - 1
  BY DEF Blank
<1> QED BY <1>1 DEF Init, IInv, FrameIsPacked, AcceptedIsSent

(* The two programs and what they were built with.                         *)
LEMMA Programs ==
  ASSUME pair \in Pairs
  PROVE  /\ Sender.dialect \in Dialects /\ Sender.host \in Hosts
         /\ Receiver.dialect \in Dialects /\ Receiver.host \in Hosts
BY PairsAssumption DEF Sender, Receiver

(* A message of a dialect fits the buffer with its checksum.               *)
LEMMA KnownFacts ==
  ASSUME NEW d \in Dialects, NEW m \in Known[d]
  PROVE  /\ WellFormed(m)
         /\ m.len \in Nat /\ BufferBytes \in Nat /\ m.len + 2 <= BufferBytes
BY KnownAssumption DEF WellFormed

(* A frame is made, and is all that its receiver will see.                 *)
LEMMA TransmitStep ==
  ASSUME IInv, NEW m \in Known[Sender.dialect],
         Transmit(m, Finalized(Sender.host, m, packings + 1))
  PROVE  /\ FrameIsPacked' /\ AcceptedIsSent'
         /\ pair' \in Pairs /\ packings' \in Nat
         /\ DOMAIN rxmsg' = 0 .. BufferBytes - 1
<1>1. /\ pair' = pair /\ rxmsg' = rxmsg /\ sent' = m /\ accepted' = Nothing
      /\ packings' = packings + 1 /\ packings \in Nat
  BY DEF Transmit, IInv
<1>2. /\ frame'.id = m.id /\ frame'.len = m.len
      /\ frame'.payload = Finalized(Sender.host, m, packings + 1)
  BY DEF Transmit
<1>3. FrameIsPacked'
  BY <1>1, <1>2 DEF FrameIsPacked, Sender
<1> QED BY <1>1, <1>3 DEF AcceptedIsSent, IInv

(* A message packed field by field into the buffer is such a frame.        *)
LEMMA PackStep ==
  ASSUME IInv, NEW m \in Known[Sender.dialect], Pack(m)
  PROVE  IInv'
<1> DEFINE whole == Finalized(Sender.host, m, packings + 1)
<1>1. /\ m.len \in Nat /\ BufferBytes \in Nat /\ m.len + 2 <= BufferBytes
  BY Programs, KnownFacts DEF IInv
<1>2. DOMAIN msg = 0 .. BufferBytes - 1
  BY DEF IInv
<1>3. msg' = [b \in 0 .. BufferBytes - 1 |->
                IF b < m.len + 2 THEN whole[b] ELSE msg[b]]
  BY <1>2 DEF Pack, Overwritten
<1>4. [b \in 0 .. m.len + 1 |-> msg'[b]] = whole
  <2>1. \A b \in 0 .. m.len + 1 :
          b \in 0 .. BufferBytes - 1 /\ b < m.len + 2
    BY <1>1
  <2>2. \A b \in 0 .. m.len + 1 : msg'[b] = whole[b]
    BY <1>3, <2>1
  <2> QED BY <2>2 DEF Finalized
<1>5. Transmit(m, whole)
  BY <1>4 DEF Pack
<1> QED BY <1>3, <1>5, TransmitStep DEF IInv

(* A message sent from a structure is such a frame, too.                   *)
LEMMA SendStep ==
  ASSUME IInv, NEW m \in Known[Sender.dialect], Send(m)
  PROVE  IInv'
BY TransmitStep DEF Send, IInv

(* What is accepted has the identifier and, by the seeds, is the message   *)
(* that was sent.                                                          *)
LEMMA ParseStep ==
  ASSUME IInv, Parse
  PROVE  IInv'
<1> DEFINE named == {m \in Known[Receiver.dialect] : m.id = frame.id}
           fits  == ChecksumFits(frame)
           over  == frame.len + IF fits THEN 2 ELSE 0
<1>1. /\ frame # Nothing /\ frame' = Nothing
      /\ pair' = pair /\ msg' = msg /\ packings' = packings /\ sent' = sent
      /\ rxmsg' = Overwritten(rxmsg, frame.payload, over)
      /\ accepted' = IF fits /\ named # {} THEN CHOOSE m \in named : TRUE
                     ELSE Nothing
  BY DEF Parse
<1>2. /\ sent \in Known[Sender.dialect]
      /\ packings \in Nat \ {0}
      /\ frame.id = sent.id /\ frame.len = sent.len
      /\ frame.payload = Finalized(Sender.host, sent, packings)
      /\ DOMAIN rxmsg = 0 .. BufferBytes - 1
      /\ pair \in Pairs
  BY <1>1 DEF IInv, FrameIsPacked
<1>3. /\ sent.len \in Nat /\ BufferBytes \in Nat
      /\ sent.len + 2 <= BufferBytes
  BY <1>2, Programs, KnownFacts
<1>4. /\ DOMAIN rxmsg' = 0 .. BufferBytes - 1
      /\ \A b \in 0 .. sent.len - 1 :
           rxmsg'[b] = Packed(Sender.host, sent, packings)[b]
  <2>1. rxmsg' = [b \in 0 .. BufferBytes - 1 |->
                    IF b < over THEN frame.payload[b] ELSE rxmsg[b]]
    BY <1>1, <1>2 DEF Overwritten
  <2>2. \A b \in 0 .. sent.len - 1 :
          /\ b \in 0 .. BufferBytes - 1 /\ b < over
          /\ b \in 0 .. sent.len + 1 /\ b < sent.len
    BY <1>2, <1>3
  <2>3. \A b \in 0 .. sent.len - 1 : rxmsg'[b] = frame.payload[b]
    BY <2>1, <2>2
  <2>4. \A b \in 0 .. sent.len - 1 :
          frame.payload[b] = Packed(Sender.host, sent, packings)[b]
    BY <1>2, <2>2 DEF Finalized
  <2> QED BY <2>1, <2>3, <2>4
<1>5. ASSUME accepted' # Nothing
      PROVE  accepted' = sent
  <2>1. fits /\ accepted' \in named
    BY <1>1, <1>5
  <2>2. frame.payload[frame.len].seed = sent.crc
    BY <1>2, <1>3 DEF Finalized, Sum
  <2>3. Seeds[Receiver.dialect][accepted'.id + 1] = sent.crc
    BY <2>1, <2>2 DEF ChecksumFits
  <2> QED BY <1>2, <2>1, <2>3, Programs, SeedsAssumption
<1>6. FrameIsPacked' /\ AcceptedIsSent'
  BY <1>1, <1>2, <1>4, <1>5 DEF FrameIsPacked, AcceptedIsSent, Sender
<1> QED BY <1>1, <1>2, <1>4, <1>6 DEF IInv

(* What is on the line is what was packed, and what was accepted is what   *)
(* was sent, in every reachable state.                                     *)
THEOREM Invariance == Spec => []IInv
<1>1. ASSUME IInv, [Next]_vars PROVE IInv'
  <2>1. CASE UNCHANGED vars
    BY <1>1, <2>1 DEF vars, IInv, FrameIsPacked, AcceptedIsSent, Sender
  <2> QED BY <1>1, <2>1, PackStep, SendStep, ParseStep DEF Next
<1> QED BY <1>1, InitInvariant, PTL DEF Spec

(* What a sender packs is what a receiver reads, for every table of        *)
(* messages with well-formed layouts, every table of seeds that tells the  *)
(* messages apart and every pair of hosts.                                 *)
THEOREM Decoding == Spec => []DecodedAsPacked
<1>1. ASSUME IInv PROVE DecodedAsPacked
  <2> SUFFICES ASSUME accepted # Nothing PROVE DecodedAsPacked
    BY DEF DecodedAsPacked
  <2>1. /\ accepted = sent /\ sent \in Known[Sender.dialect]
        /\ \A b \in 0 .. sent.len - 1 :
             rxmsg[b] = Packed(Sender.host, sent, packings)[b]
        /\ WellFormed(sent)
        /\ Sender.host \in Hosts /\ Receiver.host \in Hosts
    BY <1>1, Programs, KnownFacts DEF IInv, AcceptedIsSent
  <2>2. /\ Decoded(Receiver.host, sent, rxmsg) = Memory(Receiver.host, sent, packings)
        /\ \A i \in 1 .. Len(sent.fields) :
             Got(Receiver.host, sent.fields[i], rxmsg)
               = Memory(Receiver.host, sent, packings)[i]
    <3> DEFINE g == Sender.host
               h == Receiver.host
               m == sent
    <3>1. m = sent /\ g = Sender.host /\ h = Receiver.host
      OBVIOUS
    <3> HIDE DEF g, h, m
    <3>2. /\ WellFormed(m) /\ g \in Hosts /\ h \in Hosts
          /\ \A b \in 0 .. m.len - 1 : rxmsg[b] = Packed(g, m, packings)[b]
      BY <2>1, <3>1
    <3>3. /\ Decoded(h, m, rxmsg) = Memory(h, m, packings)
          /\ \A i \in 1 .. Len(m.fields) :
               Got(h, m.fields[i], rxmsg) = Memory(h, m, packings)[i]
      BY <3>2, RoundTrip
    <3> QED BY <3>1, <3>3
  <2> QED BY <2>1, <2>2 DEF DecodedAsPacked
<1> QED BY <1>1, Invariance, PTL

(* No byte that was not written for the message is sent.                   *)
THEOREM Freshness == Spec => []NothingStaleIsSent
<1>1. ASSUME IInv PROVE NothingStaleIsSent
  <2> SUFFICES ASSUME frame # Nothing, NEW b \in DOMAIN frame.payload
               PROVE  /\ b < BufferBytes
                      /\ frame.payload[b] # Garbage
                      /\ frame.payload[b].packing = packings
    BY DEF NothingStaleIsSent
  <2>1. /\ sent \in Known[Sender.dialect]
        /\ packings \in Nat \ {0}
        /\ frame.payload = Finalized(Sender.host, sent, packings)
        /\ pair \in Pairs
    BY <1>1 DEF IInv, FrameIsPacked
  <2>2. /\ WellFormed(sent) /\ Sender.host \in Hosts
        /\ sent.len \in Nat /\ BufferBytes \in Nat
        /\ sent.len + 2 <= BufferBytes
    BY <2>1, Programs, KnownFacts
  <2>3. b \in 0 .. sent.len + 1 /\ b < BufferBytes
    BY <2>1, <2>2 DEF Finalized
  <2>4. frame.payload[b].packing = packings
    <3>1. CASE b < sent.len
      <4>1. b \in 0 .. sent.len - 1
        BY <2>2, <2>3, <3>1
      <4>2. PICK f, k : Packed(Sender.host, sent, packings)[b]
                          = OnWire(f, k, packings)
        <5>1. \A v : \E f, k : Packed(Sender.host, sent, v)[b] = OnWire(f, k, v)
          BY <2>2, <4>1, PackedIsFresh
        <5> QED BY <5>1
      <4>3. frame.payload[b] = OnWire(f, k, packings)
        BY <2>1, <2>3, <3>1, <4>2 DEF Finalized
      <4> QED BY <4>3 DEF OnWire
    <3>2. CASE ~ (b < sent.len)
      BY <2>1, <2>3, <3>2 DEF Finalized, Sum
    <3> QED BY <3>1, <3>2
  <2>5. Garbage.packing # packings
    BY <2>1 DEF Garbage
  <2> QED BY <2>3, <2>4, <2>5
<1> QED BY <1>1, Invariance, PTL

-----------------------------------------------------------------------------

(* Each dialect's table has the seeds that its own pack functions use.     *)
OwnSeeds ==
  \A d \in Dialects : \A m \in Known[d] : Seeds[d][m.id + 1] = m.crc

(* A frame that has been parsed came through, if its receiver knows it.    *)
Delivered ==
  packings > 0 /\ frame = Nothing /\ sent \in Known[Receiver.dialect] =>
    accepted = sent

(* Of the messages of its dialect the receiver chooses the one with the    *)
(* identifier, and finds that its checksum fits.                           *)
LEMMA DeliveredByParse ==
  ASSUME OwnSeeds, IInv, Parse, sent \in Known[Receiver.dialect]
  PROVE  accepted' = sent
<1> DEFINE named == {m \in Known[Receiver.dialect] : m.id = frame.id}
<1>1. /\ frame.id = sent.id /\ frame.len = sent.len
      /\ frame.payload = Finalized(Sender.host, sent, packings)
      /\ sent \in Known[Sender.dialect]
      /\ pair \in Pairs
  BY DEF IInv, FrameIsPacked, Parse
<1>2. sent.len \in Nat
  BY <1>1, Programs, KnownFacts
<1>3. ChecksumFits(frame)
  <2>1. frame.payload[frame.len].seed = sent.crc
    BY <1>1, <1>2 DEF Finalized, Sum
  <2>2. Seeds[Receiver.dialect][sent.id + 1] = sent.crc
    BY <1>1, Programs DEF OwnSeeds
  <2> QED BY <1>1, <2>1, <2>2 DEF ChecksumFits
<1>4. sent \in named
  BY <1>1
<1>5. accepted' = CHOOSE m \in named : TRUE
  BY <1>3, <1>4 DEF Parse
<1>6. accepted' \in named
  BY <1>4, <1>5
<1>7. /\ accepted' \in Known[Receiver.dialect] /\ accepted'.id = sent.id
      /\ Seeds[Receiver.dialect][sent.id + 1] = sent.crc
  BY <1>1, <1>6, Programs DEF OwnSeeds
<1> QED BY <1>1, <1>7, Programs, SeedsAssumption

(* A receiver accepts every message of its dialect, whatever dialect its   *)
(* sender was built with, if the tables have the seeds of the messages.    *)
THEOREM Accepting == OwnSeeds => (Spec => []KnownIsAccepted)
<1> SUFFICES ASSUME OwnSeeds PROVE Spec => []KnownIsAccepted
  OBVIOUS
<1>1. Init => Delivered
  BY DEF Init, Delivered
<1>2. ASSUME IInv, Delivered, [Next]_vars PROVE Delivered'
  <2>1. ASSUME NEW m \in Known[Sender.dialect], Pack(m) \/ Send(m)
        PROVE  Delivered'
    <3>1. DOMAIN frame' = {"id", "len", "payload"} /\ DOMAIN Nothing = {"id"}
      BY <2>1 DEF Pack, Send, Transmit, Nothing
    <3> QED BY <3>1 DEF Delivered
  <2>2. CASE Parse
    <3>1. sent' = sent /\ Receiver' = Receiver
      BY <2>2 DEF Parse, Receiver
    <3>2. sent \in Known[Receiver.dialect] => accepted' = sent
      BY <1>2, <2>2, DeliveredByParse
    <3> QED BY <3>1, <3>2 DEF Delivered
  <2>3. CASE UNCHANGED vars
    BY <1>2, <2>3 DEF vars, Delivered, Receiver
  <2> QED BY <1>2, <2>1, <2>2, <2>3 DEF Next
<1>3. Delivered => KnownIsAccepted
  BY DEF Delivered, KnownIsAccepted
<1> QED BY <1>1, <1>2, <1>3, Invariance, PTL DEF Spec
=============================================================================
