--------------------------- MODULE RxStatus_proofs ---------------------------
(***************************************************************************)
(* What holds of the receiver status panel for any number of adapters,     *)
(* packets and restarts of the receiver.                                   *)
(***************************************************************************)
EXTENDS RxStatus, TLAPS

Sampling == {"total", "store_damaged", "store_total"}

TypeInv ==
  /\ wifi_adapter_cnt \in {0, N} /\ ac \in {0, N}
  /\ received_packet_cnt \in [Adapters -> Nat]
  /\ wrong_crc_cnt \in [Adapters -> Nat]
  /\ last_damaged_count \in [Adapters -> Nat]
  /\ last_total_count \in [Adapters -> Nat]
  /\ received \in [Adapters -> Nat]
  /\ shown \in [Adapters -> Int]
  /\ new_damaged \in Int /\ new_total \in Int
  /\ pc \in {"start", "draw", "adapter"} \cup Sampling
  /\ i \in 0 .. ac
  /\ pc \in Sampling => i < ac /\ due

(* Between two samplings the packets that the counter is ahead of its      *)
(* reference are in no rate yet.  A restart puts it behind.                *)
Ahead(a) == shown[a] + received_packet_cnt[a] - last_total_count[a] <= received[a]

Counted ==
  \A a \in Adapters :
    /\ shown[a] <= received[a]
    /\ Ahead(a) \/ (pc \in {"store_damaged", "store_total"} /\ i = a)

(* The counters are as far ahead of their references as a part of a whole  *)
(* is; while one reference is new and the other old, no damaged packet may *)
(* have been counted since.                                                *)
RatioOf(a) ==
  /\ wrong_crc_cnt[a] <= received_packet_cnt[a]
  /\ a \notin restarted /\ a \notin torn =>
       /\ pc = "store_total" /\ i = a => last_damaged_count[a] = wrong_crc_cnt[a]
       /\ ~ (pc = "store_total" /\ i = a) =>
            /\ last_damaged_count[a] <= wrong_crc_cnt[a]
            /\ wrong_crc_cnt[a] - last_damaged_count[a]
                 <= received_packet_cnt[a] - last_total_count[a]
       /\ pc = "total" /\ i = a =>
            /\ 0 <= new_damaged
            /\ new_damaged <= wrong_crc_cnt[a] - last_damaged_count[a]
       /\ pc = "store_damaged" /\ i = a =>
            0 <= new_damaged /\ new_damaged <= new_total

Ratio == \A a \in Adapters : RatioOf(a)

(* The adapters before i have been sampled, if any are.                    *)
Together ==
  /\ pc = "start" => sampled = {}
  /\ pc = "draw" => sampled \in {{}, 0 .. ac - 1}
  /\ pc \in {"adapter"} \cup Sampling =>
       sampled = IF due THEN 0 .. i - 1 ELSE {}

-----------------------------------------------------------------------------

(* Every reachable state has its type.                                     *)
LEMMA Typing == Spec => []TypeInv
<1>1. Init => TypeInv
  BY NAssumption DEF Init, TypeInv, Zero, Sampling
<1>2. ASSUME TypeInv, [Next]_vars PROVE TypeInv'
  <2> USE NAssumption DEF TypeInv, Sampling
  <2> USE DEF counters, env, window, last, loop, history
  <2>1. CASE Start
    BY <1>2, <2>1 DEF Start
  <2>2. CASE Tick
    BY <1>2, <2>2 DEF Tick
  <2>3. CASE RenderUnmapped
    BY <1>2, <2>3 DEF RenderUnmapped, vars
  <2>4. CASE RenderRxStatus
    BY <1>2, <2>4 DEF RenderRxStatus
  <2>5. CASE EndLoop
    BY <1>2, <2>5 DEF EndLoop
  <2>6. CASE ReadDamaged
    <3>1. i \in Adapters /\ due
      BY <1>2, <2>6 DEF ReadDamaged, Due, Adapters
    <3>2. new_damaged' \in Int
      BY <1>2, <2>6, <3>1 DEF ReadDamaged
    <3> QED BY <1>2, <2>6, <3>1, <3>2 DEF ReadDamaged
  <2>7. CASE ReadTotal
    <3>1. i \in Adapters /\ received_packet_cnt[i] - last_total_count[i] \in Int
      BY <1>2, <2>7 DEF ReadTotal, Adapters
    <3>2. shown' \in [Adapters -> Int] /\ new_total' \in Int
      BY <1>2, <2>7, <3>1 DEF ReadTotal
    <3> QED BY <1>2, <2>7, <3>2 DEF ReadTotal
  <2>8. CASE StoreDamaged
    <3>1. last_damaged_count' \in [Adapters -> Nat]
      BY <1>2, <2>8 DEF StoreDamaged, Adapters
    <3> QED BY <1>2, <2>8, <3>1 DEF StoreDamaged
  <2>9. CASE StoreTotal
    <3>1. i \in Adapters /\ i + 1 \in 0 .. ac
      BY <1>2, <2>9 DEF StoreTotal, Adapters
    <3>2. last_total_count' \in [Adapters -> Nat]
      BY <1>2, <2>9, <3>1 DEF StoreTotal, LastTotal
    <3> QED BY <1>2, <2>9, <3>1, <3>2 DEF StoreTotal
  <2>10. CASE ReceiverUp
    BY <1>2, <2>10 DEF ReceiverUp
  <2>11. CASE Restart
    <3>1. Zero \in [Adapters -> Nat]
      BY DEF Zero
    <3> QED BY <1>2, <2>11, <3>1 DEF Restart
  <2>12. ASSUME NEW a \in Adapters, Silence(a) PROVE TypeInv'
    BY <1>2, <2>12 DEF Silence
  <2>13. ASSUME NEW a \in Adapters, NEW wrong \in {0, 1}, Receive(a, wrong)
         PROVE  TypeInv'
    BY <1>2, <2>13 DEF Receive
  <2>14. CASE UNCHANGED vars
    BY <1>2, <2>14 DEF vars
  <2> QED BY <1>2, <2>1, <2>2, <2>3, <2>4, <2>5, <2>6, <2>7, <2>8, <2>9, <2>10,
             <2>11, <2>12, <2>13, <2>14 DEF Next, Osd
<1> QED BY <1>1, <1>2, PTL DEF Spec

(* Every step keeps what is shown at or below what was received.           *)
LEMMA Counting ==
  ASSUME TypeInv, TypeInv', Counted, [Next]_vars
  PROVE  Counted'
<1> SUFFICES ASSUME NEW a \in Adapters
             PROVE  (/\ shown[a] <= received[a]
                     /\ Ahead(a) \/ (pc \in {"store_damaged", "store_total"} /\ i = a))'
  BY DEF Counted
<1> USE DEF counters, env, window, last, loop, history, Ahead
<1>1. /\ shown[a] \in Int /\ received[a] \in Nat /\ i \in Nat
      /\ received_packet_cnt[a] \in Nat /\ last_total_count[a] \in Nat
      /\ shown[a] <= received[a]
      /\ Ahead(a) \/ (pc \in {"store_damaged", "store_total"} /\ i = a)
  BY NAssumption DEF TypeInv, Counted
<1>2. CASE Start
  BY <1>1, <1>2 DEF Start
<1>3. CASE Tick
  BY <1>1, <1>3 DEF Tick
<1>4. CASE RenderUnmapped
  BY <1>1, <1>4 DEF RenderUnmapped, vars
<1>5. CASE RenderRxStatus
  BY <1>1, <1>5 DEF RenderRxStatus
<1>6. CASE EndLoop
  BY <1>1, <1>6 DEF EndLoop
<1>7. CASE ReadDamaged
  BY <1>1, <1>7 DEF ReadDamaged
<1>8. CASE ReadTotal
  BY <1>1, <1>8 DEF ReadTotal, TypeInv
<1>9. CASE StoreDamaged
  BY <1>1, <1>9 DEF StoreDamaged
<1>10. CASE StoreTotal
  BY <1>1, <1>10 DEF StoreTotal, LastTotal, TypeInv
<1>11. CASE ReceiverUp
  BY <1>1, <1>11 DEF ReceiverUp
<1>12. CASE Restart
  BY <1>1, <1>12 DEF Restart, Zero
<1>13. ASSUME NEW b \in Adapters, Silence(b)
       PROVE  (/\ shown[a] <= received[a]
               /\ Ahead(a) \/ (pc \in {"store_damaged", "store_total"} /\ i = a))'
  BY <1>1, <1>13 DEF Silence
<1>14. ASSUME NEW b \in Adapters, NEW wrong \in {0, 1}, Receive(b, wrong)
       PROVE  (/\ shown[a] <= received[a]
               /\ Ahead(a) \/ (pc \in {"store_damaged", "store_total"} /\ i = a))'
  BY <1>1, <1>14 DEF Receive, TypeInv
<1>15. CASE UNCHANGED vars
  BY <1>1, <1>15 DEF vars
<1> QED BY <1>2, <1>3, <1>4, <1>5, <1>6, <1>7, <1>8, <1>9, <1>10, <1>11, <1>12,
           <1>13, <1>14, <1>15 DEF Next, Osd

(* No packet is counted in two rates, for any number of adapters, packets  *)
(* and restarts, and whatever is received between two reads.               *)
THEOREM CountedOnce == Spec => []NothingCountedTwice
<1>1. Init => Counted
  BY DEF Init, Counted, Ahead, Zero
<1>2. TypeInv /\ Counted => NothingCountedTwice
  BY DEF Counted, NothingCountedTwice
<1> QED BY <1>1, <1>2, Typing, Counting, PTL DEF Spec

-----------------------------------------------------------------------------

(* Every step keeps damaged packets at or below packets: those counted,    *)
(* those counted since the last sample, and those of the sample itself,    *)
(* of an adapter that was not restarted and not read between its two       *)
(* counters.                                                               *)
LEMMA RatioStep ==
  ASSUME TypeInv, TypeInv', Ratio, [Next]_vars
  PROVE  Ratio'
<1> SUFFICES ASSUME NEW a \in Adapters PROVE RatioOf(a)'
  BY DEF Ratio
<1> USE DEF counters, env, window, last, loop, history
<1>1. /\ i \in Nat /\ i' \in Nat
      /\ new_damaged \in Int /\ new_total \in Int
      /\ received_packet_cnt[a] \in Nat /\ last_total_count[a] \in Nat
      /\ wrong_crc_cnt[a] \in Nat /\ last_damaged_count[a] \in Nat
  BY NAssumption DEF TypeInv
<1>2. RatioOf(a)
  BY DEF Ratio
<1>3. CASE Start
  BY <1>1, <1>2, <1>3 DEF Start, RatioOf
<1>4. CASE Tick
  BY <1>1, <1>2, <1>4 DEF Tick, RatioOf
<1>5. CASE RenderUnmapped
  BY <1>1, <1>2, <1>5 DEF RenderUnmapped, vars, RatioOf
<1>6. CASE RenderRxStatus
  BY <1>1, <1>2, <1>6 DEF RenderRxStatus, RatioOf
<1>7. CASE EndLoop
  BY <1>1, <1>2, <1>7 DEF EndLoop, RatioOf
<1>8. CASE ReadDamaged
  BY <1>1, <1>2, <1>8 DEF ReadDamaged, RatioOf
<1>9. CASE ReadTotal
  BY <1>1, <1>2, <1>9 DEF ReadTotal, RatioOf
<1>10. CASE StoreDamaged
  <2>1. i = a => last_damaged_count'[a] = wrong_crc_cnt[a]
    BY <1>10 DEF StoreDamaged, TypeInv
  <2>2. i # a => last_damaged_count'[a] = last_damaged_count[a]
    BY <1>10 DEF StoreDamaged, TypeInv
  <2>3. i # a => (a \in restarted' <=> a \in restarted)
                 /\ (a \in torn' <=> a \in torn)
    BY <1>10 DEF StoreDamaged
  <2> QED BY <1>1, <1>2, <1>10, <2>1, <2>2, <2>3 DEF StoreDamaged, RatioOf
<1>11. CASE StoreTotal
  <2>1. i = a => last_total_count'[a] = received_packet_cnt[a]
    BY <1>11 DEF StoreTotal, LastTotal, TypeInv
  <2>2. i # a => last_total_count'[a] = last_total_count[a]
    BY <1>11 DEF StoreTotal, TypeInv
  <2> QED BY <1>1, <1>2, <1>11, <2>1, <2>2 DEF StoreTotal, RatioOf
<1>12. CASE ReceiverUp
  BY <1>1, <1>2, <1>12 DEF ReceiverUp, RatioOf
<1>13. CASE Restart
  BY <1>1, <1>2, <1>13 DEF Restart, Zero, RatioOf
<1>14. ASSUME NEW b \in Adapters, Silence(b) PROVE RatioOf(a)'
  BY <1>1, <1>2, <1>14 DEF Silence, RatioOf
<1>15. ASSUME NEW b \in Adapters, NEW wrong \in {0, 1}, Receive(b, wrong)
       PROVE  RatioOf(a)'
  <2>1. b # a => /\ received_packet_cnt'[a] = received_packet_cnt[a]
                 /\ wrong_crc_cnt'[a] = wrong_crc_cnt[a]
                 /\ a \notin torn' => a \notin torn
    BY <1>15 DEF Receive, TypeInv
  <2>2. b = a => /\ received_packet_cnt'[a] = received_packet_cnt[a] + 1
                 /\ wrong_crc_cnt'[a] = wrong_crc_cnt[a] + wrong
                 /\ a \notin torn' =>
                      a \notin torn /\ ~ (pc = "store_total" /\ i = a)
    BY <1>15 DEF Receive, TypeInv
  <2>3. /\ pc' = pc /\ i' = i /\ restarted' = restarted
        /\ last_damaged_count' = last_damaged_count
        /\ last_total_count' = last_total_count
        /\ new_damaged' = new_damaged /\ new_total' = new_total
    BY <1>15 DEF Receive
  <2> QED BY <1>1, <1>2, <2>1, <2>2, <2>3 DEF RatioOf
<1>16. CASE UNCHANGED vars
  BY <1>1, <1>2, <1>16 DEF vars, RatioOf
<1> QED BY <1>3, <1>4, <1>5, <1>6, <1>7, <1>8, <1>9, <1>10, <1>11, <1>12,
           <1>13, <1>14, <1>15, <1>16 DEF Next, Osd

(* The health is computed from a part and its whole, unless the receiver   *)
(* was restarted or a packet came between two stores.                      *)
THEOREM Health == Spec => []HealthIsARatio
<1>1. Init => Ratio
  BY DEF Init, Ratio, RatioOf, Zero
<1>2. ASSUME TypeInv, Ratio PROVE HealthIsARatio
  <2> SUFFICES ASSUME pc = "store_damaged" PROVE HealthIsARatio
    BY DEF HealthIsARatio
  <2>1. i \in Adapters
    BY <1>2, NAssumption DEF TypeInv, Sampling, Adapters
  <2> QED BY <1>2, <2>1 DEF Ratio, RatioOf, HealthIsARatio
<1> QED BY <1>1, <1>2, Typing, RatioStep, PTL DEF Spec

(* A picture samples all adapters or none.                                 *)
THEOREM Sampled == Spec => []SampledTogether
<1>1. Init => Together
  BY DEF Init, Together, Sampling
<1>2. ASSUME TypeInv, TypeInv', Together, [Next]_vars PROVE Together'
  <2> USE <1>2, NAssumption DEF TypeInv, Together, Sampling
  <2> USE DEF counters, env, window, last, loop, history
  <2>1. CASE Start
    BY <2>1 DEF Start
  <2>2. CASE Tick
    BY <2>2 DEF Tick
  <2>3. CASE RenderUnmapped
    BY <2>3 DEF RenderUnmapped, vars
  <2>4. CASE RenderRxStatus
    BY <2>4 DEF RenderRxStatus
  <2>5. CASE EndLoop
    <3>1. sampled = (IF due THEN 0 .. i - 1 ELSE {}) /\ i <= ac /\ i \in Nat /\ ac \in Nat
      BY <2>5 DEF EndLoop
    <3>2. sampled \in {{}, 0 .. ac - 1}
      <4>1. CASE ~ due
        BY <3>1, <4>1
      <4>2. CASE due
        <5>1. i = ac
          BY <2>5, <3>1, <4>2 DEF EndLoop, Due
        <5> QED BY <3>1, <4>2, <5>1
      <4> QED BY <4>1, <4>2
    <3> QED BY <2>5, <3>2 DEF EndLoop
  <2>6. CASE ReadDamaged
    BY <2>6 DEF ReadDamaged
  <2>7. CASE ReadTotal
    BY <2>7 DEF ReadTotal
  <2>8. CASE StoreDamaged
    BY <2>8 DEF StoreDamaged
  <2>9. CASE StoreTotal
    <3>1. sampled = 0 .. i - 1 /\ due /\ i \in Nat
      BY <2>9 DEF StoreTotal
    <3>2. sampled \cup {i} = 0 .. (i + 1) - 1
      BY <3>1
    <3> QED BY <2>9, <3>1, <3>2 DEF StoreTotal
  <2>10. CASE ReceiverUp
    BY <2>10 DEF ReceiverUp
  <2>11. CASE Restart
    BY <2>11 DEF Restart
  <2>12. ASSUME NEW a \in Adapters, Silence(a) PROVE Together'
    BY <2>12 DEF Silence
  <2>13. ASSUME NEW a \in Adapters, NEW wrong \in {0, 1}, Receive(a, wrong)
         PROVE  Together'
    BY <2>13 DEF Receive
  <2>14. CASE UNCHANGED vars
    BY <2>14 DEF vars
  <2> QED BY <2>1, <2>2, <2>3, <2>4, <2>5, <2>6, <2>7, <2>8, <2>9, <2>10,
             <2>11, <2>12, <2>13, <2>14 DEF Next, Osd
<1>3. Together => SampledTogether
  BY DEF Together, SampledTogether
<1> QED BY <1>1, <1>2, <1>3, Typing, PTL DEF Spec
=============================================================================
