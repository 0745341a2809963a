------------------------------ MODULE RxStatus ------------------------------
(***************************************************************************)
(* The receiver status panel of the OSD (render_rx_status()), and the      *)
(* wifibroadcast receiver whose counters it reads from shared memory,      *)
(* without a lock, while the receiver counts on.                           *)
(*                                                                         *)
(* A rate is known by the packets it was computed from: the code divides   *)
(* them by the time since the last sampling.                               *)
(***************************************************************************)
EXTENDS Integers

CONSTANTS
  N,                 \* network adapters of the receiver
  MaxPackets,        \* bound: packets received, by adapter
  MaxRestarts        \* bound: restarts of the receiver

ASSUME NAssumption == N \in Nat \ {0}

Adapters == 0 .. N - 1

VARIABLES
  \* Shared memory, wifibroadcast_rx_status_t:
  created, wifi_adapter_cnt, received_packet_cnt, wrong_crc_cnt,
  \* The receiver:
  restarts,
  silent,                     \* adapters that receive nothing any more
  \* The OSD:
  pc, i,
  mapped,                     \* td->rx_status # NULL
  ac,                         \* wifi_adapter_cnt as the loop read it
  overdue,                    \* millis() - last_time_read > 1000
  due,                        \* duration > 1000
  new_damaged, new_total,
  last_damaged_count, last_total_count,
  packet_rate,                \* the packets it was computed from
  \* History variables:
  sampled,                    \* adapters sampled since the loop began
  received, shown,            \* packets, ever: received, and in a rate
  restarted,                  \* adapters that were restarted,
  torn                        \* or got a packet between the two stores of
                              \* the counters, since those were last stored

counters == <<created, wifi_adapter_cnt, received_packet_cnt, wrong_crc_cnt>>
env      == <<restarts, silent>>
window   == <<new_damaged, new_total>>
last     == <<last_damaged_count, last_total_count>>
loop     == <<pc, i, mapped, ac, overdue, due, sampled>>
history  == <<received, shown, restarted, torn>>
vars     == <<counters, env, window, last, loop, packet_rate, history>>

Zero == [a \in Adapters |-> 0]

(* The OSD and the receiver may be started in any order.                   *)
Init ==
  /\ created = FALSE /\ wifi_adapter_cnt = 0
  /\ received_packet_cnt = Zero /\ wrong_crc_cnt = Zero
  /\ restarts = 0 /\ silent = {}
  /\ pc = "start" /\ i = 0
  /\ mapped = FALSE /\ ac = 0
  /\ overdue = FALSE /\ due = FALSE
  /\ new_damaged = 0 /\ new_total = 0
  /\ last_damaged_count = Zero /\ last_total_count = Zero
  /\ packet_rate = Zero
  /\ sampled = {}
  /\ received = Zero /\ shown = Zero
  /\ restarted = {} /\ torn = {}

-----------------------------------------------------------------------------
(* The OSD.                                                                *)

(* telemetry_wbc_status_memory_open(), once, and render_init().            *)
Start ==
  /\ pc = "start"
  /\ pc' = "draw"
  /\ mapped' = created
  /\ UNCHANGED <<counters, env, window, last, i, ac, overdue, due, sampled,
                 packet_rate, history>>

(* More than a second has passed since last_time_read.                     *)
Tick ==
  /\ ~ overdue
  /\ overdue' = TRUE
  /\ UNCHANGED <<counters, env, window, last, pc, i, mapped, ac, due, sampled,
                 packet_rate, history>>

RenderUnmapped ==
  /\ pc = "draw" /\ ~ mapped
  /\ UNCHANGED vars

(* The duration and the number of adapters are read before the loop.       *)
RenderRxStatus ==
  /\ pc = "draw" /\ mapped
  /\ pc' = "adapter"
  /\ i' = 0
  /\ ac' = wifi_adapter_cnt
  /\ due' = overdue
  /\ sampled' = {}
  /\ UNCHANGED <<counters, env, window, last, mapped, overdue, packet_rate,
                 history>>

(* Mutants of Due: the duration is taken anew for each adapter; nothing is *)
(* sampled without a new packet.                                           *)
DueAnew == overdue

DueIfNews ==
  due /\ \E a \in Adapters : a = i /\ received_packet_cnt[a] # last_total_count[a]

Due == due

(* Nothing left to sample: the rest of the loop draws.  Here and below,    *)
(* what is local to the code's loop is 0 outside it.                       *)
EndLoop ==
  /\ pc = "adapter" /\ (i >= ac \/ ~ Due)
  /\ pc' = "draw"
  /\ i' = 0 /\ due' = FALSE
  /\ UNCHANGED <<counters, env, window, last, mapped, ac, overdue, sampled,
                 packet_rate, history>>

(* Mutant of ReadDamaged: all packets that were ever damaged.              *)
ReadDamagedEver ==
  /\ pc = "adapter" /\ i < ac /\ Due
  /\ pc' = "total"
  /\ new_damaged' = wrong_crc_cnt[i]
  /\ UNCHANGED <<counters, env, new_total, last, i, mapped, ac, overdue, due,
                 sampled, packet_rate, history>>

ReadDamaged ==
  /\ pc = "adapter" /\ i < ac /\ Due
  /\ pc' = "total"
  /\ new_damaged' = wrong_crc_cnt[i] - last_damaged_count[i]
  /\ UNCHANGED <<counters, env, new_total, last, i, mapped, ac, overdue, due,
                 sampled, packet_rate, history>>

ReadTotal ==
  /\ pc = "total"
  /\ pc' = "store_damaged"
  /\ new_total' = received_packet_cnt[i] - last_total_count[i]
  /\ packet_rate' = [packet_rate EXCEPT ![i] = new_total']
  /\ shown' = [shown EXCEPT ![i] = @ + new_total']
  /\ UNCHANGED <<counters, env, new_damaged, last, i, mapped, ac, overdue, due,
                 sampled, received, restarted, torn>>

(* The counters are read again, to be subtracted the next time.            *)
StoreDamaged ==
  /\ pc = "store_damaged"
  /\ pc' = "store_total"
  /\ last_damaged_count' = [last_damaged_count EXCEPT ![i] = wrong_crc_cnt[i]]
  /\ restarted' = restarted \ {i}
  /\ torn' = torn \ {i}
  /\ UNCHANGED <<counters, env, window, last_total_count, i, mapped, ac, overdue,
                 due, sampled, packet_rate, received, shown>>

(* Mutant of LastTotal: the reference is not stored.                       *)
LastTotalKept == last_total_count[i]

LastTotal == received_packet_cnt[i]

StoreTotal ==
  /\ pc = "store_total"
  /\ pc' = "adapter"
  /\ i' = i + 1
  /\ last_total_count' = [last_total_count EXCEPT ![i] = LastTotal]
  /\ overdue' = FALSE
  /\ sampled' = sampled \cup {i}
  /\ new_damaged' = 0 /\ new_total' = 0
  /\ UNCHANGED <<counters, env, last_damaged_count, mapped, ac, due,
                 packet_rate, history>>

Osd == Start \/ RenderRxStatus \/ EndLoop
       \/ ReadDamaged \/ ReadTotal \/ StoreDamaged \/ StoreTotal

-----------------------------------------------------------------------------
(* The receiver.                                                           *)

ReceiverUp ==
  /\ wifi_adapter_cnt = 0
  /\ created' = TRUE
  /\ wifi_adapter_cnt' = N
  /\ UNCHANGED <<received_packet_cnt, wrong_crc_cnt, env, window, last, loop,
                 packet_rate, history>>

(* A packet, with a wrong checksum or not.                                 *)
Receive(a, wrong) ==
  /\ a < wifi_adapter_cnt /\ a \notin silent
  /\ received[a] < MaxPackets[a]
  /\ received_packet_cnt' = [received_packet_cnt EXCEPT ![a] = @ + 1]
  /\ wrong_crc_cnt' = [wrong_crc_cnt EXCEPT ![a] = @ + wrong]
  /\ received' = [received EXCEPT ![a] = @ + 1]
  /\ torn' = IF pc = "store_total" /\ i = a THEN torn \cup {a} ELSE torn
  /\ UNCHANGED <<created, wifi_adapter_cnt, env, window, last, loop,
                 packet_rate, shown, restarted>>

Silence(a) ==
  /\ a \notin silent
  /\ silent' = silent \cup {a}
  /\ UNCHANGED <<counters, restarts, window, last, loop, packet_rate, history>>

(* The status memory stays and is initialized again.                       *)
Restart ==
  /\ wifi_adapter_cnt = N /\ restarts < MaxRestarts
  /\ restarts' = restarts + 1
  /\ wifi_adapter_cnt' = 0
  /\ received_packet_cnt' = Zero /\ wrong_crc_cnt' = Zero
  /\ restarted' = Adapters
  /\ UNCHANGED <<created, silent, window, last, loop, packet_rate, received,
                 shown, torn>>

Next ==
  \/ Osd \/ Tick \/ RenderUnmapped
  \/ ReceiverUp \/ Restart
  \/ \E a \in Adapters : Silence(a) \/ \E wrong \in {0, 1} : Receive(a, wrong)

(* Pictures with the panel keep being drawn, and time passes.  The         *)
(* receiver owes nothing.                                                  *)
Spec == Init /\ [][Next]_vars /\ WF_vars(Osd) /\ WF_vars(Tick)

-----------------------------------------------------------------------------

(* No packet is counted in two rates, whatever the receiver counts between *)
(* two of the four reads and however often it starts again at 0.  (Packets *)
(* between ReadTotal and StoreTotal are in no rate.)                       *)
NothingCountedTwice ==
  \A a \in Adapters : shown[a] <= received[a]

(* The health of an adapter is computed from no more damaged packets than  *)
(* packets, and from no negative number, unless the receiver was restarted *)
(* in the window, or a packet came between the stores that began it.       *)
HealthIsARatio ==
  pc = "store_damaged" /\ i \notin restarted /\ i \notin torn =>
    0 <= new_damaged /\ new_damaged <= new_total

(* A picture has new rates for all adapters or for none, although sampling *)
(* the first one resets last_time_read.                                    *)
SampledTogether ==
  pc = "draw" => sampled \in {{}, 0 .. ac - 1}

(* An adapter that receives nothing any more turns red and stays red, even *)
(* if the receiver was restarted, provided the OSD found its memory.       *)
SilenceTurnsRed ==
  \A a \in Adapters :
    <>[](mapped /\ a \in silent /\ a < wifi_adapter_cnt)
      => <>[](packet_rate[a] = 0)
=============================================================================
