---------------------------- MODULE MavlinkWire ----------------------------
(***************************************************************************)
(* How the generated MAVLink headers lay a message out in the payload      *)
(* (protocol.h and the mavlink_msg_*.h): by stores at the wire offsets, or *)
(* by one copy of the C struct, and back by the getters or one copy.       *)
(*                                                                         *)
(* A byte of a value is known by its field, its element, its weight and    *)
(* the packing it belongs to, instead of by its number.                    *)
(***************************************************************************)
EXTENDS Integers, Sequences

(* The fields of a message in the order of the struct, with the offset     *)
(* that the stores, the getters and MAVLINK_MESSAGE_INFO give each.        *)
Field(type, size, name, at) ==
  [type |-> type, size |-> size, name |-> name, at |-> at, count |-> 1]

char(name, at)     == Field("char", 1, name, at)
uint8_t(name, at)  == Field("uint8_t", 1, name, at)
int8_t(name, at)   == Field("int8_t", 1, name, at)
uint16_t(name, at) == Field("uint16_t", 2, name, at)
int16_t(name, at)  == Field("int16_t", 2, name, at)
uint32_t(name, at) == Field("uint32_t", 4, name, at)
int32_t(name, at)  == Field("int32_t", 4, name, at)
uint64_t(name, at) == Field("uint64_t", 8, name, at)
int64_t(name, at)  == Field("int64_t", 8, name, at)
float(name, at)    == Field("float", 4, name, at)
double(name, at)   == Field("double", 8, name, at)

Array(field, n) == [field EXCEPT !.count = n]

Size(f) == f.size * f.count

(* Offsets a C compiler gives the struct: each field at a multiple of its  *)
(* size.                                                                   *)
StructOffset(fields) ==
  LET up(n, s) == ((n + s - 1) \div s) * s
      at[i \in 1 .. Len(fields)] ==
        IF i = 1 THEN 0
        ELSE up(at[i - 1] + Size(fields[i - 1]), fields[i].size)
  IN [i \in 1 .. Len(fields) |-> at[i]]

(* Identifier, length and checksum seed as the pack functions pass them.   *)
Message(id, len, crc, fields) ==
  [id |-> id, len |-> len, crc |-> crc, fields |-> fields,
   struct |-> StructOffset(fields)]

-----------------------------------------------------------------------------

(* The builds of the headers: on a host of the other byte order every      *)
(* value is swapped; on one that must not store at odd addresses it is     *)
(* copied; else the struct is copied as a whole.                           *)
Swaps  == [swap |-> TRUE, aligned |-> TRUE]
Copies == [swap |-> FALSE, aligned |-> FALSE]
Struct == [swap |-> FALSE, aligned |-> TRUE]

(* A byte of an uninitialized buffer.                                      *)
Garbage == [packing |-> 0]

(* A layout whose fields fill the payload without gap or overlap, with no  *)
(* padding in the struct: what the generator sorts the fields by size for. *)
NoGap(m) ==
  \A b \in 0 .. m.len - 1 : \E i \in 1 .. Len(m.fields) :
    b \in m.fields[i].at .. m.fields[i].at + Size(m.fields[i]) - 1

WellFormed(m) ==
  LET f == m.fields
      n == Len(m.fields)
      after(i) == f[i].at + Size(f[i])
  IN /\ m.len \in Nat
     /\ n \in Nat
     /\ \A i \in 1 .. n : /\ f[i].size \in {1, 2, 4, 8}
                          /\ f[i].count \in Nat \ {0}
                          /\ f[i].at \in Nat
                          /\ after(i) <= m.len
                          /\ m.struct[i] = f[i].at
     /\ \A i, j \in 1 .. n : i < j => after(i) <= f[j].at
     /\ NoGap(m)

(* Byte k of the memory of field f, and the same with the bytes of each    *)
(* element in reverse: byte_swap_2(), _4() and _8().                       *)
Mirror(f, k) == (k - (k % f.size)) + (f.size - 1 - (k % f.size))

InMemory(host, f, k, value) ==
  [field |-> f.name, element |-> k \div f.size, packing |-> value,
   weight |-> IF host.swap THEN f.size - 1 - (k % f.size) ELSE k % f.size]

(* Mutant of Stored: the values are stored in the byte order of the host.  *)
StoredAsIs(host, f, k, value) == InMemory(host, f, k, value)

(* What _mav_put_<type>() and its array form store at byte k of the field. *)
Stored(host, f, k, value) ==
  InMemory(host, f, IF host.swap THEN Mirror(f, k) ELSE k, value)

Covers(f, offset, b) == b \in offset .. offset + Size(f) - 1

(* A buffer of len bytes after bytes[i] was written for each field i: the  *)
(* last writer of a byte is its value, and a byte that none wrote is as it *)
(* was.                                                                    *)
Image(fields, offset, len, bytes) ==
  [b \in 0 .. len - 1 |->
     LET writers == {i \in 1 .. Len(fields) : Covers(fields[i], offset[i], b)}
         last == CHOOSE i \in writers : \A j \in writers : j <= i
     IN IF writers = {} THEN Garbage ELSE bytes[last][b - offset[last]]]

WireOffset(fields) == [i \in 1 .. Len(fields) |-> fields[i].at]

(* The memory of each field on the host for the value of a packing, and    *)
(* what is stored for it.                                                  *)
Memory(host, m, value) ==
  [i \in 1 .. Len(m.fields) |->
     [k \in 0 .. Size(m.fields[i]) - 1 |->
        InMemory(host, m.fields[i], k, value)]]

Puts(host, m, value) ==
  [i \in 1 .. Len(m.fields) |->
     [k \in 0 .. Size(m.fields[i]) - 1 |->
        Stored(host, m.fields[i], k, value)]]

(* The payload bytes of a message: char buf[LEN] with its _mav_puts, or    *)
(* the struct, both copied with memcpy(payload, ..., LEN).                 *)
Packed(host, m, value) ==
  IF host = Struct
    THEN Image(m.fields, m.struct, m.len, Memory(host, m, value))
    ELSE Image(m.fields, WireOffset(m.fields), m.len, Puts(host, m, value))

(* The memory of field f as its getter mavlink_msg_*_get_*() returns it.   *)
Got(host, f, payload) ==
  [k \in 0 .. Size(f) - 1 |->
     payload[f.at + (IF host.swap THEN Mirror(f, k) ELSE k)]]

(* The memory of the struct's fields after mavlink_msg_*_decode().         *)
Decoded(host, m, payload) ==
  [i \in 1 .. Len(m.fields) |->
     IF host.swap THEN Got(host, m.fields[i], payload)
     ELSE [k \in 0 .. Size(m.fields[i]) - 1 |->
             payload[m.struct[i] + k]]]
=============================================================================
