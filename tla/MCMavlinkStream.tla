-------------------------- MODULE MCMavlinkStream --------------------------
(* Small instance of MavlinkStream: bytes modulo 3, payloads of up to two  *)
(* of them, of which some are start signs, and a sum of two bytes that     *)
(* tells their order.                                                      *)
EXTENDS MavlinkStream

M(id, body) == [seq |-> 0, msgid |-> id, payload |-> body]
MCMessages == {M(0, <<>>), M(1, <<0>>), M(1, <<2>>), M(2, <<2, 1>>)}
MCSums == 0 .. W * W - 1
MCAccumulate(c, s) == (2 * s + c + 1) % (W * W)
MCLow(s) == s % W
MCHigh(s) == s \div W
MCExtra(id) == (id + 1) % W
=============================================================================
