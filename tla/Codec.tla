------------------------------- MODULE Codec -------------------------------
(***************************************************************************)
(* mavlink/codec.ts: a telemetry sample as the DEBUG_FLOAT_ARRAY frame that *)
(* carries it, and the sample parseFrame reads from the bytes that arrive. *)
(* A wire frame is a record of what parseFrame looks at, in the order it   *)
(* does; data[s] is the float in slot s, the EKF2 flags in tenths since    *)
(* they are rounded.  The time is in microseconds.                         *)
(***************************************************************************)
EXTENDS Integers

CONSTANTS
  NotFinite,      \* a NaN or an infinity in the payload
  MicrosPerMs     \* microseconds of a millisecond, 1000

CARRIER_MSG_ID     == 350
TELEMETRY_ARRAY_ID == 20545  \* 0x5041
Slot == {"altitude", "remainingPct", "rcSignalStrength", "ekf2Healthy", "ekf2Flags"}

encode(sample) ==
  [stx |-> "v2", bytes |-> "whole", signed |-> FALSE, msgid |-> CARRIER_MSG_ID,
   crc |-> "match", arrayId |-> TELEMETRY_ARRAY_ID,
   timeUsec |-> sample.ts * MicrosPerMs,
   data |-> [altitude         |-> sample.altitude,
             remainingPct     |-> sample.remainingPct,
             rcSignalStrength |-> sample.rcSignalStrength,
             ekf2Healthy      |-> IF sample.healthy THEN 1 ELSE 0,
             ekf2Flags        |-> sample.flags * 10]]

(* Mutant: the checksum is not compared. *)
wellFormedAnyCrc(wire) ==
  /\ wire.stx \in {"v1", "v2"}
  /\ wire.bytes = "whole"
  /\ ~(wire.stx = "v2" /\ wire.signed)
  /\ wire.msgid = CARRIER_MSG_ID
  /\ wire.arrayId = TELEMETRY_ARRAY_ID
  /\ \A s \in Slot : wire.data[s] # NotFinite

(* parseFrame does not throw: a start byte of MAVLink, all the bytes the     *)
(* header declares, no signature, the carrier message, its CRC, its array id *)
(* and no value that is not finite.                                          *)
wellFormed(wire) ==
  /\ wire.stx \in {"v1", "v2"}
  /\ wire.bytes = "whole"
  /\ ~(wire.stx = "v2" /\ wire.signed)
  /\ wire.msgid = CARRIER_MSG_ID
  /\ wire.crc = "match"
  /\ wire.arrayId = TELEMETRY_ARRAY_ID
  /\ \A s \in Slot : wire.data[s] # NotFinite

(* microsToIso drops the part below a millisecond. *)
microsToIso(usec) == usec \div MicrosPerMs

parseFrame(wire) ==
  [ts |-> microsToIso(wire.timeUsec), altitude |-> wire.data.altitude,
   remainingPct |-> wire.data.remainingPct,
   rcSignalStrength |-> wire.data.rcSignalStrength,
   healthy |-> wire.data.ekf2Healthy # 0,
   flags |-> (wire.data.ekf2Flags + 5) \div 10]   \* Math.round
=============================================================================
