------------------------------ MODULE ProbeCore ------------------------------
(***************************************************************************)
(* The combinational cores of the lookup accelerator: the control-byte     *)
(* comparator of rtl/atarix/atx_simd_probe_core.v and the open-addressing  *)
(* stepper of rtl/atarix/atx_krapivin_stepper.v.                           *)
(*                                                                         *)
(* A control group is a function from lanes to control bytes.  A control   *)
(* byte is a number below 2 * H2Mod: its top bit says that the lane is     *)
(* occupied, the bits below it are the occupant's fingerprint.             *)
(***************************************************************************)
EXTENDS Integers

CONSTANTS
    Lanes,      \* lanes of a control group           (16 in the RTL)
    H2Mod,      \* fingerprints, 2^(fingerprint bits) (2^7)
    AddrMod     \* table addresses, 2^(address bits)  (2^32)

ASSUME ProbeCoreAssumption ==
    /\ Lanes \in Nat \ {0}
    /\ H2Mod \in Nat \ {0}
    /\ AddrMod \in Nat \ {0}

Lane        == 0 .. Lanes - 1
Fingerprint == 0 .. H2Mod - 1
Addr        == 0 .. AddrMod - 1
ControlByte == 0 .. 2 * H2Mod - 1
Group       == [Lane -> ControlByte]

Occupied(byte)   == byte \div H2Mod = 1
StoredH2(byte)   == byte % H2Mod

(* lane_matches: the lanes that are occupied and carry the fingerprint.    *)
Holds(byte, h2) == Occupied(byte) /\ StoredH2(byte) = h2

LaneMatches(group, h2) == {i \in Lane : Holds(group[i], h2)}

SimdHit(group, h2) == LaneMatches(group, h2) # {}

(* match_offset: the priority encoder reports the lowest matching lane,    *)
(* and lane 0 when there is none.                                          *)
HighestMatchOffset(group, h2) ==
    IF SimdHit(group, h2)
    THEN CHOOSE i \in LaneMatches(group, h2) : \A j \in LaneMatches(group, h2) : i >= j
    ELSE 0

SimdMatchOffset(group, h2) ==
    IF SimdHit(group, h2)
    THEN CHOOSE i \in LaneMatches(group, h2) : \A j \in LaneMatches(group, h2) : i <= j
    ELSE 0

(* The triangular step of the Krapivin stepper.  table_mask is all ones    *)
(* from reset on, so the masking is the 32-bit truncation.                 *)
NonLinearOffset(attempt) == (attempt * attempt + attempt) \div 2

NextBaseUntruncated(base, attempt) == base + NonLinearOffset(attempt)

NextBase(base, attempt) == (base + NonLinearOffset(attempt)) % AddrMod

==============================================================================
