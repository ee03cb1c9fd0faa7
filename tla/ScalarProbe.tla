----------------------------- MODULE ScalarProbe -----------------------------
(***************************************************************************)
(* rtl/atarix/atx_scalar_probe_core.v, the comparator that looks at one    *)
(* lane per clock edge, under a driver that strobes start and holds the    *)
(* group and the fingerprint until it strobes again, as                    *)
(* rtl/atarix/atx_spec_020_modules_tb.v does.  A strobe may come while a   *)
(* scan is running.  It is compared with the combinational comparator of   *)
(* ProbeCore.                                                              *)
(***************************************************************************)
EXTENDS ProbeCore

CONSTANTS Groups, Targets   \* the groups and fingerprints the driver uses

ASSUME ScalarAssumption == Groups \subseteq Group /\ Targets \subseteq Fingerprint
                           /\ Groups # {} /\ Targets # {}

VARIABLES
    done, match_found, match_offset, cycles_used, lane,
    control_bytes, target_h2,   \* the driver's wires
    strobed                     \* start has been strobed since the last reset

wires    == <<control_bytes, target_h2>>
scanVars == <<done, match_found, match_offset, cycles_used, lane, wires, strobed>>

ScanInit ==
    /\ done = TRUE
    /\ match_found = FALSE
    /\ match_offset = 0
    /\ cycles_used = 0
    /\ lane = 0
    /\ control_bytes \in Groups
    /\ target_h2 \in Targets
    /\ strobed = FALSE

ScanReset ==
    /\ done' = TRUE
    /\ match_found' = FALSE
    /\ match_offset' = 0
    /\ cycles_used' = 0
    /\ lane' = 0
    /\ strobed' = FALSE
    /\ UNCHANGED wires

Start ==
    /\ done' = FALSE
    /\ match_found' = FALSE
    /\ match_offset' = 0
    /\ cycles_used' = 0
    /\ lane' = 0
    /\ control_bytes' \in Groups
    /\ target_h2' \in Targets
    /\ strobed' = TRUE

LastLaneShort(l)   == l = Lanes - 2
LastLane(l) == l = Lanes - 1

(* One edge of a running scan.  cycles_used and lane have one bit more     *)
(* than a lane number, so neither wraps.                                   *)
Scan ==
    /\ ~done
    /\ cycles_used' = (cycles_used + 1) % (2 * Lanes)
    /\ IF Holds(control_bytes[lane % Lanes], target_h2)
       THEN /\ match_found' = TRUE
            /\ match_offset' = lane % Lanes
            /\ done' = TRUE
            /\ UNCHANGED lane
       ELSE /\ IF LastLane(lane)
               THEN done' = TRUE /\ UNCHANGED lane
               ELSE lane' = (lane + 1) % (2 * Lanes) /\ UNCHANGED done
            /\ UNCHANGED <<match_found, match_offset>>
    /\ UNCHANGED <<wires, strobed>>

ScanNext == ScanReset \/ Start \/ Scan

ScanSpec == ScanInit /\ [][ScanNext]_scanVars

-----------------------------------------------------------------------------
(* A finished scan reports what the 16-lane comparator reports for the     *)
(* same wires, after as many edges as lanes it had to look at, even when   *)
(* the scan was restarted half way.                                        *)
ScalarMatchesSimd ==
    strobed /\ done =>
        /\ match_found = SimdHit(control_bytes, target_h2)
        /\ match_offset = SimdMatchOffset(control_bytes, target_h2)
        /\ cycles_used = IF match_found THEN match_offset + 1 ELSE Lanes

==============================================================================
