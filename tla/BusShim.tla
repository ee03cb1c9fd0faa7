------------------------------- MODULE BusShim -------------------------------
(***************************************************************************)
(* atx_northbridge_bus_shim: it samples the processor's bus with its own,  *)
(* faster clock and turns the write cycles to the mailbox into a stream of *)
(* bytes, marking the first byte after chip select was released.           *)
(*                                                                         *)
(* The bus is external.  Of it the model assumes that both phases of PHI2  *)
(* last for at least one edge of the shim's clock, that chip select and    *)
(* the write line are stable while PHI2 is high, and that chip select      *)
(* changes at most once between two cycles.  The clocks are otherwise      *)
(* unrelated.  In particular no wire has to hold after PHI2 fell, although *)
(* the shim reads the wires only on its first edge after that.             *)
(***************************************************************************)
EXTENDS Naturals

CONSTANT MaxByte   \* bound: 255 in the code

BusByte == 0..MaxByte

VARIABLES phi2, select, write, data,   \* the bus wires (~cs_n, ~rw, phi2_d_in)
          moved,                       \* chip select changed since PHI2 fell
          phaseSeen,                   \* a clock edge fell into this phase
          old_phi2, processing_frame, shim_data_out, shim_valid, shim_sof,
          highSeen,  \* PHI2 was sampled high in this cycle, since the reset
          first,     \* a cycle left the mailbox unselected since the last byte
          ended,     \* the cycle, if any, that ended since the last edge
          due        \* the cycle, if any, that had ended at the last edge

busVars == <<phi2, select, write, data, moved>>
shimVars == <<old_phi2, processing_frame, shim_data_out, shim_valid, shim_sof>>
shimBusVars == <<busVars, shimVars, phaseSeen, highSeen, first, ended, due>>

ShimReset ==
    /\ old_phi2' = FALSE /\ processing_frame' = FALSE
    /\ shim_valid' = FALSE /\ shim_sof' = FALSE
    /\ shim_data_out' = 0

BusInit ==
    /\ phi2 = FALSE /\ select = FALSE /\ write = FALSE
    /\ data \in BusByte /\ moved = FALSE
    /\ phaseSeen = FALSE /\ highSeen = FALSE /\ first = TRUE
    /\ ended = {} /\ due = {}
    /\ old_phi2 = FALSE /\ processing_frame = FALSE
    /\ shim_valid = FALSE /\ shim_sof = FALSE /\ shim_data_out = 0

(***************************************************************************)
(* The bus.  A cycle's wires are those PHI2 fell with; held tells whether  *)
(* they are still the same.                                                *)
(***************************************************************************)
NotHeld == ended' = {[cycle EXCEPT !.held = FALSE] : cycle \in ended}

DriveData ==
    /\ data' \in BusByte \ {data}
    /\ NotHeld
    /\ UNCHANGED <<phi2, select, write, moved, shimVars, phaseSeen, highSeen, first, due>>

SetWrite ==
    /\ ~phi2
    /\ write' = ~write
    /\ NotHeld
    /\ UNCHANGED <<phi2, select, data, moved, shimVars, phaseSeen, highSeen, first, due>>

SetSelect ==
    /\ ~phi2 /\ ~moved
    /\ select' = ~select /\ moved' = TRUE
    /\ NotHeld
    /\ UNCHANGED <<phi2, write, data, shimVars, phaseSeen, highSeen, first, due>>

Rise ==
    /\ ~phi2 /\ phaseSeen
    /\ phi2' = TRUE /\ phaseSeen' = FALSE /\ highSeen' = FALSE
    /\ UNCHANGED <<select, write, data, moved, shimVars, first, ended, due>>

\* The cycle ends: a write to the mailbox or not, unless a reset hid it.
Fall ==
    /\ phi2 /\ phaseSeen
    /\ phi2' = FALSE /\ phaseSeen' = FALSE /\ moved' = FALSE
    /\ ended' = {[byte |-> data, written |-> select /\ write /\ highSeen, held |-> TRUE]}
    /\ first' = (first \/ ~select)
    /\ UNCHANGED <<select, write, data, shimVars, highSeen, due>>

(***************************************************************************)
(* The always block.                                                       *)
(***************************************************************************)
WriteLow == ~phi2 /\ select /\ write

WriteSampled == old_phi2 /\ ~phi2 /\ select /\ write

EndOfFrame == ~select

ClockEdge ==
    /\ old_phi2' = phi2
    /\ shim_valid' = WriteSampled
    /\ shim_sof' = (WriteSampled /\ ~processing_frame)
    /\ shim_data_out' = IF WriteSampled THEN data ELSE shim_data_out
    /\ processing_frame' = (WriteSampled \/ (processing_frame /\ ~EndOfFrame))
    /\ due' = {[cycle |-> cycle, first |-> first] : cycle \in ended}
    /\ ended' = {}
    /\ first' = (first /\ ~shim_valid')
    /\ phaseSeen' = TRUE /\ highSeen' = (highSeen \/ phi2)
    /\ UNCHANGED busVars

\* rst_n; the bus goes on, so the cycle the reset falls into may be lost.
BusReset ==
    /\ ShimReset
    /\ due' = {} /\ ended' = {} /\ first' = TRUE /\ highSeen' = FALSE
    /\ UNCHANGED <<busVars, phaseSeen>>

BusNext ==
    \/ DriveData \/ SetWrite \/ SetSelect \/ Rise \/ Fall
    \/ ClockEdge \/ BusReset
BusSpec == BusInit /\ [][BusNext]_shimBusVars

(***************************************************************************)
(* Whatever the ratio of the clocks and however soon the wires change: a   *)
(* byte comes only on the first edge after a cycle ended, so at most once  *)
(* for a cycle, and it starts a frame just when some cycle since the byte  *)
(* before left the mailbox unselected, reads not counting.  And if the     *)
(* wires of the cycle still hold on that edge, a byte comes just when the  *)
(* cycle was a write to the mailbox, and it is the byte written.           *)
(***************************************************************************)
EachWriteOnce ==
    /\ shim_valid => \E d \in due : shim_sof = d.first
    /\ \A d \in due : d.cycle.held =>
            /\ shim_valid = d.cycle.written
            /\ shim_valid => shim_data_out = d.cycle.byte
    /\ shim_sof => shim_valid
=============================================================================
