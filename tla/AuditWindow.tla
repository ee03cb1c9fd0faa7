----------------------------- MODULE AuditWindow -----------------------------
(***************************************************************************)
(* rtl/atarix/atx_audit_log_window.v: a circular buffer of audit bytes     *)
(* with one write port and one asynchronous read port.  Reset clears the   *)
(* pointer and the flag and leaves the storage alone, which is also never  *)
(* initialised: Unwritten stands for whatever the memory powers up with.   *)
(***************************************************************************)
EXTENDS Integers

CONSTANTS
    Depth,      \* BUFFER_DEPTH, 256 in the RTL
    AddrSpan,   \* 2^ADDR_WIDTH, 2^8 in the RTL
    Byte,       \* the values a byte can have
    Unwritten

ASSUME WindowAssumption ==
    /\ Depth \in Nat \ {0}
    /\ AddrSpan \in Nat \ {0}
    /\ Depth <= AddrSpan
    /\ Unwritten \notin Byte

VARIABLES storage_matrix, head_pointer, wrapped

windowVars == <<storage_matrix, head_pointer, wrapped>>

LastAddr == Depth - 1

WindowInit ==
    /\ storage_matrix = [a \in 0 .. LastAddr |-> Unwritten]
    /\ head_pointer = 0
    /\ wrapped = FALSE

WindowReset ==
    /\ head_pointer' = 0
    /\ wrapped' = FALSE
    /\ UNCHANGED storage_matrix

WindowWrapsEarly(write_data) ==
    /\ storage_matrix' = [storage_matrix EXCEPT ![head_pointer] = write_data]
    /\ IF head_pointer + 1 = LastAddr
       THEN head_pointer' = 0 /\ wrapped' = TRUE
       ELSE head_pointer' = (head_pointer + 1) % Depth /\ UNCHANGED wrapped

WindowWrite(write_data) ==
    /\ storage_matrix' = [storage_matrix EXCEPT ![head_pointer] = write_data]
    /\ IF head_pointer = LastAddr
       THEN head_pointer' = 0 /\ wrapped' = TRUE
       ELSE head_pointer' = (head_pointer + 1) % AddrSpan /\ UNCHANGED wrapped

(* One rising edge with the write port's levels on it.                     *)
WindowEdge(write_en, write_data) ==
    IF write_en THEN WindowWrite(write_data) ELSE UNCHANGED windowVars

ReadData(read_addr) == storage_matrix[read_addr]

==============================================================================
