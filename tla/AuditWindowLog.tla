--------------------------- MODULE AuditWindowLog ---------------------------
(***************************************************************************)
(* The audit window under an arbitrary writer, compared with the whole     *)
(* history of what was written since the last reset.                       *)
(***************************************************************************)
EXTENDS AuditWindow, Sequences

CONSTANT MaxWrites      \* bound on the writes between two resets

ASSUME LogAssumption == MaxWrites \in Nat

VARIABLE history        \* the bytes written since the last reset

logVars == <<windowVars, history>>

LogInit == WindowInit /\ history = <<>>

Write ==
    /\ Len(history) < MaxWrites
    /\ \E b \in Byte : WindowEdge(TRUE, b) /\ history' = Append(history, b)

WindowFalls == WindowReset /\ history' = <<>>

LogNext == Write \/ WindowFalls

LogSpec == LogInit /\ [][LogNext]_logVars

-----------------------------------------------------------------------------
(* How many of the written bytes the window still holds.                   *)
Held == IF wrapped THEN Depth ELSE head_pointer

(* Reading the window back from the head pointer and wrapped flag gives    *)
(* exactly the most recent writes since the reset, newest just below the   *)
(* head, and never a byte the memory powered up with or one from before    *)
(* the reset.                                                              *)
WindowHoldsNewest ==
    /\ Held <= Len(history)
    /\ Held < Depth => Held = Len(history)
    /\ \A age \in 0 .. Held - 1 :
          ReadData((head_pointer - 1 - age) % Depth) = history[Len(history) - age]

==============================================================================
