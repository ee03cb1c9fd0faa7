--------------------------- MODULE ComponentProofs ---------------------------
(***************************************************************************)
(* The results about the components that work alone, for any size of them: *)
(* the serial comparator, the audit window, the bus shim, the simulated    *)
(* fabric, the publication script, the Elias-Fano decoder and the memory   *)
(* descriptors.                                                            *)
(***************************************************************************)
EXTENDS ScalarProbe, AuditWindowLog, BusShim, SimFabric, SignedPublish, EliasFano,
        MemoryDescriptor, ProbeCoreProofs, FiniteSetTheorems

------------------------------------------------------------------------------
(***************************************************************************)
(* The serial comparator.  While a scan runs, the lanes below the current  *)
(* one have been looked at and none of them holds the fingerprint.         *)
(***************************************************************************)

ScanTypeOK ==
    /\ done \in BOOLEAN /\ match_found \in BOOLEAN /\ strobed \in BOOLEAN
    /\ match_offset \in Lane /\ lane \in Lane
    /\ cycles_used \in Nat
    /\ control_bytes \in Group
    /\ target_h2 \in Fingerprint

ScanProgress ==
    ~done =>
        /\ ~match_found /\ match_offset = 0
        /\ cycles_used = lane
        /\ \A lower \in 0 .. lane - 1 : ~Holds(control_bytes[lower], target_h2)

ScanInv == ScanTypeOK /\ ScanProgress /\ ScalarMatchesSimd

LEMMA SmallRemainder ==
    ASSUME NEW n \in Nat, NEW m \in Nat, n < m
    PROVE  n % m = n
  OBVIOUS

LEMMA FirstLane == 0 \in Lane /\ 0 \in Nat
  BY ProbeCoreAssumption DEF Lane

LEMMA ScanInvInit == ScanInit => ScanInv
  <1> SUFFICES ASSUME ScanInit PROVE ScanInv
    OBVIOUS
  <1>1. ScanTypeOK
    BY FirstLane, ScalarAssumption DEF ScanInit, ScanTypeOK
  <1>2. ScanProgress /\ ScalarMatchesSimd
    BY Zenon DEF ScanInit, ScanProgress, ScalarMatchesSimd
  <1> QED
    BY <1>1, <1>2 DEF ScanInv

LEMMA ScanKeeps ==
    ASSUME ScanInv, Scan
    PROVE  ScanInv'
  <1>1. /\ ~done /\ ~match_found /\ match_offset = 0 /\ cycles_used = lane
        /\ lane \in Lane /\ strobed \in BOOLEAN
        /\ control_bytes \in Group /\ target_h2 \in Fingerprint
        /\ \A lower \in 0 .. lane - 1 : ~Holds(control_bytes[lower], target_h2)
    BY DEF ScanInv, ScanTypeOK, ScanProgress, Scan
  <1>2. /\ lane \in Nat /\ lane < Lanes /\ Lanes \in Nat
        /\ lane + 1 \in Nat /\ lane + 1 < 2 * Lanes /\ 2 * Lanes \in Nat
    BY <1>1, ProbeCoreAssumption DEF Lane
  <1>3. lane % Lanes = lane /\ (lane + 1) % (2 * Lanes) = lane + 1
    BY <1>2, SmallRemainder
  <1>4. /\ cycles_used' = lane + 1
        /\ control_bytes' = control_bytes /\ target_h2' = target_h2 /\ strobed' = strobed
    BY <1>1, <1>3 DEF Scan, wires
  <1>5. CASE Holds(control_bytes[lane], target_h2)
    <2>1. match_found' = TRUE /\ match_offset' = lane /\ done' = TRUE /\ lane' = lane
      BY <1>3, <1>5 DEF Scan
    <2>2. /\ SimdHit(control_bytes, target_h2)
          /\ SimdMatchOffset(control_bytes, target_h2) = lane
      BY <1>1, <1>5, ProbeCoreAssumption, LowestIsSimdMatch
    <2> QED
      BY <1>1, <1>2, <1>4, <2>1, <2>2
      DEF ScanInv, ScanTypeOK, ScanProgress, ScalarMatchesSimd
  <1>6. CASE ~Holds(control_bytes[lane], target_h2) /\ LastLane(lane)
    <2>1. ~match_found' /\ match_found' \in BOOLEAN
          /\ match_offset' = 0 /\ done' = TRUE /\ lane' = lane
      BY <1>1, <1>3, <1>6 DEF Scan, ScanInv, ScanTypeOK
    <2>2. \A l \in Lane : ~Holds(control_bytes[l], target_h2)
      BY <1>1, <1>2, <1>6 DEF Lane, LastLane
    <2>3. /\ ~SimdHit(control_bytes, target_h2)
          /\ SimdMatchOffset(control_bytes, target_h2) = 0
      BY <2>2 DEF SimdHit, LaneMatches, SimdMatchOffset
    <2>4. lane + 1 = Lanes /\ 0 \in Lane
      BY <1>2, <1>6 DEF LastLane, Lane
    <2>5. ScalarMatchesSimd'
      <3>1. match_found' = SimdHit(control_bytes, target_h2)
        BY <2>1, <2>3, Zenon DEF SimdHit
      <3> QED
        BY <1>4, <2>1, <2>3, <2>4, <3>1 DEF ScalarMatchesSimd
    <2> QED
      BY <1>1, <1>2, <1>4, <2>1, <2>4, <2>5 DEF ScanInv, ScanTypeOK, ScanProgress
  <1>7. CASE ~Holds(control_bytes[lane], target_h2) /\ ~LastLane(lane)
    <2>1. /\ match_found' = match_found /\ match_offset' = 0 /\ done' = done
          /\ lane' = lane + 1
      BY <1>1, <1>3, <1>7 DEF Scan
    <2>2. lane + 1 \in Lane /\ 0 \in Lane
      BY <1>2, <1>7 DEF LastLane, Lane
    <2>3. \A lower \in 0 .. (lane + 1) - 1 : ~Holds(control_bytes[lower], target_h2)
      BY <1>1, <1>2, <1>7
    <2> QED
      BY <1>1, <1>2, <1>4, <2>1, <2>2, <2>3
      DEF ScanInv, ScanTypeOK, ScanProgress, ScalarMatchesSimd
  <1> QED
    BY <1>5, <1>6, <1>7

LEMMA ScanInvNext == ScanInv /\ [ScanNext]_scanVars => ScanInv'
  <1> SUFFICES ASSUME ScanInv, [ScanNext]_scanVars PROVE ScanInv'
    OBVIOUS
  <1>1. CASE ScanReset
    <2>1. ScanTypeOK'
      BY <1>1, FirstLane DEF ScanReset, ScanInv, ScanTypeOK, wires
    <2>2. ScanProgress' /\ ScalarMatchesSimd'
      BY <1>1, Zenon DEF ScanReset, ScanProgress, ScalarMatchesSimd
    <2> QED
      BY <2>1, <2>2 DEF ScanInv
  <1>2. CASE Start
    <2>1. ScanTypeOK'
      BY <1>2, FirstLane, ScalarAssumption DEF Start, ScanTypeOK
    <2>2. ScanProgress'
      BY <1>2, FirstLane DEF Start, ScanProgress
    <2>3. ScalarMatchesSimd'
      BY <1>2, Zenon DEF Start, ScalarMatchesSimd
    <2> QED
      BY <2>1, <2>2, <2>3 DEF ScanInv
  <1>3. CASE Scan
    BY <1>3, ScanKeeps
  <1>4. CASE UNCHANGED scanVars
    BY <1>4 DEF ScanInv, ScanTypeOK, ScanProgress, ScalarMatchesSimd, scanVars, wires
  <1> QED
    BY <1>1, <1>2, <1>3, <1>4 DEF ScanNext

(* The serial comparator agrees with the combinational one for any number  *)
(* of lanes, and takes as many edges as lanes it looks at.                 *)
THEOREM ScalarAgreesWithSimd == ScanSpec => []ScalarMatchesSimd
  <1>1. ScanInv => ScalarMatchesSimd
    BY DEF ScanInv
  <1> QED
    BY ScanInvInit, ScanInvNext, <1>1, PTL DEF ScanSpec

------------------------------------------------------------------------------
(***************************************************************************)
(* The audit window.  WindowHoldsNewest needs the range of the pointer and *)
(* what the flag says about the number of writes.                          *)
(***************************************************************************)

LogTypeOK ==
    /\ storage_matrix \in [0 .. LastAddr -> Byte \cup {Unwritten}]
    /\ head_pointer \in 0 .. LastAddr
    /\ wrapped \in BOOLEAN
    /\ history \in Seq(Byte)

HeldIsWritten ==
    IF wrapped THEN Len(history) >= Depth ELSE Len(history) = head_pointer

(* The address of the byte that is age writes old.                         *)
AddrOf(pointer, age) ==
    IF age < pointer THEN pointer - 1 - age ELSE pointer - 1 - age + Depth

AgesHold ==
    \A age \in 0 .. Held - 1 :
        storage_matrix[AddrOf(head_pointer, age)] = history[Len(history) - age]

LogInv == LogTypeOK /\ HeldIsWritten /\ AgesHold

LEMMA AddrOfIsRemainder ==
    ASSUME NEW pointer \in 0 .. LastAddr, NEW age \in 0 .. LastAddr
    PROVE  (pointer - 1 - age) % Depth = AddrOf(pointer, age)
  <1>1. Depth \in Nat \ {0}
    BY WindowAssumption
  <1>2. CASE age < pointer
    BY <1>1, <1>2 DEF AddrOf, LastAddr
  <1>3. CASE ~(age < pointer)
    <2> DEFINE x == pointer - 1 - age
    <2>1. x \in Int /\ -Depth <= x /\ x < 0
      BY <1>1, <1>3 DEF LastAddr
    <2>2. x % Depth = x + Depth
      <3> HIDE DEF x
      <3> QED
        BY <1>1, <2>1
    <2> QED
      BY <1>3, <2>2 DEF AddrOf
  <1> QED
    BY <1>2, <1>3

LEMMA WriteKeeps ==
    ASSUME LogInv, Write
    PROVE  LogInv'
  <1> DEFINE n == Len(history)
  <1>1. PICK b \in Byte : WindowWrite(b) /\ history' = Append(history, b)
    BY DEF Write, WindowEdge
  <1>2. Depth \in Nat \ {0} /\ AddrSpan \in Nat /\ Depth <= AddrSpan
    BY WindowAssumption
  <1>3. /\ head_pointer \in Nat /\ head_pointer < Depth /\ n \in Nat
        /\ wrapped \in BOOLEAN /\ history \in Seq(Byte)
        /\ storage_matrix \in [0 .. LastAddr -> Byte \cup {Unwritten}]
        /\ IF wrapped THEN n >= Depth ELSE n = head_pointer
    BY <1>2 DEF LogInv, LogTypeOK, HeldIsWritten, LastAddr
  <1>4. /\ head_pointer' = IF head_pointer = LastAddr THEN 0 ELSE head_pointer + 1
        /\ wrapped' = (wrapped \/ head_pointer = LastAddr)
    <2>1. CASE head_pointer = LastAddr
      BY <1>1, <1>3, <2>1 DEF WindowWrite
    <2>2. CASE head_pointer # LastAddr
      <3>1. head_pointer + 1 \in Nat /\ head_pointer + 1 < AddrSpan
        BY <1>2, <1>3, <2>2 DEF LastAddr
      <3>2. (head_pointer + 1) % AddrSpan = head_pointer + 1
        BY <1>2, <3>1, SmallRemainder
      <3> QED
        BY <1>1, <1>3, <2>2, <3>2 DEF WindowWrite
    <2> QED
      BY <2>1, <2>2
  <1>5. storage_matrix' = [storage_matrix EXCEPT ![head_pointer] = b]
    BY <1>1 DEF WindowWrite
  <1>6. /\ history' \in Seq(Byte) /\ Len(history') = n + 1
        /\ history'[n + 1] = b
        /\ \A i \in 1 .. n : history'[i] = history[i]
    BY <1>1, <1>3
  <1>7. LogTypeOK'
    BY <1>1, <1>2, <1>3, <1>4, <1>5, <1>6 DEF LogTypeOK, LastAddr
  <1>8. HeldIsWritten'
    BY <1>2, <1>3, <1>4, <1>6 DEF HeldIsWritten, LastAddr
  <1>9. ASSUME NEW age \in 0 .. Held' - 1
        PROVE  storage_matrix'[AddrOf(head_pointer', age)] = history'[Len(history') - age]
    <2>1. age \in Nat /\ age < Depth /\ age <= n
      BY <1>2, <1>3, <1>4, <1>9 DEF Held, LastAddr
    <2>2. CASE age = 0
      <3>1. AddrOf(head_pointer', 0) = head_pointer
        BY <1>2, <1>3, <1>4 DEF AddrOf, LastAddr
      <3> QED
        BY <1>3, <1>5, <1>6, <2>2, <3>1, <1>2 DEF LastAddr
    <2>3. CASE age # 0
      <3>1. AddrOf(head_pointer', age) = AddrOf(head_pointer, age - 1)
        BY <1>2, <1>3, <1>4, <2>1, <2>3 DEF AddrOf, LastAddr
      <3>2. /\ AddrOf(head_pointer, age - 1) \in 0 .. LastAddr
            /\ AddrOf(head_pointer, age - 1) # head_pointer
        BY <1>2, <1>3, <2>1, <2>3 DEF AddrOf, LastAddr
      <3>3. age - 1 \in 0 .. Held - 1
        BY <1>2, <1>3, <1>4, <1>9, <2>1, <2>3 DEF Held, LastAddr
      <3>4. storage_matrix[AddrOf(head_pointer, age - 1)] = history[n - (age - 1)]
        BY <3>3 DEF LogInv, AgesHold
      <3>5. storage_matrix'[AddrOf(head_pointer, age - 1)]
              = storage_matrix[AddrOf(head_pointer, age - 1)]
        BY <1>3, <1>5, <3>2
      <3>6. n - (age - 1) \in 1 .. n /\ n - (age - 1) = (n + 1) - age
        BY <1>3, <2>1, <2>3
      <3> QED
        BY <1>6, <3>1, <3>4, <3>5, <3>6
    <2> QED
      BY <2>2, <2>3
  <1>10. AgesHold'
    BY <1>9 DEF AgesHold
  <1> QED
    BY <1>7, <1>8, <1>10 DEF LogInv

LEMMA LogInvariance == LogSpec => []LogInv
  <1>1. LogInit => LogInv
    <2> SUFFICES ASSUME LogInit PROVE LogInv
      OBVIOUS
    <2>1. Depth \in Nat \ {0}
      BY WindowAssumption
    <2>2. storage_matrix \in [0 .. LastAddr -> Byte \cup {Unwritten}]
      BY DEF LogInit, WindowInit
    <2>3. head_pointer = 0 /\ wrapped \in BOOLEAN /\ ~wrapped
      BY Zenon DEF LogInit, WindowInit
    <2>4. history \in Seq(Byte) /\ Len(history) = 0
      BY DEF LogInit
    <2> QED
      BY <2>1, <2>2, <2>3, <2>4 DEF LogInv, LogTypeOK, HeldIsWritten, AgesHold, Held, LastAddr
  <1>2. LogInv /\ [LogNext]_logVars => LogInv'
    <2> SUFFICES ASSUME LogInv, [LogNext]_logVars PROVE LogInv'
      OBVIOUS
    <2>1. CASE Write
      BY <2>1, WriteKeeps
    <2>2. CASE WindowFalls
      BY <2>2, WindowAssumption
      DEF WindowFalls, WindowReset, LogInv, LogTypeOK, HeldIsWritten, AgesHold, Held, LastAddr
    <2>3. CASE UNCHANGED logVars
      BY <2>3
      DEF LogInv, LogTypeOK, HeldIsWritten, AgesHold, Held, logVars, windowVars
    <2> QED
      BY <2>1, <2>2, <2>3 DEF LogNext
  <1> QED
    BY <1>1, <1>2, PTL DEF LogSpec

(* The window holds exactly the newest bytes since the reset, for any      *)
(* depth and any number of writes.                                         *)
THEOREM WindowKeepsNewest == LogSpec => []WindowHoldsNewest
  <1>1. ASSUME LogInv PROVE WindowHoldsNewest
    <2>1. /\ Depth \in Nat \ {0} /\ head_pointer \in 0 .. LastAddr
          /\ wrapped \in BOOLEAN /\ Len(history) \in Nat
          /\ IF wrapped THEN Len(history) >= Depth ELSE Len(history) = head_pointer
      BY <1>1, WindowAssumption DEF LogInv, LogTypeOK, HeldIsWritten
    <2>2. Held <= Len(history) /\ (Held < Depth => Held = Len(history))
      BY <2>1 DEF Held, LastAddr
    <2>3. ASSUME NEW age \in 0 .. Held - 1
          PROVE  ReadData((head_pointer - 1 - age) % Depth) = history[Len(history) - age]
      <3>1. age \in 0 .. LastAddr
        BY <2>1, <2>3 DEF Held, LastAddr
      <3>2. (head_pointer - 1 - age) % Depth = AddrOf(head_pointer, age)
        BY <2>1, <3>1, AddrOfIsRemainder
      <3> QED
        BY <1>1, <2>3, <3>2 DEF LogInv, AgesHold, ReadData
    <2> QED
      BY <2>2, <2>3 DEF WindowHoldsNewest
  <1> QED
    BY LogInvariance, <1>1, PTL

------------------------------------------------------------------------------
(***************************************************************************)
(* The bus shim.  EachWriteOnce speaks of the edge that has just passed;   *)
(* the invariant says what the next one will bring.  EdgeDetector ties the *)
(* sampled clock to the phases, Pending the cycle that ended since the     *)
(* last edge to what that edge will see, if the wires hold, and            *)
(* FrameTracked the shim's frame flag to the frame on the bus: the shim    *)
(* may see the chip select of a cycle before that cycle has ended, so the  *)
(* flag may be down early, but not while the mailbox is selected.          *)
(***************************************************************************)
Cycles == [byte : BusByte, written : BOOLEAN, held : BOOLEAN]

BusTypeOK ==
    /\ phi2 \in BOOLEAN /\ select \in BOOLEAN /\ write \in BOOLEAN /\ data \in BusByte
    /\ moved \in BOOLEAN /\ phaseSeen \in BOOLEAN /\ highSeen \in BOOLEAN
    /\ first \in BOOLEAN /\ old_phi2 \in BOOLEAN /\ processing_frame \in BOOLEAN
    /\ shim_valid \in BOOLEAN /\ shim_sof \in BOOLEAN
    /\ ended \subseteq Cycles

EdgeDetector ==
    /\ phi2 => (old_phi2 <=> highSeen)
    /\ ~phi2 /\ phaseSeen => ~old_phi2

Pending ==
    /\ ended # {} => ~phi2 /\ ~phaseSeen
    /\ old_phi2 /\ ~phi2 => ended # {}
    /\ \A cycle \in ended : cycle.held => /\ cycle.written <=> WriteSampled
                                          /\ cycle.byte = data

FrameTracked ==
    /\ first => ~processing_frame
    /\ ~first /\ ~processing_frame => ~select
    /\ ~first /\ ~phi2 /\ ~select => moved
    /\ phi2 /\ phaseSeen /\ ~select => ~processing_frame

BusInv == BusTypeOK /\ EdgeDetector /\ Pending /\ FrameTracked /\ EachWriteOnce

LEMMA BusInvInit == BusInit => BusInv
  BY DEF BusInit, BusInv, BusTypeOK, EdgeDetector, Pending, FrameTracked, EachWriteOnce

(* A change of the wires spoils only the cycle that has just ended.        *)
LEMMA WiresKeep == ASSUME BusInv, DriveData \/ SetWrite \/ SetSelect PROVE BusInv'
  <1>1. /\ UNCHANGED <<phi2, shimVars, phaseSeen, highSeen, first, due>>
        /\ ended' = {[cycle EXCEPT !.held = FALSE] : cycle \in ended}
    BY DEF DriveData, SetWrite, SetSelect, NotHeld
  <1>2. /\ ended' \subseteq Cycles
        /\ \A cycle \in ended' : ~cycle.held
        /\ ended' # {} <=> ended # {}
    BY <1>1 DEF BusInv, BusTypeOK, Cycles
  <1>3. BusTypeOK'
    <2>1. data' \in BusByte
      BY DEF BusInv, BusTypeOK, DriveData, SetWrite, SetSelect
    <2>2. select' \in BOOLEAN /\ write' \in BOOLEAN /\ moved' \in BOOLEAN
      BY Zenon DEF BusInv, BusTypeOK, DriveData, SetWrite, SetSelect
    <2> QED
      BY <1>1, <1>2, <2>1, <2>2 DEF BusInv, BusTypeOK, shimVars
  <1>4. EdgeDetector' /\ Pending'
    BY <1>1, <1>2 DEF BusInv, EdgeDetector, Pending, shimVars
  <1>5. FrameTracked'
    BY <1>1 DEF BusInv, FrameTracked, DriveData, SetWrite, SetSelect, shimVars
  <1>6. EachWriteOnce'
    BY <1>1 DEF BusInv, EachWriteOnce, shimVars
  <1> QED
    BY <1>3, <1>4, <1>5, <1>6 DEF BusInv

LEMMA RiseKeeps == ASSUME BusInv, Rise PROVE BusInv'
  <1>1. ended = {}
    BY DEF BusInv, Rise, Pending
  <1>2. BusTypeOK' /\ EdgeDetector' /\ FrameTracked'
    BY DEF BusInv, Rise, BusTypeOK, EdgeDetector, FrameTracked, shimVars
  <1>3. Pending' /\ EachWriteOnce'
    BY <1>1 DEF BusInv, Rise, Pending, EachWriteOnce, shimVars
  <1> QED
    BY <1>2, <1>3 DEF BusInv

(* The end of a cycle: it was a write just when the edge detector will see *)
(* one.                                                                    *)
LEMMA FallKeeps == ASSUME BusInv, Fall PROVE BusInv'
  <1> DEFINE cycle == [byte |-> data, written |-> select /\ write /\ highSeen, held |-> TRUE]
  <1>1. /\ phi2 /\ phaseSeen /\ ~phi2' /\ ~phaseSeen' /\ ~moved'
        /\ ended' = {cycle}
        /\ first' = (first \/ ~select)
        /\ UNCHANGED <<select, write, data, shimVars, highSeen, due>>
    BY DEF Fall
  <1>2. cycle \in Cycles
    <2>1. data \in BusByte /\ (select /\ write /\ highSeen) \in BOOLEAN
      BY DEF BusInv, BusTypeOK
    <2> QED
      BY <2>1 DEF Cycles
  <1>3. (select /\ write /\ highSeen) <=> WriteSampled'
    BY <1>1 DEF BusInv, EdgeDetector, WriteSampled, shimVars
  <1>4. cycle.byte = data /\ (cycle.written <=> select /\ write /\ highSeen)
    OBVIOUS
  <1> HIDE DEF cycle
  <1>5. BusTypeOK'
    <2>1. ended' \subseteq Cycles
      BY <1>1, <1>2
    <2> QED
      BY <1>1, <2>1 DEF BusInv, BusTypeOK, Fall, shimVars
  <1>6. EdgeDetector' /\ FrameTracked'
    BY <1>1 DEF BusInv, EdgeDetector, FrameTracked, shimVars
  <1>7. Pending'
    BY <1>1, <1>3, <1>4 DEF Pending
  <1>8. EachWriteOnce'
    BY <1>1 DEF BusInv, EachWriteOnce, shimVars
  <1> QED
    BY <1>5, <1>6, <1>7, <1>8 DEF BusInv

(* An edge of the shim's clock sends what was pending.                     *)
LEMMA ClockEdgeKeeps == ASSUME BusInv, ClockEdge PROVE BusInv'
  <1>1. /\ shim_valid' = WriteSampled /\ shim_sof' = (WriteSampled /\ ~processing_frame)
        /\ WriteSampled => shim_data_out' = data
        /\ due' = {[cycle |-> cycle, first |-> first] : cycle \in ended}
        /\ ended' = {}
    BY DEF ClockEdge
  <1>2. BusTypeOK'
    BY DEF BusInv, BusTypeOK, ClockEdge, WriteSampled, EndOfFrame, busVars
  <1>3. EdgeDetector'
    BY DEF BusInv, BusTypeOK, EdgeDetector, ClockEdge, busVars
  <1>4. Pending'
    BY <1>1 DEF Pending, ClockEdge, busVars
  <1>5. FrameTracked'
    BY DEF BusInv, BusTypeOK, ClockEdge, FrameTracked, WriteSampled, EndOfFrame, busVars
  <1>6. EachWriteOnce'
    <2>1. ASSUME WriteSampled PROVE \E d \in due' : shim_sof' = d.first
      <3>1. PICK cycle \in ended : TRUE
        BY <2>1 DEF BusInv, Pending, WriteSampled
      <3>2. [cycle |-> cycle, first |-> first] \in due'
        BY <1>1
      <3>3. select /\ first = ~processing_frame
        BY <2>1 DEF BusInv, BusTypeOK, FrameTracked, WriteSampled
      <3>4. shim_sof' = first
        BY <1>1, <2>1, <3>3, Zenon
      <3> QED
        BY <3>2, <3>4
    <2>2. ASSUME NEW d \in due', d.cycle.held
          PROVE  /\ shim_valid' = d.cycle.written
                 /\ shim_valid' => shim_data_out' = d.cycle.byte
      <3>1. d.cycle \in ended
        BY <1>1
      <3>2. (d.cycle.written <=> WriteSampled) /\ d.cycle.byte = data
        BY <2>2, <3>1 DEF BusInv, Pending
      <3>3. d.cycle.written \in BOOLEAN /\ WriteSampled \in BOOLEAN
        BY <3>1 DEF BusInv, BusTypeOK, Cycles, WriteSampled
      <3>4. d.cycle.written = WriteSampled
        BY <3>2, <3>3, Zenon
      <3> QED
        BY <1>1, <3>2, <3>4
    <2> QED
      BY <1>1, <2>1, <2>2, Zenon DEF EachWriteOnce
  <1> QED
    BY <1>2, <1>3, <1>4, <1>5, <1>6 DEF BusInv

LEMMA BusResetKeeps == ASSUME BusInv, BusReset PROVE BusInv'
  BY DEF BusInv, BusReset, ShimReset, BusTypeOK, EdgeDetector, Pending, FrameTracked,
         EachWriteOnce, busVars

LEMMA BusInvNext == BusInv /\ [BusNext]_shimBusVars => BusInv'
  <1> SUFFICES ASSUME BusInv, [BusNext]_shimBusVars PROVE BusInv'
    OBVIOUS
  <1>1. CASE UNCHANGED shimBusVars
    BY <1>1 DEF BusInv, BusTypeOK, EdgeDetector, Pending, FrameTracked, EachWriteOnce,
                WriteSampled, shimBusVars, busVars, shimVars
  <1> QED
    BY <1>1, WiresKeep, RiseKeeps, FallKeeps, ClockEdgeKeeps, BusResetKeeps DEF BusNext

(* At most one byte for a cycle, with the right start of frame; and, if    *)
(* the wires hold until the shim's first edge after PHI2 fell, the byte of *)
(* every write and no other, however the two clocks drift against each     *)
(* other.                                                                  *)
THEOREM EveryWriteOnce == BusSpec => []EachWriteOnce
  <1>1. BusInv => EachWriteOnce
    BY DEF BusInv
  <1> QED
    BY BusInvInit, BusInvNext, <1>1, PTL DEF BusSpec

------------------------------------------------------------------------------
(***************************************************************************)
(* The simulated fabric.  An attach is refused when the search finds the   *)
(* number, so what the search returns is all there is to know.             *)
(***************************************************************************)

Slot == [node_id : NodeIds, node : Nodes]

FabricTypeOK ==
    /\ node_id \in [Nodes -> NodeIds]
    /\ slots \in Seq(Slot)

FabricInv == FabricTypeOK /\ SlotIdsUnique

SlotIds(s) == {s[i].node_id : i \in DOMAIN s}

(* The search of atarix_sim_fabric_lookup: nothing just when no slot has   *)
(* the number, and otherwise the node of a slot that has it.               *)
LEMMA LookupSearches ==
    ASSUME NEW s \in Seq(Slot), NEW id
    PROVE  /\ Lookup(s, id) = << >> <=> id \notin SlotIds(s)
           /\ id \in SlotIds(s) =>
                 \E i \in DOMAIN s : s[i].node_id = id /\ Lookup(s, id) = <<s[i].node>>
  <1> DEFINE I == {i \in 1 .. Len(s) : s[i].node_id = id}
  <1>1. Lookup(s, id) = LET i == IF I # {} THEN Min(I) ELSE 0
                          IN  IF i = 0 THEN << >> ELSE <<s[i].node>>
    BY DEF Lookup, SelectInSeq
  <1>2. I \in SUBSET Nat /\ (I = {} <=> id \notin SlotIds(s))
    BY DEF SlotIds
  <1>3. ASSUME I # {} PROVE Min(I) \in I
    <2> HIDE DEF I
    <2> QED
      BY <1>2, <1>3, MinIsLeast
  <1>4. CASE I = {}
    BY <1>1, <1>2, <1>4
  <1>5. CASE I # {}
    <2>1. Min(I) \in DOMAIN s /\ s[Min(I)].node_id = id /\ Min(I) # 0
      BY <1>3, <1>5
    <2>2. Lookup(s, id) = <<s[Min(I)].node>>
      BY <1>1, <1>5, <2>1
    <2>3. <<s[Min(I)].node>> # << >>
      OBVIOUS
    <2> QED
      BY <1>2, <1>5, <2>1, <2>2, <2>3
  <1> QED
    BY <1>4, <1>5

LEMMA AttachKeeps ==
    ASSUME FabricInv, NEW node \in Nodes, Attach(node)
    PROVE  FabricInv'
  <1> DEFINE n == Len(slots)
             added == [node_id |-> node_id[node], node |-> node]
  <1>1. CASE AttachStatus(node) # "OK"
    BY <1>1 DEF Attach, FabricInv, FabricTypeOK, SlotIdsUnique
  <1>2. CASE AttachStatus(node) = "OK"
    <2>1. slots' = Append(slots, added) /\ node_id' = node_id
      BY <1>2 DEF Attach
    <2>2. slots \in Seq(Slot) /\ added \in Slot /\ n \in Nat
      BY DEF FabricInv, FabricTypeOK, Slot
    <2>3. node_id[node] \notin SlotIds(slots)
      <3>1. Lookup(slots, node_id[node]) = << >>
        BY <1>2 DEF AttachStatus
      <3> QED
        BY <2>2, <3>1, LookupSearches
    <2>4. /\ slots' \in Seq(Slot) /\ DOMAIN slots' = 1 .. n + 1
          /\ slots'[n + 1].node_id = node_id[node]
          /\ \A i \in 1 .. n : slots'[i] = slots[i]
      BY <2>1, <2>2
    <2>5. SlotIdsUnique'
      <3> SUFFICES ASSUME NEW i \in 1 .. n + 1, NEW j \in 1 .. n + 1,
                          slots'[i].node_id = slots'[j].node_id
                   PROVE  i = j
        BY <2>4 DEF SlotIdsUnique
      <3>1. CASE i \in 1 .. n /\ j \in 1 .. n
        BY <2>2, <2>4, <3>1 DEF FabricInv, SlotIdsUnique
      <3>2. CASE i = n + 1 /\ j \in 1 .. n
        BY <2>2, <2>3, <2>4, <3>2 DEF SlotIds
      <3>3. CASE i \in 1 .. n /\ j = n + 1
        BY <2>2, <2>3, <2>4, <3>3 DEF SlotIds
      <3> QED
        BY <2>2, <3>1, <3>2, <3>3
    <2> QED
      BY <2>1, <2>4, <2>5 DEF FabricInv, FabricTypeOK
  <1> QED
    BY <1>1, <1>2

LEMMA FabricInvariance == FabricSpec => []FabricInv
  <1>1. FabricStart => FabricInv
    BY DEF FabricStart, FabricInv, FabricTypeOK, SlotIdsUnique
  <1>2. FabricInv /\ [FabricNext]_fabricVars => FabricInv'
    <2> SUFFICES ASSUME FabricInv, [FabricNext]_fabricVars PROVE FabricInv'
      OBVIOUS
    <2>1. CASE FabricInit
      BY <2>1 DEF FabricInit, FabricInv, FabricTypeOK, SlotIdsUnique
    <2>2. CASE \E node \in Nodes : Attach(node)
      BY <2>2, AttachKeeps
    <2>3. CASE \E node \in Nodes, id \in NodeIds : NodeInit(node, id)
      BY <2>3 DEF NodeInit, FabricInv, FabricTypeOK, SlotIdsUnique
    <2>4. CASE UNCHANGED fabricVars
      BY <2>4 DEF FabricInv, FabricTypeOK, SlotIdsUnique, fabricVars
    <2> QED
      BY <2>1, <2>2, <2>3, <2>4 DEF FabricNext
  <1> QED
    BY <1>1, <1>2, PTL DEF FabricSpec

(* No two slots have the same number, for any table size and any order of  *)
(* attaching and renumbering nodes.                                        *)
THEOREM SlotIdsStayUnique == FabricSpec => []SlotIdsUnique
  <1>1. FabricInv => SlotIdsUnique
    BY DEF FabricInv
  <1> QED
    BY FabricInvariance, <1>1, PTL

(***************************************************************************)
(* The fabric implements the directory.                                    *)
(***************************************************************************)

(* With unique numbers the search finds the slot, not just a slot.         *)
LEMMA EntryOfSlot ==
    ASSUME NEW s \in Seq(Slot), NEW i \in DOMAIN s,
           \A j, k \in DOMAIN s : s[j].node_id = s[k].node_id => j = k
    PROVE  DirectoryOf(s)[s[i].node_id] = s[i].node
  <1>1. s[i].node_id \in SlotIds(s)
    BY DEF SlotIds
  <1>2. PICK j \in DOMAIN s : /\ s[j].node_id = s[i].node_id
                              /\ Lookup(s, s[i].node_id) = <<s[j].node>>
    BY <1>1, LookupSearches
  <1>3. j = i
    BY <1>2
  <1> QED
    BY <1>1, <1>2, <1>3 DEF DirectoryOf, SlotIds

(* A table has at most as many numbers as slots.                           *)
LEMMA NumbersFit ==
    ASSUME NEW s \in Seq(Slot)
    PROVE  Cardinality(SlotIds(s)) \in Nat /\ Cardinality(SlotIds(s)) <= Len(s)
  <1> DEFINE f == [i \in 1 .. Len(s) |-> s[i].node_id]
  <1>1. Len(s) \in Nat /\ DOMAIN s = 1 .. Len(s)
    OBVIOUS
  <1>2. f \in Surjection(1 .. Len(s), SlotIds(s))
    BY <1>1 DEF Surjection, SlotIds
  <1>3. IsFiniteSet(1 .. Len(s)) /\ Cardinality(1 .. Len(s)) = Len(s)
    BY <1>1, FS_Interval
  <1>4. IsFiniteSet(SlotIds(s)) /\ Cardinality(SlotIds(s)) <= Cardinality(1 .. Len(s))
    BY <1>2, <1>3, FS_Surjection
  <1> QED
    BY <1>3, <1>4, FS_CardinalityType

LEMMA EmptyTable == DirectoryOf(<< >>) = << >>
  <1>1. SlotIds(<< >>) = {}
    BY DEF SlotIds
  <1> QED
    BY <1>1 DEF DirectoryOf, SlotIds

LEMMA AttachEnters ==
    ASSUME FabricInv, FabricInv', NEW node \in Nodes, Attach(node), AttachStatus(node) = "OK"
    PROVE  LET d == DirectoryOf(slots)
               id == node_id[node]
           IN  /\ id \in NodeIds /\ id \notin DOMAIN d
               /\ Cardinality(DOMAIN d) < MaxNodes
               /\ DirectoryOf(slots') = [i \in DOMAIN d \cup {id} |-> IF i = id THEN node ELSE d[i]]
  <1> DEFINE d == DirectoryOf(slots)
             id == node_id[node]
             n == Len(slots)
             e == [i \in DOMAIN d \cup {id} |-> IF i = id THEN node ELSE d[i]]
  <1>1. /\ slots \in Seq(Slot) /\ slots' \in Seq(Slot) /\ n \in Nat /\ id \in NodeIds
        /\ \A j, k \in DOMAIN slots : slots[j].node_id = slots[k].node_id => j = k
        /\ \A j, k \in DOMAIN slots' : slots'[j].node_id = slots'[k].node_id => j = k
    BY DEF FabricInv, FabricTypeOK, SlotIdsUnique
  <1>2. DOMAIN d = SlotIds(slots) /\ DOMAIN DirectoryOf(slots') = SlotIds(slots')
    BY DEF DirectoryOf, SlotIds
  <1>3. id \notin DOMAIN d
    <2>1. Lookup(slots, id) = << >>
      BY DEF AttachStatus
    <2> QED
      BY <1>1, <1>2, <2>1, LookupSearches
  <1>4. Cardinality(DOMAIN d) < MaxNodes
    <2>1. n < MaxNodes
      BY <1>1, FabricAssumption DEF AttachStatus
    <2> QED
      BY <1>1, <1>2, <2>1, NumbersFit, FabricAssumption
  <1>5. /\ DOMAIN slots = 1 .. n /\ DOMAIN slots' = 1 .. n + 1
        /\ slots'[n + 1] = [node_id |-> id, node |-> node]
        /\ \A i \in 1 .. n : slots'[i] = slots[i]
    BY <1>1 DEF Attach
  <1>6. SlotIds(slots') = DOMAIN d \cup {id}
    <2>1. \A x : x \in SlotIds(slots') <=> \E i \in 1 .. n + 1 : x = slots'[i].node_id
      BY <1>5 DEF SlotIds
    <2>2. \A x : x \in SlotIds(slots) <=> \E i \in 1 .. n : x = slots[i].node_id
      BY <1>5 DEF SlotIds
    <2>3. \A i : i \in 1 .. n + 1 <=> i \in 1 .. n \/ i = n + 1
      BY <1>1
    <2>4. slots'[n + 1].node_id = id
      BY <1>5
    <2> QED
      BY <1>2, <1>5, <2>1, <2>2, <2>3, <2>4
  <1>7. ASSUME NEW x \in DOMAIN d \cup {id} PROVE DirectoryOf(slots')[x] = e[x]
    <2>1. CASE x = id
      <3>1. n + 1 \in DOMAIN slots' /\ slots'[n + 1].node_id = id /\ slots'[n + 1].node = node
        BY <1>1, <1>5
      <3> QED
        BY <1>1, <2>1, <3>1, EntryOfSlot
    <2>2. CASE x # id
      <3>1. PICK i \in 1 .. n : slots[i].node_id = x
        BY <1>2, <1>5, <1>7, <2>2 DEF SlotIds
      <3>2. i \in DOMAIN slots /\ i \in DOMAIN slots' /\ slots'[i] = slots[i]
        BY <1>1, <1>5
      <3>3. DirectoryOf(slots')[x] = slots[i].node
        BY <1>1, <3>1, <3>2, EntryOfSlot
      <3>4. d[x] = slots[i].node
        BY <1>1, <3>1, <3>2, EntryOfSlot
      <3> QED
        BY <1>7, <2>2, <3>3, <3>4
    <2> QED
      BY <2>1, <2>2
  <1>8. DirectoryOf(slots') = e
    <2>1. DirectoryOf(slots') = [x \in SlotIds(slots') |-> DirectoryOf(slots')[x]]
      BY DEF DirectoryOf, SlotIds
    <2> QED
      BY <1>6, <1>7, <2>1
  <1> QED
    BY <1>1, <1>3, <1>4, <1>8

(* The table of slots implements the directory: an attach enters one       *)
(* node under its number or changes nothing, an initialisation clears it,  *)
(* and renumbering a node changes no entry.                                *)
THEOREM FabricIsADirectory == FabricSpec => ImplementsDirectory
  <1>1. FabricStart => Directory!Init
    BY EmptyTable DEF FabricStart, Directory!Init, Attached
  <1>2. ASSUME FabricInv, FabricInv', [FabricNext]_fabricVars
        PROVE  [Directory!Next]_<<Attached, node_id>>
    <2>1. CASE FabricInit
      BY <2>1, EmptyTable DEF FabricInit, Directory!Next, Directory!Clear, Attached
    <2>2. CASE UNCHANGED <<slots, node_id>>
      BY <2>2 DEF Attached
    <2>3. ASSUME NEW node \in Nodes, Attach(node), AttachStatus(node) = "OK"
          PROVE  Directory!Next
      <3>1. /\ node_id[node] \notin DOMAIN Attached
            /\ Cardinality(DOMAIN Attached) < MaxNodes
            /\ Attached' = [i \in DOMAIN Attached \cup {node_id[node]} |->
                              IF i = node_id[node] THEN node ELSE Attached[i]]
            /\ node_id' = node_id
        BY <1>2, <2>3, AttachEnters DEF Attached, Attach
      <3>2. Directory!Enter(node)
        BY <3>1 DEF Directory!Enter, Directory!Cardinality, Cardinality
      <3> QED
        BY <3>2 DEF Directory!Next
    <2>4. ASSUME NEW node \in Nodes, Attach(node), AttachStatus(node) # "OK"
          PROVE  UNCHANGED <<slots, node_id>>
      BY <2>4 DEF Attach
    <2>5. ASSUME NEW node \in Nodes, NEW id \in NodeIds, NodeInit(node, id)
          PROVE  Directory!Next
      BY <2>5 DEF NodeInit, Directory!Next, Directory!Renumber, Attached
    <2> QED
      BY <1>2, <2>1, <2>2, <2>3, <2>4, <2>5 DEF FabricNext, fabricVars
  <1> QED
    BY FabricInvariance, <1>1, <1>2, PTL DEF FabricSpec, ImplementsDirectory, Directory!Spec

------------------------------------------------------------------------------
(***************************************************************************)
(* The publication script.  A run that has read nothing has made no        *)
(* commit, so its base is fixed once it has made one.  For RaceHasWinner:  *)
(* from the first read after a cancellation or a push on, while the branch *)
(* holds no run's commit, some run has the lease on what it does hold.     *)
(***************************************************************************)

PublishTypeOK ==
    /\ pc \in [Runs -> Running \cup Ended \cup {"idle"}]
    /\ base \in [Runs -> Nat]
    /\ seen = [r \in Runs |-> seen[r]]
    /\ tip \in Nat /\ pushes \in Nat

IdleHasNoCommit == \A r \in Runs : pc[r] = "idle" => head.by # r

HasLease(r) ==
    \/ pc[r] = "commit" /\ head = BaseCommit(base[r])
    \/ pc[r] = "reset" /\ head = seen[r]

SomeoneLeads == readSince => head.by \in Runs \/ \E r \in Runs : HasLease(r)

PublishInv == PublishTypeOK /\ IdleHasNoCommit /\ SingleCommitOnOwnBase /\ SomeoneLeads

LEMMA OtherAuthors == "none" \notin Runs /\ "base" \notin Runs /\ "maintainer" \notin Runs
  BY PublishAssumption

LEMMA PublishInvInit == PublishInit => PublishInv
  BY OtherAuthors
  DEF PublishInit, PublishInv, PublishTypeOK, IdleHasNoCommit, SingleCommitOnOwnBase,
      SomeoneLeads, Running, Ended, NoRef

(* Steps that leave the branch alone are taken by runs without the lease,  *)
(* or cancel one.                                                          *)
LEMMA QuietKeeps ==
    ASSUME PublishInv, NEW r \in Runs,
           NothingToPublish(r) \/ Refuse(r) \/ Verify(r) \/ ListPulls(r) \/ OpenPull(r) \/ Cancel(r)
    PROVE  PublishInv'
  <1> USE OtherAuthors DEF PublishInv, PublishTypeOK, Goto, GotoIf, Running, Ended,
                           NothingToPublish, Refuse, Verify, ListPulls, OpenPull, Cancel
  <1>1. PublishTypeOK'
    OBVIOUS
  <1>2. IdleHasNoCommit' /\ SingleCommitOnOwnBase'
    BY DEF IdleHasNoCommit, SingleCommitOnOwnBase
  <1>3. SomeoneLeads'
    BY DEF SomeoneLeads, HasLease
  <1> QED
    BY <1>1, <1>2, <1>3

(* Whoever reads the head has the lease.                                   *)
LEMMA ReadHeadKeeps ==
    ASSUME PublishInv, NEW r \in Runs, ReadHead(r)
    PROVE  PublishInv'
  <1> USE OtherAuthors DEF PublishInv, PublishTypeOK, Goto, GotoIf, Running, Ended,
                           ReadHead, BaseCommit
  <1>1. PublishTypeOK'
    OBVIOUS
  <1>2. IdleHasNoCommit' /\ SingleCommitOnOwnBase'
    BY DEF IdleHasNoCommit, SingleCommitOnOwnBase
  <1>3. SomeoneLeads'
    BY DEF SomeoneLeads, HasLease
  <1> QED
    BY <1>1, <1>2, <1>3

(* A run that moves the branch keeps the lease, one that fails had none.   *)
LEMMA MoveKeeps ==
    ASSUME PublishInv, NEW r \in Runs, CreateRef(r) \/ LeasedReset(r)
    PROVE  PublishInv'
  <1> USE OtherAuthors DEF PublishInv, PublishTypeOK, Goto, GotoIf, Running, Ended,
                           CreateRef, LeasedReset, LeaseHolds, NoRef, BaseCommit
  <1>1. PublishTypeOK'
    OBVIOUS
  <1>2. IdleHasNoCommit' /\ SingleCommitOnOwnBase'
    BY DEF IdleHasNoCommit, SingleCommitOnOwnBase
  <1>3. SomeoneLeads'
    BY DEF SomeoneLeads, HasLease
  <1> QED
    BY <1>1, <1>2, <1>3

(* The commit a run makes is on its own base, since the branch was there.  *)
LEMMA CreateCommitKeeps ==
    ASSUME PublishInv, NEW r \in Runs, CreateCommit(r)
    PROVE  PublishInv'
  <1> USE OtherAuthors DEF PublishInv, PublishTypeOK, Goto, GotoIf, Running, Ended,
                           CreateCommit, MadeCommit, ExpectedHead, BaseCommit
  <1>1. PublishTypeOK'
    OBVIOUS
  <1>2. IdleHasNoCommit' /\ SingleCommitOnOwnBase'
    BY DEF IdleHasNoCommit, SingleCommitOnOwnBase
  <1>3. SomeoneLeads'
    BY DEF SomeoneLeads, HasLease
  <1> QED
    BY <1>1, <1>2, <1>3

LEMMA PublishInvNext == PublishInv /\ [PublishNext]_publishVars => PublishInv'
  <1> SUFFICES ASSUME PublishInv, [PublishNext]_publishVars PROVE PublishInv'
    OBVIOUS
  <1>1. CASE \E r \in Runs : Step(r) \/ Cancel(r)
    BY <1>1, QuietKeeps, ReadHeadKeeps, MoveKeeps, CreateCommitKeeps DEF Step
  <1>2. CASE BaseAdvances
    BY <1>2 DEF BaseAdvances, PublishInv, PublishTypeOK, IdleHasNoCommit,
                SingleCommitOnOwnBase, SomeoneLeads, HasLease
  <1>3. CASE MaintainerPushes
    BY <1>3, OtherAuthors
    DEF MaintainerPushes, PublishInv, PublishTypeOK, IdleHasNoCommit,
        SingleCommitOnOwnBase, SomeoneLeads
  <1>4. CASE UNCHANGED publishVars
    BY <1>4 DEF publishVars, PublishInv, PublishTypeOK, IdleHasNoCommit,
                SingleCommitOnOwnBase, SomeoneLeads, HasLease
  <1> QED
    BY <1>1, <1>2, <1>3, <1>4 DEF PublishNext

LEMMA PublishInvariance == PublishSpec => []PublishInv
  BY PublishInvInit, PublishInvNext, PTL DEF PublishSpec

(* A commit of a run is alone on that run's base, for any number of runs.  *)
THEOREM CommitsStayOnOwnBase == PublishSpec => []SingleCommitOnOwnBase
  <1>1. PublishInv => SingleCommitOnOwnBase
    BY DEF PublishInv
  <1> QED
    BY PublishInvariance, <1>1, PTL

(* Runs that only have each other in their way never all fail, and what a  *)
(* cancelled run or a maintainer left on the branch is published over by   *)
(* the runs that read it.                                                  *)
THEOREM SomeRunWins == PublishSpec => []RaceHasWinner
  <1>1. PublishInv => RaceHasWinner
    BY DEF PublishInv, PublishTypeOK, SomeoneLeads, HasLease, RaceHasWinner, Ended
  <1> QED
    BY PublishInvariance, <1>1, PTL

(* A commit leaves the branch only by a run that read it as the head.      *)
THEOREM LeaseProtectsCommits == PublishSpec => UnreadCommitsStay
  <1> DEFINE Protected ==
         \A r \in Runs :
             (pc[r] # pc'[r] /\ head' # head /\ head.by \notin {"base", "none"})
                 => seen[r] = head
  <1>1. ASSUME PublishInv, [PublishNext]_publishVars PROVE [Protected]_publishVars
    <2>1. CASE \E r \in Runs : Step(r) \/ Cancel(r)
      <3>1. PICK r \in Runs : Step(r) \/ Cancel(r)
        BY <2>1
      <3>2. \A q \in Runs : q # r => pc'[q] = pc[q]
        BY <1>1, <3>1
        DEF PublishInv, PublishTypeOK, Step, NothingToPublish, Refuse, ReadHead, CreateRef,
            LeasedReset, CreateCommit, Verify, ListPulls, OpenPull, Cancel, Goto, GotoIf
      <3>3. head' # head /\ head.by \notin {"base", "none"} => seen[r] = head
        BY <3>1
        DEF Step, NothingToPublish, Refuse, ReadHead, CreateRef, LeasedReset, CreateCommit, Verify,
            ListPulls, OpenPull, Cancel, LeaseHolds, ExpectedHead, NoRef, BaseCommit
      <3> QED
        BY <3>2, <3>3
    <2>2. CASE BaseAdvances \/ MaintainerPushes
      BY <2>2 DEF BaseAdvances, MaintainerPushes
    <2> QED
      BY <1>1, <2>1, <2>2 DEF PublishNext
  <1> QED
    BY PublishInvariance, <1>1, PTL DEF PublishSpec, UnreadCommitsStay

------------------------------------------------------------------------------
(***************************************************************************)
(* The Elias-Fano decoder.  The words hold an encoding from the first step *)
(* on; that the decoder undoes it is arithmetic: a select on strictly      *)
(* increasing positions, and a division that cuts one digit out of a       *)
(* number written in base 2^bits.                                          *)
(***************************************************************************)

LEMMA Pow2Recursion ==
    ASSUME NEW n \in Nat
    PROVE  Pow2[n] = IF n = 0 THEN 1 ELSE 2 * Pow2[n - 1]
  <1> DEFINE Rule(f) == [i \in Nat |-> IF i = 0 THEN 1 ELSE 2 * f[i - 1]]
             Double == [i \in Nat |-> [x \in Nat |-> 2 * x]]
  <1>1. PICK f : Iterates(f, Nat, 1, Double)
    BY IterationExists
  <1>2. \A i \in Nat : f[i] = IF i = 0 THEN 1 ELSE Double[i][f[i - 1]]
    BY <1>1, Zenon DEF Iterates
  <1>3. \A m \in Nat : f[m] \in Nat
    <2> SUFFICES ASSUME NEW m \in Nat PROVE f[m] \in Nat
      OBVIOUS
    <2> DEFINE S == {k \in 0 .. m : f[k] \in Nat}
    <2>1. 0 \in S
      <3>1. f[0] = 1
        BY <1>2
      <3> QED
        BY <3>1
    <2>2. ASSUME NEW k \in 0 .. m - 1, k \in S PROVE k + 1 \in S
      <3>1. k + 1 \in 0 .. m /\ k + 1 \in Nat /\ k + 1 # 0 /\ (k + 1) - 1 = k
        BY <2>2
      <3>2. f[k] \in Nat /\ f[k + 1] = Double[k + 1][f[k]]
        BY <1>2, <2>2, <3>1
      <3>3. f[k + 1] = 2 * f[k]
        BY <3>1, <3>2
      <3> QED
        BY <3>1, <3>2, <3>3
    <2> HIDE DEF S
    <2>3. \A k \in 0 .. m : k \in S
      BY <2>1, <2>2, SetInduction
    <2>4. m \in S
      BY <2>3
    <2> QED
      BY <2>4 DEF S
  <1>4. ASSUME NEW i \in Nat PROVE f[i] = IF i = 0 THEN 1 ELSE 2 * f[i - 1]
    <2>1. CASE i = 0
      BY <1>2, <2>1
    <2>2. CASE i # 0
      <3>1. i - 1 \in Nat
        BY <2>2
      <3>2. f[i - 1] \in Nat /\ f[i] = Double[i][f[i - 1]]
        BY <1>2, <1>3, <2>2, <3>1
      <3> QED
        BY <2>2, <3>2
    <2> QED
      BY <2>1, <2>2
  <1>5. f = Rule(f)
    <2>1. f = [i \in Nat |-> f[i]]
      BY <1>1 DEF Iterates
    <2> QED
      BY <1>4, <2>1
  <1>6. Pow2 = CHOOSE g : g = Rule(g)
    BY DEF Pow2
  <1>7. Pow2 = Rule(Pow2)
    <2> HIDE DEF Rule
    <2> QED
      BY <1>5, <1>6
  <1> QED
    BY <1>7, Zenon

LEMMA Pow2Type == ASSUME NEW n \in Nat PROVE Pow2[n] \in Nat \ {0}
  <1> DEFINE S == {k \in 0 .. n : Pow2[k] \in Nat \ {0}}
  <1>1. 0 \in S
    BY Pow2Recursion
  <1>2. ASSUME NEW k \in 0 .. n - 1, k \in S PROVE k + 1 \in S
    <2>1. k + 1 \in 0 .. n /\ k + 1 \in Nat /\ k + 1 # 0 /\ (k + 1) - 1 = k
      BY <1>2
    <2>2. Pow2[k + 1] = 2 * Pow2[k]
      BY <2>1, Pow2Recursion
    <2> QED
      BY <1>2, <2>1, <2>2
  <1> HIDE DEF S
  <1>3. \A k \in 0 .. n : k \in S
    BY <1>1, <1>2, SetInduction
  <1>4. n \in S
    BY <1>3
  <1> QED
    BY <1>4 DEF S

(* Shifts add up.                                                          *)
LEMMA Pow2Sum ==
    ASSUME NEW m \in Nat, NEW n \in Nat
    PROVE  Pow2[m + n] = Pow2[m] * Pow2[n]
  <1> DEFINE S == {k \in 0 .. n : Pow2[m + k] = Pow2[m] * Pow2[k]}
  <1>1. 0 \in S
    BY Pow2Recursion, Pow2Type
  <1>2. ASSUME NEW k \in 0 .. n - 1, k \in S PROVE k + 1 \in S
    <2>1. /\ k + 1 \in 0 .. n /\ k + 1 \in Nat /\ k + 1 # 0 /\ (k + 1) - 1 = k
          /\ m + (k + 1) \in Nat /\ m + (k + 1) # 0 /\ (m + (k + 1)) - 1 = m + k
          /\ m + k \in Nat /\ k \in Nat
      BY <1>2
    <2>2. Pow2[k + 1] = 2 * Pow2[k] /\ Pow2[m + (k + 1)] = 2 * Pow2[m + k]
      BY <2>1, Pow2Recursion
    <2>3. Pow2[m] \in Nat /\ Pow2[k] \in Nat /\ Pow2[m + k] = Pow2[m] * Pow2[k]
      BY <1>2, <2>1, Pow2Type
    <2>4. 2 * (Pow2[m] * Pow2[k]) = Pow2[m] * (2 * Pow2[k])
      BY <2>3
    <2> QED
      BY <2>1, <2>2, <2>3, <2>4
  <1> HIDE DEF S
  <1>3. \A k \in 0 .. n : k \in S
    BY <1>1, <1>2, SetInduction
  <1>4. n \in S
    BY <1>3
  <1> QED
    BY <1>4 DEF S

(* The quotient and the remainder of a number that is written with them.   *)
LEMMA QuotientRemainder ==
    ASSUME NEW q \in Nat, NEW b \in Nat \ {0}, NEW r \in 0 .. b - 1
    PROVE  (q * b + r) \div b = q /\ (q * b + r) % b = r
  OBVIOUS

LEMMA DivideAgain ==
    ASSUME NEW x \in Nat, NEW b \in Nat \ {0}
    PROVE  /\ x \div b \in Nat /\ x % b \in 0 .. b - 1
           /\ (x \div b) * b + (x % b) = x
  OBVIOUS

LEMMA QuotientMonotone ==
    ASSUME NEW x \in Nat, NEW y \in Nat, x <= y, NEW b \in Nat \ {0}
    PROVE  x \div b <= y \div b
  OBVIOUS

(* The digits of the packed word, and that it is the total of them.        *)
Digits(s, bits) == [i \in DOMAIN s |-> (s[i] % Pow2[bits]) * Pow2[(i - 1) * bits]]

LEMMA PackedIsTotal ==
    ASSUME NEW s \in Seq(Nat), NEW bits \in Nat
    PROVE  \E f : IsTotal(f, Len(s), 0, Digits(s, bits)) /\ PackedLow(s, bits) = f[Len(s)]
  <1> DEFINE n == Len(s)
             L == Digits(s, bits)
             Rule(f) == [i \in 0 .. n |-> IF i = 0 THEN 0 ELSE f[i - 1] + L[i]]
             word == CHOOSE f : f = Rule(f)
  <1>1. n \in Nat
    OBVIOUS
  <1>2. \E f : f = Rule(f)
    <2>1. PICK f : IsTotal(f, n, 0, L)
      BY <1>1, TotalExists
    <2>2. f = Rule(f)
      BY <2>1, Zenon DEF IsTotal
    <2> QED
      BY <2>2
  <1>3. PackedLow(s, bits) = word[n]
    BY DEF PackedLow, Digits
  <1>4. word = Rule(word)
    <2> HIDE DEF Rule
    <2> QED
      BY <1>2
  <1>5. IsTotal(word, n, 0, L)
    <2> HIDE DEF word, L, n
    <2> QED
      BY <1>4, Zenon DEF IsTotal
  <1> HIDE DEF word
  <1> QED
    BY <1>3, <1>5

LEMMA DigitFacts ==
    ASSUME NEW s \in Seq(Nat), NEW bits \in Nat, NEW t \in 0 .. Len(s) - 1
    PROVE  /\ s[t + 1] % Pow2[bits] \in 0 .. Pow2[bits] - 1
           /\ Pow2[t * bits] \in Nat \ {0}
           /\ Digits(s, bits)[t + 1] = (s[t + 1] % Pow2[bits]) * Pow2[t * bits]
           /\ Digits(s, bits)[t + 1] \in Nat
           /\ Pow2[(t + 1) * bits] = Pow2[t * bits] * Pow2[bits]
  <1>1. s[t + 1] \in Nat /\ t + 1 \in DOMAIN s /\ t \in Nat /\ (t + 1) - 1 = t
    OBVIOUS
  <1>2. t * bits \in Nat /\ (t + 1) * bits = t * bits + bits
    BY <1>1
  <1>3. Pow2[bits] \in Nat \ {0} /\ Pow2[t * bits] \in Nat \ {0}
    BY <1>2, Pow2Type
  <1>4. s[t + 1] % Pow2[bits] \in 0 .. Pow2[bits] - 1
    BY <1>1, <1>3, DivideAgain
  <1>5. Digits(s, bits)[t + 1] = (s[t + 1] % Pow2[bits]) * Pow2[t * bits]
    BY <1>1 DEF Digits
  <1>6. Digits(s, bits)[t + 1] \in Nat
    <2>1. s[t + 1] % Pow2[bits] \in Nat
      BY <1>3, <1>4
    <2> QED
      BY <1>3, <1>5, <2>1
  <1>7. Pow2[(t + 1) * bits] = Pow2[t * bits] * Pow2[bits]
    BY <1>2, Pow2Sum
  <1> QED
    BY <1>3, <1>4, <1>5, <1>6, <1>7

LEMMA DigitTotals ==
    ASSUME NEW s \in Seq(Nat), NEW bits \in Nat,
           NEW f, IsTotal(f, Len(s), 0, Digits(s, bits))
    PROVE  /\ f[0] = 0
           /\ \A i \in 0 .. Len(s) : f[i] \in Nat
           /\ \A t \in 0 .. Len(s) - 1 : f[t + 1] = f[t] + Digits(s, bits)[t + 1]
  <1> DEFINE n == Len(s)
             L == Digits(s, bits)
  <1>1. n \in Nat /\ IsTotal(f, n, 0, L)
    OBVIOUS
  <1>2. ASSUME NEW i \in 1 .. n PROVE L[i] \in Nat
    <2>1. i - 1 \in 0 .. n - 1 /\ (i - 1) + 1 = i
      BY <1>1, <1>2
    <2>2. L[(i - 1) + 1] \in Nat
      BY <2>1, DigitFacts
    <2> QED
      BY <2>1, <2>2
  <1> HIDE DEF n, L
  <1>3. /\ f[0] = 0
        /\ \A i \in 0 .. n : f[i] \in Nat
        /\ \A i \in 1 .. n : f[i] = f[i - 1] + L[i]
    BY <1>1, <1>2, TotalSteps
  <1>4. ASSUME NEW t \in 0 .. n - 1 PROVE f[t + 1] = f[t] + L[t + 1]
    <2>1. t + 1 \in 1 .. n /\ (t + 1) - 1 = t
      BY <1>1, <1>4
    <2> QED
      BY <1>3, <2>1
  <1> QED
    BY <1>3, <1>4 DEF n, L

(* What is packed below a digit does not reach it.                         *)
LEMMA LowerDigitsBelow ==
    ASSUME NEW s \in Seq(Nat), NEW bits \in Nat,
           NEW f, IsTotal(f, Len(s), 0, Digits(s, bits)), NEW k \in 0 .. Len(s)
    PROVE  f[k] \in Nat /\ f[k] < Pow2[k * bits]
  <1> DEFINE n == Len(s)
             S == {j \in 0 .. n : f[j] < Pow2[j * bits]}
  <1>1. /\ n \in Nat
        /\ f[0] = 0
        /\ \A i \in 0 .. n : f[i] \in Nat
        /\ \A i \in 0 .. n - 1 : f[i + 1] = f[i] + Digits(s, bits)[i + 1]
    BY DigitTotals
  <1>2. 0 \in S
    <2>1. 0 * bits = 0 /\ Pow2[0] = 1
      BY Pow2Recursion
    <2> QED
      BY <1>1, <2>1
  <1>3. ASSUME NEW j \in 0 .. n - 1, j \in S PROVE j + 1 \in S
    <2>1. j \in 0 .. n /\ j + 1 \in 0 .. n
      BY <1>3
    <2> DEFINE d == s[j + 1] % Pow2[bits]
               P == Pow2[j * bits]
               B == Pow2[bits]
    <2>2. /\ d \in 0 .. B - 1 /\ P \in Nat \ {0}
          /\ Digits(s, bits)[j + 1] = d * P
          /\ Pow2[(j + 1) * bits] = P * B
      BY DigitFacts
    <2>3. B \in Nat \ {0} /\ f[j] \in Nat /\ f[j] < P
      BY <1>1, <1>3, <2>1, Pow2Type
    <2>4. f[j + 1] = f[j] + d * P
      BY <1>1, <2>1, <2>2
    <2> HIDE DEF d, P, B
    <2>5. d \in Nat /\ d + 1 <= B
      BY <2>2, <2>3
    <2>6. f[j] + d * P < (d + 1) * P
      BY <2>2, <2>3, <2>5
    <2>7. (d + 1) * P <= B * P
      BY <2>2, <2>3, <2>5
    <2>8. B * P = P * B /\ B * P \in Nat /\ (d + 1) * P \in Nat /\ d * P \in Nat
      BY <2>2, <2>3, <2>5
    <2>9. f[j + 1] < P * B
      BY <2>3, <2>4, <2>6, <2>7, <2>8
    <2> QED
      BY <2>1, <2>2, <2>9
  <1> HIDE DEF S
  <1>4. \A j \in 0 .. n : j \in S
    <2> HIDE DEF n
    <2> QED
      BY <1>1, <1>2, <1>3, SetInduction
  <1>5. k \in S
    BY <1>4
  <1> QED
    BY <1>1, <1>5 DEF S

(* What is packed above a digit is a multiple of the next power.           *)
LEMMA HigherDigitsAbove ==
    ASSUME NEW s \in Seq(Nat), NEW bits \in Nat,
           NEW f, IsTotal(f, Len(s), 0, Digits(s, bits)), NEW t \in 0 .. Len(s) - 1
    PROVE  \E above \in Nat :
               f[Len(s)] = (above * Pow2[bits] + (s[t + 1] % Pow2[bits])) * Pow2[t * bits] + f[t]
  <1>0. ASSUME NEW j \in 0 .. Len(s) - 1
        PROVE  /\ s[j + 1] % Pow2[bits] \in 0 .. Pow2[bits] - 1
               /\ Pow2[j * bits] \in Nat \ {0}
               /\ Digits(s, bits)[j + 1] = (s[j + 1] % Pow2[bits]) * Pow2[j * bits]
    <2>1. s[j + 1] % Pow2[bits] \in 0 .. Pow2[bits] - 1
      BY DigitFacts
    <2>2. Pow2[j * bits] \in Nat \ {0}
      BY DigitFacts
    <2>3. Digits(s, bits)[j + 1] = (s[j + 1] % Pow2[bits]) * Pow2[j * bits]
      BY DigitFacts
    <2> QED
      BY <2>1, <2>2, <2>3
  <1> DEFINE n == Len(s)
             B == Pow2[bits]
             d == s[t + 1] % Pow2[bits]
             P == Pow2[t * bits]
             Split(k, a) == f[k] = (a * B + d) * P + f[t]
             S == {j \in 0 .. n : j > t => \E a \in Nat : Split(j, a)}
  <1>1. /\ n \in Nat
        /\ \A i \in 0 .. n : f[i] \in Nat
        /\ \A i \in 0 .. n - 1 : f[i + 1] = f[i] + Digits(s, bits)[i + 1]
    BY DigitTotals
  <1>2. t \in Nat /\ t \in 0 .. n
    OBVIOUS
  <1>3. /\ d \in Nat /\ P \in Nat /\ B \in Nat /\ f[t] \in Nat
        /\ f[t + 1] = f[t] + d * P
    <2>1. d \in 0 .. B - 1 /\ P \in Nat \ {0} /\ Digits(s, bits)[t + 1] = d * P
      BY DigitFacts
    <2>2. B \in Nat \ {0}
      BY Pow2Type
    <2> HIDE DEF d, P, B
    <2> QED
      BY <1>1, <1>2, <2>1, <2>2
  <1>4. 0 \in S
    BY <1>2
  <1>5. ASSUME NEW j \in 0 .. n - 1, j \in S PROVE j + 1 \in S
    <2>1. j \in 0 .. n /\ j + 1 \in 0 .. n
      BY <1>5
    <2>2. CASE j < t
      BY <1>2, <2>1, <2>2
    <2>3. CASE j = t
      <3> HIDE DEF d, P, B
      <3>1. f[j + 1] = (0 * B + d) * P + f[t]
        BY <1>3, <2>3
      <3> QED
        BY <2>1, <3>1
    <2>4. CASE j > t
      <3>1. PICK a \in Nat : Split(j, a)
        BY <1>5, <2>4
      <3> DEFINE e == s[j + 1] % Pow2[bits]
                 X == Pow2[(j - t - 1) * bits]
      <3>2. /\ e \in 0 .. B - 1 /\ Pow2[j * bits] \in Nat
            /\ Digits(s, bits)[j + 1] = e * Pow2[j * bits]
        BY <1>0
      <3>3. e \in Nat
        BY <1>3, <3>2
      <3>4. Pow2[j * bits] = P * B * X /\ X \in Nat
        <4>1. j - t - 1 \in Nat
          BY <1>2, <2>1, <2>4
        <4>2. /\ t * bits \in Nat /\ (j - t - 1) * bits \in Nat /\ t * bits + bits \in Nat
              /\ j * bits = (t * bits + bits) + (j - t - 1) * bits
          BY <1>2, <4>1
        <4>3. Pow2[t * bits + bits] = P * B
          BY <4>2, Pow2Sum
        <4>4. Pow2[j * bits] = Pow2[t * bits + bits] * X
          BY <4>2, Pow2Sum
        <4> QED
          BY <4>2, <4>3, <4>4, Pow2Type
      <3>5. f[j + 1] = f[j] + e * (P * B * X)
        BY <1>1, <2>1, <3>2, <3>4
      <3> HIDE DEF d, P, B, e, X
      <3>6. ((a + e * X) * B + d) * P + f[t] = (a * B + d) * P + f[t] + e * (P * B * X)
        BY <1>3, <3>3, <3>4
      <3>7. a + e * X \in Nat
        BY <3>3, <3>4
      <3>8. Split(j + 1, a + e * X)
        BY <3>1, <3>5, <3>6
      <3> QED
        BY <2>1, <3>7, <3>8
    <2> QED
      BY <1>2, <2>1, <2>2, <2>3, <2>4
  <1> HIDE DEF S
  <1>6. \A j \in 0 .. n : j \in S
    <2> HIDE DEF n
    <2> QED
      BY <1>1, <1>4, <1>5, SetInduction
  <1>7. n \in S /\ n > t
    BY <1>6
  <1> QED
    BY <1>7 DEF S

(* The low part is the digit that was packed.                              *)
LEMMA LowIsUnpacked ==
    ASSUME NEW s \in Seq(Nat), NEW bits \in Nat, NEW t \in 0 .. Len(s) - 1
    PROVE  LowValue(PackedLow(s, bits), t, bits) = s[t + 1] % Pow2[bits]
  <1>1. PICK f : IsTotal(f, Len(s), 0, Digits(s, bits)) /\ PackedLow(s, bits) = f[Len(s)]
    BY PackedIsTotal
  <1> DEFINE B == Pow2[bits]
             d == s[t + 1] % Pow2[bits]
             P == Pow2[t * bits]
  <1>2. PICK above \in Nat : f[Len(s)] = (above * B + d) * P + f[t]
    BY <1>1, HigherDigitsAbove
  <1>3. t \in 0 .. Len(s)
    OBVIOUS
  <1>4. f[t] \in Nat /\ f[t] < P
    BY <1>1, <1>3, LowerDigitsBelow
  <1>5. d \in 0 .. B - 1 /\ P \in Nat \ {0}
    BY DigitFacts
  <1>6. B \in Nat \ {0}
    BY Pow2Type
  <1> HIDE DEF B, d, P
  <1>7. above * B + d \in Nat /\ f[t] \in 0 .. P - 1
    BY <1>4, <1>5, <1>6
  <1>8. f[Len(s)] \div P = above * B + d
    BY <1>2, <1>5, <1>7, QuotientRemainder
  <1>9. (above * B + d) % B = d
    BY <1>5, <1>6, QuotientRemainder
  <1> QED
    BY <1>1, <1>8, <1>9 DEF LowValue, B, d, P

LEMMA OrderedPairs ==
    ASSUME NEW s \in Seq(Nat), NonDecreasing(s), NEW i \in 1 .. Len(s), NEW j \in i .. Len(s)
    PROVE  s[i] <= s[j]
  <1> DEFINE n == Len(s)
             S == {k \in 0 .. n : i <= k => s[i] <= s[k]}
  <1>1. n \in Nat /\ \A k \in 1 .. n : s[k] \in Nat
    OBVIOUS
  <1>2. \A k \in 1 .. n - 1 : s[k] <= s[k + 1]
    BY DEF NonDecreasing
  <1>3. 0 \in S
    BY <1>1
  <1>4. ASSUME NEW k \in 0 .. n - 1, k \in S PROVE k + 1 \in S
    <2>1. k \in 0 .. n /\ k + 1 \in 0 .. n /\ k + 1 \in 1 .. n
      BY <1>4
    <2>2. CASE i <= k
      <3>1. k \in 1 .. n - 1 /\ k \in 1 .. n
        BY <1>4, <2>2
      <3>2. s[i] <= s[k] /\ s[k] <= s[k + 1]
        BY <1>2, <1>4, <2>2, <3>1
      <3>3. s[i] <= s[k + 1]
        BY <1>1, <2>1, <3>1, <3>2
      <3> QED
        BY <2>1, <3>3
    <2>3. CASE i = k + 1
      BY <1>1, <2>1, <2>3
    <2>4. CASE i > k + 1
      BY <2>1, <2>4
    <2> QED
      BY <2>1, <2>2, <2>3, <2>4
  <1> HIDE DEF S
  <1>5. \A k \in 0 .. n : k \in S
    <2> HIDE DEF n
    <2> QED
      BY <1>1, <1>3, <1>4, SetInduction
  <1>6. j \in S /\ i <= j
    BY <1>5
  <1> QED
    BY <1>6 DEF S

(* The positions of the high parts increase, also where entries repeat.    *)
LEMMA PositionsIncrease ==
    ASSUME NEW s \in Seq(Nat), NonDecreasing(s), NEW bits \in Nat
    PROVE  /\ \A i \in 1 .. Len(s) : HighPosition(s, i, bits) \in Nat
           /\ \A i, j \in 1 .. Len(s) :
                 i < j <=> HighPosition(s, i, bits) < HighPosition(s, j, bits)
  <1> DEFINE h(i) == HighPosition(s, i, bits)
             high(i) == s[i] \div Pow2[bits]
  <1>1. ASSUME NEW i \in 1 .. Len(s)
        PROVE  high(i) \in Nat /\ h(i) = high(i) + (i - 1) /\ h(i) \in Nat
    <2>1. s[i] \in Nat /\ Pow2[bits] \in Nat \ {0}
      BY Pow2Type
    <2>2. high(i) \in Nat
      BY <2>1, DivideAgain
    <2> QED
      BY <2>2 DEF HighPosition
  <1>2. ASSUME NEW i \in 1 .. Len(s), NEW j \in 1 .. Len(s), i <= j PROVE high(i) <= high(j)
    <2>1. s[i] \in Nat /\ s[j] \in Nat /\ Pow2[bits] \in Nat \ {0}
      BY Pow2Type
    <2>2. s[i] <= s[j]
      <3>1. j \in i .. Len(s)
        BY <1>2
      <3> QED
        BY <3>1, OrderedPairs
    <2> QED
      BY <2>1, <2>2, QuotientMonotone
  <1> HIDE DEF h, high
  <1>3. ASSUME NEW i \in 1 .. Len(s), NEW j \in 1 .. Len(s), i < j PROVE h(i) < h(j)
    <2>1. high(i) <= high(j) /\ high(i) \in Nat /\ high(j) \in Nat
      BY <1>1, <1>2, <1>3
    <2>2. h(i) = high(i) + (i - 1) /\ h(j) = high(j) + (j - 1)
      BY <1>1
    <2> QED
      BY <1>3, <2>1, <2>2
  <1>4. ASSUME NEW i \in 1 .. Len(s), NEW j \in 1 .. Len(s), ~(i < j) PROVE ~(h(i) < h(j))
    <2>1. CASE i = j
      BY <1>1, <2>1
    <2>2. CASE j < i
      BY <1>1, <1>3, <2>2
    <2> QED
      BY <1>4, <2>1, <2>2
  <1> QED
    BY <1>1, <1>3, <1>4 DEF h

(* So the k-th of them has k - 1 below it, and the loop's select finds it. *)
LEMMA SelectFindsEntry ==
    ASSUME NEW s \in Seq(Nat), NonDecreasing(s), NEW bits \in Nat, NEW t \in Nat
    PROVE  LET word == {HighPosition(s, i, bits) : i \in DOMAIN s}
           IN  Selected(word, t) = IF t < Len(s) THEN {HighPosition(s, t + 1, bits)} ELSE {}
  <1> DEFINE h(i) == HighPosition(s, i, bits)
             n == Len(s)
             word == {h(i) : i \in 1 .. n}
  <1>1. n \in Nat /\ DOMAIN s = 1 .. n
    OBVIOUS
  <1>2. /\ \A i \in 1 .. n : h(i) \in Nat
        /\ \A i, j \in 1 .. n : i < j <=> h(i) < h(j)
    BY PositionsIncrease
  <1> HIDE DEF h, n
  <1>3. ASSUME NEW i \in 1 .. n PROVE Below(word, h(i)) = i - 1
    <2> DEFINE T == {x \in word : x < h(i)}
               F == [j \in 1 .. i - 1 |-> h(j)]
    <2>1. 1 .. i - 1 \subseteq 1 .. n
      BY <1>1, <1>3
    <2>2. F \in [1 .. i - 1 -> T]
      <3>1. ASSUME NEW j \in 1 .. i - 1 PROVE h(j) \in T
        <4>1. j \in 1 .. n /\ j < i
          BY <1>3, <2>1, <3>1
        <4> QED
          BY <1>2, <4>1
      <3> HIDE DEF T
      <3> QED
        BY <3>1
    <2>3. ASSUME NEW x \in T PROVE \E j \in 1 .. i - 1 : F[j] = x
      <3>1. PICK j \in 1 .. n : x = h(j)
        BY <2>3
      <3>2. j < i
        BY <1>2, <2>3, <3>1
      <3>3. j \in 1 .. i - 1
        BY <1>1, <1>3, <3>2
      <3> QED
        BY <3>1, <3>3
    <2>4. ASSUME NEW j \in 1 .. i - 1, NEW k \in 1 .. i - 1, F[j] = F[k] PROVE j = k
      <3>1. j \in 1 .. n /\ k \in 1 .. n /\ h(j) = h(k)
        BY <2>1, <2>4
      <3>2. ~(j < k) /\ ~(k < j)
        BY <1>2, <3>1
      <3> QED
        BY <1>3, <3>2
    <2> HIDE DEF T, F
    <2>5. ExistsBijection(1 .. i - 1, T)
      BY <2>2, <2>3, <2>4
      DEF Bijection, ExistsBijection, Injection, Surjection, IsInjective
    <2>6. IsFiniteSet(1 .. i - 1) /\ Cardinality(1 .. i - 1) = i - 1
      BY <1>3, FS_Interval
    <2>7. Cardinality(T) = i - 1
      BY <2>5, <2>6, FS_Bijection
    <2> QED
      BY <2>7 DEF Below, T
  <1>4. ASSUME NEW x \in Selected(word, t) PROVE t < n /\ x = h(t + 1)
    <2>1. PICK i \in 1 .. n : x = h(i)
      BY <1>4 DEF Selected
    <2>2. i - 1 = t
      BY <1>3, <1>4, <2>1 DEF Selected
    <2>3. i = t + 1 /\ t < n
      BY <1>1, <2>2
    <2> QED
      BY <2>1, <2>3
  <1>5. ASSUME t < n PROVE h(t + 1) \in Selected(word, t)
    <2>1. t + 1 \in 1 .. n /\ (t + 1) - 1 = t
      BY <1>1, <1>5
    <2> QED
      BY <1>3, <2>1 DEF Selected
  <1> HIDE DEF word
  <1>6. Selected(word, t) = IF t < n THEN {h(t + 1)} ELSE {}
    BY <1>4, <1>5
  <1> QED
    BY <1>1, <1>6 DEF word, h, n

(* Whatever was encoded, the decoder gives back the entry asked for.       *)
LEMMA DecodeInvertsEncode ==
    ASSUME NEW s \in Seq(0 .. MaxValue), NonDecreasing(s), NEW bits \in Nat, NEW t \in Nat
    PROVE  LET high   == {HighPosition(s, i, bits) : i \in DOMAIN s}
               answer == Decode(high, PackedLow(s, bits), t, bits)
           IN  /\ answer.valid = (t < Len(s) /\ bits <= MaxLowBits)
               /\ answer.error = ~answer.valid
               /\ answer.valid => answer.row = s[t + 1]
  <1> DEFINE word == {HighPosition(s, i, bits) : i \in DOMAIN s}
             low  == PackedLow(s, bits)
             answer == Decode(word, low, t, bits)
  <1>1. MaxValue \in Nat /\ Pow2[Width] \in Nat \ {0} /\ MaxValue < Pow2[Width]
    BY Pow2Type, DecoderAssumption
  <1>2. s \in Seq(Nat) /\ \A i \in 1 .. Len(s) : s[i] \in Nat /\ s[i] < Pow2[Width]
    BY <1>1
  <1>3. Selected(word, t) = IF t < Len(s) THEN {HighPosition(s, t + 1, bits)} ELSE {}
    BY <1>2, SelectFindsEntry
  <1>4. MaxLowBits \in Nat
    BY DecoderAssumption
  <1> HIDE DEF word
  <1>5. CASE ~(t < Len(s)) \/ bits > MaxLowBits
    <2>1. answer = [valid |-> FALSE, error |-> TRUE, row |-> 0]
      BY <1>3, <1>5 DEF Decode
    <2>2. ~(t < Len(s) /\ bits <= MaxLowBits)
      BY <1>4, <1>5
    <2>3. answer.valid = FALSE /\ answer.error = TRUE
      BY <2>1
    <2> HIDE DEF answer
    <2>4. /\ answer.valid = (t < Len(s) /\ bits <= MaxLowBits)
          /\ answer.error = ~answer.valid
          /\ ~answer.valid
      BY <2>2, <2>3, Zenon
    <2> QED
      BY <2>4 DEF word, answer
  <1>6. CASE t < Len(s) /\ ~(bits > MaxLowBits)
    <2> DEFINE B == Pow2[bits]
               x == s[t + 1]
    <2>1. t + 1 \in 1 .. Len(s) /\ t \in 0 .. Len(s) - 1
      BY <1>2, <1>6
    <2>2. x \in Nat /\ x < Pow2[Width] /\ B \in Nat \ {0}
      BY <1>2, <2>1, Pow2Type
    <2>3. LowValue(low, t, bits) = x % B
      BY <1>2, <2>1, LowIsUnpacked
    <2>4. (CHOOSE idx \in Selected(word, t) : TRUE) = HighPosition(s, t + 1, bits)
      BY <1>3, <1>6
    <2>5. HighPosition(s, t + 1, bits) - t = x \div B
      <3>1. x \div B \in Nat
        BY <2>2, DivideAgain
      <3> QED
        BY <3>1 DEF HighPosition
    <2>6. (x \div B) * B + (x % B) = x
      BY <2>2, DivideAgain
    <2>7. x % Pow2[Width] = x
      <3> DEFINE W == Pow2[Width]
      <3>1. W \in Nat \ {0} /\ x < W
        BY <1>1, <2>2
      <3> HIDE DEF W, x
      <3> QED
        BY <2>2, <3>1 DEF W
    <2>8. Selected(word, t) # {}
      BY <1>3, <1>6
    <2> DEFINE row == (((CHOOSE idx \in Selected(word, t) : TRUE) - t) * B + LowValue(low, t, bits))
                          % Pow2[Width]
    <2>9. row = x
      BY <2>3, <2>4, <2>5, <2>6, <2>7
    <2>10. answer = [valid |-> TRUE, error |-> FALSE, row |-> row]
      BY <1>6, <2>8 DEF Decode
    <2> HIDE DEF row, x
    <2>11. bits <= MaxLowBits
      BY <1>4, <1>6
    <2>12. answer.valid = TRUE /\ answer.error = FALSE /\ answer.row = x
      BY <2>9, <2>10
    <2> HIDE DEF answer
    <2>13. /\ answer.valid = (t < Len(s) /\ bits <= MaxLowBits)
           /\ answer.error = ~answer.valid
      BY <1>6, <2>11, <2>12, Zenon
    <2> QED
      BY <2>12, <2>13 DEF word, answer, x
  <1> QED
    BY <1>5, <1>6

(* The words hold an encoding of the entries.                              *)
Encoded ==
    /\ entries \in Seq(0 .. MaxValue) /\ NonDecreasing(entries)
    /\ num_low_bits \in Nat /\ target_offset \in Nat
    /\ high_bits_word = {HighPosition(entries, i, num_low_bits) : i \in DOMAIN entries}
    /\ low_bits_word = PackedLow(entries, num_low_bits)

LEMMA EncodedInit == DecoderInit => Encoded
  <1> SUFFICES ASSUME DecoderInit PROVE Encoded
    OBVIOUS
  <1>1. entries = << >> /\ Len(entries) = 0 /\ DOMAIN entries = {}
    BY DEF DecoderInit
  <1>2. << >> \in Seq(Nat)
    OBVIOUS
  <1>3. PICK f : IsTotal(f, 0, 0, Digits(<< >>, 0)) /\ PackedLow(<< >>, 0) = f[0]
    BY <1>2, PackedIsTotal
  <1>4. f[0] = 0
    BY <1>2, <1>3, DigitTotals
  <1> QED
    BY <1>1, <1>3, <1>4 DEF DecoderInit, Encoded, NonDecreasing

LEMMA EncodedNext == Encoded /\ [DecoderNext]_decoderVars => Encoded'
  <1> SUFFICES ASSUME Encoded, [DecoderNext]_decoderVars PROVE Encoded'
    OBVIOUS
  <1>1. ASSUME NEW s \in SeqOf(0 .. MaxValue, MaxLen), NEW bits \in LowBits, Encode(s, bits)
        PROVE  Encoded'
    <2>1. s \in Seq(0 .. MaxValue) /\ bits \in Nat
      BY DecoderAssumption DEF SeqOf
    <2> QED
      BY <1>1, <2>1 DEF Encode, Encoded
  <1>2. ASSUME NEW target \in Offsets, Select(target) PROVE Encoded'
    BY <1>2, DecoderAssumption DEF Select, Encoded
  <1>3. CASE UNCHANGED decoderVars
    BY <1>3 DEF decoderVars, Encoded
  <1> QED
    BY <1>1, <1>2, <1>3 DEF DecoderNext

(* For any word width, split and sequence: the decoder gives back the      *)
(* entry that is asked for, an error for one beyond the last or for a      *)
(* split it does not support.                                              *)
THEOREM DecoderInvertsEncoding == DecoderSpec => []DecodesTheEncoding
  <1>1. Encoded => DecodesTheEncoding
    <2> SUFFICES ASSUME Encoded PROVE DecodesTheEncoding
      OBVIOUS
    <2> QED
      BY DecodeInvertsEncode DEF Encoded, DecodesTheEncoding
  <1> QED
    BY <1>1, EncodedInit, EncodedNext, PTL DEF DecoderSpec

------------------------------------------------------------------------------
(***************************************************************************)
(* Memory descriptors.  forms & (forms - 1) is zero for the six powers of  *)
(* two among the 64 words within the mask; the last test of                *)
(* atarix_memory_exactly_one_move_form rules out the words beyond it.      *)
(***************************************************************************)

LEMMA OneFormWithinMask ==
    \A forms \in 0 .. 63 : forms # 0 /\ Disjoint(forms, forms - 1) <=> forms \in MoveForms
  BY SMTT(60) DEF Disjoint, MoveForms

LEMMA OneForm ==
    ASSUME NEW flags \in Nat
    PROVE  ExactlyOneMoveForm(flags) <=> flags \in MoveForms
  <1>1. Forms(flags) \in 0 .. 63 /\ (flags \in 0 .. 63 <=> flags - Forms(flags) = 0)
    BY DEF Forms, FormMask
  <1>2. flags - Forms(flags) = 0 <=> flags = Forms(flags)
    BY <1>1
  <1> QED
    BY <1>1, <1>2, OneFormWithinMask DEF ExactlyOneMoveForm, MoveForms

(* The status is that of the descriptor being validated.                   *)
SubmissionInv ==
    submitted = << >> \/ \E d \in Descriptor : submitted = <<d>> /\ status = Validate(d)

LEMMA SubmissionInvNext == SubmissionInv /\ [SubmissionNext]_submissionVars => SubmissionInv'
  BY DEF SubmissionInv, SubmissionNext, Submit, Return, submissionVars

LEMMA ValidDescriptor ==
    ASSUME NEW d \in Descriptor
    PROVE  Validate(d) = "OK" <=>
               /\ d.magic
               /\ d.version = 1
               /\ d.length \in 1 .. MaxLength
               /\ 0 \notin {d.capability_id, d.source_object, d.destination_object}
               /\ d.flags \in MoveForms
  <1>1. d.flags \in Nat /\ d.length \in Nat /\ MaxLength \in Nat
    BY MemoryAssumption DEF Descriptor
  <1>2. ExactlyOneMoveForm(d.flags) <=> d.flags \in MoveForms
    BY <1>1, OneForm
  <1>3. d.length \in 1 .. MaxLength <=> d.length # 0 /\ ~(d.length > MaxLength)
    BY <1>1
  <1> QED
    BY <1>2, <1>3, Zenon DEF Validate

(* Whatever 32-bit word is handed in as flags, and whatever the length     *)
(* bound: validation accepts exactly the descriptors with one move form,   *)
(* no other bit, a length within the bound and nothing missing.            *)
THEOREM OneFormIsAccepted == SubmissionSpec => []AcceptsExactlyOneForm
  <1>1. SubmissionInit => SubmissionInv
    BY DEF SubmissionInit, SubmissionInv
  <1>2. SubmissionInv => AcceptsExactlyOneForm
    BY ValidDescriptor DEF SubmissionInv, AcceptsExactlyOneForm
  <1> QED
    BY <1>1, <1>2, SubmissionInvNext, PTL DEF SubmissionSpec

=============================================================================
