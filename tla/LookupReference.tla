--------------------------- MODULE LookupReference ---------------------------
(***************************************************************************)
(* The accelerator against a reference, the expected answers that          *)
(* rtl/atarix/atx_spec_020_random_tb.v computes for a request, extended    *)
(* from the one group the bench drives to a whole table.  The reference    *)
(* needs a table that does not change, so its runs have one generation.    *)
(***************************************************************************)
EXTENDS LookupSystem

(* The table does not change: it has one generation.                       *)
OneGeneration == \A g, h \in DOMAIN Table : g = h

(* Where the k-th probe of a lookup that starts at base looks.             *)
ProbePath(base) ==
    LET path[k \in Nat] ==
            IF k = 0 THEN base
            ELSE (path[k - 1] + (k * (k + 1)) \div 2) % AddrMod
    IN  path

(* The lowest lane that holds the key of r, among the groups the lookup    *)
(* may visit: limit + 1 of them, the first group that has one deciding.    *)
HitAt(r, g, k) ==
    \E i \in Lane : Table[g][ProbePath(TableBase[r.registry_id])[k]][i]
                        = H2Mod + H2(r.key_hash)

FirstHit(r, g, k) == HitAt(r, g, k) /\ \A j \in 0 .. k - 1 : ~HitAt(r, g, j)

LowestLane(r, addr, g) ==
    CHOOSE i \in Lane :
        /\ Table[g][addr][i] = H2Mod + H2(r.key_hash)
        /\ \A j \in 0 .. i - 1 : Table[g][addr][j] # H2Mod + H2(r.key_hash)

ExpectedStatus(r, g) ==
    IF ~r.index_query THEN "INVALID_HEADER"
    ELSE IF ~r.crc_ok THEN "CRC_MISMATCH"
    ELSE IF ~r.ring_ok THEN "RING_DENIED"
    ELSE IF ~r.capability_ok THEN "CAP_DENIED"
    ELSE IF ~r.policy_ok THEN "POLICY_DENIED"
    ELSE IF \E k \in 0 .. r.probe_limit : HitAt(r, g, k) THEN "OK"
    ELSE "SEQUENCE_ERROR"

NothingResolved(a) ==
    a.resolved_id = NoId /\ a.resolved_generation = 0 /\ a.match_offset = 0

ExpectedAnswer(r, a) ==
    \E g \in DOMAIN Table :
        \/ /\ a.status = ExpectedStatus(r, g)
           /\ IF a.status = "OK"
              THEN \E k \in 0 .. r.probe_limit :
                      /\ FirstHit(r, g, k)
                      /\ LET addr == ProbePath(TableBase[r.registry_id])[k]
                         IN  /\ a.match_offset = LowestLane(r, addr, g)
                             /\ a.resolved_id = (addr + a.match_offset) % AddrMod
                      /\ a.resolved_generation = g
              ELSE NothingResolved(a)
        \/ /\ TableMayStall
           /\ ExpectedStatus(r, g) \in {"OK", "SEQUENCE_ERROR"}
           /\ a.status = "TIMEOUT"
           /\ NothingResolved(a)

Reference ==
    INSTANCE LookupService WITH
        Correct <- ExpectedAnswer, phase <- Phase, request <- req, answer <- Answer

(* Refinement: to its requester the accelerator is a lookup service whose  *)
(* answers are the reference's, or a timeout when the table stalled.       *)
MatchesReference == Reference!ServiceSpec

==============================================================================
