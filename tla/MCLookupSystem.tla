--------------------------- MODULE MCLookupSystem ---------------------------
EXTENDS LookupSystem

\* Two lanes, two fingerprints (bytes 0..3, 2 and 3 occupied), four addresses.
G(b0, b1) == [i \in Lane |-> IF i = 0 THEN b0 ELSE b1]

MCTable ==
    [g \in {1, 2} |->
        [a \in Addr |->
            CASE a = 0 -> G(1, 0)
              [] a = 1 -> IF g = 1 THEN G(0, 1) ELSE G(1, 3)
              [] a = 2 -> G(1, 0)
              [] OTHER -> G(3, 3)]]

MCTableBase == [x \in Registries |-> IF x = 1 THEN 0 ELSE 2]

Rq(seq, reg, hash, limit) ==
    [sequence |-> seq, index_query |-> TRUE, crc_ok |-> TRUE, ring_ok |-> TRUE,
     capability_ok |-> TRUE, policy_ok |-> TRUE, registry_id |-> reg,
     key_hash |-> hash, probe_limit |-> limit]

Denied(r, gate) == [r EXCEPT ![gate] = FALSE]

\* Hits and misses of either fingerprint at either base, under the limits 0,
\* 1 and the largest; each gate refusing alone and the later gates together.
MCRequests ==
    {Rq(1, reg, hash, limit) : reg \in {1, 2}, hash \in {2, 3}, limit \in {0, 1, CountMod - 1}}
    \cup {Denied(Rq(2, 1, 3, 1), gate) :
            gate \in {"index_query", "crc_ok", "ring_ok", "capability_ok", "policy_ok"}}
    \cup {Denied(Denied(Denied(Rq(2, 2, 3, 1), "ring_ok"), "capability_ok"), "policy_ok")}
    \cup {Denied(Denied(Rq(2, 2, 3, 1), "crc_ok"), "policy_ok")}

==============================================================================
