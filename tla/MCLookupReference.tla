-------------------------- MODULE MCLookupReference --------------------------
EXTENDS LookupReference

\* Two lanes, two fingerprints.  Fingerprint 1 is found at the first, second
\* or third probe or not at all, depending on the base and the limit;
\* fingerprint 0 only at address 5, in both lanes.
G(b0, b1) == [i \in Lane |-> IF i = 0 THEN b0 ELSE b1]

MCTable ==
    [g \in {1} |->
        [a \in Addr |->
            CASE a = 4 -> G(1, 3)
              [] a = 5 -> G(2, 2)
              [] a = 7 -> G(0, 3)
              [] OTHER -> G(1, 0)]]

MCTableBase == [x \in Registries |-> x]

Rq(reg, hash, limit) ==
    [sequence |-> 1, index_query |-> TRUE, crc_ok |-> TRUE, ring_ok |-> TRUE,
     capability_ok |-> TRUE, policy_ok |-> TRUE, registry_id |-> reg,
     key_hash |-> hash, probe_limit |-> limit]

\* Every base, fingerprint and limit with every gate open, and every
\* combination of the five gates for one lookup that would hit.
MCRequests ==
    {Rq(reg, hash, limit) : reg \in Registries, hash \in {4, 7}, limit \in Count}
    \cup {[Rq(4, 7, 1) EXCEPT !.index_query = q, !.crc_ok = c, !.ring_ok = r,
                              !.capability_ok = k, !.policy_ok = p] :
            q, c, r, k, p \in BOOLEAN}

==============================================================================
