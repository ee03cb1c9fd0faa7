--------------------------- MODULE MCSystemWrapper ---------------------------
EXTENDS SystemWrapper

\* One request, which hits in lane 1 of the group at its base.
MCTable == [g \in {1} |-> [a \in Addr |-> [i \in Lane |-> IF i = 1 THEN 3 ELSE 2]]]

MCTableBase == [x \in Registries |-> 1]

MCRequests ==
    {[sequence |-> 1, index_query |-> TRUE, crc_ok |-> TRUE, ring_ok |-> TRUE,
      capability_ok |-> TRUE, policy_ok |-> TRUE, registry_id |-> 1,
      key_hash |-> 3, probe_limit |-> 1]}

==============================================================================
