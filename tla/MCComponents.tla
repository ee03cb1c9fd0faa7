---------------------------- MODULE MCComponents ----------------------------
(***************************************************************************)
(* The components that share no state with another: the audit window, the  *)
(* serial comparator, the bus shim, the Elias-Fano decoder, the simulated  *)
(* fabric, memory descriptors and the publication script.  One of them     *)
(* runs in a behaviour while the others stay as they start.                *)
(***************************************************************************)
EXTENDS AuditWindowLog, ScalarProbe, BusShim, EliasFano, SimFabric,
        MemoryDescriptor, SignedPublish

VARIABLE part   \* the one that runs

\* Every group of the serial comparator, every fingerprint.
MCGroups  == Group
MCTargets == Fingerprint

\* Every word of the six move forms and the first bit beyond them, and every
\* form with the highest bit of a word that TLC's integers hold.
MCWords == (0 .. 127) \cup {2^30 + 2^form : form \in 0 .. 5} \cup {2^30}

ComponentsInit ==
    /\ LogInit /\ ScanInit /\ BusInit /\ DecoderInit
    /\ FabricStart /\ SubmissionInit /\ PublishInit
    /\ part \in {"window", "scan", "shim", "decoder", "fabric", "descriptor", "publish"}
    /\ part = "scan" \/ (control_bytes = [i \in Lane |-> 0] /\ target_h2 = 0)
    /\ part = "shim" \/ data = 0
    /\ part = "fabric" \/ node_id = [n \in Nodes |-> 1]

\* All runs of the script have ended.
AllPublished ==
    part = "publish" /\ (\A r \in Runs : pc[r] \in Ended) /\ UNCHANGED publishVars

ComponentsNext ==
    /\ part' = part
    /\ IF part = "window" THEN LogNext ELSE UNCHANGED logVars
    /\ IF part = "scan" THEN ScanNext ELSE UNCHANGED scanVars
    /\ IF part = "shim" THEN BusNext ELSE UNCHANGED shimBusVars
    /\ IF part = "decoder" THEN DecoderNext ELSE UNCHANGED decoderVars
    /\ IF part = "fabric" THEN FabricNext ELSE UNCHANGED fabricVars
    /\ IF part = "descriptor" THEN SubmissionNext ELSE UNCHANGED submissionVars
    /\ IF part = "publish" THEN PublishNext \/ AllPublished ELSE UNCHANGED publishVars

ComponentsSpec ==
    ComponentsInit
    /\ [][ComponentsNext]_<<part, logVars, scanVars, shimBusVars, decoderVars, fabricVars,
                            submissionVars, publishVars>>

==============================================================================
