--------------------------- MODULE CapabilityChain ---------------------------
(***************************************************************************)
(* A capability and the chain of capabilities delegated from it.  A root   *)
(* record is issued, each further record is accepted when                  *)
(* atarix_capability_delegation_validate accepts it against the record     *)
(* before it, records are revoked (the revocation flag of a request), time *)
(* passes, and requests are evaluated against any link.  The functions of  *)
(* capability_policy.c see one pair of records or one request at a time;   *)
(* the properties are about the chain.                                     *)
(***************************************************************************)
EXTENDS CapabilityPolicy, Sequences

CONSTANTS
    Candidates,     \* records that may be offered
    Requests,       \* requests that may be made
    MaxLinks,       \* bound on the chain
    MaxTime         \* bound on the clock

ASSUME ChainAssumption ==
    /\ Candidates \subseteq CapabilityRecord
    /\ Requests \subseteq PolicyRequest
    /\ MaxLinks \in Nat
    /\ MaxTime \in Nat

VARIABLES
    chain,      \* accepted records, each delegated from the one before
    revoked,    \* links whose revocation flag is raised
    now,
    answer      \* the request just decided: link, ring, target, operation, status

chainVars == <<chain, revoked, now, answer>>

NoAnswer == [link |-> 0, ring |-> Kernel, target_handle |-> 0,
             operation_id |-> "INVALID", status |-> "NULL"]

ChainInit ==
    /\ chain = << >>
    /\ revoked = {}
    /\ now = 0
    /\ answer = NoAnswer

Issue(cap) ==
    /\ chain = << >>
    /\ RecordValidate(cap) = "OK"
    /\ chain' = <<cap>>
    /\ answer' = NoAnswer
    /\ UNCHANGED <<revoked, now>>

Delegate(cap) ==
    /\ Len(chain) \in 1 .. MaxLinks - 1
    /\ DelegationValidate(chain[Len(chain)], cap) = "OK"
    /\ chain' = Append(chain, cap)
    /\ answer' = NoAnswer
    /\ UNCHANGED <<revoked, now>>

Revoke(link) ==
    /\ link \notin revoked
    /\ revoked' = revoked \cup {link}
    /\ answer' = NoAnswer
    /\ UNCHANGED <<chain, now>>

Tick ==
    /\ now < MaxTime
    /\ now' = now + 1
    /\ answer' = NoAnswer
    /\ UNCHANGED <<chain, revoked>>

(* One request per state is enough: deciding one changes nothing that the  *)
(* next decision reads.                                                    *)
Evaluate(link, request) ==
    /\ answer = NoAnswer
    /\ answer' =
         [link |-> link, ring |-> request.ring,
          target_handle |-> request.target_handle,
          operation_id |-> request.operation_id,
          status |-> PolicyEvaluate(chain[link],
                        [request EXCEPT !.revoked = link \in revoked], now)]
    /\ UNCHANGED <<chain, revoked, now>>

ChainNext ==
    \/ \E cap \in Candidates : Issue(cap) \/ Delegate(cap)
    \/ \E link \in DOMAIN chain : Revoke(link)
    \/ Tick
    \/ \E link \in DOMAIN chain, request \in Requests : Evaluate(link, request)

ChainSpec == ChainInit /\ [][ChainNext]_chainVars

Allowed == answer.status = "OK"

(* Along any number of delegations authority only shrinks: what a link     *)
(* serves, for a target and an operation, every link before it could have  *)
(* served to the same ring.  The flags, the operation and the wire ranges  *)
(* are compared pairwise only, in atarix_capability_delegation_validate.   *)
(* There the fabric's number is the largest, so a range that starts with   *)
(* it and ends with an ordinary ring is within every ordinary range: such  *)
(* a link, and no other, may serve a ring that a link before it did not,   *)
(* and that ring is the fabric.                                            *)
DelegationNarrows ==
    Allowed => \A link \in 1 .. answer.link :
        /\ \/ RingInRange(answer.ring, chain[link])
           \/ answer.ring = Fabric /\ chain[answer.link].maximum_ring <= Application
        /\ chain[link].target_handle = answer.target_handle
        /\ AllowsOperation(chain[link], answer.operation_id)

(* Revocation and expiry are final: a request that is answered REVOKED or  *)
(* EXPIRED is never answered OK later.                                     *)
DenialIsFinal ==
    [][\A link \in DOMAIN chain, request \in Requests :
          LET Status(r, t) ==
                  PolicyEvaluate(chain[link], [request EXCEPT !.revoked = link \in r], t)
          IN  Status(revoked, now) \in {"REVOKED", "EXPIRED"}
                  => Status(revoked', now') # "OK"]_<<revoked, now>>

(* "Delegation must preserve: ... Expiration" (ATX-SPEC-003): no link is   *)
(* served when a link it was delegated from has expired.  TIME_LIMITED is  *)
(* one of the flags a child may leave out, and expiration times are not    *)
(* compared.                                                               *)
DelegationPreservesExpiration ==
    Allowed => \A link \in 1 .. answer.link : ~Expired(chain[link], now)

==============================================================================
