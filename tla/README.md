# Verification of ATARIX in TLA+

ATARIX is a hardware/software platform whose repository holds, at this commit,
an RTL lookup accelerator (`rtl/atarix`), a C reference implementation of its
protocols and formats (`src/`, `include/atarix`), a simulation layer on top of
the mailbox protocol (`src/sim`), and tooling.  This directory holds TLA+
models of its core, the TLC configurations that check them and proofs that
TLAPS checks.  Paths below are relative to the repository.

## 1. The system

| Component | State | Operations | Talks to |
|---|---|---|---|
| Lookup accelerator, `atx_spec_020_accelerator.v` | 8-state FSM, probe address/count, fingerprint, answer and audit registers, cycle counter | one arm per FSM state on each rising edge; asynchronous reset | requester (`req_*`/`resp_*` handshakes), table (`probe_*`/`table_*`), audit sink (`audit_*`) |
| Comparator and stepper, `atx_simd_probe_core.v`, `atx_krapivin_stepper.v` | none (combinational) | 16-lane match, lowest lane; triangular step | accelerator |
| Scalar comparator, `atx_scalar_probe_core.v` | lane, match, done, cycles | reset, start, scan | benchmark counterpart of the comparator |
| Audit window, `atx_audit_log_window.v` | circular byte store, head pointer, wrapped flag | write, reset, read | system wrapper |
| System wrapper, `atx_spec_020_system_wrapper.v` | the two above | wires `audit_valid` to the window's write enable, ties `audit_ready` high | |
| Mailbox protocol, `src/mailbox/mailbox.c` | receiver sequence window | build header, validate header, accept sequence, ring authorize | simulation layer, rings |
| Mailbox simulation, `src/sim/sim_mailbox.c`, `sim_node.c` | packets (header + *pointer* to payload), endpoint window, tx/rx counters | send, receive, endpoint and node init | mailbox |
| Simulated fabric, `src/sim/sim_fabric.c` | 256 slots: a copy of a node's number and a pointer to the node | init, attach, lookup | nodes |
| Rings, `src/ring/ring.c`, `rings.h` | none | access decision, wire number | mailbox, capabilities |
| Capability policy, `src/capability/capability_policy.c` | none (records by value; revocation and time in the request) | validate, allow operation, delegate, evaluate | rings |
| Capability evaluator, `src/capability/capability_evaluator.c` | the caller's table of records | evaluate | rings |
| Boot information block, `src/bib/*.c`, `src/sim/sim_bib.c` | builder: buffer, length, count, sealed; reader: a view of the buffer | init, add TLV, add reference, seal, capture; open, record, find reference | `bibdump` |
| Discovery, `src/discovery/*.c` | database of four bounded tables | init, validate, iterate, parse, find | `mkdiscovery` |
| `mkdiscovery`, `bibdump` | none | write a profile's image; print a block | discovery, boot information block |
| Memory descriptor, `src/memory.c` | none | validate | |
| Bus shim, `atx_northbridge_bus_shim.v` | sampled PHI2, frame flag, output registers | sample, reset | processor bus, mailbox |
| Elias-Fano decoder, `atx_elias_fano_decoder.v` | none (combinational) | select and decode | writer of the words |
| Publication script, `.github/scripts/publish_signed_pr.py` | a remote branch and pull request | read head, leased reset, commit, verify, open PR | GitHub |

What is hard here, and hard to test: the accelerator samples its request, table
and audit wires on *different* edges while the table goes on changing; two
channels push back independently; reset may fall anywhere; counters are exactly
as wide as the limits they are compared with; the registers of one answer
survive into the next request; a mailbox packet points at memory its sender
keeps using, over a medium that may lose, repeat and reorder; sequence numbers
turn over; an endpoint may restart; ring checks are made one hop or one link at
a time while rings, revocations and time move on; wire numbers put the two most
privileged rings at the top of an unsigned range; a view of a boot information
block outlives the block; a parse that fails half way leaves records behind; a
fabric slot copies a number its node may change; the bus and the shim have
unrelated clocks; and nothing keeps two runs of the publication script apart.
`PROJECT.json` lists these hazards with
their lines and the properties that would catch them.

## 2. Modules

**Accelerator.**

* `ProbeCore` - the comparator and the stepper as operators over control groups
  (functions from lanes to control bytes).
* `Accelerator` - the registers, and one operator per arm of the FSM; the wires
  an arm samples on its edge are its parameters.  `resp` and `audit` collect the
  `resp_*` and `audit_*` registers in records.  Last-assignment-wins of the
  non-blocking assignments is what each operator states (`audit_valid' = ~audit_ready`).
  `table_mask` is all ones from reset on and is the truncation in `NextBase`.
* `AcceleratorBench` - the accelerator with a requester that strobes and then
  holds its wires (what both testbenches do), a table whose content is fixed by
  its generation and whose generation may move between any two edges, and a
  reset line.  It states the properties that do not depend on the audit sink.
* `LookupSystem` - adds the CI bench's audit sink, which raises `audit_ready`
  only once it has seen `audit_valid`, with a history of what it took.
* `LookupService` - the abstract specification: one request at a time, at most
  one answer, a correct one, held until taken; a reset forgets.  `LookupSystem`
  implements it (`phase`, `request`, `answer` from `state`, `resp_valid`, `resp`)
  with *correct* meaning `SoundAnswer`; `LookupReference` implements it with
  *correct* meaning the random testbench's expected answer, extended to a table
  of several groups.
* `SystemWrapper` - the accelerator composed with `AuditWindow` as the wrapper
  wires them, the projection byte included.
* `AuditWindow`, `AuditWindowLog` - the circular buffer, and the buffer against
  the history of everything written.
* `ScalarProbe` - the serial comparator under a driver that strobes and holds,
  and may strobe again during a scan.

**Mailbox.**

* `Mailbox` - the three checks of `mailbox.c` as status operators, in the order
  of the code, with `sequence`, `last_sequence` and `last_sequence + 1` below
  `SeqMod` (2^32).  A payload's bytes are one value; the CRC is a function of it
  that may collide.
* `MailboxLink` - send, receive and restart over a set of packets that may each
  be received any number of times in any order.  The payload is a pointer:
  `WriteBuffer` changes what an earlier packet points at.  `CorruptHeader`
  changes a field of a header on the way, as the tests do, at most `MaxAltered`
  times, and `altered` remembers that it did.  The sending nodes
  number the packets to the endpoint in one stream (the window is per receiver).

**Rings and capabilities.**

* `Rings` - `atarix_ring_can_access`, the wire numbers and the mailbox's
  `ring_authorize`, in the order of the code's tests.
* `RingRelay` - principals pass a message on under `ring_authorize` while others
  quarantine and recover them under `can_access`.
* `CapabilityPolicy` - record validation, the operation test, delegation
  validation and `atarix_policy_evaluate`, each as the status of the first test
  that fails.
* `CapabilityChain` - a chain of records, each accepted by the delegation check
  against the one before; revocations, time, and requests against any link.
* `CapabilityEvaluator` - the table evaluator over a table that grows and a trust
  that changes.

**Formats.**

* `BootInfoBlock` - the block as a header and a sequence of TLVs with lengths in
  bytes; the builder's calls, the reader's open with all its checks in order, the
  capture, and what `bibdump` prints.  A CRC field holds what it was computed over.
* `BibHandoff` - producer and consumer of one buffer: the view keeps what `open`
  checked and reads the records from the buffer as it is at the access.
* `Discovery` - validator, iterator, parser and database.  `MkDiscovery` - the
  images the generator writes.  `DiscoveryScan` - images parsed into one
  database in any order and any number of times.
* `MemoryDescriptor` - the descriptor check, on the flag word as a number; the
  mask is its six low bits, and `forms & (forms - 1)` is compared bit by bit.

**Fabric, bus, decoder, script.**

* `SimFabric` - the slot table, with nodes renumbered while attached;
  `FabricDirectory` - the abstract specification, a map from numbers to nodes that
  enters a node under the number it has at that moment and keeps the entry when
  the node is renumbered, which `SimFabric` implements (`directory` is what a
  lookup from the front finds, `number` is `node_id`).
* `BusShim` - the sampling block under a bus with a clock of its own.  Assumed of
  the bus: each phase of PHI2 sees at least one clock edge, chip select and the
  write line are stable while PHI2 is high, and chip select changes at most once
  between two cycles.  Data may change at any time and every wire right after
  PHI2 fell, before the edge on which the shim reads them: `ended` and `due` carry
  the cycle PHI2 fell on and whether its wires still hold, and `EachWriteOnce`
  says which part of its promise needs that.
* `EliasFano` - the decoder, against the definition of the encoding.
* `SignedPublish` - the calls of `main()` for several overlapping runs, each call
  one action with the service's answer, runs refused before they read the head
  (`Refuse`: the default branch among other reasons), and runs cancelled between
  calls.  A call that fails for a reason of the service's own ends the script too
  and is a `Cancel`, before the call or, if only its answer is lost, after it.

**MC modules** hold the constant values of the runs; **`*Proofs` modules** the
theorems.  `MCAuthority` (the three uses of the rings) and `MCComponents` (seven
components that share no state) check several specifications in one run: a
variable `part`, chosen initially, says which one runs, and the others stay as
they start.  The parts have no variable and no call in common, so a product
would only multiply the states; each part's own behaviours are all there.

## 3. Runs

| Run | Expect | Shows |
|---|---|---|
| `lookup_system` | pass | types, no probe before authorization, audit before response, sound answers, answers held, refinement of `LookupService`; every request ends, accelerator ready again and again |
| `lookup_reference` | pass | answers equal the reference's for every base, fingerprint, limit and gate combination |
| `mailbox_link` | pass | accepted packets are a contiguous in-order piece of those sent, with intact payloads; only consecutive numbers, whatever happens to headers; below the turn of the counter the next packet is never refused for its number |
| `authority` | pass | relays never gain privilege, quarantine isolates; delegation narrows (one kind of fabric range excepted); denial is final; the evaluator stays in the policy's range |
| `components` | pass | audit window, serial comparator, bus shim, decoder, fabric (and its refinement), memory descriptor, publication script |
| `bib_handoff` | pass | the builder accounts for every byte, only sealed blocks open, sealed blocks open, reads stay inside the opened length, `bibdump` shows the first record of the type it names |
| `discovery_scan` | pass | handles unique across tables, failed parses leave a prefix, successful ones are findable, validator, iterator and generator agree |
| `mailbox_wraps` | violation | at the turn of the counter the next packet is refused, for ever |
| `lookup_audit_held` | violation | an offered audit record changes under backpressure |
| `system_wrapper` | violation | the wrapper answers without ever writing its audit window |
| `capability_outlives` | violation | a delegated capability is served after its parent expired |
| `discovery_profiles` | violation | two of `mkdiscovery`'s profiles do not parse |

Bounds, and why they suffice.  *Accelerator*: two lanes tell lowest from
highest; two fingerprints tell match from mismatch, and both occupied and free
bytes with the fingerprint occur; four (eight for the reference) addresses make
probe paths wrap; `CountMod` 4 makes the largest limit 3, the counterpart of 255,
so the count wraps on the last probe; two generations that differ in one group
decide whether a lookup hits, which makes every stale read visible.  The cycle
counter has two values: it is only stamped.  *Mailbox*: four sequence numbers,
three packets starting at number 2, so the counter turns over within the run;
two contents with equal CRC and one with another; a buffer that fits and one a
byte too long; one altered header.  `MaxSend` and `MaxReceive` bound histories;
`MaxSend < SeqMod` is also an assumption of the proofs: after a full turn a
stale packet is indistinguishable from a new one.  *Authority*: a principal of
each kind and two peers; ranges that hit every test of the range check, flags a
chain can lose, three links (a link, one in between and a last one), times
before, at and after expiration; tables of two records, so that the first match
is not the last.  *Audit window*: depth 3 in an address space of 4, seven
writes, so it wraps twice and the pointer's width differs from the depth.
*Serial comparator*: every group of four lanes.  *Bus*: the clocks are unrelated
and nothing bounds their number of edges; three byte values, so a byte that
changes before it is read differs from the one written and the one before.  *Decoder*: words of
8 bits, splits of 0 to 3 low bits of which 3 is unsupported, sequences up to
three entries.  *Fabric*: two slots, three nodes and numbers, so it fills up and
numbers collide.  *Script*: three runs, one cancelled, one push of a maintainer,
one of the base; the two other runs meet what the cancelled one left behind.  *Boot information block*: two references
are eight bytes too long for the second buffer; four records are as long as
readers accept, so a type can repeat in a block that opens, and with the one
longer record they fill the third buffer exactly and exceed it; a capacity and lengths at the end of the 32-bit
range are at the end of a smaller one (`MaxU32`).  *Discovery*: tables of two
entries (one dependency), cards that
share handles, and 18 cards with something unusual; `CopyLimit` is the length of
a card with two records, so the images checked in full and the longer ones both
occur, and so does the boundary.

Fairness (`LookupSystem!Fairness`): the clock runs (weak fairness of the edges
that need nobody), the sink takes a record it is offered, the requester takes an
answer it is offered.  The last two are assumptions on the environment that both
testbenches meet; without them the FSM rightly waits for ever in `STATE_AUDIT`
or `STATE_RESPOND`.  Nothing is assumed of the table: it may change for ever.
Resets are part of the run and may go on for ever too; a reset forgets the
request it falls on, which `EveryRequestAnswered` allows for.

Deadlock is checked in every run but three.  In `authority` and
`capability_outlives` the evaluator's table and the chain are bounded, and
in `bib_handoff` a producer and a consumer may both be done.  In `components` the
one part that ends, the publication script, stutters explicitly when all its
runs have ended, so a run that hangs half way would be found.

## 4. Proofs

All for arbitrary widths, numbers of lanes, tables, request sets, streams and
principals.

* `ProbeCoreProofs` - the priority encoder's result is the lowest matching lane
  (`SimdMatchIsLowest`, and its converse), stepped addresses are addresses.
* `LookupProofs` - `TypeCorrect`, `ProbesAreAuthorized`, `AnswersAreSound`,
  `AuditFirst`, `AnswersAreHeld` and `ServiceImplemented` (every edge, reset and
  table update is a step of `LookupService` or none).  None of the properties is
  inductive: an answer is offered two states after it is computed and was blanked
  five states before.  The inductive invariant `Inv` says in which states the
  answer registers are still blank (`AnswerBlank`), from where they are final
  (`AnswerFinal`), that the latched fingerprint is that of the request still on
  the wires (`FingerprintHeld`), how many gates each state implies (`GatesPassed`),
  which strobe may be high in which state (`StrobesPlaced`) and what the sink has
  taken (`AuditKept`).  One lemma per edge shows that it is kept.
  `ReferenceMatched`: while the table does not change (`OneGeneration`), every
  answer is the reference's.  The hypothesis is needed: with two generations a
  lookup may miss in one and go on in the other, and its answer is that of
  neither (it is still sound, by `AnswersAreSound`).  `ReferenceInv` adds to `Inv`
  where on the reference's path the lookup is and that every group before it
  missed (`PathFollowed`; in `STATE_STEP` the count is one ahead of the address),
  and that the answer is the expected one from the audit on (`AnswerExpected`).
  `PathRecursion` shows that the path, a recursive function, exists and goes on
  with the stepper; `HitIsSimdHit` and `LowestIsReported` that the reference's
  reading of a control byte is the comparator's; and a miss below the limit shows
  that the count does not wrap before the lookup ends.
* `MailboxProofs` - `LinkTypeCorrect`, `AcceptedNumbersConsecutive`,
  `DeliveryInOrder`, `DeliveryIntact`, `NextIsAccepted`.  The invariant ties the
  k-th packet sent to the k-th number of the stream, the network to what was sent
  (while `altered` is 0), and the window to the last packet accepted; the
  arithmetic core is that a number one above another, below the turn of the
  counter, belongs to the next packet (`NextNumberNextPacket`), and that an
  initialised window accepts nothing else (`AcceptsOnlyNext`).  `NextIsAccepted`
  is the converse: below the turn the next number is the larger one
  (`BelowTurn`), so no test of the window refuses it.
* `AuthorityProofs` - *relay*: `RelayNeverUpward`, `QuarantineHolds`.  The relay
  checks compare the rings of the moment, the property the rings principals were
  attached in; the invariant adds that a ring is the home ring or quarantine
  (`HomeOrQuarantine`), and the core is that an allowed access from outside
  quarantine is never to a smaller ring (`AllowedIsDownward`).  *Chain*:
  `DelegationOnlyNarrows`, `DenialStays`.  The code compares a link with the one
  before it only, the property with all before it, so `ChainInv` says of every
  pair of links that the later one's operations, target and ring range are within
  the earlier one's (`ChainNarrows`), that every link has a valid range
  (`ChainValid`), and that the last answer is what its link gave
  (`AnswerFollows`).  A ring other than the fabric is then in every earlier range
  (`RangeWidensUpTheChain`); the fabric is if the link's range ends with it
  (`FabricComesFromFabric`), and only otherwise need not be.
  *Evaluator*: `EvaluatorStaysWithinPolicy`, by comparing `ring_allows` with
  `ring_in_capability_range` on records that pass validation.
* `ComponentProofs` -
  * `ScalarAgreesWithSimd`: `ScanInv` says that no lane below the current one
    matches and that the edges counted are the lanes passed, and ends in the
    lowest-lane lemma of `ProbeCoreProofs`.
  * `WindowKeepsNewest`: `LogInv` gives the address of the entry of each age
    (`AddrOf`), and that a write hits the address of the oldest entry, so each age
    moves on by one (`AgesHold`).
  * `EveryWriteOnce`: `BusInv` relates the sampled PHI2 to the phase of the bus
    (`EdgeDetector`), the cycle that has just ended to what the next edge will
    sample, as long as its wires hold (`Pending`), and the frame flag to the cycles
    since the last byte (`FrameTracked`, which holds however early the wires
    change).
  * `SlotIdsStayUnique`, `FabricIsADirectory`: a number is entered only if a
    lookup from the front found none, so an attach extends the directory by one
    number and nothing else changes it, renumbering included.
  * `CommitsStayOnOwnBase`, `SomeRunWins`, `LeaseProtectsCommits`: `PublishInv`
    says that a run which has not begun has no commit at the head
    (`IdleHasNoCommit`) and, once a run has read the head and until another is
    cancelled or a maintainer pushes (`readSince`), that the head is a run's commit
    or some run holds the lease for its next call (`SomeoneLeads`, `HasLease`: what
    it read is still the head).  Only the latter makes "not all fail" inductive: a
    run fails because another one has taken its lease.  Whoever reads the head
    first after a cancellation has the lease on whatever is there.
  * `DecoderInvertsEncoding`: `Encoded` says that the words are the encoding of
    `entries`.  The high positions increase strictly although entries may repeat
    (`PositionsIncrease`), so the bit with k set bits below it is that of entry
    k + 1 (`SelectFindsEntry`).  The packed word is the total of digits in base
    `Pow2[bits]` (`PackedIsTotal`): the lower digits together are less than the
    weight of digit k (`LowerDigitsBelow`), the higher ones a multiple of the next
    weight (`HigherDigitsAbove`), so shifting and masking gives back digit k
    (`LowIsUnpacked`).
  * `OneFormIsAccepted`: within the mask, `forms & (forms - 1)` is zero for the
    powers of two and no other word (`OneFormWithinMask`), and a word is its forms
    and the rest (`OneForm`).
* `BibProofs` - `RunningLengthAccounts`, `HalfBuiltNeverOpens`,
  `SealedBlockIsWellFormed`, `ViewReadsStayInside`, `OpenedBlockIsReadable`,
  `DumpShowsTheRecordItself`.  The properties look at the buffer when a consumer
  opens it, many builder calls after it was filled; `BuilderInv` says that the
  header is the one `init` wrote (`HeaderWritten`), that the running length is
  where the last record ends (`LengthsAgree`), that each record has the length of its payload and known flags
  (`RecordWritten`), and that a block has the lengths, the count and the CRC of
  its content when it is sealed and no CRC before (`SealState`).  A view is opened once and
  read while the producer goes on: `ViewBounded`, `OpenedHere` and `DumpedHere`
  say what of the opened block still holds then.
* `DiscoveryProofs` - `HandlesStayUnique`, `ParsedRecordsAreFound`,
  `ValidatedImagesEnd`, `EveryProfileValidates` and the action property
  `ScansNeverDisturb`.  The parser is a loop, so the lemmas about it are an
  induction over the records (`ParseInv`, `ParseExists`): each iteration keeps the
  tables well typed and their handles distinct, only appends, and returns OK only
  if the record is in its table.  `ScanInv` carries that over scans: handles are
  unique in the database of the moment, and it still contains the `Outcome` of
  the card scanned last.  For the generator, `PatchFacts` shows that patching the
  CRCs in leaves everything they were computed over as it was.
* `SharedLemmas` - the least element of a set of naturals, the induction over the
  naturals as a statement about sets (`SetInduction`), and what the recursive
  functions that add up the lengths of records compute (`TotalExists`,
  `TotalSteps`, `TotalGrows`), and that a function on the naturals defined by its
  first value and its step exists (`IterationExists`, from its finite segments).

Several definitions are in the form they are for the sake of these proofs: the
records the code passes have types (`PolicyRequest`, `Block`, `Builder`,
`DiscoveryImage`), the parser's loop is a recursive function of the number of
records read (`ParseOf`), a lookup in the fabric takes the table it searches,
so that one definition serves the state, its successor and the mapping, powers of
two are a recursive function (`Pow2`), and the flag word is taken apart by
division.

Assumptions are the named `ASSUME`s on the constants, and TLC evaluates them in
the runs: widths positive, 0 among the identifiers, tables total, home rings
outside quarantine, `MaxSend < SeqMod`, an audit window no deeper than its address
space, names of runs that are not those of other committers, entries of the
decoder that are words (its row number is one), and that requests,
records, images and blocks handed in are of the structures' types.  Nothing is
assumed of their content: foreign blocks and images may be malformed in every
way their types allow.

Only model-checked: `EveryRequestAnswered` and `AlwaysReadyAgain`, liveness under
fairness, which is outside the prover.  Every other property of a passing run is
a theorem.  `SystemWrapper` has no theorem: its run looks for a violation, and the
parity in its projection byte is a recursive operator over `Bitwise`.

## 5. Disagreements found

With a run:

1. `atx_spec_020_system_wrapper.v:112` ties `audit_ready` high, so `audit_valid`
   never rises and the audit window stays empty, against "Audit commit precedes
   successful response." (`rtl/atarix/README.md:183`).
2. `atx_spec_020_accelerator.v:240` re-samples the generation while the record is
   held, against the CI bench's "audit payload changed under backpressure"
   (`atx_spec_020_accelerator_ci_tb.v:196`).
3. `mailbox.c:128` refuses the next expected number at the turn of the counter,
   against "Next expected sequence accepted." (`docs/mailbox-protocol-v1.md:111`).
4. `capability_policy.c:152` lets a child drop `TIME_LIMITED` or expire later,
   against "Delegation must preserve: ... Expiration"
   (`docs/architecture/ATX-SPEC-003-Capability-Model.md:121`).
5. `mkdiscovery.c:102` gives a resource and a service the same handle in two
   profiles, which the parser refuses, against "canonical binary conformance
   fixtures" (`tests/reference/README.md:9`).

Met while modelling, visible in the modules and without a run of their own:

* the audit record's generation is sampled later than the answer's
  (`atx_spec_020_accelerator.v:214`, `:240`), so the two can differ;
* equal rings are allowed everything before the supervisor-only operations are
  looked at, so peers can quarantine each other (`ring.c:36`);
* a range that starts with the fabric and ends with an ordinary ring admits the
  fabric alone, and passes the delegation test against every ordinary parent that
  reaches that ring, the fabric's wire number being the largest
  (`capability_policy.c:156`), although delegation must preserve "Ring limits"
  (`docs/architecture/ATX-SPEC-003-Capability-Model.md:126`): the exception in
  `DelegationNarrows`;
* the shim "Samples W65C816-style write cycles on PHI2 falling edge"
  (`atx_northbridge_bus_shim.v:5`), but reads the wires on its first clock edge
  after that (`:38`): a bus that releases them earlier loses the byte or has
  another one passed on, hence the condition in `EachWriteOnce`;
* a node initialised with another number while it is attached is still found
  under the old one and not under the new one (`sim_fabric.c:50`);
* `trust_level < trust_requirement` admits the largest level, `REVOKED`
  (`capability_evaluator.c:43`);
* an open refused for its window leaves an earlier view in place
  (`bib_reader.c:83`); zero addresses and lengths of mandatory references are
  accepted (`bib_reader.c:150`); `bibdump` shows the fields of references flagged
  `SENSITIVE` (`bibdump.c:140`), although renderers "shall avoid exposing payload
  contents" (`docs/boot-information-block-v1.md:163`), and under a repeated type
  those of the first record (`bibdump.c:142`);
* the image CRC of images above 512 bytes is not checked
  (`discovery_validate.c:50`), and a record need only be as long as its header
  (`discovery_validate.c:115`);
* the script reports a commit as retained on the branch after verifying the
  commit, not the branch (`publish_signed_pr.py:132`).

## 6. Not modelled

The message texts, `$display`s and waveform dumps; the CRCs' bits; null-pointer
arguments other than the payload's; a requester that changes its wires while it
is served; sender restarts (a caller that restarts its numbering).  The default
arm of the FSM is unreachable.  The request fields no arm reads are left out, and
so are the fields of discovery records and boot references no function compares.
Of the tools, argument parsing and file errors; of the publication script,
building the file lists and redacting the log.  The ABI record headers
(`identity_eeprom.h`, `directory.h`, `index.h`) are struct layouts without
operations.  The document and evidence scripts are sequential text processing
without state of their own.  Emulator and firmware directories hold only READMEs.

## 7. Plan

To prove: for `SystemWrapper`, with the parity as a function, the invariants of
the accelerator that hold whatever the sink does, from `LookupProofs`' lemmas on
single edges.

To model: a requester that does not hold its wires; several mailbox endpoints
behind the fabric; the mailbox in front of the accelerator.
