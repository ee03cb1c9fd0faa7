--------------------------- MODULE MemoryDescriptor ---------------------------
(***************************************************************************)
(* src/memory.c: the descriptors of data movements handed in one after     *)
(* another, and what atarix_memory_descriptor_validate makes of each.      *)
(* flags is the 32-bit word itself, the move forms its six lowest bits;    *)
(* fields no check reads are left out.                                     *)
(***************************************************************************)
EXTENDS Integers

CONSTANTS
    MaxLength,      \* ATARIX_MEMORY_DESCRIPTOR_MAX_LENGTH_V1
    Words,          \* flag words handed in
    Lengths         \* lengths handed in

ASSUME MemoryAssumption == MaxLength \in Nat /\ Words \subseteq Nat /\ Lengths \subseteq Nat

MoveForms == {1, 2, 4, 8, 16, 32}  \* COPY, MOVE, MAP, SHARE, FABRIC, ZERO_COPY
FormMask  == 63                     \* all of them

Descriptor ==
    [magic : BOOLEAN, version : {0, 1}, flags : Words, length : Lengths,
     source_object : {0, 1}, destination_object : {0, 1}, capability_id : {0, 1}]

(* flags & FormMask: the mask is the low end of the word.                  *)
Forms(flags) == flags % (FormMask + 1)

(* (x & y) == 0, for x and y within the mask.                              *)
Disjoint(x, y) == \A bit \in MoveForms : (x \div bit) % 2 = 0 \/ (y \div bit) % 2 = 0

AnyOneForm(flags) ==
    LET forms == Forms(flags) IN forms # 0 /\ Disjoint(forms, forms - 1)

(* forms & (forms - 1) clears the lowest bit that is set.                  *)
ExactlyOneMoveForm(flags) ==
    LET forms == Forms(flags)
    IN  forms # 0 /\ Disjoint(forms, forms - 1) /\ flags - forms = 0

Validate(d) ==
    IF ~d.magic THEN "BAD_MAGIC"
    ELSE IF d.version # 1 THEN "BAD_VERSION"
    ELSE IF d.length = 0 THEN "ZERO_LENGTH"
    ELSE IF d.length > MaxLength THEN "LENGTH_EXCEEDED"
    ELSE IF d.capability_id = 0 THEN "MISSING_CAPABILITY"
    ELSE IF d.source_object = 0 THEN "MISSING_SOURCE"
    ELSE IF d.destination_object = 0 THEN "MISSING_DESTINATION"
    ELSE IF ~ExactlyOneMoveForm(d.flags) THEN "BAD_FLAGS"
    ELSE "OK"

VARIABLES
    submitted,      \* the descriptor being validated, << >> for none
    status

submissionVars == <<submitted, status>>

SubmissionInit == submitted = << >> /\ status = "NONE"

Submit(d) ==
    /\ submitted = << >>
    /\ submitted' = <<d>>
    /\ status' = Validate(d)

Return ==
    /\ submitted # << >>
    /\ submitted' = << >>
    /\ status' = "NONE"

SubmissionNext == Return \/ \E d \in Descriptor : Submit(d)

SubmissionSpec == SubmissionInit /\ [][SubmissionNext]_submissionVars

(* "Descriptor validation MUST reject ... Invalid or reserved movement     *)
(* forms" (ATX-SPEC-021) and the other cases listed there, and nothing     *)
(* else: the arithmetic on the flag word accepts exactly the words with    *)
(* one form and no other bit.                                              *)
AcceptsExactlyOneForm ==
    \A i \in DOMAIN submitted :
        LET d == submitted[i]
        IN  status = "OK" <=>
                /\ d.magic
                /\ d.version = 1
                /\ d.length \in 1 .. MaxLength
                /\ 0 \notin {d.capability_id, d.source_object, d.destination_object}
                /\ d.flags \in MoveForms

==============================================================================
