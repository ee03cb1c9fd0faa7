------------------------------ MODULE EliasFano ------------------------------
(***************************************************************************)
(* atx_elias_fano_decoder: the select-and-decode of one entry of a         *)
(* non-decreasing sequence held in a word of unary high parts and a word   *)
(* of packed low parts.  The writer of the words is external: it encodes   *)
(* as the encoding is defined.                                             *)
(***************************************************************************)
EXTENDS Integers, Sequences, FiniteSets, SequencesExt

CONSTANTS Width,        \* bits of a word, 32 in the code
          MaxLowBits,   \* the largest low part decoded, 16 in the code
          LowBits,      \* the values of num_low_bits, 0..31 in the code
          Offsets,      \* the values of target_offset, 0..15 in the code
          MaxLen, MaxValue   \* bounds: of the sequences that are encoded

\* 1 << n
Pow2[n \in Nat] == IF n = 0 THEN 1 ELSE 2 * Pow2[n - 1]

\* An entry is a row number, which is a word.
ASSUME DecoderAssumption ==
    /\ Width \in Nat /\ MaxLowBits \in Nat /\ MaxLen \in Nat /\ MaxValue \in Nat
    /\ LowBits \subseteq Nat /\ Offsets \subseteq Nat
    /\ MaxValue < Pow2[Width]

VARIABLES entries,          \* what the writer encoded
          high_bits_word,   \* the positions of the bits that are set
          low_bits_word, num_low_bits, target_offset

decoderVars == <<entries, high_bits_word, low_bits_word, num_low_bits, target_offset>>

(***************************************************************************)
(* The decoder.                                                            *)
(***************************************************************************)
Below(word, idx) == Cardinality({i \in word : i < idx})

SelectedLate(word, target) == {idx \in word : Below(word, idx) = target + 1}

\* The loop: the bit that is set and has target set bits below it.
Selected(word, target) == {idx \in word : Below(word, idx) = target}

LowValue(word, target, bits) == (word \div Pow2[target * bits]) % Pow2[bits]

Decode(high, low, target, bits) ==
    LET found == Selected(high, target) IN
    IF found = {} \/ bits > MaxLowBits
    THEN [valid |-> FALSE, error |-> TRUE, row |-> 0]
    ELSE [valid |-> TRUE, error |-> FALSE,
          row |-> (((CHOOSE idx \in found : TRUE) - target) * Pow2[bits]
                     + LowValue(low, target, bits)) % Pow2[Width]]

(***************************************************************************)
(* The encoding, and a reader that asks for any entry of any encoding.     *)
(***************************************************************************)
NonDecreasing(s) == \A i \in 1..(Len(s) - 1) : s[i] <= s[i + 1]
HighPosition(s, i, bits) == (s[i] \div Pow2[bits]) + (i - 1)
\* The high parts and the packed low parts each fit one word.
FitsWords(s, bits) ==
    /\ Len(s) * bits <= Width
    /\ \A i \in DOMAIN s : HighPosition(s, i, bits) < Width
PackedLow(s, bits) ==
    LET low == [i \in DOMAIN s |-> (s[i] % Pow2[bits]) * Pow2[(i - 1) * bits]]
        word[i \in 0 .. Len(s)] == IF i = 0 THEN 0 ELSE word[i - 1] + low[i]
    IN  word[Len(s)]

Encode(s, bits) ==
    /\ NonDecreasing(s) /\ FitsWords(s, bits)
    /\ entries' = s
    /\ num_low_bits' = bits
    /\ high_bits_word' = {HighPosition(s, i, bits) : i \in DOMAIN s}
    /\ low_bits_word' = PackedLow(s, bits)
    /\ UNCHANGED target_offset

Select(target) ==
    /\ target_offset' = target
    /\ UNCHANGED <<entries, high_bits_word, low_bits_word, num_low_bits>>

DecoderInit ==
    /\ entries = <<>> /\ high_bits_word = {} /\ low_bits_word = 0
    /\ num_low_bits = 0 /\ target_offset = 0
\* The decoder keeps no state, so one encoding per behaviour is enough.
DecoderNext ==
    \/ entries = <<>> /\ \E s \in SeqOf(0..MaxValue, MaxLen), bits \in LowBits : Encode(s, bits)
    \/ \E target \in Offsets : Select(target)
DecoderSpec == DecoderInit /\ [][DecoderNext]_decoderVars

(***************************************************************************)
(* Whatever was encoded, repeated entries and entries at the top of the    *)
(* words included, the decoder gives back the entry that is asked for, and *)
(* an error for an entry beyond the last or a split it does not support.   *)
(***************************************************************************)
DecodesTheEncoding ==
    LET answer == Decode(high_bits_word, low_bits_word, target_offset, num_low_bits) IN
    /\ answer.valid = (target_offset < Len(entries) /\ num_low_bits <= MaxLowBits)
    /\ answer.error = ~answer.valid
    /\ answer.valid => answer.row = entries[target_offset + 1]
=============================================================================
