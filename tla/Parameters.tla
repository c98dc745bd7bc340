---------------------------- MODULE Parameters ----------------------------
(***************************************************************************)
(* Crate common's shapes and parameters, and how a proof system chooses    *)
(* them for a circuit.  A function that may refuse is the set of what it   *)
(* returns: empty, or one value.                                           *)
(***************************************************************************)
EXTENDS Integers

CONSTANTS
    PACK_BITS,                   \* index bits in one packed element
    MIN_LOG_BITS, MAX_LOG_BITS,  \* the window of sizes
    WORD_BITS,                   \* BitTable::BITS, bits of a packed word
    GROUP_ORDER,                 \* of the generator: 2^128 - 1
    MIN_PRIME_BITS, MAX_MODULUS_BITS

ASSUME ParametersAssumption ==
    /\ PACK_BITS \in Nat /\ MIN_LOG_BITS \in Nat /\ MAX_LOG_BITS \in Nat
    /\ WORD_BITS \in Nat \ {0} /\ GROUP_ORDER \in Nat \ {0}
    /\ MIN_PRIME_BITS \in Nat /\ MAX_MODULUS_BITS \in Nat
    /\ \A n \in 0..MAX_LOG_BITS : 2^n \in Nat \ {0}
    /\ \A n \in 0..(MAX_MODULUS_BITS + 1) : 2^n \in Nat \ {0}

\* Shape::new.
Shapes == {s \in [log_rows : Nat, log_columns : Nat] :
    /\ PACK_BITS <= s.log_rows
    /\ s.log_rows <= MAX_LOG_BITS
    /\ s.log_columns <= MAX_LOG_BITS - s.log_rows
    /\ MIN_LOG_BITS <= s.log_rows + s.log_columns}

log_bits(s) == s.log_rows + s.log_columns
rows(s) == 2^s.log_rows
columns(s) == 2^s.log_columns

Split(total, log_rows) ==
    {s \in {[log_rows |-> log_rows, log_columns |-> total - log_rows]} : s \in Shapes}

\* Three fifths of the index bits are the row's, rounded up.
for_log_bits(total) ==
    IF total \in MIN_LOG_BITS..MAX_LOG_BITS THEN Split(total, (3 * total + 4) \div 5) ELSE {}

\* A circuit's shape: the next power of two, and the least number of rows.
shape_for(bits) ==
    LET next == CHOOSE n \in 0..bits : bits <= 2^n /\ \A k \in 0..(n - 1) : 2^k < bits
    IN  Split(IF next < MIN_LOG_BITS THEN MIN_LOG_BITS ELSE next, PACK_BITS)
-----------------------------------------------------------------------------
\* prime_bits: the whole logarithm of max_modulus + 1, capped.
max_modulus(s) == (GROUP_ORDER - 1) \div rows(s)

Widths(s) == {w \in 0..MAX_MODULUS_BITS : 2^w <= max_modulus(s) + 1}

prime_bits(s) == {w \in Widths(s) : MIN_PRIME_BITS <= w /\ \A v \in Widths(s) : v <= w}

\* The numbers of the width, among which squeeze_prime draws.
Interval(w) == {n \in 0..(2^w - 1) : 2^(w - 1) <= n}

\* BitZParams::new, but for the generator.  A product that overflows the
\* integer exceeds the order too.
FoldGate(s, modulus) == rows(s) * modulus < GROUP_ORDER
Gates(s, modulus) == columns(s) >= WORD_BITS /\ FoldGate(s, modulus)

fold_bound(s, modulus) == rows(s) * (modulus - 1)

\* VirtualParams::new: h in the claim's shape, the bits of f in the committed one.
VirtualGates(s, committed, h_len, f_len) ==
    /\ h_len <= 2^log_bits(s)
    /\ f_len >= 1
    /\ f_len - 1 <= 2^log_bits(committed)

\* LinearClaim::from_shape.
ClaimGates(s, row_weights, column_weights) ==
    /\ DOMAIN row_weights = 1..rows(s)
    /\ DOMAIN column_weights = 1..columns(s)
=============================================================================
