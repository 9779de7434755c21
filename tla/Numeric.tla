------------------------------ MODULE Numeric ------------------------------
(***************************************************************************)
(* The numeric rules every stage of the compiler reads from one place      *)
(* (compiler/src/types/numeric.rs): the integer domains, the constant a    *)
(* literal denotes in a domain, and the checked operators of i64.  The     *)
(* width of i64 is the constant Bits, 64 in the code, so that a run can    *)
(* take every pair of operands.                                            *)
(***************************************************************************)
EXTENDS Integers

CONSTANT Bits           \* the width of i64, and SHIFT_BITS

ASSUME BitsAssumption == Bits \in Nat /\ Bits >= 2

IntDomain == [signed : BOOLEAN, bits : Nat \ {0}]

I64 == [signed |-> TRUE, bits |-> Bits]

domain_min(d) == IF d.signed THEN -(2 ^ (d.bits - 1)) ELSE 0

domain_max(d) == IF d.signed THEN 2 ^ (d.bits - 1) - 1 ELSE 2 ^ d.bits - 1

contains(d, n) == domain_min(d) <= n /\ n <= domain_max(d)

Int64 == domain_min(I64) .. domain_max(I64)

\* What an operation answers: the value, or the code and the operator of the
\* failure.
Ok(v) == [ok |-> TRUE, value |-> v, code |-> "none", op |-> "none"]
Err(code, op) == [ok |-> FALSE, value |-> 0, code |-> code, op |-> op]

Overflow(op) == Err("X0002", op)
DivisionByZero(op) == Err("X0001", op)
ShiftAmount(op) == Err("X0003", op)

\* IntDomain::literal: a magnitude with no sign, and whether a `-' is applied
\* directly to it.
literal(d, magnitude, negated) ==
    LET limit == IF negated THEN -domain_min(d) ELSE domain_max(d)
    IN  IF magnitude > limit
        THEN Err("T0073", "literal")
        ELSE Ok(IF negated THEN -magnitude ELSE magnitude)

\* Rust's checked_add, checked_sub, checked_mul, checked_neg: the exact
\* result, or nothing when it is not an i64.
Checked(n, op) == IF n \in Int64 THEN Ok(n) ELSE Overflow(op)

\* The i64 whose two's complement bits are the low Bits bits of n.
Wrap(n) == ((n - domain_min(I64)) % (2 ^ Bits)) + domain_min(I64)

Magnitude(n) == IF n < 0 THEN -n ELSE n

\* Rust's division, which truncates, and its remainder, which takes the sign
\* of the dividend.
Truncated(a, b) ==
    LET q == Magnitude(a) \div Magnitude(b)
    IN  IF (a < 0) = (b < 0) THEN q ELSE -q

div(a, b) ==
    IF b = 0 THEN DivisionByZero("div") ELSE Checked(Truncated(a, b), "div")

\* Mutant of rem: checked_rem, which refuses the minimum by -1.
checked_rem(a, b) ==
    IF b = 0 THEN DivisionByZero("rem")
    ELSE IF Truncated(a, b) \in Int64 THEN Ok(a - b * Truncated(a, b)) ELSE Overflow("rem")

rem(a, b) ==
    IF b = 0 THEN DivisionByZero("rem") ELSE Ok(a - b * Truncated(a, b))

check_shift(count) == count \in 0 .. Bits - 1

shl(a, count) ==
    IF check_shift(count) THEN Ok(Wrap(a * 2 ^ count)) ELSE ShiftAmount("shl")

\* The arithmetic shift: \div rounds towards minus infinity, as replicating
\* the sign bit does.
shr(a, count) ==
    IF check_shift(count) THEN Ok(a \div 2 ^ count) ELSE ShiftAmount("shr")

Arith(op, a, b) ==
    CASE op = "add" -> Checked(a + b, "add")
      [] op = "sub" -> Checked(a - b, "sub")
      [] op = "mul" -> Checked(a * b, "mul")
      [] op = "neg" -> Checked(-a, "neg")
      [] op = "div" -> div(a, b)
      [] op = "rem" -> rem(a, b)
      [] op = "shl" -> shl(a, b)
      [] op = "shr" -> shr(a, b)

\* A scalar runtime value: its kind and an integer, 0 or 1 for a bool.
IntValue(n) == [kind |-> "i64", n |-> n]
BoolValue(p) == [kind |-> "bool", n |-> IF p THEN 1 ELSE 0]
Unit == [kind |-> "unit", n |-> 0]

IntOps == {"add", "sub", "mul", "neg", "div", "rem", "shl", "shr"}

-----------------------------------------------------------------------------
\* What the operators promise, stated from the arithmetic of the integers
\* and not from how they are computed.

Quotient(a, b, q) ==
    LET r == a - b * q
    IN  Magnitude(r) < Magnitude(b) /\ (r = 0 \/ (r < 0) = (a < 0))

Answers(op, a, b, n) ==
    CASE op = "add" -> n = a + b
      [] op = "sub" -> n = a - b
      [] op = "mul" -> n = a * b
      [] op = "neg" -> n + a = 0
      [] op = "div" -> b # 0 /\ Quotient(a, b, n)
      [] op = "rem" -> b # 0 /\ Magnitude(n) < Magnitude(b)
                             /\ (n = 0 \/ (n < 0) = (a < 0))
                             /\ (a - n) % Magnitude(b) = 0
      [] op = "shl" -> b \in 0 .. Bits - 1 /\ (n - a * 2 ^ b) % (2 ^ Bits) = 0
      [] op = "shr" -> b \in 0 .. Bits - 1 /\ n * 2 ^ b <= a /\ a < (n + 1) * 2 ^ b
=============================================================================
