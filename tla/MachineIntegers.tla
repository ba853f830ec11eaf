-------------------------- MODULE MachineIntegers --------------------------
(* Two's complement integers of a fixed width, as C and LLVM compute with. *)
EXTENDS Integers

CONSTANTS
    Bits,  \* the width of an int, 32 in the code
    Undef  \* what is in an int before anything is stored

ASSUME BitsAssumption == Bits \in Nat \ {0}

Wrapped(n) == ((n + 2^(Bits - 1)) % 2^Bits) - 2^(Bits - 1)

\* Division truncates towards 0; by 0, and where the quotient does not fit,
\* it is undefined.
Magnitude(n) == IF n < 0 THEN -n ELSE n
Quotient(l, r) ==
    LET q == Magnitude(l) \div Magnitude(r) IN IF (l < 0) = (r < 0) THEN q ELSE -q
HasQuotient(l, r) == r # 0 /\ Wrapped(Quotient(l, r)) = Quotient(l, r)
=============================================================================
