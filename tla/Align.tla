------------------------------- MODULE Align -------------------------------
(***************************************************************************)
(* The alignment macros of kernel/generic/include/align.h, evaluated on    *)
(* an unsigned type of Width bits (size_t, uintptr_t) whose arithmetic     *)
(* wraps modulo 2^Width, and checked against reference definitions of the *)
(* nearest lower and higher multiple over every argument of that width.    *)
(* The state is the pair of arguments a caller passes; each step is a new *)
(* call, so every (s, a) is an initial state and the invariants range     *)
(* over all of them.                                                       *)
(***************************************************************************)
EXTENDS Integers, Bitwise

CONSTANT Width

ASSUME Width \in 1..8

Modulus == 2^Width

\* The values of typeof(s).
Word == 0..Modulus - 1

\* "a: Size of alignment, must be a power of 2" and representable in typeof(s).
Alignments == {2^k : k \in 0..Width - 1}

\* Unsigned subtraction and bitwise complement in Width bits.
Minus1(x) == (x + Modulus - 1) % Modulus

Complement(x) == (Modulus - 1) - x

\* The conversion (typeof(s))(a).
TypeofS(x) == x % Modulus

\* Mutant: the mask drops the "- 1" and clears bit a instead of the bits below it.
ALIGN_DOWN_MaskA(s, a) == s & Complement(TypeofS(a))

ALIGN_DOWN(s, a) == s & Complement(Minus1(TypeofS(a)))

\* Mutant: the rounding addend is a instead of a - 1.
ALIGN_UP_PlusA(s, a) == ((s + a) % Modulus) & Complement(Minus1(TypeofS(a)))

\* (s) + ((a) - 1) is computed in typeof(s) and wraps past the largest word.
ALIGN_UP(s, a) == ((s + (a - 1)) % Modulus) & Complement(Minus1(TypeofS(a)))

\* Mutant: tests the bit a instead of the bits below it.
IS_ALIGNED_MaskA(s, a) == (s & a) = 0

IS_ALIGNED(s, a) == ALIGN_UP(s, a) = s

VARIABLES s, a

vars == <<s, a>>

Init == s \in Word /\ a \in Alignments

\* A caller evaluates the macros on new arguments.
Call == \E s2 \in Word, a2 \in Alignments : s' = s2 /\ a' = a2

Next == Call

Spec == Init /\ [][Next]_vars

-----------------------------------------------------------------------------
(* Reference definitions.                                                  *)

MultiplesOf(x) == {m \in Word : m % x = 0}

Floor(v, x) == CHOOSE m \in MultiplesOf(x) :
                  m <= v /\ \A n \in MultiplesOf(x) : n <= v => n <= m

HasCeiling(v, x) == \E m \in MultiplesOf(x) : m >= v

Ceiling(v, x) == CHOOSE m \in MultiplesOf(x) :
                    m >= v /\ \A n \in MultiplesOf(x) : n >= v => m <= n

-----------------------------------------------------------------------------
(* Properties.                                                             *)

\* ALIGN_DOWN(s, a) is the greatest multiple of a not above s, for every s
\* of the type, the "Align to the nearest lower address" of its comment.
AlignDownIsFloor == ALIGN_DOWN(s, a) = Floor(s, a)

\* ALIGN_UP(s, a) is the least multiple of a not below s whenever the type
\* can hold one ("Align to the nearest higher address").
AlignUpIsCeiling == HasCeiling(s, a) => ALIGN_UP(s, a) = Ceiling(s, a)

\* IS_ALIGNED(s, a) holds exactly for the multiples of a, including the
\* arguments for which the ALIGN_UP inside it wraps to 0.
IsAlignedExact == IS_ALIGNED(s, a) <=> s % a = 0

=============================================================================
