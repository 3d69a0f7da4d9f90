------------------------------- MODULE IeeeFloat -------------------------------
(* The arithmetic of C's float as the compiler's software library computes   *)
(* it: IEEE 754 with subnormal numbers, computed exactly and rounded once.   *)
(* It is not part of the repository, whose floating-point test compares the  *)
(* hardware with it. NaN results are canonical. Exact values are multiples   *)
(* sig * 2^exp of the smallest subnormal number.                             *)
EXTENDS Fpu

Sig(x) == IF x.e = 0 THEN x.m ELSE Hidden + x.m
Exponent(x) == IF x.e = 0 THEN 0 ELSE x.e - 1
Negated(x) == [x EXCEPT !.s = 1 - x.s]
TopBit(n) == CHOOSE k \in 0..24 : 2^k <= n /\ n < 2^(k + 1)
UnitExponent == Bias - 1 + ManBits   \* 1.0 is 2^UnitExponent

(* An exact value cut after its bit number -d, and what is cut off.          *)
Whole(sig, d) == IF d > 0 THEN sig \div 2^d ELSE sig * 2^(-d)
Rest(sig, d) == IF d > 0 THEN sig % 2^d ELSE 0
Roundup(rm, s, sig, d) ==
  /\ Rest(sig, d) > 0
  /\ \/ rm = 0 /\ 2 * Rest(sig, d) > 2^d
     \/ rm = 0 /\ 2 * Rest(sig, d) = 2^d /\ Whole(sig, d) % 2 = 1
     \/ rm = 2 /\ s = 1
     \/ rm = 3 /\ s = 0
     \/ rm = 4 /\ 2 * Rest(sig, d) >= 2^d

(* The bit position a value of this size is rounded at.                      *)
Quantum(sig, exp) == IF TopBit(sig) + exp > ManBits THEN TopBit(sig) + exp - ManBits ELSE 0

RoundTo(rm, s, sig, exp) ==
  LET q == Quantum(sig, exp)
      m == Whole(sig, q - exp) + Bit(Roundup(rm, s, sig, q - exp))
      e == IF m < Hidden THEN 0 ELSE IF m < 2 * Hidden THEN q + 1 ELSE q + 2
  IN IF e >= ExpOnes
     THEN IF rm = 1 \/ (rm = 2 /\ s = 0) \/ (rm = 3 /\ s = 1) THEN MaxNum(s) ELSE Inf(s)
     ELSE Num(s, e, m % Hidden)

Plus(rm, a, b) ==
  LET low == IF Exponent(a) < Exponent(b) THEN Exponent(a) ELSE Exponent(b)
      wa == Sig(a) * 2^(Exponent(a) - low) * (1 - 2 * a.s)
      wb == Sig(b) * 2^(Exponent(b) - low) * (1 - 2 * b.s)
      sum == wa + wb
  IN CASE IsNan(a) \/ IsNan(b) \/ (IsInf(a) /\ IsInf(b) /\ a.s # b.s) -> QNaN
       [] IsInf(a) -> a
       [] IsInf(b) /\ ~IsInf(a) -> b
       [] OTHER -> IF sum = 0 THEN Zero(IF a.s = b.s THEN a.s ELSE Bit(rm = 2))
                   ELSE RoundTo(rm, Bit(sum < 0), IF sum < 0 THEN -sum ELSE sum, low)
Minus(rm, a, b) == Plus(rm, a, Negated(b))

Times(rm, a, b) ==
  LET s == (a.s + b.s) % 2
      zero == Sig(a) = 0 \/ Sig(b) = 0
      inf == IsInf(a) \/ IsInf(b)
  IN CASE IsNan(a) \/ IsNan(b) \/ (inf /\ zero) -> QNaN
       [] inf /\ ~zero -> Inf(s)
       [] OTHER -> IF zero THEN Zero(s)
                   ELSE RoundTo(rm, s, Sig(a) * Sig(b), Exponent(a) + Exponent(b) - UnitExponent)

FromInt(rm, s, n) == IF n = 0 THEN Zero(0) ELSE RoundTo(rm, s, n, UnitExponent)

(* The magnitude of the integer next to a finite number. *)
ToInt(rm, x) ==
  LET d == UnitExponent - Exponent(x)
  IN Whole(Sig(x), d) + Bit(Roundup(rm, x.s, Sig(x), d))

Ordered(a, b) == ~IsNan(a) /\ ~IsNan(b)
Less(a, b) ==
  /\ Ordered(a, b)
  /\ \/ a.s = 1 /\ b.s = 0 /\ Sig(a) + Sig(b) > 0
     \/ a.s = 0 /\ b.s = 0 /\ Magnitude(a) < Magnitude(b)
     \/ a.s = 1 /\ b.s = 1 /\ Magnitude(a) > Magnitude(b)

=============================================================================
