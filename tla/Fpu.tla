---------------------------------- MODULE Fpu ----------------------------------
(* The floating-point unit (rtl/core/astrarv32_cpu_alu_fpu.vhd, Zfinx), one  *)
(* operator per functional unit, for any number format: ExpBits exponent     *)
(* bits, ManBits mantissa bits and IntBits-bit integers (8, 23 and 32 in the *)
(* hardware). The constants 125, 126, 127 and 27 of the code become the      *)
(* expressions of these widths they stand for. A number is its three fields; *)
(* an answer is a value with the set of exception flags it raises.           *)
EXTENDS Integers

CONSTANTS ExpBits, ManBits, IntBits

Bias == 2^(ExpBits - 1) - 1
ExpOnes == 2^ExpBits - 1
Hidden == 2^ManBits
IntMin == 2^(IntBits - 1)

(* The widths have to relate as 8, 23 and 32 do: a mantissa keeps a guard, a *)
(* round and a sticky bit, an integer does not fit into a mantissa and the   *)
(* exponent reaches beyond the integers.                                     *)
ASSUME FpuAssumption == /\ {ExpBits, ManBits, IntBits} \subseteq Nat
                        /\ ManBits >= 3 /\ ExpBits >= 3
                        /\ IntBits > ManBits + 1 /\ Bias + IntBits + 1 < ExpOnes

Floats == [s : {0, 1}, e : 0..ExpOnes, m : 0..Hidden - 1]
Num(s, e, m) == [s |-> s, e |-> e, m |-> m]
Zero(s) == Num(s, 0, 0)
Inf(s) == Num(s, ExpOnes, 0)
MaxNum(s) == Num(s, ExpOnes - 1, Hidden - 1)
QNaN == Num(0, ExpOnes, Hidden \div 2)

Answer(v, flags) == [v |-> v, flags |-> flags]
Bit(b) == IF b THEN 1 ELSE 0

-----------------------------------------------------------------------------
(* Operand conditioning: subnormal operands lose their mantissa, but are     *)
(* still classified as what they are.                                        *)

op_data(x) == IF x.e = 0 THEN Zero(x.s) ELSE x

number_classifier(x) ==
  CASE x.e = 0 -> IF x.m = 0 THEN "zero" ELSE "denorm"
    [] x.e = ExpOnes -> IF x.m = 0 THEN "inf" ELSE IF x.m >= Hidden \div 2 THEN "qnan" ELSE "snan"
    [] OTHER -> "norm"

IsZero(x) == x.e = 0
IsInf(x) == number_classifier(x) = "inf"
IsNan(x) == number_classifier(x) \in {"snan", "qnan"}
IsSnan(x) == number_classifier(x) = "snan"

-----------------------------------------------------------------------------
(* Comparison. The raw words are compared by the data path of the ALU.       *)

Magnitude(x) == x.e * Hidden + x.m
comp_equal(a, b) == a = b \/ (IsZero(a) /\ IsZero(b))
comp_less(a, b) ==
  /\ ~(IsZero(a) /\ IsZero(b))
  /\ ~(IsInf(a) /\ IsInf(b) /\ a.s = b.s)
  /\ \/ a.s = 1 /\ b.s = 0
     \/ a.s = 0 /\ b.s = 0 /\ Magnitude(a) < Magnitude(b)
     \/ a.s = 1 /\ b.s = 1 /\ Magnitude(a) > Magnitude(b)

(* funct: 0 for FLE, 1 for FLT, 2 for FEQ. *)
float_comparison(funct, a, b) ==
  LET nan == IsNan(a) \/ IsNan(b) IN
  Answer(Bit(/\ ~nan
             /\ \/ funct \in {0, 1} /\ comp_less(a, b)
                \/ funct \in {0, 2} /\ comp_equal(a, b)),
         IF IF funct = 2 THEN IsSnan(a) \/ IsSnan(b) ELSE nan THEN {"NV"} ELSE {})

(* funct: 0 for FMIN, 1 for FMAX. *)
min_max_select(funct, a, b) ==
  LET second == IF IsZero(a) /\ IsZero(b) /\ a.s # b.s
                THEN IF a.s = 1 THEN funct = 1 ELSE funct = 0
                ELSE comp_less(a, b) <=> funct = 1
      choice == CASE IsNan(a) /\ IsNan(b) -> QNaN
                  [] IsNan(a) -> op_data(b)
                  [] IsNan(b) -> op_data(a)
                  [] OTHER -> IF second THEN op_data(b) ELSE op_data(a)
  IN Answer(choice, IF IsSnan(a) \/ IsSnan(b) THEN {"NV"} ELSE {})

(* funct: 0 for FSGNJ, 1 for FSGNJN, 2 for FSGNJX. The mantissa is kept.     *)
sign_injector(funct, a, b) ==
  Answer([a EXCEPT !.s = CASE funct = 0 -> b.s [] funct = 1 -> 1 - b.s
                           [] funct = 2 -> (a.s + b.s) % 2], {})

fu_classify(a) == Answer([s |-> IF IsNan(a) THEN 0 ELSE a.s, k |-> number_classifier(a)], {})

-----------------------------------------------------------------------------
(* Normalizing and rounding. r holds the exponent counter cnt, the mantissa  *)
(* register x, whose point stands left of its ManBits lowest bits, and the   *)
(* guard, round and sticky bits g, r and t.                                  *)

RoundingModes == 0..4   \* RNE, RTZ, RDN, RUP, RMM

(* Fault: a tie is rounded away from zero. *)
RoundUpTie(rm, sign, odd, g, r, t) ==
  \/ rm \in {0, 4} /\ g = 1
  \/ rm = 2 /\ sign = 1 /\ g + r + t > 0
  \/ rm = 3 /\ sign = 0 /\ g + r + t > 0

rounding_unit(rm, sign, odd, g, r, t) ==
  \/ rm = 0 /\ g = 1 /\ (r + t > 0 \/ odd)
  \/ rm = 2 /\ sign = 1 /\ g + r + t > 0
  \/ rm = 3 /\ sign = 0 /\ g + r + t > 0
  \/ rm = 4 /\ g = 1

(* The shift loop. It ends when one bit is left of the point, or when the    *)
(* counter leaves the exponent's range.                                      *)
RECURSIVE normalize(_)
normalize(n) ==
  CASE n.cnt \notin 0..ExpOnes -> n
    [] n.x >= 2 * Hidden ->
         normalize([cnt |-> n.cnt + 1, x |-> n.x \div 2, g |-> n.x % 2, r |-> n.g,
                    t |-> Bit(n.r + n.t > 0)])
    [] n.x < Hidden ->
         normalize([cnt |-> n.cnt - 1, x |-> 2 * n.x + n.g, g |-> n.r, r |-> n.t, t |-> n.t])
    [] OTHER -> n

(* in.class is the class the unit before it found for the result, if it is   *)
(* special.                                                                  *)
normalizer(rm, in) ==
  LET special == in.class \in {"nan", "inf", "zero"} \/ in.flags # {}
      cancelled == in.x = 0 /\ in.g + in.r + in.t = 0
      first == normalize([cnt |-> in.cnt, x |-> in.x, g |-> in.g, r |-> in.r, t |-> in.t])
      up == rounding_unit(rm, in.s, first.x % 2 = 1, first.g, first.r, first.t)
      last == normalize([first EXCEPT !.x = @ + Bit(up), !.g = 0, !.r = 0, !.t = 0])
      flags ==
        CASE special -> in.flags
          [] cancelled -> {}
          [] OTHER ->
               (IF first.g + first.r + first.t > 0 THEN {"NX"} ELSE {})
               \cup (CASE last.cnt <= 0 -> {"UF", "NX"}
                       [] last.cnt >= ExpOnes -> {"OF", "NX"}
                       [] OTHER -> {})
      largest == "OF" \in flags /\ (rm = 1 \/ (rm = 2 /\ in.s = 0) \/ (rm = 3 /\ in.s = 1))
  IN Answer(CASE in.class = "nan" -> QNaN
              [] in.class = "inf" \/ "OF" \in flags -> IF largest THEN MaxNum(in.s) ELSE Inf(in.s)
              [] in.class = "zero" \/ "UF" \in flags \/ cancelled -> Zero(in.s)
              [] OTHER -> Num(in.s, last.cnt, last.x - Hidden),
            flags)

-----------------------------------------------------------------------------
(* Integer to float. i is the register word; signed tells FCVT.S.W from      *)
(* FCVT.S.WU.                                                                *)

convert_i2f(rm, signed, i) ==
  LET negative == signed /\ i >= IntMin
      magnitude == IF negative THEN 2^IntBits - i ELSE i
  IN normalizer(rm, [s |-> Bit(negative), cnt |-> Bias, x |-> magnitude * Hidden,
                     g |-> 0, r |-> 0, t |-> 0,
                     class |-> IF i = 0 THEN "zero" ELSE "none", flags |-> {}])

(* Float to integer. Below one half, below one quarter and below that the    *)
(* mantissa register is refilled with the hidden bit; the bits that fall out *)
(* of it are gone. The loop moves n bits from the mantissa into the integer. *)
(* Fault: the bit that leaves the integer register is not watched.           *)
F2iShiftNoOver(e, m) ==
  CASE e < Bias - 2  -> [int |-> 0, mant |-> Hidden \div 8 + m \div 8, over |-> FALSE]
    [] e = Bias - 2  -> [int |-> 0, mant |-> Hidden \div 4 + m \div 4, over |-> FALSE]
    [] e = Bias - 1  -> [int |-> 0, mant |-> Hidden \div 2 + m \div 2, over |-> FALSE]
    [] e > Bias + IntBits + 1 -> [int |-> 0, mant |-> 0, over |-> TRUE]
    [] OTHER -> LET all == (Hidden + m) * 2^(e - Bias) IN
                [int |-> (all \div Hidden) % 2^IntBits, mant |-> all % Hidden, over |-> FALSE]

F2iShift(e, m) ==
  CASE e < Bias - 2  -> [int |-> 0, mant |-> Hidden \div 8 + m \div 8, over |-> FALSE]
    [] e = Bias - 2  -> [int |-> 0, mant |-> Hidden \div 4 + m \div 4, over |-> FALSE]
    [] e = Bias - 1  -> [int |-> 0, mant |-> Hidden \div 2 + m \div 2, over |-> FALSE]
    [] e > Bias + IntBits + 1 -> [int |-> 0, mant |-> 0, over |-> TRUE]
    [] OTHER -> LET all == (Hidden + m) * 2^(e - Bias) IN
                [int |-> (all \div Hidden) % 2^IntBits, mant |-> all % Hidden,
                 over |-> all \div Hidden >= 2^IntBits]

convert_f2i(rm, signed, x) ==
  LET a == op_data(x)
      sh == F2iShift(a.e, a.m)
      g == sh.mant \div (Hidden \div 2)
      r == (sh.mant \div (Hidden \div 4)) % 2
      t == Bit(sh.mant % (Hidden \div 4) > 0)
      rounded == sh.int + Bit(rounding_unit(rm, a.s, sh.int % 2 = 1, g, r, t))
      tmp == rounded % 2^IntBits
      over == sh.over \/ rounded >= 2^IntBits \/ (signed /\ sh.int >= IntMin)
      vanished == a.e < Bias /\ tmp % 2 = 0
      inexact == IF g + r + t > 0 THEN {"NX"} ELSE {}
      top == IF signed THEN IntMin - 1 ELSE 2^IntBits - 1
      bottom == IF signed THEN IntMin ELSE 0
  IN CASE IsNan(a) -> Answer(top, {"NV"})
       [] IsInf(a) -> Answer(IF a.s = 0 THEN top ELSE bottom, {"NV"})
       [] IsZero(a) -> Answer(0, {})
       [] over /\ (signed \/ a.s = 0) -> Answer(IF a.s = 0 THEN top ELSE bottom, {"NV"})
       [] vanished -> Answer(0, inexact \cup {"NX"})
       [] ~signed /\ a.s = 1 -> Answer(0, {"NV"})
       [] OTHER -> Answer(IF a.s = 1 THEN (2^IntBits - tmp) % 2^IntBits ELSE tmp, inexact)

-----------------------------------------------------------------------------
(* Multiplication. *)

multiplier_core(rm, a, b) ==
  LET s == (a.s + b.s) % 2
      zero == IsZero(a) \/ IsZero(b)
      inf == IsInf(a) \/ IsInf(b)
      nan == IsNan(a) \/ IsNan(b)
      exp_res == IF zero THEN 0 ELSE a.e + b.e - Bias
      product == (Hidden + a.m) * (Hidden + b.m)
      class == CASE nan \/ (inf /\ zero) -> "nan" [] inf -> "inf" [] zero -> "zero" [] OTHER -> "norm"
      flags == (CASE inf \/ nan -> {} [] exp_res < 0 -> {"UF", "NX"} [] exp_res > ExpOnes -> {"OF", "NX"}
                  [] OTHER -> {})
               \cup (IF IsSnan(a) \/ IsSnan(b) \/ (inf /\ zero /\ ~nan) THEN {"NV"} ELSE {})
  IN normalizer(rm, [s |-> s, cnt |-> exp_res, x |-> product \div Hidden,
                     g |-> (product \div (Hidden \div 2)) % 2,
                     r |-> (product \div (Hidden \div 4)) % 2,
                     t |-> Bit(product % (Hidden \div 4) > 0),
                     class |-> class, flags |-> flags])

-----------------------------------------------------------------------------
(* Addition and subtraction: sub is 1 for FSUB. *)

(* The mantissa of the smaller operand, shifted right d times, with its      *)
(* guard, round and sticky bits.                                             *)
(* Fault: the bits shifted out do not set the sticky bit.                    *)
AlignedNoSticky(man, d) == IF d > ManBits + 4 THEN 0 ELSE (8 * man) \div 2^d

Aligned(man, d) ==
  IF d > ManBits + 4 THEN Bit(man # 0)
  ELSE LET wide == (8 * man) \div 2^d
       IN IF (8 * man) % 2^d > 0 /\ wide % 2 = 0 THEN wide + 1 ELSE wide

adder_subtractor_class(sub, a, b) ==
  LET bs == (b.s + sub) % 2 IN
  CASE IsNan(a) \/ IsNan(b) \/ (IsInf(a) /\ IsInf(b) /\ a.s # bs) -> [k |-> "nan", s |-> 0]
    [] IsInf(a) -> [k |-> "inf", s |-> a.s]
    [] IsInf(b) -> [k |-> "inf", s |-> bs]
    [] IsZero(a) /\ IsZero(b) -> [k |-> "zero", s |-> IF a.s = 1 /\ bs = 1 THEN 1 ELSE 0]
    [] OTHER -> [k |-> "norm", s |-> 0]

adder_subtractor_core(rm, sub, a, b) ==
  LET swap == a.e < b.e
      small == IF swap THEN a ELSE b
      large == IF swap THEN b ELSE a
      aligned == Aligned(IF IsZero(a) \/ IsZero(b) THEN 0 ELSE Hidden + small.m,
                         large.e - small.e)
      wide == 8 * (Hidden + large.m)
      man_comp == aligned \div 8 <= Hidden + large.m
      effective == (sub + a.s + b.s) % 2
      sum == CASE effective = 0 -> wide + aligned
               [] effective = 1 -> IF man_comp THEN wide - aligned ELSE aligned - wide
      sign == CASE effective = 0 -> a.s
                [] effective = 1 /\ sum = 0 -> Bit(rm = 2)
                [] effective = 1 /\ sum # 0 ->
                     (a.s + (IF a.e = b.e THEN Bit(~man_comp) ELSE Bit(swap))) % 2
      class == adder_subtractor_class(sub, a, b)
  IN normalizer(rm, [s |-> CASE class.k = "zero" -> class.s [] OTHER -> sign,
                     cnt |-> large.e, x |-> sum \div 8,
                     g |-> (sum \div 4) % 2, r |-> (sum \div 2) % 2, t |-> sum % 2,
                     class |-> class.k,
                     flags |-> IF \/ IsSnan(a) \/ IsSnan(b)
                                  \/ IsInf(a) /\ IsInf(b) /\ effective = 1
                               THEN {"NV"} ELSE {}])

=============================================================================
