------------------------------- MODULE FloatCheck ------------------------------
(* The floating-point test program (sw/example/floating_point_test): every   *)
(* instruction of the unit is executed on test vectors, and its answer is    *)
(* compared with an emulation in software. Conversions the C language leaves *)
(* undefined give any value, so an emulation is the set of its values.       *)
(* A test runs Cases times; of the errors it is remembered that there were   *)
(* some. Instructions carry their rounding mode, round-to-nearest (0).       *)
EXTENDS IeeeFloat, SequencesExt

CONSTANTS Enabled,        \* the groups of tests compiled in, RUN_*_TESTS
          VectorsA, VectorsB,  \* the words the random numbers are drawn from
          TimedVectors, TimedInts,  \* and those of the timing tests
          Cases           \* NUM_TEST_CASES

-----------------------------------------------------------------------------
(* Instructions, by inline assembly. *)

riscv_intrinsic_fadds(a, b) == adder_subtractor_core(0, 0, a, b).v
riscv_intrinsic_fsubs(a, b) == adder_subtractor_core(0, 1, a, b).v
riscv_intrinsic_fmuls(a, b) == multiplier_core(0, a, b).v
riscv_intrinsic_fmins(a, b) == min_max_select(0, a, b).v
riscv_intrinsic_fmaxs(a, b) == min_max_select(1, a, b).v
riscv_intrinsic_fcvt_wus(a) == convert_f2i(0, FALSE, a).v
riscv_intrinsic_fcvt_ws(a) == convert_f2i(0, TRUE, a).v
riscv_intrinsic_fcvt_swu(i) == convert_i2f(0, FALSE, i).v
riscv_intrinsic_fcvt_sw(i) == convert_i2f(0, TRUE, i).v
riscv_intrinsic_feqs(a, b) == float_comparison(2, a, b).v
riscv_intrinsic_flts(a, b) == float_comparison(1, a, b).v
riscv_intrinsic_fles(a, b) == float_comparison(0, a, b).v
riscv_intrinsic_fsgnjs(a, b) == sign_injector(0, a, b).v
riscv_intrinsic_fsgnjns(a, b) == sign_injector(1, a, b).v
riscv_intrinsic_fsgnjxs(a, b) == sign_injector(2, a, b).v
riscv_intrinsic_fclasss(a) == fu_classify(a).v

(* These the unit does not decode: nobody answers, and the CPU's monitor     *)
(* turns the silence into an illegal instruction exception.                  *)
riscv_intrinsic_fdivs == "I_ILLEGAL"
riscv_intrinsic_fsqrts == "I_ILLEGAL"
riscv_intrinsic_fmadds == "I_ILLEGAL"
riscv_intrinsic_fmsubs == "I_ILLEGAL"
riscv_intrinsic_fnmsubs == "I_ILLEGAL"
riscv_intrinsic_fnmadds == "I_ILLEGAL"

-----------------------------------------------------------------------------
(* Emulation. *)

subnormal_flush(x) == IF number_classifier(x) = "denorm" THEN Zero(x.s) ELSE x

riscv_emulate_fadds(a, b) == {subnormal_flush(Plus(0, subnormal_flush(a), subnormal_flush(b)))}
riscv_emulate_fsubs(a, b) == {subnormal_flush(Minus(0, subnormal_flush(a), subnormal_flush(b)))}
riscv_emulate_fmuls(a, b) == {subnormal_flush(Times(0, subnormal_flush(a), subnormal_flush(b)))}

(* What fmin and fmax get to see, and the cases settled before them.         *)
Selected(a, b, zero, first) ==
  CASE IsNan(a) /\ IsNan(b) -> QNaN
    [] IsNan(a) /\ ~IsNan(b) -> b
    [] ~IsNan(a) /\ IsNan(b) -> a
    [] Ordered(a, b) -> IF {a, b} = {Zero(0), Zero(1)} THEN zero ELSE IF first THEN a ELSE b
riscv_emulate_fmins(a, b) ==
  LET x == subnormal_flush(a)  y == subnormal_flush(b)
  IN {Selected(x, y, Zero(1), Less(x, y))}
riscv_emulate_fmaxs(a, b) ==
  LET x == subnormal_flush(a)  y == subnormal_flush(b)
  IN {Selected(x, y, Zero(0), Less(y, x))}

(* (uint32_t)rint(x) and (int32_t)rint(x). *)
riscv_emulate_fcvt_wus(a) ==
  LET x == subnormal_flush(a)  n == ToInt(0, x) IN
  IF x.e = ExpOnes \/ n >= 2^IntBits \/ (x.s = 1 /\ n > 0) THEN 0..2^IntBits - 1 ELSE {n}
riscv_emulate_fcvt_ws(a) ==
  LET x == subnormal_flush(a)  n == ToInt(0, x) IN
  IF x.e = ExpOnes \/ n > IntMin \/ (x.s = 0 /\ n = IntMin) THEN 0..2^IntBits - 1
  ELSE {IF x.s = 1 THEN (2^IntBits - n) % 2^IntBits ELSE n}
riscv_emulate_fcvt_swu(i) == {FromInt(0, 0, i)}
riscv_emulate_fcvt_sw(i) ==
  {IF i >= IntMin THEN FromInt(0, 1, 2^IntBits - i) ELSE FromInt(0, 0, i)}

riscv_emulate_feqs(a, b) ==
  LET x == subnormal_flush(a)  y == subnormal_flush(b)
  IN {Bit(Ordered(x, y) /\ ~Less(x, y) /\ ~Less(y, x))}
riscv_emulate_flts(a, b) == {Bit(Less(subnormal_flush(a), subnormal_flush(b)))}
riscv_emulate_fles(a, b) ==
  LET x == subnormal_flush(a)  y == subnormal_flush(b)
  IN {Bit(Ordered(x, y) /\ ~Less(y, x))}

(* A sign is set by negating the number if it has the other one. *)
WithSign(x, negative) == IF (x.s = 1) = negative THEN x ELSE Negated(x)
riscv_emulate_fsgnjs(a, b) == {WithSign(a, b.s = 1)}
riscv_emulate_fsgnjns(a, b) == {WithSign(a, b.s = 0)}
riscv_emulate_fsgnjxs(a, b) == {WithSign(a, a.s # b.s)}

riscv_emulate_fclasss(a) == {[s |-> IF IsNan(a) THEN 0 ELSE a.s, k |-> number_classifier(a)]}

-----------------------------------------------------------------------------
(* The exception flags and rounding mode registers, and the random words.    *)

csr_write(c, csr, v) ==
  CASE csr = "fflags" -> [c EXCEPT !.fflags = v % 32]
    [] csr = "frm" -> [c EXCEPT !.frm = v % 8]
    [] csr = "fcsr" -> [frm |-> (v \div 32) % 8, fflags |-> v % 32]
csr_read(c, csr) ==
  CASE csr = "fflags" -> c.fflags [] csr = "frm" -> c.frm [] csr = "fcsr" -> 32 * c.frm + c.fflags
Csr0 == [frm |-> 0, fflags |-> 0]

get_test_vector(words) == words \cup {Zero(0), Zero(1), Inf(0), Inf(1)}
FLOAT32_SNAN == Num(0, ExpOnes, Hidden \div 4)
One == Num(0, Bias, 0)

-----------------------------------------------------------------------------
(* The groups of tests in the order of the program: what a case of test t    *)
(* with operands a and b gets from the hardware and from the emulation.      *)

Result(hw, sw) == [hw |-> hw, sw |-> sw]

CsrTests(t, v) == Result(csr_read(csr_write(Csr0, t, v), t),
                         {v % (CASE t = "fflags" -> 32 [] t = "frm" -> 8 [] t = "fcsr" -> 256)})
ExceptionTests(b) == Result("NV" \in adder_subtractor_core(0, 0, FLOAT32_SNAN, b).flags, {TRUE})
ConversionTests(t, a) ==
  CASE t = "fcvt.s.wu" -> Result(riscv_intrinsic_fcvt_swu(a), riscv_emulate_fcvt_swu(a))
    [] t = "fcvt.s.w" -> Result(riscv_intrinsic_fcvt_sw(a), riscv_emulate_fcvt_sw(a))
    [] t = "fcvt.wu.s" -> Result(riscv_intrinsic_fcvt_wus(a), riscv_emulate_fcvt_wus(a))
    [] t = "fcvt.w.s" -> Result(riscv_intrinsic_fcvt_ws(a), riscv_emulate_fcvt_ws(a))
AddSubTests(t, a, b) ==
  CASE t = "fadd" -> Result(riscv_intrinsic_fadds(a, b), riscv_emulate_fadds(a, b))
    [] t = "fsub" -> Result(riscv_intrinsic_fsubs(a, b), riscv_emulate_fsubs(a, b))
MulTests(a, b) == Result(riscv_intrinsic_fmuls(a, b), riscv_emulate_fmuls(a, b))
MinMaxTests(t, a, b) ==
  CASE t = "fmin" -> Result(riscv_intrinsic_fmins(a, b), riscv_emulate_fmins(a, b))
    [] t = "fmax" -> Result(riscv_intrinsic_fmaxs(a, b), riscv_emulate_fmaxs(a, b))
CompareTests(t, a, b) ==
  CASE t = "feq" -> Result(riscv_intrinsic_feqs(a, b), riscv_emulate_feqs(a, b))
    [] t = "flt" -> Result(riscv_intrinsic_flts(a, b), riscv_emulate_flts(a, b))
    [] t = "fle" -> Result(riscv_intrinsic_fles(a, b), riscv_emulate_fles(a, b))
SignInjectionTests(t, a, b) ==
  CASE t = "fsgnj" -> Result(riscv_intrinsic_fsgnjs(a, b), riscv_emulate_fsgnjs(a, b))
    [] t = "fsgnjn" -> Result(riscv_intrinsic_fsgnjns(a, b), riscv_emulate_fsgnjns(a, b))
    [] t = "fsgnjx" -> Result(riscv_intrinsic_fsgnjxs(a, b), riscv_emulate_fsgnjxs(a, b))
ClassifyTests(a) == Result(riscv_intrinsic_fclasss(a), riscv_emulate_fclasss(a))

(* Instructions that are not available have to raise the exception. The last *)
(* of these tests says FNMSUB and executes FNMADD a second time.             *)
UnavailableTests(t) ==
  Result(CASE t = "fdiv" -> riscv_intrinsic_fdivs [] t = "fsqrt" -> riscv_intrinsic_fsqrts
           [] t = "fmadd" -> riscv_intrinsic_fmadds [] t = "fmsub" -> riscv_intrinsic_fmsubs
           [] t = "fnmsub" -> riscv_intrinsic_fnmadds [] t = "fnmadd" -> riscv_intrinsic_fnmadds,
         {"I_ILLEGAL"})

(* Numbers on which an iterative loop of the unit would not end: the test    *)
(* asks whether there is an answer before the CPU's monitor gives up.        *)
Answers(v, values) == Result(v \in values, {TRUE})
Powers == {Num(0, e, 0) : e \in 1..ExpOnes - 1}
CornerCancel(a, b) == Answers(riscv_intrinsic_fadds(a, b), Floats)
CornerConversions(t, a) ==
  Answers(IF t = "corner fcvt.wu.s" THEN riscv_intrinsic_fcvt_wus(a) ELSE riscv_intrinsic_fcvt_ws(a),
          0..2^IntBits - 1)
CornerExponents(t, a, b) ==
  Answers(IF t = "corner fadd" THEN riscv_intrinsic_fadds(a, b) ELSE riscv_intrinsic_fsubs(a, b),
          Floats)

(* Execution times: only the results of both sides are compared here. *)
TimeConversions(t, a) ==
  IF t = "time fcvt.s.w" THEN Result(riscv_intrinsic_fcvt_sw(a), riscv_emulate_fcvt_sw(a))
  ELSE Result(riscv_intrinsic_fcvt_ws(a), riscv_emulate_fcvt_ws(a))
TimeArithmetic(t, a, b) ==
  CASE t = "time fadd" -> AddSubTests("fadd", a, b)
    [] t = "time fsub" -> AddSubTests("fsub", a, b)
    [] t = "time fmul" -> MulTests(a, b)
TimeOthers(t, a, b) ==
  CASE t = "time fmax" -> MinMaxTests("fmax", a, b)
    [] t = "time fle" -> CompareTests("fle", a, b)
    [] t = "time fsgnjx" -> SignInjectionTests("fsgnjx", a, b)

Groups ==
  <<[flag |-> "CSR", tests |-> <<"fflags", "frm", "fcsr">>],
    [flag |-> "EXC", tests |-> <<"nv">>],
    [flag |-> "CONV", tests |-> <<"fcvt.s.wu", "fcvt.s.w", "fcvt.wu.s", "fcvt.w.s">>],
    [flag |-> "ADDSUB", tests |-> <<"fadd", "fsub">>],
    [flag |-> "MUL", tests |-> <<"fmul">>],
    [flag |-> "MINMAX", tests |-> <<"fmin", "fmax">>],
    [flag |-> "COMPARE", tests |-> <<"feq", "flt", "fle">>],
    [flag |-> "SGNINJ", tests |-> <<"fsgnj", "fsgnjn", "fsgnjx">>],
    [flag |-> "CLASSIFY", tests |-> <<"fclass">>],
    [flag |-> "CORNER", tests |-> <<"corner cancel", "corner fcvt.wu.s", "corner fcvt.w.s",
                                    "corner fadd", "corner fsub">>],
    [flag |-> "UNAVAIL", tests |-> <<"fdiv", "fsqrt", "fmadd", "fmsub", "fnmsub", "fnmadd">>],
    [flag |-> "TIMING", tests |-> <<"time fcvt.s.w", "time fcvt.w.s", "time fadd", "time fsub",
                                    "time fmul", "time fmax", "time fle", "time fsgnjx">>]>>
Plan == FoldLeft(LAMBDA p, g : IF g.flag \in Enabled THEN p \o g.tests ELSE p, <<>>, Groups)

Operands(t) ==
  LET floats == get_test_vector(VectorsA)  others == get_test_vector(VectorsB)
  IN CASE t \in {"fflags", "frm", "fcsr"} -> (0..255) \X {0}
       [] t = "nv" -> {FLOAT32_SNAN} \X others
       [] t \in {"fcvt.s.wu", "fcvt.s.w"} -> (0..2^IntBits - 1) \X {0}
       [] t \in {"fcvt.wu.s", "fcvt.w.s", "fclass"} -> floats \X {0}
       [] t \in {"fdiv", "fsqrt", "fmadd", "fmsub", "fnmsub", "fnmadd"} -> {0} \X {0}
       [] t = "corner cancel" -> {One} \X {Negated(One)}
       [] t \in {"corner fcvt.wu.s", "corner fcvt.w.s"} -> Powers \X {0}
       [] t \in {"corner fadd", "corner fsub"} ->
            {Num(0, ExpOnes - 1, 0)} \X (Powers \ {Num(0, ExpOnes - 1, 0)})
       [] t = "time fcvt.s.w" -> TimedInts \X {0}
       [] t = "time fcvt.w.s" -> get_test_vector(TimedVectors) \X {0}
       [] t \in {"time fadd", "time fsub", "time fmul", "time fmax", "time fle", "time fsgnjx"} -> get_test_vector(TimedVectors) \X get_test_vector(TimedVectors)
       [] OTHER -> floats \X others

Run(t, a, b) ==
  CASE t \in {"fflags", "frm", "fcsr"} -> CsrTests(t, a)
    [] t = "nv" -> ExceptionTests(b)
    [] t \in {"fcvt.s.wu", "fcvt.s.w", "fcvt.wu.s", "fcvt.w.s"} -> ConversionTests(t, a)
    [] t \in {"fadd", "fsub"} -> AddSubTests(t, a, b)
    [] t = "fmul" -> MulTests(a, b)
    [] t \in {"fmin", "fmax"} -> MinMaxTests(t, a, b)
    [] t \in {"feq", "flt", "fle"} -> CompareTests(t, a, b)
    [] t \in {"fsgnj", "fsgnjn", "fsgnjx"} -> SignInjectionTests(t, a, b)
    [] t = "fclass" -> ClassifyTests(a)
    [] t \in {"fdiv", "fsqrt", "fmadd", "fmsub", "fnmsub", "fnmadd"} -> UnavailableTests(t)
    [] t = "corner cancel" -> CornerCancel(a, b)
    [] t \in {"corner fcvt.wu.s", "corner fcvt.w.s"} -> CornerConversions(t, a)
    [] t \in {"corner fadd", "corner fsub"} -> CornerExponents(t, a, b)
    [] t \in {"time fcvt.s.w", "time fcvt.w.s"} -> TimeConversions(t, a)
    [] t \in {"time fadd", "time fsub", "time fmul"} -> TimeArithmetic(t, a, b)
    [] t \in {"time fmax", "time fle", "time fsgnjx"} -> TimeOthers(t, a, b)

-----------------------------------------------------------------------------
VARIABLES test,           \* number of the test in the plan
          i,              \* its cases done
          case,           \* operands and results of the last case
          err_cnt, err_cnt_total,
          verdict
floatVars == <<test, i, case, err_cnt, err_cnt_total, verdict>>

None == [t |-> "none"]
FloatInit == test = 1 /\ i = 0 /\ case = None /\ err_cnt = 0 /\ err_cnt_total = 0 /\ verdict = "none"

verify_result(ref, res) == Bit(ref # res)
Capped(n) == IF n > 1 THEN 1 ELSE n

(* One case: draw the operands, execute, emulate, compare. *)
Case ==
  /\ test <= Len(Plan) /\ i < Cases
  /\ i' = i + 1
  /\ \E op \in Operands(Plan[test]) :
       LET r == Run(Plan[test], op[1], op[2]) IN
       \E sw \in r.sw :
         /\ case' = [t |-> Plan[test], a |-> op[1], b |-> op[2], hw |-> r.hw, sw |-> sw]
         /\ err_cnt' = Capped(err_cnt + verify_result(sw, r.hw))
  /\ UNCHANGED <<test, err_cnt_total, verdict>>

print_report ==
  /\ test <= Len(Plan) /\ i = Cases
  /\ test' = test + 1 /\ i' = 0 /\ case' = None
  /\ err_cnt' = 0 /\ err_cnt_total' = Capped(err_cnt_total + err_cnt)
  /\ UNCHANGED verdict

Verdict ==
  /\ test > Len(Plan) /\ verdict = "none"
  /\ verdict' = IF err_cnt_total = 0 THEN "successful" ELSE "FAILED"
  /\ UNCHANGED <<test, i, case, err_cnt, err_cnt_total>>

FloatNext == Case \/ print_report \/ Verdict

-----------------------------------------------------------------------------
(* C leaves the conversion of a number beyond the integers undefined. *)
ToInteger == {"fcvt.wu.s", "fcvt.w.s", "time fcvt.w.s"}
Undefined == case.t \in ToInteger /\ Cardinality(Run(case.t, case.a, 0).sw) > 1

(* What the test program is there to show: every instruction of the unit     *)
(* gives what its emulation gives, rounded to nearest, whatever the operands.*)
(* It does not hold of the conversion to an integer (f2i, exponent 126).     *)
HardwareIsEmulation == case # None /\ ~Undefined => case.hw = case.sw

(* Operands for which that is not so. The number next above one half: its    *)
(* last bit falls out of the mantissa register and leaves a tie. A product   *)
(* below the smallest normal number, which may be flushed before it is       *)
(* rounded up to it. A sum of two zeros of different sign, rounded down.     *)
AboveHalf(x) == x.e = Bias - 1 /\ x.m = 1
Tiny(a, b) == LET d == UnitExponent - Exponent(a) - Exponent(b)
              IN ~IsZero(a) /\ ~IsZero(b) /\ d > 0 /\ Sig(a) * Sig(b) < Hidden * 2^d
ZeroDown(rm, a, b) == rm = 2 /\ IsZero(subnormal_flush(a)) /\ IsZero(subnormal_flush(b)) /\ a.s # b.s

(* The hardware gives what the emulation gives, rounded to nearest. Nothing  *)
(* is said of the number next above one half converted to an integer, and of *)
(* tiny products.                                                            *)
Agree ==
  /\ ~(case.t \in ToInteger /\ AboveHalf(case.a))
  /\ ~(case.t \in {"fmul", "time fmul"} /\ Tiny(case.a, case.b))
  => HardwareIsEmulation

(* The other rounding modes, which the program never selects: adding,        *)
(* multiplying and converting gives the exact value rounded in the mode's    *)
(* direction. Nothing is said of tiny products, and of zeros of different    *)
(* sign added when rounding down.                                            *)
ExactSum(rm, x, y) == subnormal_flush(Plus(rm, subnormal_flush(x), subnormal_flush(y)))
Directed ==
  /\ case.t \in {"fadd", "fsub"} =>
       LET sub == Bit(case.t = "fsub")
           y == IF sub = 1 THEN Negated(case.b) ELSE case.b
       IN \A rm \in 1..4 : ~ZeroDown(rm, case.a, y) =>
            adder_subtractor_core(rm, sub, case.a, case.b).v = ExactSum(rm, case.a, y)
  /\ case.t = "fmul" /\ ~Tiny(case.a, case.b) =>
       \A rm \in 1..4 :
         multiplier_core(rm, case.a, case.b).v =
           subnormal_flush(Times(rm, subnormal_flush(case.a), subnormal_flush(case.b)))
  /\ case.t = "fcvt.s.w" =>
       \A rm \in 1..4 : convert_i2f(rm, TRUE, case.a).v =
         (IF case.a >= IntMin THEN FromInt(rm, 1, 2^IntBits - case.a) ELSE FromInt(rm, 0, case.a))
  /\ case.t = "fcvt.w.s" /\ case.a.e # ExpOnes =>
       \A rm \in 1..4 :
         LET x == subnormal_flush(case.a)  n == ToInt(rm, x)
             least == IF x.s = 1 THEN IntMin ELSE IntMin - 1
             bounded == IF n > least THEN least ELSE n
         IN convert_f2i(rm, TRUE, case.a).v =
              IF x.s = 1 THEN (2^IntBits - bounded) % 2^IntBits ELSE bounded

(* The exception flags say of an answer what IEEE 754 has them say: invalid, *)
(* overflow, underflow and inexact. A subnormal result counts as an           *)
(* underflow, and a flushed one as inexact.                                   *)
Flags ==
  /\ case.t \in {"fadd", "fsub"} =>
       LET sub == Bit(case.t = "fsub")
           x == subnormal_flush(case.a)
           y == subnormal_flush(IF sub = 1 THEN Negated(case.b) ELSE case.b)
           exact == Plus(0, x, y)
           got == adder_subtractor_core(0, sub, case.a, case.b).flags
       IN /\ "NV" \in got <=> IsSnan(x) \/ IsSnan(y) \/ (IsNan(exact) /\ Ordered(x, y))
          /\ "OF" \in got <=> IsInf(exact) /\ ~IsInf(x) /\ ~IsInf(y)
          /\ "UF" \in got <=> number_classifier(exact) = "denorm"
          /\ "NX" \in got <=> \/ ~IsZero(exact) /\ Plus(2, x, y) # Plus(3, x, y)
                             \/ number_classifier(exact) = "denorm"
  /\ case.t = "fmul" =>
       LET x == subnormal_flush(case.a)
           y == subnormal_flush(case.b)
           exact == Times(0, x, y)
           got == multiplier_core(0, case.a, case.b).flags
       IN /\ "NV" \in got <=> IsSnan(x) \/ IsSnan(y) \/ (IsNan(exact) /\ Ordered(x, y))
          /\ "OF" \in got <=> IsInf(exact) /\ ~IsInf(x) /\ ~IsInf(y)
          /\ "UF" \in got => Tiny(x, y)
=============================================================================
