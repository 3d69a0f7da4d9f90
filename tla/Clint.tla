-------------------------------- MODULE Clint --------------------------------
(* The core-local interruptor (rtl/core/astrarv32_clint.vhd): system time,   *)
(* one time compare register and one software interrupt per hart.  A step    *)
(* is one clock; w is the register write of that clock, or NoWrite.          *)
(*                                                                           *)
(* The 64-bit time is two half words of Half values each, and the carry      *)
(* between them is a register: for one clock the upper half is one behind.   *)
(* So that the time ends, it stands still at MaxTime.                        *)
EXTENDS Integers

CONSTANTS Half, MaxTime

ASSUME ClintAssumption == Half \in Nat \ {0, 1} /\ MaxTime \in Nat

VARIABLES mtime,        \* lo, hi and the registered carry
          mtimecmp,     \* per hart: lo, hi
          cmp_lo_ge,    \* per hart: registered comparison of the lower halves
          mti, mswi     \* per hart: timer and software interrupt requests

clintVars == <<mtime, mtimecmp, cmp_lo_ge, mti, mswi>>

Hart == {0, 1}
NoWrite == [reg |-> "none", hart |-> 0, half |-> "lo", data |-> 0]

Time == (mtime.hi + mtime.carry) * Half + mtime.lo
Low(t) == t % Half
High(t) == t \div Half

ClintInit == /\ mtime = [lo |-> 0, hi |-> 0, carry |-> 0]
             /\ mtimecmp = [h \in Hart |-> [lo |-> 0, hi |-> 0]]
             /\ cmp_lo_ge = [h \in Hart |-> FALSE]
             /\ mti = [h \in Hart |-> FALSE]
             /\ mswi = [h \in Hart |-> 0]

counter_core(w, run) ==
    LET inc == IF run /\ Time < MaxTime THEN 1 ELSE 0
    IN  mtime' =
          [lo |-> IF w.reg = "mtime" /\ w.half = "lo" THEN w.data ELSE Low(mtime.lo + inc),
           carry |-> High(mtime.lo + inc),
           hi |-> IF w.reg = "mtime" /\ w.half = "hi" THEN w.data ELSE mtime.hi + mtime.carry]

write_access(w) ==
    mtimecmp' = IF w.reg = "mtimecmp"
                THEN [mtimecmp EXCEPT ![w.hart] =
                        IF w.half = "lo" THEN [@ EXCEPT !.lo = w.data]
                                         ELSE [@ EXCEPT !.hi = w.data]]
                ELSE mtimecmp

\* The comparison of the lower halves is a clock older than the one of the
\* upper halves, as the lower half of the time is a clock ahead.
irq_gen ==
    /\ cmp_lo_ge' = [h \in Hart |-> mtime.lo >= mtimecmp[h].lo]
    /\ mti' = [h \in Hart |-> \/ mtime.hi > mtimecmp[h].hi
                              \/ mtime.hi = mtimecmp[h].hi /\ cmp_lo_ge[h]]

mswi_reg(w) == mswi' = IF w.reg = "mswi" THEN [mswi EXCEPT ![w.hart] = w.data] ELSE mswi

ClintClock(w, run) ==
    counter_core(w, run) /\ write_access(w) /\ irq_gen /\ mswi_reg(w)

\* What a read returns.
read_back(reg, hart, half) ==
    CASE reg = "mtime" -> mtime[half]
      [] reg = "mtimecmp" -> mtimecmp[hart][half]
      [] reg = "mswi" -> mswi[hart]
=============================================================================
