-------------------------------- MODULE CpuCsr --------------------------------
(* Control and status registers and the driver that uses them                *)
(* (sw/lib/source/astrarv32_cpu.c): physical memory protection               *)
(* (rtl/core/astrarv32_cpu_pmp.vhd), the counters (astrarv32_cpu_counters.vhd*)
(* with the split counter of astrarv32_prim.vhd) and the trigger selection   *)
(* (astrarv32_cpu_hwtrig.vhd).                                               *)
(*                                                                           *)
(* Machine-mode software calls the protection functions one after another;   *)
(* an interrupt handler does not touch these registers, so a call is one     *)
(* step.  The cycle counter runs meanwhile: there each access is a step.     *)
EXTENDS Integers, FiniteSets, SequencesExt

CONSTANTS NUM_REGIONS,      \* implemented regions
          Granularities,    \* log2 of the granularity, 2 or more
          AddrBits,         \* address bits
          Addrs, Configs,   \* arguments of astrarv32_cpu_pmp_configure_region
          CntHalf,          \* values of half a counter
          CntValues         \* values the cycle counter is set to

ASSUME CsrAssumption == /\ NUM_REGIONS \in 1 .. 15 /\ Granularities \subseteq 2 .. AddrBits
                        /\ CntHalf \in Nat /\ CntHalf > 9   \* longer than setting takes
                        /\ CntValues \subseteq 0 .. CntHalf * CntHalf - 1

VARIABLES pmp,              \* lsb, and per region cfg and addr
          counter,          \* mcycle: lo, hi, carry
          user              \* software at the counter: pc, locals, and ghosts

csrVars == <<pmp, counter, user>>

-----------------------------------------------------------------------------
(* Protection registers.  A configuration is r, w, x, mode a and lock l.     *)

Region == 0 .. NUM_REGIONS - 1
OFF == 0
TOR == 1
NA4 == 2
NAPOT == 3
PmpConfig == [r : BOOLEAN, w : BOOLEAN, x : BOOLEAN, a : {OFF, TOR, NA4, NAPOT}, l : BOOLEAN]
CfgZero == [r |-> FALSE, w |-> FALSE, x |-> FALSE, a |-> OFF, l |-> FALSE]
ASSUME ConfigsAssumption == Configs \subseteq PmpConfig

AllOnes == 2^(AddrBits - 2) - 1
pmp_alsb(s) == IF s.lsb > 2 THEN s.lsb - 3 ELSE 0
Truncated(n, bits) == (n \div 2^bits) * 2^bits
BitOf(n, i) == (n \div 2^i) % 2

\* new: the entries of a written register by region; the others are kept.
csr_pmpcfg(s, new) ==
    LET Legal(c, lsb) == IF c.a = NA4 /\ lsb > 2 THEN OFF ELSE c.a
        Entry(i) == LET c == new[i]
                        perm == ~(c.w /\ ~c.r)
                    IN  [r |-> c.r /\ perm, w |-> c.w /\ perm, x |-> c.x /\ perm,
                         a |-> Legal(c, s.lsb), l |-> c.l]
    IN  [s EXCEPT !.cfg = [i \in Region |-> IF i \in DOMAIN new /\ ~@[i].l THEN Entry(i) ELSE @[i]]]

\* Fault: the base address of a locked TOR region can be changed.
AddrLockedOwn(s, i) == s.cfg[i].l
AddrLocked(s, i) == s.cfg[i].l \/ (i + 1 \in Region /\ s.cfg[i + 1].l /\ s.cfg[i + 1].a = TOR)

csr_pmpaddr(s, i, w) ==
    IF i \notin Region \/ AddrLocked(s, i) THEN s
    ELSE [s EXCEPT !.addr[i] = Truncated(w, pmp_alsb(s))]

cfg_rd(s, i) == IF i \in Region THEN s.cfg[i] ELSE CfgZero
address_read_back(s, i) ==
    CASE i \notin Region -> 0
      [] s.lsb = 2 -> s.addr[i]
      [] s.lsb > 2 /\ s.cfg[i].a \in {OFF, TOR} -> Truncated(s.addr[i], s.lsb - 2)
      [] OTHER -> s.addr[i] + 2^pmp_alsb(s) - 1

-----------------------------------------------------------------------------
(* Protection checks, for byte address a. *)

\* Fault: a region is one granule short of its size.
addr_maskLow(s, r, i) ==
    \/ s.cfg[r].a = NA4
    \/ \E j \in pmp_alsb(s) .. i - 2 : BitOf(s.addr[r], j) = 0
addr_mask(s, r, i) ==
    \/ s.cfg[r].a = NA4
    \/ \E j \in pmp_alsb(s) .. i - 3 : BitOf(s.addr[r], j) = 0
cmp_na(s, r, a) ==
    \A i \in s.lsb .. AddrBits - 1 : addr_mask(s, r, i) => BitOf(a, i) = BitOf(s.addr[r], i - 2)
cmp_ge(s, r, a) == r = 0 \/ a \div 2^s.lsb >= s.addr[r - 1] \div 2^(s.lsb - 2)
cmp_lt(s, a) == a \div 2^s.lsb < s.addr[NUM_REGIONS - 1] \div 2^(s.lsb - 2)

match(s, r, a) ==
    CASE s.cfg[r].a = TOR -> /\ cmp_ge(s, r, a)
                             /\ IF r = NUM_REGIONS - 1 THEN cmp_lt(s, a) ELSE ~cmp_ge(s, r + 1, a)
      [] s.cfg[r].a \in {NA4, NAPOT} -> cmp_na(s, r, a)
      [] s.cfg[r].a = OFF -> FALSE

\* Is access kind k by a hart in machine mode (m) allowed by region r?
Allowed(s, r, m, k) == (m /\ ~s.cfg[r].l) \/ s.cfg[r][k]

fault(s, a, m, k) ==
    LET hit == {r \in Region : match(s, r, a)}
    IN  IF hit = {} THEN ~m ELSE ~Allowed(s, CHOOSE r \in hit : \A q \in hit : r <= q, m, k)

-----------------------------------------------------------------------------
(* The driver's protection functions: the registers after the call and what  *)
(* it returns. *)

Mask == [CfgZero EXCEPT !.r = TRUE]     \* mask: bit 0 of every entry

astrarv32_cpu_pmp_get_num_regions(s) ==
    LET written == csr_pmpcfg(s, [i \in Region |-> Mask])
    IN  [s |-> written, rc |-> Cardinality({i \in 0 .. 15 : cfg_rd(written, i).r})]

\* The first set bit of what all-ones leave in pmpaddr0.
astrarv32_cpu_pmp_get_granularity(s) ==
    LET off == csr_pmpcfg(s, [i \in Region \cap (0 .. 3) |-> CfgZero])
        written == csr_pmpaddr(off, 0, AllOnes)
        tmp == address_read_back(written, 0)
        first == CHOOSE i \in 0 .. AddrBits : BitOf(tmp, i) = 1 /\ \A j \in 0 .. i - 1 : BitOf(tmp, j) = 0
    IN  [s |-> written, rc |-> IF tmp = 0 THEN 0 ELSE 2^(first + 2)]

\* The four entries of the region's register are read, cleared and written.
astrarv32_cpu_pmp_configure_region(s, index, addr, config) ==
    LET word == {i \in Region : i \div 4 = index \div 4}
        addressed == csr_pmpaddr(s, index, addr)
        cleared == csr_pmpcfg(addressed, [i \in word |-> IF i = index THEN CfgZero ELSE addressed.cfg[i]])
        configured == csr_pmpcfg(cleared, [i \in word |-> IF i = index THEN config ELSE cleared.cfg[i]])
    IN  CASE index > 15 -> [s |-> s, rc |-> -1]
          [] index <= 15 /\ cfg_rd(s, index).l -> [s |-> s, rc |-> -2]
          [] OTHER -> [s |-> configured, rc |-> 0]

-----------------------------------------------------------------------------
(* Performance counters and triggers: what the probing functions find.       *)
(* hw: zihpm, num, width and words (bits of half a counter); sdtrig, triggers*)

HpmRead(hw, k, w) == IF k < hw.num THEN w % 2^hw.width ELSE 0
astrarv32_cpu_hpm_get_num_counters(hw) ==
    IF ~hw.zihpm THEN 0
    ELSE FoldLeft(LAMBDA n, k : n + HpmRead(hw, k, 1), 0, [k \in 1 .. 29 |-> k - 1])

\* Both halves are written with ones and shifted until nothing is left.
astrarv32_cpu_hpm_get_size(hw) ==
    LET ones == HpmRead(hw, 0, 2^(2 * hw.words) - 1)
        Length(half) == Cardinality({i \in 0 .. hw.words - 1 : half >= 2^i})
    IN  IF ~hw.zihpm THEN 0 ELSE Length(ones % 2^hw.words) + Length(ones \div 2^hw.words)

\* tselect has one bit more than an index of a trigger needs.
SelectBits(n) == 1 + (CHOOSE b \in 0 .. n : 2^b >= n /\ \A c \in 0 .. b - 1 : 2^c < n)
astrarv32_cpu_hwtrig_get_number(hw) ==
    LET tselect(sel) == sel % 2^SelectBits(hw.triggers)
        tinfo(sel) == IF tselect(sel) < hw.triggers THEN 64 ELSE 1
        there(sel) == tselect(sel) = sel /\ tinfo(sel) # 1
    IN  IF ~hw.sdtrig THEN 0
        ELSE CHOOSE n \in 0 .. hw.triggers + 1 : ~there(n) /\ \A k \in 0 .. n - 1 : there(k)

-----------------------------------------------------------------------------
(* The cycle counter.  w: the half software writes in this clock, or "none". *)

CntTime == ((counter.hi + counter.carry) * CntHalf + counter.lo) % (CntHalf * CntHalf)

cycle_inst(w, data) ==
    counter' = [lo |-> IF w = "lo" THEN data ELSE (counter.lo + 1) % CntHalf,
                carry |-> (counter.lo + 1) \div CntHalf,
                hi |-> IF w = "hi" THEN data ELSE (counter.hi + counter.carry) % CntHalf]

\* The ghost truth is the value set last plus the clocks since.
Tick(t) == (t + 1) % (CntHalf * CntHalf)
MaxGap == 2                 \* at most that many clocks between two accesses

Access(pc, w, data) ==
    /\ user.pc = pc /\ user.gap > 0
    /\ cycle_inst(w, data)
NextUser(u) == user' = [u EXCEPT !.gap = 0, !.truth = Tick(@)]

\* Fault: the counter is not kept from a carry while it is set.
astrarv32_cpu_set_mcycleDirect(v) ==
    \/ /\ Access("idle", "hi", v \div CntHalf)
       /\ NextUser([user EXCEPT !.pc = "set_lo", !.value = v])
    \/ /\ Access("set_lo", "lo", user.value % CntHalf)
       /\ user' = [user EXCEPT !.pc = "idle", !.gap = 0, !.truth = user.value, !.value = 0]

astrarv32_cpu_set_mcycle(v) ==
    \/ /\ Access("idle", "lo", 0)
       /\ NextUser([user EXCEPT !.pc = "set_hi", !.value = v])
    \/ /\ Access("set_hi", "hi", user.value \div CntHalf)
       /\ NextUser([user EXCEPT !.pc = "set_lo"])
    \/ /\ Access("set_lo", "lo", user.value % CntHalf)
       /\ user' = [user EXCEPT !.pc = "idle", !.gap = 0, !.truth = user.value, !.value = 0]

\* The loop ends when the upper half has not changed meanwhile.
astrarv32_cpu_get_cycle ==
    \/ /\ Access("idle", "none", 0)
       /\ NextUser([user EXCEPT !.pc = "get_lo", !.tmp1 = counter.hi, !.began = user.truth])
    \/ /\ Access("get_hi", "none", 0)
       /\ NextUser([user EXCEPT !.pc = "get_lo", !.tmp1 = counter.hi])
    \/ /\ Access("get_lo", "none", 0)
       /\ NextUser([user EXCEPT !.pc = "get_hi2", !.tmp2 = counter.lo])
    \/ /\ Access("get_hi2", "none", 0)
       /\ NextUser(IF counter.hi = user.tmp1
                   THEN [user EXCEPT !.pc = "got", !.value = counter.hi * CntHalf + user.tmp2,
                                     !.tmp1 = 0, !.tmp2 = 0]
                   ELSE [user EXCEPT !.pc = "get_hi", !.tmp1 = 0, !.tmp2 = 0])
    \/ /\ Access("got", "none", 0)
       /\ NextUser([user EXCEPT !.pc = "idle", !.value = 0, !.began = 0])

NoCsrAccess == /\ user.gap < MaxGap
               /\ cycle_inst("none", 0)
               /\ user' = [user EXCEPT !.gap = @ + 1, !.truth = Tick(@)]

-----------------------------------------------------------------------------
ProtectionIdle == pmp = [lsb |-> 2, cfg |-> [i \in Region |-> CfgZero], addr |-> [i \in Region |-> 0]]
CounterIdle ==
    /\ counter = [lo |-> 0, hi |-> 0, carry |-> 0]
    /\ user = [pc |-> "off", gap |-> 0, value |-> 0, tmp1 |-> 0, tmp2 |-> 0, truth |-> 0, began |-> 0]

CsrInit ==
    \/ /\ \E g \in Granularities : pmp = [lsb |-> g, cfg |-> [i \in Region |-> CfgZero],
                                          addr |-> [i \in Region |-> 0]]
       /\ CounterIdle
    \/ /\ ProtectionIdle
       /\ counter = [lo |-> 0, hi |-> 0, carry |-> 0]
       /\ user = [pc |-> "idle", gap |-> 0, value |-> 0, tmp1 |-> 0, tmp2 |-> 0, truth |-> 0, began |-> 0]

ProtectionCall ==
    /\ user.pc = "off"
    /\ UNCHANGED <<counter, user>>
    /\ \/ pmp' = astrarv32_cpu_pmp_get_num_regions(pmp).s
       \/ pmp' = astrarv32_cpu_pmp_get_granularity(pmp).s
       \/ \E i \in 0 .. NUM_REGIONS, a \in Addrs, c \in Configs :
             pmp' = astrarv32_cpu_pmp_configure_region(pmp, i, a, c).s

CounterStep ==
    /\ user.pc # "off"
    /\ UNCHANGED pmp
    /\ \/ NoCsrAccess
       \/ astrarv32_cpu_get_cycle
       \/ \E v \in CntValues : astrarv32_cpu_set_mcycle(v)

CsrNext == ProtectionCall \/ CounterStep
CsrSpec == CsrInit /\ [][CsrNext]_csrVars

-----------------------------------------------------------------------------
(* What the privileged architecture says of an access: the lowest-numbered   *)
(* region that contains it decides.  The end of a region is excluded.        *)

TrailingOnes(n) == CHOOSE k \in 0 .. AddrBits : BitOf(n, k) = 0 /\ \A j \in 0 .. k - 1 : BitOf(n, j) = 1
Granule(s, n) == Truncated(4 * n, s.lsb)
Bytes_of(s, r) ==
    LET reg == address_read_back(s, r)
        size == 2^(TrailingOnes(reg) + 3)
    IN  CASE s.cfg[r].a = OFF -> {}
          [] s.cfg[r].a = TOR -> (IF r = 0 THEN 0 ELSE Granule(s, s.addr[r - 1])) .. Granule(s, s.addr[r]) - 1
          [] s.cfg[r].a = NA4 -> 4 * reg .. 4 * reg + 3
          [] s.cfg[r].a = NAPOT -> LET base == Truncated(4 * reg, TrailingOnes(reg) + 3)
                                   IN  base .. base + size - 1

\* Every access to every word, in either privilege mode, is decided as the
\* architecture has it, whatever sequence of driver calls set the regions up.
Protected ==
    \A a \in {4 * n : n \in 0 .. AllOnes} :
       LET hit == {r \in Region : a \in Bytes_of(pmp, r)}
           first == CHOOSE r \in hit : \A q \in hit : r <= q
       IN  \A m \in BOOLEAN, k \in {"r", "w", "x"} :
              ~fault(pmp, a, m, k) <=>
                 IF hit = {} THEN m
                 ELSE (m /\ ~pmp.cfg[first].l) \/ pmp.cfg[first][k]

\* What a locked region covers and permits never changes again.
LockHolds == [][\A r \in Region : pmp.cfg[r].l =>
                   pmp'.cfg[r] = pmp.cfg[r] /\ Bytes_of(pmp', r) = Bytes_of(pmp, r)]_pmp

\* A call that reports a failure has changed nothing.  A call for a region
\* that exists and is not locked, with a configuration the hardware supports,
\* sets up this region as asked, its address too if the next region does not
\* lock it, and no other one.  (The driver returns 0 for the other calls too:
\* nothing is said of these.)
Supported(s, c) == ~(c.w /\ ~c.r) /\ ~(c.a = NA4 /\ s.lsb > 2)
Configured ==
    \A i \in 0 .. NUM_REGIONS, a \in Addrs, c \in Configs :
       LET r == astrarv32_cpu_pmp_configure_region(pmp, i, a, c)
       IN  /\ r.rc # 0 => r.s = pmp
           /\ i \in Region /\ ~pmp.cfg[i].l /\ Supported(pmp, c) =>
                 /\ r.s.cfg[i] = c
                 /\ ~AddrLocked(pmp, i) => r.s.addr[i] = Truncated(a, pmp_alsb(pmp))
           /\ \A j \in Region \ {i} : r.s.cfg[j] = pmp.cfg[j] /\ r.s.addr[j] = pmp.addr[j]

\* While nothing is locked, the number of regions and their granularity are
\* found as they are.
Probed ==
    (\A i \in Region : ~pmp.cfg[i].l) =>
       /\ astrarv32_cpu_pmp_get_num_regions(pmp).rc = NUM_REGIONS
       /\ ~AddrLocked(pmp, 0) => astrarv32_cpu_pmp_get_granularity(pmp).rc = 2^pmp.lsb

\* The counter is what was set plus the clocks since then, and a value read in
\* two halves is one the counter had during the call.
CounterTrue ==
    /\ user.pc \in {"idle", "get_hi", "get_lo", "get_hi2", "got"} => CntTime = user.truth
    /\ user.pc = "got" =>
          LET Since(t) == (t - user.began) % (CntHalf * CntHalf)
          IN  Since(user.value) <= Since(user.truth)
=============================================================================
