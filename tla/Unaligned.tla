------------------------------- MODULE Unaligned ------------------------------
(* Emulation of unaligned loads by a trap handler                            *)
(* (sw/example/demo_emulate_unaligned/main.c) that works on the saved        *)
(* registers of the interrupted program (sw/lib/source/astrarv32_rte.c).     *)
(* A byte of memory is named by its address, so a word is the sequence of    *)
(* the addresses its bytes come from.                                        *)
EXTENDS Integers, Sequences, TLC

CONSTANTS MemorySize,     \* number of addresses
          ImmBits         \* of a load's offset

Regs == 0 .. 2
Loads == [opcode : {"LOAD", "other"}, funct3 : {"lw", "lh"}, rd : Regs, rs1 : Regs,
          imm12 : 0 .. 2^ImmBits - 1]

astrarv32_rte_context_get(ctx, x) == IF x = 0 THEN 0 ELSE ctx[x]
astrarv32_rte_context_put(ctx, x, data) == IF x = 0 THEN ctx ELSE [ctx EXCEPT ![x] = data]

\* Fault: the bytes are taken in the other order.
AssembledBig(addr) == [k \in 1 .. 4 |-> (addr + 4 - k) % MemorySize]
Assembled(addr) == [k \in 1 .. 4 |-> (addr + k - 1) % MemorySize]

\* The handler does not extend the sign of the offset.
trap_handler_emulate_unaligned_lw(inst, ctx) ==
    IF inst.opcode = "LOAD" /\ inst.funct3 = "lw"
    THEN astrarv32_rte_context_put(ctx, inst.rd,
             Assembled(astrarv32_rte_context_get(ctx, inst.rs1) + inst.imm12))
    ELSE ctx

\* The demo loads from one byte above a word, first with no handler for the
\* exception and then with it; register 1 holds the address, 2 is the target.
unaligned_main(base, unknown) ==
    LET load == [opcode |-> "LOAD", funct3 |-> "lw", rd |-> 2, rs1 |-> 1, imm12 |-> 0]
        ctx == (1 :> base + 1 @@ 2 :> unknown)
    IN  [without |-> ctx[2], with |-> trap_handler_emulate_unaligned_lw(load, ctx)[2]]

-----------------------------------------------------------------------------
\* An emulated load leaves in its register the word at the address the
\* instruction names, and every other register as it was; an offset that is
\* negative is left out, there the handler reads from elsewhere.
Emulated(inst, ctx) ==
    LET after == trap_handler_emulate_unaligned_lw(inst, ctx)
        addr == (IF inst.rs1 = 0 THEN 0 ELSE ctx[inst.rs1]) + inst.imm12
    IN  /\ \A x \in DOMAIN ctx \ {inst.rd} : after[x] = ctx[x]
        /\ inst.opcode = "LOAD" /\ inst.funct3 = "lw" /\ inst.imm12 < 2^(ImmBits - 1) /\ inst.rd # 0
              => \A k \in 0 .. 3 : after[inst.rd][k + 1] = (addr + k) % MemorySize

\* The demo prints ok with the handler, and only then.
DemoRight ==
    \A base \in {4 * n : n \in 0 .. MemorySize \div 4 - 2} :
       LET Ok(word) == word = [k \in 1 .. 4 |-> base + k]
           demo == unaligned_main(base, <<>>)
       IN  Ok(demo.with) /\ ~Ok(demo.without)
=============================================================================
