--------------------------------- MODULE Rte ---------------------------------
(* The runtime environment's trap handling (sw/lib/source/astrarv32_rte.c)   *)
(* on one hart: trap entry and return of the CPU, the first-level handler    *)
(* that saves the context, calls the installed second-level handler and      *)
(* steps over the instruction of an exception, and the panic handler.        *)
(* A hart is a record h with at least                                        *)
(*   prv, mpp     privilege level, and the one of the interrupted code       *)
(*   on, mpie     mstatus.MIE and mstatus.MPIE                               *)
(*   mprv, tw     mstatus.MPRV and mstatus.TW                                *)
(*   mie          enabled interrupt sources                                  *)
(*   mcause, mepc; mtvec, where traps go                                     *)
(*   lut, the second-level handler of every cause                            *)
(*   x, ctx       registers, and their copy in the handler's stack frame     *)
(* Program counters count instructions, so that "the next instruction" is    *)
(* one ahead whatever its length; Nowhere is an address without code.        *)
EXTENDS Naturals, Sequences, FiniteSets

Exceptions == {"I_MISALIGNED", "I_ACCESS", "I_ILLEGAL", "BREAKPOINT", "L_MISALIGNED",
               "L_ACCESS", "S_MISALIGNED", "S_ACCESS", "UENV_CALL", "MENV_CALL"}
Firqs == {"UART0", "UART1", "TWD", "TRACER", "SPI", "TWI", "GPIO", "NEOLED", "DMA",
          "SDI", "GPTMR", "ONEWIRE", "SLINK", "TRNG"}
Interrupts == {"MSI", "MTI", "MEI"} \cup Firqs
TrapCodes == Exceptions \cup Interrupts
Never == "never"    \* a cause the hardware does not set
Nowhere == 0

-----------------------------------------------------------------------------
(* The CPU: what enables an interrupt, trap entry and trap return. *)

Fires(h, pending) == (h.on \/ h.prv = "U") /\ h.mie \cap pending # {}
WakesUp(h, pending) == h.mie \cap pending # {}

TrapEnter(h, cause, pc) ==
  [h EXCEPT !.mcause = cause, !.mepc = pc, !.mpp = h.prv, !.prv = "M",
            !.mpie = h.on, !.on = FALSE]

(* user tells whether there is a user mode; without it mpp stays M. *)
mret(h, user) ==
  [h EXCEPT !.prv = h.mpp, !.mpp = IF user THEN "U" ELSE "M", !.on = h.mpie, !.mpie = TRUE,
            !.mprv = @ /\ h.mpp = "M"]

SetMpp(h, p, user) == [h EXCEPT !.mpp = IF user THEN p ELSE "M"]

-----------------------------------------------------------------------------
(* Installing and dispatching handlers. *)

astrarv32_rte_setup(h) ==
  [h EXCEPT !.mpp = "M", !.on = FALSE, !.mpie = FALSE, !.mprv = FALSE, !.tw = FALSE,
            !.mie = {}, !.mtvec = "rte", !.lut = [c \in TrapCodes |-> "panic"]]

astrarv32_rte_handler_install(h, code, handler) ==
  IF code \in TrapCodes THEN [h EXCEPT !.lut[code] = handler] ELSE h
astrarv32_rte_handler_uninstall(h, code) ==
  astrarv32_rte_handler_install(h, code, "panic")

astrarv32_rte_context_get(h, r) == h.ctx[r]
astrarv32_rte_context_put(h, r, v) == [h EXCEPT !.ctx[r] = v]

(* First level, up to the call of the second-level handler, and after it.    *)
(* Fault: an exception is returned to at the instruction that raised it.     *)
SaveContext(h) == [h EXCEPT !.ctx = h.x]
StepOverNothing(h) == h
StepOver(h) == IF h.mcause \in Interrupts \cup {"I_ACCESS"} THEN h
               ELSE [h EXCEPT !.mepc = @ + 1]
RestoreContext(h) == [h EXCEPT !.x = h.ctx]

(* An unexpected interrupt is switched off; two unexpected exceptions halt   *)
(* the hart.                                                                 *)
Fatal == {"I_ACCESS", "I_MISALIGNED"}
PanicHalts(h) == h.mcause \in Fatal /\ h.lut[h.mcause] = "panic"
__astrarv32_rte_panic(h) ==
  IF h.mcause \in Interrupts THEN [h EXCEPT !.mie = @ \ {h.mcause}] ELSE h
=============================================================================
