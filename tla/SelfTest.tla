------------------------------ MODULE SelfTest ------------------------------
(* The processor check (sw/example/processor_check) on a hart with the       *)
(* runtime environment and devices that finish their work at any time.  One  *)
(* step is one instruction of a test, one trap with its handler, one step of *)
(* a device or of core 1.                                                    *)
EXTENDS Rte

CONSTANTS Configs,    \* the features of a processor, as sets of names
          Program     \* the tests (ProcessorTests)
Devices == Interrupts

VARIABLES has,      \* features
          t, k,     \* test and instruction about to be executed
          m,        \* the hart, its CSRs and the globals of the program
          dev,      \* state of the devices
          core1     \* what core 1 is about to do
vars == <<has, t, k, m, dev, core1>>

Ends == Len(Program) + 1
Finished == t = Ends
Op == LET op == Program[t].ops[k] IN IF op.i = "if" THEN op.op ELSE op
Skipped == Program[t].ops[k].i = "if" /\ Program[t].ops[k].f \notin has
Running == ~Finished /\ k \in DOMAIN Program[t].ops
Is(i) == Running /\ ~Skipped /\ ~m.asleep /\ Op.i = i

-----------------------------------------------------------------------------
(* The hart when main starts: constructors have run, traps end in crt0's    *)
(* panic loop.                                                               *)
Reset == [prv |-> "M", mpp |-> "M", on |-> FALSE, mpie |-> FALSE, mprv |-> FALSE, tw |-> FALSE,
          mie |-> {}, mcause |-> Never, mepc |-> Nowhere, mtvec |-> "crt0",
          lut |-> [c \in TrapCodes |-> "panic"],
          x |-> [ra |-> 0, a0 |-> 0, a1 |-> 0, a2 |-> 0], ctx |-> [ra |-> 0, a0 |-> 0, a1 |-> 0, a2 |-> 0],
          inh |-> {}, cen |-> {}, pmp |-> {}, line |-> "none", got |-> FALSE,
          asleep |-> FALSE, returned |-> FALSE,
          traps |-> 20, good |-> TRUE, cnt_fail |-> 0, constructed |-> TRUE,
          mei_ack |-> FALSE, gpio_ack |-> FALSE, event |-> "none", twd_irq |-> <<>>, atomic_cnt |-> 0]

Begins == /\ t = 1 /\ k = 1
          /\ m = Reset
          /\ dev = [d \in Devices |-> "off"]
          /\ core1 = "off"
Init == has \in Configs /\ Begins

(* A device is off, idle, busy, or has fired; four interrupt when idle.      *)
IdleIrq == {"SPI", "TWI", "NEOLED", "ONEWIRE", "UART1"}
Pending == {d \in Devices : dev[d] = "fired" \/ (d \in IdleIrq /\ dev[d] = "idle")}
After(e) == CASE e = "on" -> "idle" [] e = "go" -> "busy" [] e = "ack" -> "idle" [] e = "off" -> "off"
Present(d) == CASE d \in {"MSI", "MTI"} -> "CLINT" \in has
                [] d = "MEI" -> "XBUS" \in has
                [] OTHER -> d \in has

-----------------------------------------------------------------------------
(* Second-level handlers: what they do to the hart h and the devices d.      *)
(* Fault: the interrupted privilege level is returned to. *)
HandlerKeepsMode(h) ==
  LET h1 == [h EXCEPT !.traps = IF @ < 20 THEN @ + 1 ELSE @]
  IN  IF h.mcause = "I_ACCESS" THEN [h1 EXCEPT !.mepc = astrarv32_rte_context_get(h, "ra")] ELSE h1
global_trap_handler(h) ==
  LET h1 == [h EXCEPT !.traps = IF @ < 20 THEN @ + 1 ELSE @]
      h2 == IF h.mcause = "I_ACCESS" THEN [h1 EXCEPT !.mepc = astrarv32_rte_context_get(h, "ra")] ELSE h1
  IN  SetMpp(h2, "M", "U" \in has)

rte_service_handler(h) ==
  LET a(r) == astrarv32_rte_context_get(h, r)
      h1 == IF a("a0") = 127 THEN astrarv32_rte_context_put(h, "a0", a("a1") + a("a2")) ELSE h
  IN  SetMpp(h1, "M", "U" \in has)

gpio_trap_handler(h) == [h EXCEPT !.gpio_ack = dev.GPIO = "fired"]
twd_trap_handler(h) == [h EXCEPT !.twd_irq = IF dev.TWD = "fired" THEN Append(@, h.event) ELSE @]
vectored_mei_handler(h) == [h EXCEPT !.mei_ack = TRUE]

Handle(f, h) == CASE f = "global" -> global_trap_handler(h)
                  [] f = "service" -> rte_service_handler(h)
                  [] f = "gpio" -> gpio_trap_handler(h)
                  [] f = "twd" -> twd_trap_handler(h)
                  [] f = "panic" -> __astrarv32_rte_panic(h)
Acknowledges(f) == CASE f = "gpio" -> [dev EXCEPT !.GPIO = "idle"]
                     [] f = "twd" -> [dev EXCEPT !.TWD = "idle"]
                     [] OTHER -> dev

(* One trap, from entry to return. *)
Vectored(h) == IF h.mcause = "MEI" THEN vectored_mei_handler(h) ELSE global_trap_handler(h)
__astrarv32_rte_core(h) == RestoreContext(StepOver(Handle(h.lut[h.mcause], SaveContext(h))))
Trap(h, cause, pc) ==
  LET e == TrapEnter(h, cause, pc)
      direct == h.mtvec = "rte" \/ cause \in Exceptions
      r == mret(IF direct THEN __astrarv32_rte_core(e) ELSE Vectored(e), "U" \in has)
  IN  /\ IF h.mtvec = "crt0" \/ PanicHalts(e) THEN m' = e /\ k' = Nowhere /\ dev' = dev
         ELSE /\ m' = [r EXCEPT !.returned = TRUE, !.asleep = FALSE, !.mepc = Nowhere, !.ctx = Reset.ctx]
              /\ k' = r.mepc
              /\ dev' = IF direct THEN Acknowledges(h.lut[cause]) ELSE dev
      /\ UNCHANGED <<has, t, core1>>

(* The instruction does h and d and the next one follows. *)
Does(h, d) == /\ m' = [h EXCEPT !.returned = FALSE]
              /\ dev' = d
              /\ k' = k + 1
              /\ UNCHANGED <<has, t, core1>>
Goes(h) == Does(h, dev)

-----------------------------------------------------------------------------
(* Interrupts: after a return one instruction is executed before the next.   *)
Interrupted == Fires(m, Pending) /\ ~m.returned
Highest(S) == CHOOSE c \in S : TRUE    \* the tests enable one source at a time
Interrupt == /\ ~Finished /\ k # Nowhere /\ Interrupted
             /\ Trap(m, Highest(m.mie \cap Pending), IF m.asleep THEN k + 1 ELSE k)

(* Plain instructions of a test. *)
Assign == /\ Is("write")
          /\ Goes(IF Op.f = "mpp" THEN SetMpp(m, Op.v, "U" \in has) ELSE [m EXCEPT ![Op.f] = Op.v])
EnableSource == Is("enable") /\ Goes([m EXCEPT !.mie = @ \cup Op.S])
SetupRte == Is("rte_setup") /\ Goes(astrarv32_rte_setup(m))
InstallHandler ==
  /\ Is("install")
  /\ Goes([m EXCEPT !.lut = [c \in TrapCodes |-> IF c \in Op.S
             THEN astrarv32_rte_handler_install(m, c, Op.f).lut[c] ELSE m.lut[c]]])
Check == \/ Is("require") /\ Goes([m EXCEPT !.good = @ /\ m[Op.f] = Op.v])
         \/ Is("requireDev") /\ Goes([m EXCEPT !.good = @ /\ dev[Op.d] = Op.s])
CountTraps == /\ Is("traps")
              /\ LET n == IF Op.n = 13 /\ "C" \in has THEN 18 ELSE Op.n
                 IN  Goes(IF Op.n = 0 THEN [m EXCEPT !.traps = 0]
                          ELSE [m EXCEPT !.good = @ /\ m.traps = n, !.traps = 20])
Skip == Running /\ Skipped /\ Goes(m)

(* The two nops last until everything started has arrived.                   *)
Wait == /\ Is("nops")
        /\ \A d \in Devices : dev[d] # "busy"
        /\ ~Interrupted
        /\ Goes(m)

(* Exceptions, and instructions that may raise one.                          *)
Raise == Is("exception") /\ Trap(m, Op.c, k)
Ecall_ == Is("ecall") /\ Trap(m, IF m.prv = "U" THEN "UENV_CALL" ELSE "MENV_CALL", k)
Privileged == Is("privileged") /\ IF m.prv = "U" THEN Trap(m, "I_ILLEGAL", k) ELSE Goes(m)
ReadCounter == /\ Is("counter")
               /\ IF m.prv = "M" \/ Op.c \in m.cen THEN Goes(m) ELSE Trap(m, "I_ILLEGAL", k)
Amo == Is("amo") /\ IF "ZAAMO" \in has THEN Goes(m) ELSE Trap(m, "I_ILLEGAL", k)

(* Physical memory protection: entry 1 covers the region and comes first.    *)
Allowed(prv, kind, at) ==
  CASE "PMP" \notin has -> TRUE
    [] at = "region" /\ "r" \in m.pmp -> kind = "R" \/ (prv = "M" /\ "lock" \notin m.pmp)
    [] OTHER -> prv = "M" \/ (kind = "X" /\ "x" \in m.pmp)
Reachable(at) == at # "unreachable" /\ (at = "ext" => "XBUS" \in has)
Access == /\ Is("access")
          /\ LET prv == IF m.mprv THEN m.mpp ELSE m.prv
                 ok == Allowed(prv, Op.kind, Op.at) /\ Reachable(Op.at)
                 h == [m EXCEPT !.got = ok]
             IN  IF ok THEN Goes(h) ELSE Trap(h, IF Op.kind = "R" THEN "L_ACCESS" ELSE "S_ACCESS", k)
(* The link register is written although the target cannot be fetched.       *)
JumpTo == /\ Is("jump")
          /\ LET h == [m EXCEPT !.x.ra = k + 1]
             IN  IF Allowed(m.prv, "X", Op.at) /\ Reachable(Op.at) THEN Goes(h)
                 ELSE Trap(h, "I_ACCESS", Nowhere)

(* The block of the read-only memory in the data cache: writing it back      *)
(* always fails; a failed fence keeps it, a failed replacement drops it.     *)
CacheLine ==
  /\ Is("line")
  /\ CASE Op.e = "fence" -> Goes([m EXCEPT !.line = IF @ = "dirty" THEN @ ELSE "none"])
       [] Op.e = "load rom" -> Goes([m EXCEPT !.line = IF @ = "none" THEN "clean" ELSE @])
       [] Op.e = "store rom" -> Goes([m EXCEPT !.line = "dirty"])
       [] OTHER -> IF m.line = "dirty"
                     THEN Trap([m EXCEPT !.line = "none"],
                               IF Op.e = "load ram" THEN "L_ACCESS" ELSE "S_ACCESS", k)
                     ELSE Goes([m EXCEPT !.line = "none"])

(* Into user mode, with interrupts as before. *)
goto_user_mode ==
  /\ Is("user")
  /\ LET h == SetMpp([m EXCEPT !.mpie = @ \/ m.on, !.x.ra = Nowhere], "U", "U" \in has)
     IN  Goes(mret(h, "U" \in has))

(* wfi sleeps until an enabled source is pending, whether or not it traps.   *)
Sleep == /\ Is("wfi")
         /\ IF m.prv = "U" /\ m.tw THEN Trap(m, "I_ILLEGAL", k)
            ELSE /\ m' = [m EXCEPT !.asleep = TRUE, !.returned = FALSE]
                 /\ UNCHANGED <<has, t, k, dev, core1>>
Wake == /\ Running /\ m.asleep /\ ~Interrupted /\ WakesUp(m, Pending)
        /\ Goes([m EXCEPT !.asleep = FALSE])

Device == /\ Is("device")
          /\ IF Present(Op.d) THEN Does(m, [dev EXCEPT ![Op.d] = After(Op.e)])
             ELSE IF Op.d = "MEI" THEN Goes(m) ELSE Trap(m, "S_ACCESS", k)
Finish(d) == /\ dev[d] = "busy"
             /\ dev' = [dev EXCEPT ![d] = IF d \in IdleIrq THEN "idle" ELSE "fired"]
             /\ UNCHANGED <<has, t, k, m, core1>>

StartCore == /\ Is("launch")
             /\ core1' = "add"
             /\ k' = k + 1
             /\ m' = [m EXCEPT !.returned = FALSE]
             /\ UNCHANGED <<has, t, dev>>
core1_main == \/ /\ core1 = "add"
                 /\ core1' = "msi"
                 /\ m' = [m EXCEPT !.atomic_cnt = @ + 1]
                 /\ UNCHANGED <<has, t, k, dev>>
              \/ /\ core1 = "msi"
                 /\ core1' = "done"
                 /\ dev' = [dev EXCEPT !.MSI = "fired"]
                 /\ UNCHANGED <<has, t, k, m>>

(* The verdict, and the next test this processor can run.                    *)
Applicable(n) == Program[n].need \subseteq has /\ Program[n].skip \cap has = {}
NextTest == LET S == {n \in t + 1 .. Len(Program) : Applicable(n)}
            IN  IF S = {} THEN Ends ELSE CHOOSE n \in S : \A o \in S : n <= o
Passed == m.good /\ m.mcause \in Program[t].expect
Verdict == /\ ~Finished /\ k = Len(Program[t].ops) + 1
           /\ ~Interrupted
           /\ t' = NextTest /\ k' = 1
           /\ m' = [m EXCEPT !.cnt_fail = IF Passed THEN @ ELSE @ + 1, !.good = TRUE, !.mcause = Never,
                             !.got = FALSE, !.x = Reset.x, !.returned = FALSE]
           /\ UNCHANGED <<has, dev, core1>>

Instruction ==
  \/ Assign \/ EnableSource \/ SetupRte \/ InstallHandler \/ Check \/ CountTraps \/ Skip \/ Wait
  \/ Raise \/ Ecall_ \/ Privileged \/ ReadCounter \/ Amo \/ Access \/ JumpTo \/ CacheLine
  \/ goto_user_mode \/ Sleep \/ Wake \/ Device \/ StartCore \/ Verdict
Environment == core1_main \/ \E d \in Devices : Finish(d)
Next == Interrupt \/ Instruction \/ Environment

(* The hart keeps executing, what was started finishes.                      *)
Fairness == /\ WF_vars(Interrupt \/ Instruction)
            /\ WF_vars(core1_main)
            /\ \A d \in Devices : WF_vars(Finish(d))
Spec == Init /\ [][Next]_vars /\ Fairness

-----------------------------------------------------------------------------
(* Properties *)

(* On a sound processor no test fails: each sees its own trap and nothing    *)
(* another test left behind, whenever interrupts arrive.                     *)
AllPass == m.cnt_fail = 0

(* An interrupt is only taken in the test that enables its source: no source *)
(* stays enabled and pending when a test has ended.                          *)
EnabledBy(n) == UNION {LET op == Program[n].ops[j]
                       IN  CASE op.i = "enable" -> op.S
                             [] op.i = "write" -> IF op.f = "mie" THEN op.v ELSE {}
                             [] OTHER -> {} : j \in DOMAIN Program[n].ops}
NoStrayInterrupt == ~Finished /\ m.mcause \in Interrupts => m.mcause \in EnabledBy(t)

(* The program gets to its report: no wfi sleeps for ever and a permanent    *)
(* interrupt does not stop it.  There are two exceptions.  Without one of    *)
(* the UARTs it ends in the panic loop of crt0, before its first test.  And  *)
(* an interrupt of the two-wire device that is served before the wfi that    *)
(* waits for it leaves the program asleep.                                   *)
Panicked == m.mtvec = "crt0" /\ k = Nowhere
Begun == Cardinality({j \in 1 .. k : LET op == Program[t].ops[j]
                                   IN  op.i = "device" /\ op.d = "TWD" /\ op.e = "go"})
LostWakeUp == /\ ~Finished /\ m.asleep
              /\ Program[t].need = {"TWD"} /\ Len(m.twd_irq) = Begun
Completes == IF {"UART0", "UART1"} \subseteq has THEN <>(Finished \/ LostWakeUp) ELSE <>Panicked

(* No test fails because of another one, nor is it disturbed by one.         *)
TestsIndependent == AllPass /\ NoStrayInterrupt

=============================================================================
