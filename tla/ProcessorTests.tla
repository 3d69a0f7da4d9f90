--------------------------- MODULE ProcessorTests ----------------------------
(* The program of the processor check (sw/example/processor_check): its      *)
(* tests one after the other, each as the instructions that matter to traps, *)
(* privilege and interrupts.  Data that no trap depends on is left out.      *)
EXTENDS Rte

(* What the program asks for before a test. *)
Features == {"U", "C", "CLINT", "sim", "PMP", "XBUS", "DCACHE", "SMP", "SMCNTRPMF",
             "ZALRSC", "ZAAMO", "SMC", "HPM"} \cup Firqs

(* Instructions and tests *)
Write(f, v) == [i |-> "write", f |-> f, v |-> v]       \* a field of the hart
Set(f) == Write(f, TRUE)
Clr(f) == Write(f, FALSE)
Mie(S) == Write("mie", S)                              \* csr_write
Enable(S) == [i |-> "enable", S |-> S]                 \* csr_set
Exc(c) == [i |-> "exception", c |-> c]                 \* raises c anywhere
Repeat(n, op) == [j \in 1 .. n |-> op]
Install(S, f) == [i |-> "install", S |-> S, f |-> f]
Mem(kind, at) == [i |-> "access", kind |-> kind, at |-> at]
Jump(at) == [i |-> "jump", at |-> at]                  \* jalr ra
Rd(c) == [i |-> "counter", c |-> c]                    \* rdcycle, rdinstret, rdtime
Priv == [i |-> "privileged"]                           \* only legal in machine mode
UserMode == [i |-> "user"]
Ecall == [i |-> "ecall"]
Wfi == [i |-> "wfi"]
Nops == [i |-> "nops"]                                 \* time for what was started
Dev(d, e) == [i |-> "device", d |-> d, e |-> e]
Line(e) == [i |-> "line", e |-> e]                     \* of the data cache
Require(f, v) == [i |-> "require", f |-> f, v |-> v]
RequireDev(d, s) == [i |-> "requireDev", d |-> d, s |-> s]
If(f, op) == [i |-> "if", f |-> f, op |-> op]          \* if feature f is there
Launch == [i |-> "launch"]
Traps(n) == [i |-> "traps", n |-> n]                   \* that many since trap_cnt was read

(* A test: the features it needs and the ones it is skipped with, what it    *)
(* does, and the causes mcause may hold in the end.                          *)
Test(need, skip, ops, expect) == [need |-> need, skip |-> skip, ops |-> ops, expect |-> expect]
Any == TrapCodes \cup {Never}
NoTrap == {Never}

-----------------------------------------------------------------------------
(* The testbench's register for external interrupts is on the external bus. *)
SimTrigger(e) == <<Mem("W", "ext"), Dev("MEI", e)>>

(* main, in the order of the program.  The UARTs are set up, without         *)
(* interrupts and without a look whether they are there, before the runtime  *)
(* environment; the GPIO and the machine timer after it.                     *)
Begin == Test({}, {},
  <<Clr("on"), Dev("UART0", "off"), Dev("UART1", "off"),
    [i |-> "rte_setup"], Install(TrapCodes, "global"), Dev("GPIO", "off"),
    Write("inh", {"cycle", "instret", "time"}), If("U", Write("cen", {"cycle", "instret", "time"})),
    Dev("MTI", "ack")>> \o SimTrigger("ack") \o <<Mie({}), Set("on")>>, Any)

CounterSetup == <<
  Test({"HPM"}, {}, <<>>, NoTrap),
  Test({"PMP"}, {}, <<Write("pmp", {"x"})>>, NoTrap)>>

FenceAndCounters == <<
  Test({}, {}, <<Write("inh", {}), Line("fence"), Line("fence")>>, NoTrap),
  Test({"sim"}, {}, <<Mem("R", "ext")>>, NoTrap),
  Test({}, {}, <<Rd("cycle"), Rd("instret"), Require("inh", {})>>, NoTrap)>>

CounterAccess == <<
  Test({"U"}, {}, <<Write("inh", {"cycle", "instret"}), Write("cen", {"cycle"}), UserMode,
                    Rd("cycle"), Rd("time"), Require("inh", {"cycle", "instret"}),
                    Require("cen", {"cycle"})>>, {"I_ILLEGAL"}),
  Test({}, {}, <<If("U", Write("cen", {"cycle", "instret", "time"})),
                 Write("inh", {"cycle", "instret"}), Rd("cycle"), Rd("instret"),
                 Require("inh", {"cycle", "instret"})>>, NoTrap),
  Test({"SMCNTRPMF"}, {}, <<Write("inh", {}), Rd("cycle"), Rd("instret"), UserMode, Rd("cycle"),
                            Rd("instret"), Ecall>>, Any),
  Test({"U"}, {}, <<Write("inh", {}), UserMode, Priv>>, {"I_ILLEGAL"})>>

ExternalMemory == <<
  Test({"XBUS", "sim"}, {}, <<Mem("W", "ext"), Jump("ext")>>, NoTrap)>>

CacheErrors == <<
  Test({"DCACHE", "sim"}, {},
       <<Line("fence"), Line("load rom"), Line("store rom"), Line("load ram"),
         Require("mcause", "L_ACCESS"), Write("mcause", Never),
         Line("fence"), Line("load rom"), Line("store ram"),
         Require("mcause", Never), Write("mcause", Never),
         Line("fence"), Line("load rom"), Line("store rom"), Line("fence"), Line("store ram")>>,
       {"S_ACCESS"})>>

CsrExceptions == <<
  Test({}, {}, <<Exc("I_ILLEGAL")>>, {"I_ILLEGAL"}),
  Test({}, {}, <<Exc("I_ILLEGAL")>>, {"I_ILLEGAL"}),
  Test({}, {}, <<Rd("cycle")>>, NoTrap)>>

FetchExceptions == <<
  Test({}, {"C"}, <<Exc("I_MISALIGNED")>>, {"I_MISALIGNED"}),
  Test({"sim"}, {}, <<Jump("unreachable")>>, {"I_ACCESS"}),
  Test({"C", "XBUS", "sim"}, {}, <<Mie({"MSI"}), Mem("W", "ext"), Jump("unreachable"),
                                   Require("mie", {"MSI"})>>, {"I_ACCESS"})>>

IllegalInstructions == <<
  Test({}, {}, <<Clr("on"), Traps(0)>> \o Repeat(13, Exc("I_ILLEGAL"))
                 \o Repeat(5, If("C", Exc("I_ILLEGAL"))) \o <<Traps(13), Set("on")>>, {"I_ILLEGAL"}),
  Test({"sim"}, {}, <<Exc("BREAKPOINT")>>, {"BREAKPOINT"})>>

LoadStoreExceptions == <<
  Test({}, {}, <<Exc("L_MISALIGNED")>>, {"L_MISALIGNED"}),
  Test({}, {}, <<Mem("R", "unreachable")>>, {"L_ACCESS"}),
  Test({}, {}, <<Exc("S_MISALIGNED")>>, {"S_MISALIGNED"}),
  Test({}, {}, <<Mem("W", "unreachable")>>, {"S_ACCESS"})>>

EnvironmentCalls == <<
  Test({}, {}, <<Clr("on"), Set("mpie"), Ecall, Require("on", FALSE)>>, {"MENV_CALL"}),
  Test({"U"}, {}, <<UserMode, Ecall>>, {"UENV_CALL"})>>

ClintInterrupts == <<
  Test({"CLINT"}, {}, <<Dev("MTI", "go"), Mie({"MTI"}), Nops, Mie({}), Dev("MTI", "ack")>>, {"MTI"}),
  Test({"CLINT"}, {}, <<Mie({"MSI"}), Dev("MSI", "go"), Nops, Mie({}), Dev("MSI", "ack")>>, {"MSI"}),
  Test({"sim"}, {}, <<Mie({"MEI"})>> \o SimTrigger("go") \o <<Nops, Mie({})>> \o SimTrigger("ack"),
       {"MEI"})>>

PermanentInterrupt == <<
  Test({"CLINT"}, {}, <<Mie({"MTI"}), Dev("MTI", "go")>> \o Repeat(3, Rd("cycle")) \o <<Mie({})>>, Any),
  Test({"CLINT"}, {}, <<Mie({}), Dev("MTI", "go"), Nops, RequireDev("MTI", "fired"),
                        Dev("MTI", "ack"), RequireDev("MTI", "idle")>>, Any)>>

VectoredInterrupt == <<
  Test({"sim"}, {}, <<Write("mtvec", "table"), Mie({"MEI"})>> \o SimTrigger("go") \o <<Nops, Mie({})>>
                      \o SimTrigger("ack") \o <<Require("mei_ack", TRUE), Write("mtvec", "rte")>>, Any)>>

UartTests == <<
  Test({"UART0", "UART1"}, {},
       <<Dev("UART0", "on"), Mie({"UART0"}), Dev("UART0", "go"), Wfi, Mie({}),
         RequireDev("UART0", "fired"), Dev("UART0", "off")>>, {"UART0"}),
  Test({"UART0", "UART1"}, {},
       <<Dev("UART1", "on"), Dev("UART1", "go"), Nops, Mie({"UART1"}), Wfi, Mie({}),
         RequireDev("UART1", "idle"), Dev("UART1", "off")>>, {"UART1"})>>

(* The two-wire device reports the begin of a communication, a byte and the  *)
(* end; the handler sorts them out.                                          *)
TwoWireDevice == <<
  Test({"TWD"}, {},
       <<Install({"TWD"}, "twd"), Enable({"TWD"}), Set("on"), Dev("TWD", "on"), Dev("TWI", "on"),
         Write("event", "begin"), Dev("TWD", "go"), Wfi, Write("event", "byte"), Dev("TWD", "go"), Wfi,
         Write("event", "begin"), Dev("TWD", "go"), Wfi, Write("event", "end"), Dev("TWD", "go"), Wfi,
         Mie({}), Require("twd_irq", <<"begin", "byte", "begin", "end">>),
         RequireDev("TWD", "idle")>>, {"TWD"})>>

Tracer == <<
  Test({"TRACER"}, {}, <<Dev("TRACER", "on"), Mie({"TRACER"}), Dev("TRACER", "go"), Nops,
                         Dev("TRACER", "ack"), Mie({})>>, {"TRACER"})>>

(* SPI, TWI, NEOLED and ONEWIRE interrupt while they are enabled and idle.   *)
(* Fault: the SPI test leaves its interrupt enabled.                         *)
SerialMastersLeaveMie == <<
  Test({"SPI"}, {}, <<Dev("SPI", "on"), Mie({"SPI"}), Dev("SPI", "go"), Wfi,
                      RequireDev("SPI", "idle")>>, {"SPI"}),
  Test({"TWI"}, {}, <<Dev("TWI", "on"), Dev("TWD", "on"), Dev("TWI", "go"), Mie({"TWI"}), Wfi, Mie({}),
                      RequireDev("TWI", "idle")>>, {"TWI"})>>
SerialMasters == <<
  Test({"SPI"}, {}, <<Dev("SPI", "on"), Mie({"SPI"}), Dev("SPI", "go"), Wfi, Mie({}),
                      RequireDev("SPI", "idle")>>, {"SPI"}),
  Test({"TWI"}, {}, <<Dev("TWI", "on"), Dev("TWD", "on"), Dev("TWI", "go"), Mie({"TWI"}), Wfi, Mie({}),
                      RequireDev("TWI", "idle")>>, {"TWI"})>>

Gpio == <<
  Test({"GPIO"}, {}, <<Install({"GPIO"}, "gpio"), Enable({"GPIO"}), Set("on"), Dev("GPIO", "on"),
                       Dev("GPIO", "go"), Nops, Mie({}), Require("gpio_ack", TRUE)>>, {"GPIO"}),
  Test({"NEOLED"}, {}, <<Mie({"NEOLED"}), Dev("NEOLED", "on"), Dev("NEOLED", "go"), Nops, Mie({}),
                         RequireDev("NEOLED", "idle")>>, {"NEOLED"})>>

DmaAndSdi == <<
  Test({"DMA"}, {}, <<Dev("DMA", "on"), Mie({"DMA"}), Line("fence"), Dev("DMA", "go"), Wfi, Mie({}),
                      Line("fence"), RequireDev("DMA", "fired"), Dev("DMA", "off")>>, {"DMA"}),
  Test({"SDI", "SPI"}, {}, <<Dev("SDI", "on"), Dev("SPI", "on"), Mie({"SDI"}), Dev("SDI", "go"), Wfi,
                             Mie({}), RequireDev("SDI", "fired"), Dev("SDI", "ack")>>, {"SDI"})>>

Timers == <<
  Test({"GPTMR"}, {}, <<Dev("GPTMR", "on"), Mie({"GPTMR"}), Dev("GPTMR", "go"), Wfi, Mie({}),
                        RequireDev("GPTMR", "fired"), Dev("GPTMR", "ack"), RequireDev("GPTMR", "idle"),
                        Dev("GPTMR", "off")>>, {"GPTMR"}),
  Test({"ONEWIRE"}, {}, <<Dev("ONEWIRE", "on"), Dev("ONEWIRE", "go"), Mie({"ONEWIRE"}), Wfi, Mie({})>>,
       {"ONEWIRE"})>>

Streams == <<
  Test({"SLINK"}, {}, <<Dev("SLINK", "on"), Mie({"SLINK"}), Dev("SLINK", "go"), Nops, Mie({}),
                        RequireDev("SLINK", "fired"), Dev("SLINK", "ack")>>, {"SLINK"}),
  Test({"TRNG"}, {}, <<Dev("TRNG", "on"), Dev("TRNG", "go"), Mie({"TRNG"}), Wfi, Mie({}),
                       RequireDev("TRNG", "fired"), Dev("TRNG", "off")>>, {"TRNG"})>>

Calls == {"MENV_CALL", "UENV_CALL"}
SystemService == <<
  Test({}, {}, <<Install(Calls, "service"), UserMode, Write("x", [a0 |-> 127, a1 |-> 2, a2 |-> 3, ra |-> 0]),
                 Ecall, Require("x", [a0 |-> 5, a1 |-> 2, a2 |-> 3, ra |-> 0]),
                 Install(Calls, "global")>>, Calls)>>

HeapAndMemories == <<
  Test({}, {}, <<>>, NoTrap),
  Test({}, {}, <<Require("constructed", TRUE)>>, Any),
  Test({"SMC", "sim"}, {}, <<Mem("W", "ram"), Line("fence"), Mem("R", "ram")>>, NoTrap)>>

Sleeping == <<
  Test({"CLINT", "U"}, {}, <<Dev("MTI", "go"), Mie({"MTI"}), Clr("on"), Clr("mpie"), UserMode, Wfi, Mie({})>>,
       {"MTI"}),
  Test({"CLINT"}, {}, <<Clr("on"), Dev("MTI", "go"), Mie({"MTI"}), Wfi, Mie({}), Set("on")>>, NoTrap),
  Test({"U"}, {}, <<Set("tw"), UserMode, Wfi>>, {"I_ILLEGAL"}),
  Test({"U"}, {}, <<UserMode, Priv>>, {"I_ILLEGAL"})>>

Atomics == <<
  Test({"ZALRSC"}, {}, <<Mem("R", "ram"), Mem("W", "ram"), Mem("W", "unreachable")>>, {"S_ACCESS"}),
  Test({"ZALRSC"}, {}, <<Traps(0), [i |-> "amo"], Exc("S_MISALIGNED"), Traps(1)>>, {"S_MISALIGNED"})>>

(* Entry 2 lets user mode execute everywhere, entry 1 read the region. *)
Protection == <<
  Test({"PMP"}, {}, <<UserMode, Mem("R", "ram")>>, {"L_ACCESS"}),
  Test({"PMP"}, {}, <<Write("pmp", {"x", "r"})>>, NoTrap),
  Test({"PMP"}, {}, <<UserMode, Mem("R", "region"), Ecall, Require("got", TRUE)>>, Any),
  Test({"PMP"}, {}, <<UserMode, Mem("W", "region"), Require("got", FALSE)>>, {"S_ACCESS"}),
  Test({"PMP"}, {}, <<UserMode, Jump("region")>>, {"I_ACCESS"}),
  Test({"PMP"}, {}, <<Set("mprv"), Write("mpp", "U"), Mem("W", "region"), Clr("mprv"),
                      Require("got", FALSE)>>, {"S_ACCESS"}),
  Test({"PMP"}, {}, <<Write("pmp", {"x", "r", "lock"}), Mem("W", "region"),
                      Require("got", FALSE)>>, {"S_ACCESS"})>>

DualCore == <<
  Test({"SMP", "CLINT"}, {}, <<Write("atomic_cnt", 1), Mie({"MSI"}), Launch, Wfi, Mie({}),
                               Dev("MSI", "ack"), Require("atomic_cnt", 2)>>, {"MSI"})>>

Program == <<Begin>> \o CounterSetup \o FenceAndCounters \o CounterAccess \o ExternalMemory
  \o CacheErrors \o CsrExceptions \o FetchExceptions \o IllegalInstructions \o LoadStoreExceptions
  \o EnvironmentCalls \o ClintInterrupts \o PermanentInterrupt \o VectoredInterrupt \o UartTests
  \o TwoWireDevice \o Tracer \o SerialMasters \o Gpio \o DmaAndSdi \o Timers \o Streams
  \o SystemService \o HeapAndMemories \o Sleeping \o Atomics \o Protection \o DualCore
=============================================================================
