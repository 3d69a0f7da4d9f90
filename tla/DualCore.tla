------------------------------ MODULE DualCore ------------------------------
(* The two cores, their shared bus with the reservation set, and the CLINT,  *)
(* running the programs of sw/example that use them: start-up code of core 1 *)
(* (sw/common/crt0.S), the launch of core 1 (sw/lib/source/astrarv32_smp.c), *)
(* the CLINT driver, the two spin locks and the demo programs.               *)
(*                                                                           *)
(* What a core still has to do is a sequence of operations.  One that        *)
(* touches shared state is a bus access of two steps, strobe and answer;     *)
(* accesses of the two cores follow one another (SwitchedBus).  Every step   *)
(* is one clock of the CLINT.                                                *)
EXTENDS AmoRvs, Clint, Sequences, FiniteSets

CONSTANTS Programs,         \* the programs to run
          Polls,            \* how often a launch asks for an acknowledge
          NUM_MAX,          \* range of the prime number program
          Sec               \* a second, in clocks

ASSUME DualCoreAssumption ==
    /\ Programs \subseteq {"message", "retry", "primes", "rte", "clock"}
    /\ Polls \in Nat \ {0} /\ NUM_MAX \in Nat /\ Sec \in Nat \ {0}

VARIABLES program,          \* the program that runs
          code,             \* per core: the operations to come
          hart,             \* per core: on (mstatus.MIE), mie, mtvec
          loc,              \* per core: locals t, u (read words) and target
          bus,              \* the access in progress: its core and data
          mem,              \* the shared words
          lut,              \* the runtime environment's handler table
          line,             \* authors of the characters of the current message
          launch,           \* astrarv32_smp_launch: stage, polls, rc, tries
          boot,             \* core 1's stack pointer and entry point
          alarm,            \* per core: the compare time set last
          began             \* per core: the time when time_get began

softVars == <<program, code, hart, loc, bus, mem, lut, line, launch, boot, alarm, began>>
vars == <<rvsVars, clintVars, softVars>>

StackTop == 1               \* half words that are addresses
crt0_entry == 2
main_core1 == 3
Idle == [id |-> 2, data |-> 0]
Never == 1000               \* upper half of a compare time never reached

-----------------------------------------------------------------------------
(* Library routines and programs, as sequences of operations. *)

\* Fault: the lock is taken by a read and a write.
spin_lockPlain == <<"lock_ld", "lock_st">>
spin_lock == IF program = "rte" THEN <<"lock_swap">> ELSE <<"lock_lr">>
spin_unlock == IF program = "rte" THEN <<"unlock_swap">> ELSE <<"unlock_lr", "unlock_sc">>
spin_check == <<"check_lr">>
printf == <<"char", "char">>
Locked(text) == spin_lock \o text \o spin_unlock

__astrarv32_smp_boot == <<"boot_stack", "boot_entry", "msi_launch", "boot_poll">>
astrarv32_smp_launch == <<"launch">> \o __astrarv32_smp_boot

astrarv32_clint_time_set == <<"time_lo0", "time_hi", "time_lo">>
\* Fault: the upper half is not read again.
astrarv32_clint_time_getOnce == <<"get_hi", "get_lo">>
astrarv32_clint_time_get == <<"get_hi", "get_lo", "get_hi2">>
\* Fault: the lower half is not kept out of reach first.
astrarv32_clint_mtimecmp_setDirect == <<"cmp_begin", "cmp_hi", "cmp_lo">>
astrarv32_clint_mtimecmp_set == <<"cmp_begin", "cmp_lo1", "cmp_hi", "cmp_lo">>
astrarv32_clint_mtimecmp_get == <<"cmp_get_lo", "cmp_get_hi">>

\* demo_dual_core, demo_dual_core_primes
main_core1_message == <<"rte_setup">> \o Locked(printf) \o <<"exit">>
\* Fault: the end is signalled before the result is stored.
core1_entryEarly == <<"rte_setup", "run_wait", "arg_beg", "arg_end", "run_done", "result", "exit">>
core1_entry == <<"rte_setup", "run_wait", "arg_beg", "arg_end", "result", "run_done", "exit">>

\* demo_dual_core_rte
app_main == <<"rte_setup">> \o Locked(printf) \o <<"target0">> \o astrarv32_clint_mtimecmp_set
            \o <<"install_MTI", "mie_MTI", "install_MSI", "mie_MSI", "install_ecall",
                 "ecall", "on">>
trap_handler_mtmi == Locked(printf) \o astrarv32_clint_time_get \o <<"target_next">>
                     \o astrarv32_clint_mtimecmp_set \o <<"msi_other", "mret">>
\* Fault: the software interrupt is not cleared.
trap_handler_mswiKept == Locked(printf) \o <<"mret">>
trap_handler_mswi == Locked(printf) \o <<"msi_clr", "mret">>
trap_handler_ecall == Locked(printf) \o <<"eret">>

\* demo_clint
mti_irq_handler == astrarv32_clint_mtimecmp_get \o <<"target_add">>
                   \o astrarv32_clint_mtimecmp_set \o <<"msi_self">>
                   \o astrarv32_clint_time_get \o <<"mret">>
msi_irq_handler == <<"msi_clr", "mret">>
main_clint ==
    <<"rte_setup", "available", "target_unix">> \o astrarv32_clint_time_set \o astrarv32_clint_time_get
    \o <<"target_never">> \o astrarv32_clint_mtimecmp_set \o <<"install_MTI", "install_MSI">>
    \o astrarv32_clint_time_get \o <<"target_next">> \o astrarv32_clint_mtimecmp_set
    \o <<"mie_MTI", "mie_MSI", "on">>

main_message ==
    <<"rte_setup", "available">> \o astrarv32_smp_launch \o Locked(printf) \o spin_check \o <<"exit">>
main_primes == <<"rte_setup", "available">> \o astrarv32_smp_launch
               \o <<"arg0", "arg1", "run", "run_check", "sum", "exit">>
main_rte == <<"rte_setup", "available", "target0">> \o astrarv32_clint_time_set
            \o astrarv32_smp_launch \o app_main
main == CASE program \in {"message", "retry"} -> main_message
          [] program = "primes" -> main_primes
          [] program = "rte" -> main_rte
          [] program = "clock" -> main_clint
entry_point == CASE program \in {"message", "retry"} -> main_core1_message
                 [] program = "primes" -> core1_entry
                 [] program = "rte" -> app_main
                 [] program = "clock" -> <<>>

Handler(name) == CASE name = "trap_handler_mtmi" -> trap_handler_mtmi
                   [] name = "trap_handler_mswi" -> trap_handler_mswi
                   [] name = "trap_handler_ecall" -> trap_handler_ecall
                   [] name = "mti_irq_handler" -> mti_irq_handler
                   [] name = "msi_irq_handler" -> msi_irq_handler
                   [] name = "panic MTI" -> printf \o <<"mask_MTI", "mret">>
                   [] name = "panic MSI" -> printf \o <<"mask_MSI", "mret">>
                   [] name = "panic ecall" -> printf \o <<"eret">>
panic == [MTI |-> "panic MTI", MSI |-> "panic MSI", ecall |-> "panic ecall"]
handler == IF program = "rte" THEN [MTI |-> "trap_handler_mtmi", MSI |-> "trap_handler_mswi",
                                    ecall |-> "trap_handler_ecall"]
           ELSE [MTI |-> "mti_irq_handler", MSI |-> "msi_irq_handler", ecall |-> "panic ecall"]

\* Core 1 waits in crt0 for its software interrupt; its handler there:
\* Fault: the request is acknowledged before it is read.
__crt0_smp_wakeupAckFirst == <<"wake_ack", "wake_sp", "wake_entry", "main_entry">>
__crt0_smp_wakeup == <<"wake_sp", "wake_entry", "wake_ack", "main_entry">>
__crt0_smp_setup == [on |-> TRUE, mie |-> {"MSI"}, mtvec |-> "wakeup"]

-----------------------------------------------------------------------------
(* Prime numbers. *)

is_prime(n) ==
    n >= 2 /\ \A i \in 2 .. n : i * i <= n => n % i # 0

count_primes(beg, end) == Cardinality({i \in beg .. end - 1 : is_prime(i)})

-----------------------------------------------------------------------------
(* The bus accesses. *)

Word(op, a, data) == [op |-> op, a |-> a, hart |-> 0, half |-> "lo", data |-> data]
Clint(op, reg, h, half, data) ==
    [op |-> op, a |-> reg, hart |-> h, half |-> half, data |-> data]

\* The access of an operation; the ones missing here make none.
Access(c, o) ==
    CASE o = "lock_ld"     -> Word("ld", "locked", 0)
      [] o = "lock_st"     -> Word("st", "locked", -1)
      [] o = "lock_lr"     -> Word("lr", "locked", 0)
      [] o = "lock_sc"     -> Word("sc", "locked", -1)
      [] o = "lock_swap"   -> Word("swap", "locked", -1)
      [] o = "unlock_lr"   -> Word("lr", "locked", 0)
      [] o = "unlock_sc"   -> Word("sc", "locked", 0)
      [] o = "unlock_swap" -> Word("swap", "locked", 0)
      [] o = "check_lr"    -> Word("lr", "locked", 0)
      [] o = "char"        -> Word("st", "uart", 0)
      [] o = "boot_stack"  -> Clint("st", "mtimecmp", 1, "lo", StackTop)
      [] o = "boot_entry"  -> Clint("st", "mtimecmp", 1, "hi",
                                    IF launch.stage = 1 THEN crt0_entry ELSE main_core1)
      [] o = "msi_launch"  -> Clint("st", "mswi", 1, "lo", 1)
      [] o = "boot_poll"   -> Clint("ld", "mswi", 1, "lo", 0)
      [] o = "wake_sp"     -> Clint("ld", "mtimecmp", 1, "lo", 0)
      [] o = "wake_entry"  -> Clint("ld", "mtimecmp", 1, "hi", 0)
      [] o = "wake_ack"    -> Clint("st", "mswi", 1, "lo", 0)
      [] o = "msi_other"   -> Clint("st", "mswi", 1 - c, "lo", 1)
      [] o = "msi_self"    -> Clint("st", "mswi", c, "lo", 1)
      [] o = "msi_clr"     -> Clint("st", "mswi", c, "lo", 0)
      [] o = "time_lo0"    -> Clint("st", "mtime", 0, "lo", 0)
      [] o = "time_hi"     -> Clint("st", "mtime", 0, "hi", High(loc[c].target))
      [] o = "time_lo"     -> Clint("st", "mtime", 0, "lo", Low(loc[c].target))
      [] o \in {"get_hi", "get_hi2"} -> Clint("ld", "mtime", 0, "hi", 0)
      [] o = "get_lo"      -> Clint("ld", "mtime", 0, "lo", 0)
      [] o = "cmp_lo1"     -> Clint("st", "mtimecmp", c, "lo", Half - 1)
      [] o = "cmp_hi"      -> Clint("st", "mtimecmp", c, "hi", High(loc[c].target))
      [] o = "cmp_lo"      -> Clint("st", "mtimecmp", c, "lo", Low(loc[c].target))
      [] o = "cmp_get_lo"  -> Clint("ld", "mtimecmp", c, "lo", 0)
      [] o = "cmp_get_hi"  -> Clint("ld", "mtimecmp", c, "hi", 0)
      [] o \in {"run_wait", "run_check"} -> Word("ld", "shared_run", 0)
      [] o = "run"         -> Word("st", "shared_run", 1)
      [] o = "run_done"    -> Word("st", "shared_run", 0)
      [] o \in {"arg_beg", "sum"} -> Word("ld", "shared_arg0", 0)
      [] o = "arg_end"     -> Word("ld", "shared_arg1", 0)
      [] o = "arg0"        -> Word("st", "shared_arg0", NUM_MAX \div 2)
      [] o = "arg1"        -> Word("st", "shared_arg1", NUM_MAX)
      [] o = "result"      -> Word("st", "shared_arg0", count_primes(loc[c].t, loc[c].u))

Internal == {"launch", "available", "rte_setup", "install_MTI", "install_MSI", "install_ecall", "mie_MTI",
             "mie_MSI", "mask_MTI", "mask_MSI", "on", "ecall", "mret", "eret", "main_entry",
             "target0", "target_unix", "target_never", "target_next", "target_add",
             "cmp_begin", "exit"}

ClintWrite(r) == IF r.op = "st" /\ r.a \in {"mtime", "mtimecmp", "mswi"}
                 THEN [reg |-> r.a, hart |-> r.hart, half |-> r.half, data |-> r.data]
                 ELSE NoWrite

\* The clock is of no consequence to the programs that set no alarm.
Clock(w) == ClintClock(w, program = "clock" \/ (program = "rte" /\ launch.rc = 0))

Read(r) == IF r.a \in DOMAIN mem THEN mem[r.a]
           ELSE IF r.op = "ld" THEN read_back(r.a, r.hart, r.half) ELSE 0
Written(r, req) == \/ r.op \in {"st", "swap"} /\ r.a \in DOMAIN mem
                   \/ r.op = "sc" /\ sc_valid(req)

\* A character starts, continues or ends a message of two.
Putc(c) == line' = IF Len(line) = 1 THEN (IF line[1] = c THEN <<>> ELSE Append(line, c))
                   ELSE <<c>>

BusFree == bus = Idle
Op(c) == Head(code[c])
Busy(c) == code[c] # <<>>

Strobe(c) ==
    /\ BusFree /\ Busy(c) /\ Op(c) \notin Internal
    /\ LET r == Access(c, Op(c))
           req == [stb |-> TRUE, id |-> c, op |-> r.op, a |-> r.a,
                   rw |-> r.op \in {"st", "sc", "swap"}]
       IN /\ RvsClock(req, [ack |-> FALSE])
          /\ bus' = [id |-> c, data |-> Read(r)]
          /\ mem' = IF Written(r, req) THEN [mem EXCEPT ![r.a] = r.data] ELSE mem
          /\ Clock(ClintWrite(r))
    /\ IF Op(c) = "char" THEN Putc(c) ELSE UNCHANGED line
    /\ began' = IF Op(c) = "get_hi" THEN [began EXCEPT ![c] = Time] ELSE began
    /\ UNCHANGED <<program, code, hart, loc, lut, launch, boot, alarm>>

-----------------------------------------------------------------------------
(* The answer, and what the core does with it. *)

Rest(c) == Tail(code[c])
Done(c) == [code EXCEPT ![c] = Rest(c)]
Again(c, ops) == [code EXCEPT ![c] = ops \o Rest(c)]

\* The operations that depend on what was read.
Continue(c, data) ==
    CASE Op(c) \in {"lock_ld", "lock_swap", "check_lr", "run_check"} ->
             IF data = 0 THEN Done(c) ELSE code
      [] Op(c) = "run_wait"  -> IF data = 0 THEN code ELSE Done(c)
      [] Op(c) = "lock_lr"   -> IF data = 0 THEN Again(c, <<"lock_sc">>) ELSE code
      [] Op(c) = "lock_sc"   -> IF data = 0 THEN Done(c) ELSE Again(c, <<"lock_lr">>)
      [] Op(c) = "unlock_sc" -> IF data = 0 THEN Done(c)
                                ELSE Again(c, <<"unlock_lr", "unlock_sc">>)
      [] Op(c) = "get_hi2"   -> IF data = loc[c].t THEN Done(c)
                                ELSE Again(c, astrarv32_clint_time_get)
      [] OTHER -> Done(c)

Locals(c, data) ==
    loc' = CASE Op(c) = "get_hi"     -> [loc EXCEPT ![c].t = data]
             [] Op(c) = "get_lo"     -> [loc EXCEPT ![c].time = loc[c].t * Half + data]
             [] Op(c) = "cmp_get_lo" -> [loc EXCEPT ![c].u = data]
             [] Op(c) = "cmp_get_hi" -> [loc EXCEPT ![c].time = data * Half + loc[c].u]
             [] Op(c) = "arg_beg"    -> [loc EXCEPT ![c].t = data]
             [] Op(c) = "arg_end"    -> [loc EXCEPT ![c].u = data]
             [] Op(c) = "sum"        -> [loc EXCEPT ![c].u = count_primes(0, NUM_MAX \div 2) + data]
             [] OTHER -> loc

\* No acknowledge after Polls tries: the launch failed and main gives up; the
\* program "retry" launches once more.
Polled(data) ==
    IF data = 0
    THEN /\ code' = IF launch.stage = 1 THEN Again(0, __astrarv32_smp_boot) ELSE Done(0)
         /\ launch' = [launch EXCEPT !.stage = 2, !.polls = 0,
                                     !.rc = IF launch.stage = 1 THEN -3 ELSE 0]
    ELSE IF launch.polls < Polls - 1
    THEN launch' = [launch EXCEPT !.polls = @ + 1] /\ UNCHANGED code
    ELSE /\ launch' = [launch EXCEPT !.rc = -2]
         /\ code' = IF program = "retry" /\ launch.tries = 1
                    THEN Again(0, astrarv32_smp_launch) ELSE [code EXCEPT ![0] = <<"exit">>]

Answer(c) ==
    /\ bus.id = c
    /\ RvsClock([stb |-> FALSE], [ack |-> TRUE])
    /\ bus' = Idle
    /\ LET data == response([data |-> bus.data]).data
       IN /\ IF Op(c) = "boot_poll" THEN Polled(data)
             ELSE code' = Continue(c, data) /\ UNCHANGED launch
          /\ Locals(c, data)
          /\ boot' = CASE Op(c) = "wake_sp"    -> [boot EXCEPT !.sp = data]
                       [] Op(c) = "wake_entry" -> [boot EXCEPT !.entry = data]
                       [] OTHER -> boot
    /\ alarm' = IF Op(c) = "cmp_lo" THEN [alarm EXCEPT ![c] = {loc[c].target}] ELSE alarm
    /\ Clock(NoWrite)
    /\ UNCHANGED <<program, hart, mem, lut, line, began>>

-----------------------------------------------------------------------------
(* Steps inside a core. *)

Target(c) ==
    CASE Op(c) = "target0"      -> 0
      [] Op(c) = "target_unix"  -> 2 * Sec
      [] Op(c) = "target_never" -> Never * Half
      [] Op(c) = "target_next"  -> loc[c].time + (IF c = 0 THEN Sec ELSE 2 * Sec)
      [] Op(c) = "target_add"   -> loc[c].time + Sec
      [] OTHER -> loc[c].target

SetHart(c) ==
    hart' = CASE Op(c) = "rte_setup" ->
                   [hart EXCEPT ![c] = [on |-> FALSE, mie |-> {}, mtvec |-> "rte"]]
              [] Op(c) = "exit" ->
                   [hart EXCEPT ![c] = [on |-> FALSE, mie |-> {}, mtvec |-> "panic"]]
              [] Op(c) = "mie_MTI"  -> [hart EXCEPT ![c].mie = @ \cup {"MTI"}]
              [] Op(c) = "mie_MSI"  -> [hart EXCEPT ![c].mie = @ \cup {"MSI"}]
              [] Op(c) = "mask_MTI" -> [hart EXCEPT ![c].mie = @ \ {"MTI"}]
              [] Op(c) = "mask_MSI" -> [hart EXCEPT ![c].mie = @ \ {"MSI"}]
              [] Op(c) \in {"on", "mret"} -> [hart EXCEPT ![c].on = TRUE]
              [] Op(c) = "main_entry" /\ boot.entry = crt0_entry ->
                   [hart EXCEPT ![c] = __crt0_smp_setup]
              [] OTHER -> hart

SetLut(c) ==
    lut' = CASE Op(c) = "rte_setup" /\ c = 0 -> panic
             [] Op(c) = "install_MTI" -> [lut EXCEPT !.MTI = handler.MTI]
             [] Op(c) = "install_MSI" -> [lut EXCEPT !.MSI = handler.MSI]
             [] Op(c) = "install_ecall" -> [lut EXCEPT !.ecall = handler.ecall]
             [] OTHER -> lut

\* A program ends early when the configuration lacks what it needs.
SetCode(c) ==
    \/ Op(c) = "available" /\ code' = [code EXCEPT ![c] = <<"exit">>]
    \/ code' = CASE Op(c) = "ecall" -> Again(c, Handler(lut.ecall))
                 [] Op(c) = "main_entry" /\ boot.entry = main_core1 ->
                        [code EXCEPT ![c] = entry_point]
                 [] OTHER -> Done(c)

\* The program demo_dual_core_rte relies on this: core 0 fills the handler table in
\* app_main before core 1, which prints a message first, installs handlers there.
GreetingTakesLonger(c) ==
    Op(c) = "install_MTI" => \A i \in DOMAIN code[1 - c] : code[1 - c][i] # "rte_setup"

Inside(c) ==
    /\ bus.id # c /\ Busy(c) /\ Op(c) \in Internal
    /\ GreetingTakesLonger(c)
    /\ SetCode(c) /\ SetHart(c) /\ SetLut(c)
    /\ loc' = [loc EXCEPT ![c].target = Target(c)]
    /\ launch' = IF Op(c) = "launch"
                 THEN [stage |-> 1, polls |-> 0, rc |-> -3, tries |-> launch.tries + 1] ELSE launch
    /\ alarm' = IF Op(c) = "cmp_begin" THEN [alarm EXCEPT ![c] = @ \cup {loc[c].target}] ELSE alarm
    /\ Clock(NoWrite)
    /\ UNCHANGED <<rvsVars, program, bus, mem, line, boot, began>>

Pending(c) == {i \in hart[c].mie : \/ i = "MSI" /\ mswi[c] = 1
                                   \/ i = "MTI" /\ mti[c]}

\* A software interrupt goes before a timer interrupt.
Trap(c) ==
    /\ bus.id # c /\ hart[c].on /\ Pending(c) # {}
    /\ LET cause == IF "MSI" \in Pending(c) THEN "MSI" ELSE "MTI"
       IN code' = [code EXCEPT ![c] = IF hart[c].mtvec = "wakeup" THEN __crt0_smp_wakeup
                                      ELSE Handler(lut[cause]) \o @]
    /\ hart' = IF hart[c].mtvec = "wakeup"
               THEN [hart EXCEPT ![c] = [on |-> FALSE, mie |-> {}, mtvec |-> "panic"]]
               ELSE [hart EXCEPT ![c].on = FALSE]
    /\ Clock(NoWrite)
    /\ UNCHANGED <<rvsVars, program, loc, bus, mem, lut, line, launch, boot, alarm, began>>

Tick == Clock(NoWrite) /\ UNCHANGED <<rvsVars, softVars>>

-----------------------------------------------------------------------------
Init ==
    /\ RvsInit("locked") /\ ClintInit
    /\ program \in Programs
    /\ code = [c \in Core |-> IF c = 0 THEN main ELSE <<>>]
    /\ hart = [c \in Core |-> IF c = 1 THEN __crt0_smp_setup
                              ELSE [on |-> FALSE, mie |-> {}, mtvec |-> "panic"]]
    /\ loc = [c \in Core |-> [t |-> 0, u |-> 0, time |-> 0, target |-> 0]]
    /\ bus = Idle
    /\ mem = [locked |-> 0, shared_run |-> 0, shared_arg0 |-> 0, shared_arg1 |-> 0]
    /\ lut = panic
    /\ line = <<>>
    /\ launch = [stage |-> 1, polls |-> 0, rc |-> -3, tries |-> 0]
    /\ boot = [sp |-> 0, entry |-> 0]
    /\ alarm = [c \in Core |-> {0}]
    /\ began = [c \in Core |-> 0]

Step(c) == Strobe(c) \/ Answer(c) \/ Inside(c) \/ Trap(c)

Next == Tick \/ \E c \in Core : Step(c)

\* Both cores run, the arbiter serves both, the clock runs.
Spec == Init /\ [][Next]_vars /\ WF_vars(Tick) /\ \A c \in Core : SF_vars(Step(c))

-----------------------------------------------------------------------------
\* A launch that reports success has started core 1: on its stack, at its entry
\* point, however late core 1 answered an earlier request.
LaunchTruthful ==
    launch.rc = 0 => boot = [sp |-> StackTop, entry |-> main_core1]

\* The lock keeps the messages of the two cores apart.
MessagesWhole == \A i, j \in DOMAIN line : line[i] = line[j]

\* The two cores together count every prime number once.
PrimesRight ==
    program = "primes" /\ code[0] = <<>> /\ launch.rc = 0 =>
        loc[0].u = Cardinality({n \in 1 .. NUM_MAX - 1 :
                                 Cardinality({d \in 1 .. n : n % d = 0}) = 2})

\* A timer interrupt never comes before the compare time, and while that is
\* being changed never before the earlier of the old and the new one.
NoEarlyInterrupt == \A c \in Core : mti[c] => \E t \in alarm[c] : Time >= t

\* The time read is one the clock showed between begin and end of the read.
TimeNotTorn ==
    \A c \in Core : Busy(c) /\ Op(c) \in {"target_next", "mret"} /\ loc[c].time # 0 =>
                        began[c] <= loc[c].time /\ loc[c].time <= Time

\* Every interrupt is served in the end, by programs that do not compete for the
\* lock with load-reserved loops; and the two cores finish counting.
Served ==
    /\ program \in {"rte", "clock"} =>
        \A c \in Core : /\ (mti[c] /\ "MTI" \in hart[c].mie) ~> ~mti[c]
                        /\ (mswi[c] = 1) ~> (mswi[c] = 0 \/ launch.rc = -2)
    /\ (program = "primes" /\ launch.rc = 0) ~> (code[0] = <<>> /\ mem.shared_run = 0)

\* Competing for the spin lock, a core that holds it releases it in the end.
LockReleased == (mem.locked # 0) ~> (mem.locked = 0)

\* What the cores share through locks and software interrupts stays whole.
SharedDataWhole == MessagesWhole /\ PrimesRight

\* The timer is read and compared as one number, although it has two halves.
TimerWhole == NoEarlyInterrupt /\ TimeNotTorn

-----------------------------------------------------------------------------
\* Granularity for model checking: the lock and the variables of the prime
\* number program lie in one block.
G(a) == IF a \in {"locked", "shared_run", "shared_arg0", "shared_arg1"} THEN "block" ELSE "device"
=============================================================================
