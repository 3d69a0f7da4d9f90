----------------------------- MODULE CpuControl -----------------------------
(***************************************************************************)
(* rtl/core/astrarv32_cpu_control.vhd: the execution sequencer of the CPU, *)
(* its trap buffer, trap priority, debug-mode control and the trap-related *)
(* CSRs, with the front-end, the data path and the load/store unit as      *)
(* environment.  One step is one rising clock edge in one sequencer state. *)
(*                                                                         *)
(* Instructions are classes of opcodes; operands and addresses are left    *)
(* out.  Of the next program counter, pc2, only its origin is kept; the    *)
(* trap program counter is "pc" (the instruction executed last) or "pc2"   *)
(* (the one after it).  Configuration: U and Sdext, no C, no Sdtrig;       *)
(* mstatus.tw stays zero.  CP_TMO stands for 2**alu_cp_tmo_c cycles.       *)
(***************************************************************************)
EXTENDS Naturals, Sequences, SequencesExt

CONSTANTS Irqs,     \* maskable interrupts, highest priority first; "mti" last
          CP_TMO,   \* cycles until the monitor ends a multi-cycle operation
          Setups    \* what software and hardware do: [ops, lines] records

ASSUME CpuAssumption == /\ CP_TMO \in Nat /\ CP_TMO > 2
                        /\ Irqs \in Seq(STRING) /\ Irqs # <<>> /\ Last(Irqs) = "mti"

VARIABLES setup,                          \* the record chosen for this run
          refetch,                        \* cycles until the front-end can deliver
          state, op, pc2, monitor_cnt,    \* sequencer, instruction, origin of pc2
          ctrl,                           \* registered control bus
          lsu,                            \* the LSU's verdict on the address
          exc_buf, irq_pnd, irq_buf, env_pend,
          csr,                            \* trap and debug CSRs
          run,                            \* debug_ctrl.run
          lines,                          \* interrupt and halt request lines
          effects,                        \* history: what "op" has changed
          enabled                         \* history: "op" could be interrupted

vars == <<setup, refetch, state, op, pc2, monitor_cnt, ctrl, lsu, exc_buf, irq_pnd,
          irq_buf, env_pend, csr, run, lines, effects, enabled>>

States == {"S_RESTART", "S_DISPATCH", "S_TRAP_ENTER", "S_TRAP_EXIT", "S_EXECUTE",
           "S_ALU_WAIT", "S_BRANCH", "S_MEM_REQ", "S_MEM_RSP", "S_SYSTEM", "S_SLEEP"}

Interrupts == ToSet(Irqs)
InstrExc   == {"iaccess", "illegal", "ialign"}
MemExc     == {"salign", "lalign", "saccess", "laccess"}
SyncExc    == InstrExc \cup {"ecall", "ebreak"} \cup MemExc   \* they gate rf_wb_en
Exceptions == SyncExc \cup {"db_brkp", "db_step"}

ASSUME NamesAssumption == Interrupts \cap (Exceptions \cup {"halt"}) = {}

Reads  == {"load", "amo"}
Writes == {"store", "amo"}
CsrOps == {"csr_mstatus", "csr_mie", "csr_dcsr"}
SystemOps == CsrOps \cup {"ecall", "ebreak", "mret", "dret", "wfi", "illegal"}
Ops    == {"alu", "mul", "branch", "jal", "fence"} \cup Reads \cup Writes \cup SystemOps

Csrs == [prv : {"M", "U"}, mie : BOOLEAN, mpie : BOOLEAN, mpp : {"M", "U"},
         mask : SUBSET Interrupts, step : BOOLEAN, ebreak : SUBSET {"M", "U"}, dprv : {"M", "U"}]
Ctrl == [wb : BOOLEAN, csr_we : BOOLEAN, lsu_req : BOOLEAN]
Origins == {"boot", "linear", "target", "mtvec", "park", "exc", "mepc", "dpc"}

ASSUME SetupAssumption == \A s \in Setups : s.ops \subseteq Ops

-----------------------------------------------------------------------------
(* Trap triggers and priority *)

exc_fire == exc_buf # {}

CanInterrupt == /\ csr.mie \/ csr.prv = "U"
                /\ ~run /\ ~csr.step

\* Fault: system interrupts fire in every state, as the halt request does.
irq_fireAnyState == \/ irq_buf \cap Interrupts # {} /\ CanInterrupt
                    \/ "halt" \in irq_buf

\* Fault: user mode does not enable interrupts.
irq_fireMieOnly == \/ /\ state \in {"S_EXECUTE", "S_SLEEP"}
                      /\ irq_buf \cap Interrupts # {}
                      /\ CanInterrupt /\ csr.mie
                   \/ "halt" \in irq_buf

\* Fault: a halt request is masked like an interrupt.
irq_fireHaltMasked == /\ state \in {"S_EXECUTE", "S_SLEEP"}
                      /\ irq_buf # {}
                      /\ CanInterrupt

irq_fire == \/ /\ state \in {"S_EXECUTE", "S_SLEEP"}
               /\ irq_buf \cap Interrupts # {}
               /\ CanInterrupt
            \/ "halt" \in irq_buf

Priority == <<"iaccess", "illegal", "ialign", "ecall", "ebreak", "salign", "lalign",
              "saccess", "laccess", "halt", "db_brkp", "db_step">> \o Irqs

\* The encoder has no condition for its last source, the timer interrupt.
ecause == LET hits == {i \in DOMAIN Priority : Priority[i] \in exc_buf \cup irq_buf}
          IN IF hits = {} THEN "mti" ELSE Priority[Min(hits)]

IsDebugCause == ecause \in {"halt", "db_brkp", "db_step"}               \* ecause(5)
IsAsync      == ecause \in Interrupts \cup {"halt", "db_step"}          \* ecause(6)

epcAlwaysNext == "pc2"                     \* fault: mepc of exceptions
epc == IF IsAsync THEN "pc2" ELSE "pc"

-----------------------------------------------------------------------------
(* What one clock edge does outside the sequencer.  "ev" holds the         *)
(* sequencer's and the LSU's outputs of the cycle.                         *)

Drive(exc, wb, csr_we, lsu_req) ==
    [enter |-> FALSE, exit |-> FALSE, exc |-> exc,
     ctrl |-> [wb |-> wb, csr_we |-> csr_we, lsu_req |-> lsu_req]]
Raise(exc, wb) == Drive(exc, wb, FALSE, FALSE)
Quiet == Raise({}, FALSE)

Buffer == irq_buf' = (irq_pnd \cap (csr.mask \cup {"halt"}))
                           \cup (IF env_pend THEN irq_buf ELSE {})

Collect(ev) == exc_buf' = IF ev.enter THEN {} ELSE exc_buf \cup ev.exc

TrapBuffer(ev) ==
    /\ irq_pnd' = (lines \cap Interrupts) \cup (IF run THEN {} ELSE lines \cap {"halt"})
    /\ Buffer
    /\ Collect(ev)
    /\ env_pend' = (~ev.enter /\ (env_pend \/ exc_fire \/ irq_fire))

DebugControl(ev) == run' = IF ~run /\ ev.enter /\ IsDebugCause THEN TRUE
                           ELSE IF ev.exit THEN FALSE ELSE run

CsrWrite ==
    \/ /\ op = "csr_mstatus"
       /\ \E i, p \in BOOLEAN, m \in {"M", "U"} :
              csr' = [csr EXCEPT !.mie = i, !.mpie = p, !.mpp = m]
    \/ op = "csr_mie" /\ \E m \in SUBSET Interrupts : csr' = [csr EXCEPT !.mask = m]
    \/ /\ op = "csr_dcsr"
       /\ \E s \in BOOLEAN, b \in SUBSET {"M", "U"}, m \in {"M", "U"} :
              csr' = [csr EXCEPT !.step = s, !.ebreak = b, !.dprv = m]

\* Fault: entering debug mode keeps the privilege level.
CsrEnterKeepPrv == csr' = IF run THEN csr
                          ELSE IF IsDebugCause THEN [csr EXCEPT !.dprv = csr.prv]
                          ELSE [csr EXCEPT !.prv = "M", !.mpp = csr.prv,
                                           !.mie = FALSE, !.mpie = csr.mie]

CsrEnter == csr' = IF run THEN csr
                   ELSE IF IsDebugCause THEN [csr EXCEPT !.prv = "M", !.dprv = csr.prv]
                   ELSE [csr EXCEPT !.prv = "M", !.mpp = csr.prv,
                                    !.mie = FALSE, !.mpie = csr.mie]

CsrExit == csr' = IF run THEN [csr EXCEPT !.prv = csr.dprv]
                  ELSE [csr EXCEPT !.prv = csr.mpp, !.mpp = "U",
                                   !.mie = csr.mpie, !.mpie = TRUE]

CsrWriteAccess(ev) ==
    \/ ctrl.csr_we /\ CsrWrite
    \/ ~ctrl.csr_we /\ ev.enter /\ CsrEnter
    \/ ~ctrl.csr_we /\ ~ev.enter /\ ev.exit /\ CsrExit
    \/ ~ctrl.csr_we /\ ~ev.enter /\ ~ev.exit /\ csr' = csr

\* A request line stays high until a store of the software acknowledges it;
\* the debugger takes its halt request back once the hart has halted.
Environment(acked) ==
    \/ lines' = lines
    \/ \E l \in setup.lines \ lines : lines' = lines \cup {l}
    \/ acked /\ \E l \in lines \cap Interrupts : lines' = lines \ {l}
    \/ run /\ "halt" \in lines /\ lines' = lines \ {"halt"}

rf_wb_en == ctrl.wb /\ exc_buf \cap SyncExc = {}

\* What the current instruction has changed by the end of this cycle.  The
\* destination of system instructions other than CSR accesses is x0.
HasResult == {"alu", "mul", "jal"} \cup CsrOps \cup Reads
Applied == effects \cup (IF rf_wb_en /\ op \in HasResult THEN {"rf"} ELSE {})
                   \cup (IF ctrl.csr_we THEN {"csr"} ELSE {})
                   \cup (IF ctrl.lsu_req /\ lsu = "ok" THEN {"mem"} ELSE {})
                   \cup (IF state = "S_TRAP_EXIT" THEN {"exit"} ELSE {})

MonitorNext == monitor_cnt' = IF state = "S_ALU_WAIT"
                              THEN (monitor_cnt + 1) % (2 * CP_TMO) ELSE 0

Edge(ev, acked) ==
    /\ TrapBuffer(ev)
    /\ DebugControl(ev)
    /\ CsrWriteAccess(ev)
    /\ ctrl' = ev.ctrl
    /\ Environment(acked)
    /\ MonitorNext
    /\ UNCHANGED setup

\* The front-end discards what it has fetched and starts at pc2: a restart,
\* a request and an answer, each a cycle at least.
FetchRestart == refetch' = 2
FetchGoesOn == refetch' = IF refetch = 0 THEN 0 ELSE refetch - 1

\* A cycle of the instruction in execution.
Cycle(ev) == /\ Edge(ev, FALSE)
             /\ effects' = Applied
             /\ UNCHANGED <<op, enabled, lsu>>

-----------------------------------------------------------------------------
(* The sequencer *)

Init ==
    /\ setup \in Setups /\ refetch = 0
    /\ state = "S_RESTART" /\ op = "none" /\ pc2 = "boot" /\ monitor_cnt = 0
    /\ ctrl = Quiet.ctrl /\ lsu = "ok"
    /\ exc_buf = {} /\ irq_pnd = {} /\ irq_buf = {} /\ env_pend = FALSE
    /\ csr = [prv |-> "M", mie |-> FALSE, mpie |-> FALSE, mpp |-> "U", mask |-> {},
              step |-> FALSE, ebreak |-> {}, dprv |-> "U"]
    /\ run = FALSE /\ lines = {}
    /\ effects = {} /\ enabled = FALSE

Restart == /\ state = "S_RESTART"
           /\ state' = "S_DISPATCH"
           /\ FetchRestart
           /\ Cycle(Quiet) /\ UNCHANGED pc2

DispatchTrap == /\ state = "S_DISPATCH" /\ (env_pend \/ exc_fire)
                /\ state' = "S_TRAP_ENTER"
                /\ Cycle(Quiet) /\ FetchGoesOn /\ UNCHANGED pc2

CanIssue == state = "S_DISPATCH" /\ ~env_pend /\ ~exc_fire

\* The front-end has no instruction yet.
DispatchWait == /\ CanIssue
                /\ Cycle(Quiet) /\ FetchGoesOn /\ UNCHANGED <<state, pc2>>

Issue == /\ CanIssue /\ refetch = 0
         /\ \E o \in setup.ops, fault \in BOOLEAN :
                /\ op' = o
                /\ Edge(Raise(IF fault THEN {"iaccess"} ELSE {}, FALSE), FALSE)
         /\ state' = "S_EXECUTE"
         /\ effects' = {} /\ enabled' = FALSE
         /\ FetchGoesOn /\ UNCHANGED <<pc2, lsu>>

TrapVector == IF IsDebugCause THEN "park" ELSE IF run THEN "exc" ELSE "mtvec"

TrapEnter == /\ state = "S_TRAP_ENTER"
             /\ state' = "S_RESTART"
             /\ pc2' = TrapVector
             /\ Edge([Quiet EXCEPT !.enter = TRUE], FALSE)
             /\ op' = "none" /\ effects' = {} /\ enabled' = FALSE
             /\ FetchGoesOn /\ UNCHANGED lsu

TrapExit == /\ state = "S_TRAP_EXIT"
            /\ state' = "S_RESTART"
            /\ pc2' = IF run THEN "dpc" ELSE "mepc"
            /\ Cycle([Quiet EXCEPT !.exit = TRUE])
            /\ FetchGoesOn

\* Fault: instructions are not checked against the privilege level.
LegalUnprivileged == CASE op = "mret" -> ~run
                       [] op \in {"dret", "csr_dcsr"} -> run
                       [] op = "illegal" -> FALSE
                       [] OTHER -> TRUE

Legal == CASE op = "mret" -> csr.prv = "M" /\ ~run
           [] op \in {"csr_mstatus", "csr_mie"} -> csr.prv = "M"
           [] op \in {"dret", "csr_dcsr"} -> run
           [] op = "illegal" -> FALSE
           [] OTHER -> TRUE

\* Fault: the monitor never ends an operation.
instr_ilNoTimeout == IF ~Legal THEN {"illegal"} ELSE {}

instr_il == IF ~Legal \/ monitor_cnt >= CP_TMO THEN {"illegal"} ELSE {}

\* Where S_EXECUTE goes, per class of opcode.
NextOf == [o \in Ops |-> CASE o = "alu" -> "S_DISPATCH"
                           [] o = "mul" -> "S_ALU_WAIT"
                           [] o \in Reads \cup Writes -> "S_MEM_REQ"
                           [] o \in {"branch", "jal"} -> "S_BRANCH"
                           [] o = "fence" -> "S_RESTART"
                           [] OTHER -> "S_SYSTEM"]

Execute ==
    /\ state = "S_EXECUTE"
    /\ state' = NextOf[op]
    /\ pc2' = "linear"
    /\ enabled' = CanInterrupt
    /\ Edge(Raise(instr_il \cup (IF csr.step /\ ~run THEN {"db_step"} ELSE {}), op = "alu"), FALSE)
    /\ effects' = Applied
    /\ FetchGoesOn /\ UNCHANGED <<op, lsu>>

InstrFailed == exc_buf \cap InstrExc # {}

AluWait == /\ state = "S_ALU_WAIT"
           /\ \E done \in BOOLEAN :
                  /\ state' = IF done \/ InstrFailed THEN "S_DISPATCH" ELSE "S_ALU_WAIT"
                  /\ Cycle(Raise(instr_il, done))
           /\ FetchGoesOn /\ UNCHANGED pc2

Branch == /\ state = "S_BRANCH"
          /\ state' = "S_DISPATCH"
          /\ \E taken, misaligned \in BOOLEAN :
                 /\ op = "jal" => taken
                 /\ pc2' = IF taken THEN "target" ELSE pc2
                 /\ IF taken THEN FetchRestart ELSE FetchGoesOn
                 /\ Cycle(Raise(IF taken /\ misaligned THEN {"ialign"} ELSE {}, op = "jal"))

MemReq == /\ state = "S_MEM_REQ"
          /\ state' = IF InstrFailed THEN "S_DISPATCH" ELSE "S_MEM_RSP"
          /\ lsu' \in {"ok", "align", "access"}
          /\ Edge(Drive({}, FALSE, FALSE, ~InstrFailed), FALSE)
          /\ effects' = Applied
          /\ FetchGoesOn /\ UNCHANGED <<op, pc2, enabled>>

\* err_o of the LSU: an AMO reports both a load and a store error.
lsu_err(kind) == CASE kind = "align" -> (IF op \in Reads THEN {"lalign"} ELSE {}) \cup
                                        (IF op \in Writes THEN {"salign"} ELSE {})
                   [] kind = "access" -> (IF op \in Reads THEN {"laccess"} ELSE {}) \cup
                                         (IF op \in Writes THEN {"saccess"} ELSE {})
                   [] kind = "ok" -> {}

\* No answer yet; none comes if the LSU has withheld the request.
MemWait == /\ state = "S_MEM_RSP"
           /\ state' = IF exc_buf \cap MemExc # {} THEN "S_DISPATCH" ELSE "S_MEM_RSP"
           /\ Cycle(Raise(lsu_err(lsu), op \in Reads /\ exc_buf \cap MemExc # {}))
           /\ FetchGoesOn /\ UNCHANGED pc2

\* The bus answers, with or without an error.
MemAck == /\ state = "S_MEM_RSP" /\ lsu = "ok" /\ ~ctrl.lsu_req
          /\ state' = "S_DISPATCH"
          /\ \E kind \in {"ok", "access"} :
                 Edge(Raise(lsu_err(kind), op \in Reads), op \in Writes /\ kind = "ok")
          /\ effects' = Applied
          /\ FetchGoesOn /\ UNCHANGED <<op, pc2, lsu, enabled>>

\* Fault: an ebreak that is not for the debugger does nothing.
EbreakIgnored == IF run \/ csr.prv \in csr.ebreak THEN {"db_brkp"} ELSE {}

Ebreak == IF run \/ csr.prv \in csr.ebreak THEN {"db_brkp"} ELSE {"ebreak"}

\* Fault: environment instructions are taken for CSR writes.
CsrWeAnySystem == ~InstrFailed

CsrWe == ~InstrFailed /\ op \in CsrOps

System ==
    /\ state = "S_SYSTEM"
    /\ state' = IF InstrFailed THEN "S_DISPATCH"
                ELSE CASE op \in {"mret", "dret"} -> "S_TRAP_EXIT"
                       [] op = "wfi" -> "S_SLEEP"
                       [] OTHER -> "S_DISPATCH"
    /\ Cycle(Drive(IF InstrFailed THEN {}
                    ELSE CASE op = "ecall" -> {"ecall"} [] op = "ebreak" -> Ebreak [] OTHER -> {},
                   TRUE, CsrWe, FALSE))
    /\ FetchGoesOn /\ UNCHANGED pc2

\* Fault: only an interrupt that can be taken wakes the CPU.
WakeUpEnabled == irq_fire \/ exc_fire

WakeUp == irq_buf # {} \/ exc_fire

Sleep == /\ state = "S_SLEEP"
         /\ state' = IF WakeUp THEN "S_DISPATCH" ELSE "S_SLEEP"
         /\ enabled' = CanInterrupt
         /\ Edge(Quiet, FALSE)
         /\ effects' = Applied
         /\ FetchGoesOn /\ UNCHANGED <<op, pc2, lsu>>

Next == \/ Restart \/ DispatchTrap \/ DispatchWait \/ Issue \/ TrapEnter \/ TrapExit
        \/ Execute \/ AluWait \/ Branch \/ MemReq \/ MemWait \/ MemAck \/ System \/ Sleep

Spec == Init /\ [][Next]_vars

\* The clock runs, the front-end delivers and the bus answers in the end.
FairSpec == Spec /\ WF_vars(Next) /\ WF_vars(Issue) /\ WF_vars(MemAck)

-----------------------------------------------------------------------------
\* Registers keep their ranges; the monitor ends an operation in time.
TypeOK ==
    /\ refetch \in 0 .. 2
    /\ state \in States /\ op \in Ops \cup {"none"} /\ pc2 \in Origins
    /\ monitor_cnt \in 0 .. CP_TMO + 2
    /\ ctrl \in Ctrl /\ lsu \in {"ok", "align", "access"}
    /\ exc_buf \subseteq Exceptions
    /\ irq_pnd \subseteq Interrupts \cup {"halt"} /\ irq_buf \subseteq Interrupts \cup {"halt"}
    /\ env_pend \in BOOLEAN /\ csr \in Csrs /\ run \in BOOLEAN
    /\ lines \subseteq setup.lines
    /\ effects \subseteq {"rf", "csr", "mem", "exit"} /\ enabled \in BOOLEAN

\* What a completed instruction has changed; some must trap and never complete.
Complete(o) == (IF o \in HasResult THEN {"rf"} ELSE {})
               \cup (IF o \in CsrOps THEN {"csr"} ELSE {})
               \cup (IF o \in Reads \cup Writes THEN {"mem"} ELSE {})
               \cup (IF o \in {"mret", "dret"} THEN {"exit"} ELSE {})
               \cup (IF o \in {"ecall", "ebreak", "illegal"} THEN {"never"} ELSE {})

\* Traps are precise: the trap program counter points to an instruction that
\* has changed nothing (but the memory, if the bus reported the error), or
\* after one that has completed.  Excepted is a breakpoint that coincides with
\* a halt request: the halt is the cause, and dpc points after the ebreak.
PreciseTrap ==
    state = "S_TRAP_ENTER" /\ ~{"halt", "db_brkp"} \subseteq irq_buf \cup exc_buf =>
        IF epc = "pc2" THEN Applied = Complete(op)
        ELSE /\ Applied \subseteq {"mem"}
             /\ Applied # {} => exc_buf \cap {"laccess", "saccess"} # {}

\* An instruction is issued only after the one before it has completed.
InOrder == CanIssue => Applied = Complete(op)

\* A trap or its return updates the CSRs: no CSR write of the software hits
\* the same edge, which would win and lose the privilege switch.
TrapRecorded == state \in {"S_TRAP_ENTER", "S_TRAP_EXIT"} => ~ctrl.csr_we

\* An interrupt is taken only after an instruction of the interrupted program
\* that could be interrupted, never in debug mode or while single-stepping:
\* permanent requests leave room for one instruction between two handlers.
InterruptAfterInstruction ==
    state = "S_TRAP_ENTER" /\ ecause \in Interrupts /\ ~run => enabled

\* The privilege level rises only when a trap is entered.
PrivilegeRises == [][csr.prv = "U" /\ csr'.prv = "M" => state = "S_TRAP_ENTER"]_vars

\* Debug mode always has machine-mode rights: run and prv_level agree.
DebugIsMachine == run => csr.prv = "M"

\* An interrupt that stays requested and enabled is taken.
InterruptServed ==
    []<>~(csr.mask \cap lines \cap Interrupts # {} /\ CanInterrupt)

\* A halt request reaches debug mode whatever the program does.
HaltServed == "halt" \in lines ~> run

\* A sleeping CPU wakes up for an unmasked request, even if it cannot be taken.
SleepEnds == state = "S_SLEEP" /\ csr.mask \cap lines # {} ~> state # "S_SLEEP"

\* Traps are precise and interrupts wait for the end of an instruction.
TrapsPrecise == PreciseTrap /\ InterruptAfterInstruction

\* Requests of the outside are served.
Served == InterruptServed /\ HaltServed /\ SleepEnds
-----------------------------------------------------------------------------
(* The inductive invariant behind the privilege rules *)

\* The monitor ends an operation: once the counter has reached the limit, the
\* illegal-instruction exception is raised, and the sequencer moves on.
MonitorBound == CASE state = "S_ALU_WAIT" -> \/ monitor_cnt <= CP_TMO
                                             \/ monitor_cnt = CP_TMO + 1 /\ InstrFailed
                  [] OTHER -> monitor_cnt <= CP_TMO + 2

\* System instructions that have passed the check are still legal when they
\* act: nothing between S_EXECUTE and S_SYSTEM changes what the check saw.
StillLegal == /\ state = "S_SYSTEM" /\ ~InstrFailed => Legal
              /\ state = "S_TRAP_EXIT" => csr.prv = "M"

Between     == {"S_RESTART", "S_DISPATCH", "S_TRAP_ENTER"}
InExecution == {"S_EXECUTE", "S_ALU_WAIT", "S_BRANCH", "S_MEM_REQ", "S_MEM_RSP", "S_SYSTEM"}

IInv == /\ setup \in Setups
        /\ TypeOK
        /\ MonitorBound
        /\ state \in InExecution => op \in Ops
        /\ ctrl.csr_we => state = "S_DISPATCH"
        /\ DebugIsMachine
        /\ StillLegal

-----------------------------------------------------------------------------
(* The inductive invariant behind the order of instructions *)

\* Which instructions a state of the sequencer works on.
Placed == /\ state = "S_ALU_WAIT" => op = "mul"
          /\ state = "S_BRANCH" => op \in {"branch", "jal"}
          /\ state \in {"S_MEM_REQ", "S_MEM_RSP"} => op \in Reads \cup Writes
          /\ state = "S_SYSTEM" => op \in SystemOps
          /\ state = "S_SLEEP" => op = "wfi"
          /\ state = "S_TRAP_EXIT" => op \in {"mret", "dret"}

\* How far the current instruction has got, state by state.  After the last
\* one it is complete unless an exception of its own waits for the trap.
EffectsSoFar ==
    /\ state \in {"S_EXECUTE", "S_ALU_WAIT", "S_BRANCH", "S_MEM_REQ", "S_SYSTEM", "S_SLEEP"}
           => Applied = {}
    /\ state = "S_MEM_RSP" => Applied = IF lsu = "ok" THEN {"mem"} ELSE {}
    /\ state = "S_TRAP_EXIT" => Applied = {"exit"}
    /\ state \in Between /\ exc_buf \subseteq {"db_step"} => Applied = Complete(op)

OrderInv == Placed /\ EffectsSoFar

-----------------------------------------------------------------------------
(* The inductive invariant behind precise traps *)

\* Which exceptions the current instruction may have raised, state by state.
\* While one of its own waits for the trap, nothing has changed but the memory.
Raised ==
    /\ state = "S_EXECUTE" => exc_buf \subseteq {"iaccess"}
    /\ state \in {"S_ALU_WAIT", "S_BRANCH", "S_MEM_REQ", "S_SYSTEM"}
           => exc_buf \subseteq {"iaccess", "illegal", "db_step"}
    /\ state = "S_MEM_RSP" => exc_buf \subseteq MemExc \cup {"db_step"}
    /\ state = "S_MEM_RSP" /\ lsu = "ok" => exc_buf \subseteq {"db_step"}
    /\ state \in {"S_SLEEP", "S_TRAP_EXIT"} => exc_buf \subseteq {"db_step"}
    /\ run => "db_step" \notin exc_buf

Suppressed ==
    state \in Between /\ ~(exc_buf \subseteq {"db_step"}) =>
        Applied \subseteq {"mem"} /\ (Applied # {} => exc_buf \cap {"laccess", "saccess"} # {})

\* A halt request stays until debug mode is entered.  Its echo in the buffer
\* has gone there before the first instruction is issued.
Halting ==
    /\ ~run => ("halt" \in irq_buf => "halt" \in irq_pnd) /\ ("halt" \in irq_pnd => "halt" \in lines)
    /\ run /\ state \notin Between =>
           "halt" \notin irq_pnd \cup irq_buf /\ (env_pend => exc_fire)
    /\ run /\ state = "S_DISPATCH" =>
           "halt" \notin irq_pnd /\ ("halt" \in irq_buf => env_pend \/ refetch # 0)

\* Why a trap is pending: an exception, a halt request, or the instruction
\* could be interrupted.
Permitted ==
    /\ ~run /\ env_pend => exc_fire \/ "halt" \in irq_buf \/ enabled
    /\ state = "S_EXECUTE" => ~enabled
    /\ state \in {"S_SYSTEM", "S_SLEEP"} /\ enabled => CanInterrupt
    /\ state = "S_TRAP_ENTER" => env_pend

TrapInv == Raised /\ Suppressed /\ Halting /\ Permitted

-----------------------------------------------------------------------------
(* What the software may execute and which lines rise, for model checking. *)

IrqList == <<"mei", "mti">>

\* Interrupts, nesting, sleep and user mode.
MachineSetup == [ops |-> {"alu", "store", "csr_mstatus", "csr_mie", "mret", "wfi"},
                 lines |-> {"mei", "mti"}]
\* Halts, breakpoints, single-stepping, exceptions in debug mode.
DebugSetup == [ops |-> {"ebreak", "csr_dcsr", "dret", "load", "wfi"}, lines |-> {"halt"}]
\* Halts that coincide with interrupts.
MixedSetup == [ops |-> {"alu", "csr_mie", "csr_mstatus", "dret"}, lines |-> {"mti", "halt"}]
\* Every instruction and exception.
QuietSetup == [ops |-> Ops, lines |-> {}]

AllSetups == {MachineSetup, DebugSetup, MixedSetup, QuietSetup}
=============================================================================
