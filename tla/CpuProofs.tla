----------------------------- MODULE CpuProofs -----------------------------
(***************************************************************************)
(* Proofs about the CPU: CpuControl and CpuCsr, two parts of it that share *)
(* no state.                                                               *)
(*                                                                         *)
(* CpuControl, for any set of interrupts, any software and any time limit  *)
(* of the monitor.  First: type correctness, that no CSR write hits a      *)
(* trap, that debug mode is machine mode, and that the privilege level     *)
(* rises only when a trap is entered.                                      *)
(*                                                                         *)
(* Then: instructions do not overlap.  When the sequencer may issue an     *)
(* instruction, the one before it has completed everything it does: its    *)
(* result, its CSR write, its memory access, its return from a trap; one   *)
(* that has to trap is never passed over.  And traps are precise: the      *)
(* priority encoder takes the first pending source, and what that source   *)
(* says of the instruction is true.                                        *)
(*                                                                         *)
(* CpuCsr: a locked protection region is locked for good, whatever calls   *)
(* of the driver follow, for any number of regions, granularity and        *)
(* argument; and the cycle counter is true, for any size of its halves.    *)
(***************************************************************************)
EXTENDS CpuControl, CpuCsr, SequenceTheorems, WellFoundedInduction, TLAPS

\* The outputs of the sequencer and of the LSU in a cycle.
Outputs == [enter : BOOLEAN, exit : BOOLEAN, exc : SUBSET Exceptions, ctrl : Ctrl]

\* What the sequencer drives has the type of its outputs.
LEMMA DriveType ==
    ASSUME NEW e \in SUBSET Exceptions, NEW w \in BOOLEAN, NEW c \in BOOLEAN, NEW r \in BOOLEAN
    PROVE  /\ Drive(e, w, c, r) \in Outputs
           /\ ~Drive(e, w, c, r).enter /\ ~Drive(e, w, c, r).exit
           /\ Drive(e, w, c, r).exc = e /\ Drive(e, w, c, r).ctrl.csr_we = c
  BY DEF Drive, Outputs, Ctrl

\* A CSR write keeps the types of the CSRs.
LEMMA CsrWriteType ==
    ASSUME csr \in Csrs, CsrWrite
    PROVE  csr' \in Csrs /\ csr'.prv = csr.prv
  BY DEF CsrWrite, Csrs

\* A trap keeps the types of the CSRs.
LEMMA CsrEnterType ==
    ASSUME csr \in Csrs, CsrEnter
    PROVE  csr' \in Csrs /\ (run \/ csr'.prv = "M") /\ (run => csr' = csr)
  BY DEF CsrEnter, Csrs

\* A return from a trap keeps the types of the CSRs.
LEMMA CsrExitType ==
    ASSUME csr \in Csrs, CsrExit
    PROVE  csr' \in Csrs
  BY DEF CsrExit, Csrs

\* What one clock edge keeps, whatever the sequencer does.
LEMMA EdgeType ==
    ASSUME TypeOK, NEW ev \in Outputs, NEW acked, Edge(ev, acked)
    PROVE  /\ ctrl' = ev.ctrl /\ ctrl' \in Ctrl
           /\ exc_buf' = (IF ev.enter THEN {} ELSE exc_buf \cup ev.exc)
           /\ exc_buf' \subseteq Exceptions
           /\ irq_pnd' \subseteq Interrupts \cup {"halt"}
           /\ irq_buf' \subseteq Interrupts \cup {"halt"}
           /\ env_pend' \in BOOLEAN /\ run' \in BOOLEAN /\ csr' \in Csrs
           /\ setup' = setup /\ lines' \subseteq setup'.lines
<1>1. ev.enter \in BOOLEAN /\ ev.exc \subseteq Exceptions /\ ev.ctrl \in Ctrl
  BY DEF Outputs
<1>2. ctrl' = ev.ctrl /\ setup' = setup
  BY DEF Edge
<1>3. exc_buf' = IF ev.enter THEN {} ELSE exc_buf \cup ev.exc
  BY DEF Edge, TrapBuffer, Collect
<1>4. irq_pnd' \subseteq Interrupts \cup {"halt"} /\ irq_buf' \subseteq Interrupts \cup {"halt"}
  BY DEF Edge, TrapBuffer, Buffer, TypeOK
<1>5. env_pend' \in BOOLEAN
  BY DEF Edge, TrapBuffer
<1>6. run' \in BOOLEAN
  BY DEF Edge, DebugControl, TypeOK
<1>7. csr' \in Csrs
  BY CsrWriteType, CsrEnterType, CsrExitType DEF Edge, CsrWriteAccess, TypeOK
<1>8. lines' \subseteq setup.lines
  BY DEF Edge, Environment, TypeOK
<1> QED BY <1>1, <1>2, <1>3, <1>4, <1>5, <1>6, <1>7, <1>8 DEF TypeOK

\* An edge without a trap and without a CSR write of the software keeps the
\* CSRs and the mode.
LEMMA EdgeKeeps ==
    ASSUME NEW ev, NEW acked, Edge(ev, acked), ~ev.enter, ~ev.exit
    PROVE  /\ run' = run
           /\ ~ctrl.csr_we => csr' = csr
           /\ csr \in Csrs => csr'.prv = csr.prv
<1>1. run' = run
  BY DEF Edge, DebugControl
<1>2. ~ctrl.csr_we => csr' = csr
  BY DEF Edge, CsrWriteAccess
<1>3. CASE ctrl.csr_we
  BY <1>1, <1>3, CsrWriteType DEF Edge, CsrWriteAccess
<1> QED BY <1>1, <1>2, <1>3

\* The monitor counts waiting cycles and stays within its width.
LEMMA MonitorType ==
    ASSUME TypeOK, MonitorBound, MonitorNext
    PROVE  monitor_cnt' = IF state = "S_ALU_WAIT" THEN monitor_cnt + 1 ELSE 0
<1>1. CP_TMO \in Nat /\ CP_TMO > 2
  BY CpuAssumption
<1>2. monitor_cnt \in Nat
  BY <1>1 DEF TypeOK
<1>3. CASE state = "S_ALU_WAIT"
  <2>1. monitor_cnt + 1 \in 0 .. 2 * CP_TMO - 1
    BY <1>1, <1>2, <1>3 DEF MonitorBound
  <2>2. \A n \in Nat : \A k \in 0 .. n - 1 : k % n = k
    OBVIOUS
  <2> QED BY <1>1, <1>3, <2>1, <2>2 DEF MonitorNext
<1>4. CASE state # "S_ALU_WAIT"
  BY <1>4 DEF MonitorNext
<1> QED BY <1>3, <1>4

-----------------------------------------------------------------------------
\* The effects of an instruction are among the four an instruction can have.
LEMMA AppliedType ==
    ASSUME effects \subseteq {"rf", "csr", "mem", "exit"}
    PROVE  Applied \subseteq {"rf", "csr", "mem", "exit"}
  BY DEF Applied

\* The counter of the front-end keeps its range.
LEMMA FetchType ==
    ASSUME TypeOK, FetchRestart \/ FetchGoesOn
    PROVE  refetch' \in 0 .. 2
  BY DEF TypeOK, FetchRestart, FetchGoesOn

\* Whether an interrupt can be taken is a Boolean of the CSRs and debug mode.
LEMMA CanInterruptType == csr \in Csrs /\ run \in BOOLEAN => CanInterrupt \in BOOLEAN
  BY DEF CanInterrupt

\* The reset state satisfies the invariant.
LEMMA InitIInv == Init => IInv
<1> SUFFICES ASSUME Init PROVE IInv
  OBVIOUS
<1>1. CP_TMO \in Nat /\ CP_TMO > 2
  BY CpuAssumption
<1>2. csr \in Csrs /\ ctrl \in Ctrl /\ ~ctrl.csr_we
  BY DEF Init, Csrs, Ctrl, Quiet, Raise, Drive
<1>3. TypeOK
  <2>1. /\ refetch \in 0 .. 2 /\ state \in States /\ op \in Ops \cup {"none"}
        /\ pc2 \in Origins /\ lsu \in {"ok", "align", "access"}
    BY DEF Init, States, Origins
  <2>2. monitor_cnt \in 0 .. CP_TMO + 2
    BY <1>1 DEF Init
  <2>3. exc_buf = {} /\ irq_pnd = {} /\ irq_buf = {} /\ lines = {} /\ effects = {}
    BY DEF Init
  <2>4. env_pend \in BOOLEAN /\ run \in BOOLEAN /\ enabled \in BOOLEAN
    BY DEF Init
  <2> QED BY <1>2, <2>1, <2>2, <2>3, <2>4 DEF TypeOK
<1>4. MonitorBound
  BY <1>1 DEF Init, MonitorBound
<1>5. StillLegal /\ DebugIsMachine /\ state \notin InExecution
  BY DEF Init, StillLegal, DebugIsMachine, InExecution
<1>6. setup \in Setups
  BY DEF Init
<1> QED BY <1>2, <1>3, <1>4, <1>5, <1>6 DEF IInv

\* A step that neither enters nor leaves a trap: what an action has to show.
LEMMA OrdinaryStep ==
    ASSUME IInv, NEW ev \in Outputs, NEW acked, Edge(ev, acked), ~ev.enter, ~ev.exit,
           refetch' \in 0 .. 2, state' \in States, op' \in Ops \cup {"none"}, pc2' \in Origins,
           lsu' \in {"ok", "align", "access"},
           effects' \subseteq {"rf", "csr", "mem", "exit"}, enabled' \in BOOLEAN,
           state' \in InExecution => op' \in Ops,
           ev.ctrl.csr_we => state' = "S_DISPATCH",
           state' = "S_ALU_WAIT" => \/ state = "S_EXECUTE"
                                    \/ state = "S_ALU_WAIT" /\ ~InstrFailed /\ instr_il \subseteq ev.exc,
           state' = "S_SYSTEM" => state = "S_EXECUTE" /\ instr_il \subseteq ev.exc /\ op' = op,
           state' = "S_TRAP_EXIT" => state = "S_SYSTEM" /\ ~InstrFailed /\ op \in {"mret", "dret"}
    PROVE  IInv'
<1>1. CP_TMO \in Nat /\ CP_TMO > 2
  BY CpuAssumption
<1>2. TypeOK /\ MonitorBound /\ DebugIsMachine /\ StillLegal /\ setup \in Setups
  BY DEF IInv
<1>3. ctrl.csr_we => state = "S_DISPATCH"
  BY DEF IInv
<1>4. /\ ctrl' = ev.ctrl /\ ctrl' \in Ctrl
      /\ exc_buf' = exc_buf \cup ev.exc /\ exc_buf' \subseteq Exceptions
      /\ irq_pnd' \subseteq Interrupts \cup {"halt"} /\ irq_buf' \subseteq Interrupts \cup {"halt"}
      /\ env_pend' \in BOOLEAN /\ run' \in BOOLEAN /\ csr' \in Csrs
      /\ setup' = setup /\ lines' \subseteq setup'.lines
  BY <1>2, EdgeType
<1>5. csr \in Csrs
  BY <1>2 DEF TypeOK
<1>6. /\ run' = run /\ csr'.prv = csr.prv
      /\ state # "S_DISPATCH" => csr' = csr
  BY <1>3, <1>5, EdgeKeeps
<1>7. monitor_cnt' = IF state = "S_ALU_WAIT" THEN monitor_cnt + 1 ELSE 0
  BY <1>2, MonitorType DEF Edge
<1>8. monitor_cnt \in Nat
  BY <1>1, <1>2 DEF TypeOK
<1>9. MonitorBound' /\ monitor_cnt' \in 0 .. CP_TMO + 2
  <2>1. CASE state # "S_ALU_WAIT"
    <3>1. monitor_cnt' = 0
      BY <1>7, <2>1
    <3> QED BY <1>1, <3>1 DEF MonitorBound
  <2>2. CASE state = "S_ALU_WAIT" /\ state' # "S_ALU_WAIT"
    <3>1. monitor_cnt <= CP_TMO + 1
      BY <1>1, <1>2, <1>8, <2>2 DEF MonitorBound
    <3> QED BY <1>1, <1>7, <1>8, <2>2, <3>1 DEF MonitorBound
  <2>3. CASE state = "S_ALU_WAIT" /\ state' = "S_ALU_WAIT"
    <3>1. ~InstrFailed /\ instr_il \subseteq ev.exc
      BY <2>3
    <3>2. monitor_cnt <= CP_TMO
      BY <1>2, <2>3, <3>1 DEF MonitorBound
    <3>3. monitor_cnt = CP_TMO => InstrFailed'
      <4>1. monitor_cnt = CP_TMO => "illegal" \in ev.exc
        BY <1>1, <3>1 DEF instr_il
      <4> QED BY <1>4, <4>1 DEF InstrFailed, InstrExc
    <3>4. monitor_cnt' <= CP_TMO \/ (monitor_cnt' = CP_TMO + 1 /\ InstrFailed')
      BY <1>1, <1>7, <1>8, <2>3, <3>2, <3>3
    <3>5. MonitorBound'
      BY <2>3, <3>4 DEF MonitorBound
    <3> QED BY <1>1, <1>7, <1>8, <2>3, <3>2, <3>5
  <2> QED BY <2>1, <2>2, <2>3
<1>10. TypeOK'
  BY <1>4, <1>9 DEF TypeOK
<1>11. DebugIsMachine'
  BY <1>2, <1>6 DEF DebugIsMachine
<1>12. StillLegal'
  <2>1. state' = "S_SYSTEM" /\ ~InstrFailed' => Legal'
    <3>1. SUFFICES ASSUME state' = "S_SYSTEM", ~InstrFailed' PROVE Legal'
      OBVIOUS
    <3>2. instr_il \subseteq ev.exc /\ op' = op /\ csr' = csr
      BY <1>6, <3>1
    <3>3. "illegal" \notin instr_il
      BY <1>4, <3>1, <3>2 DEF InstrFailed, InstrExc
    <3>4. Legal
      BY <3>3 DEF instr_il
    <3> QED BY <1>6, <3>2, <3>4 DEF Legal
  <2>2. state' = "S_TRAP_EXIT" => csr'.prv = "M"
    <3>1. SUFFICES ASSUME state' = "S_TRAP_EXIT" PROVE csr.prv = "M"
      BY <1>6
    <3>2. state = "S_SYSTEM" /\ Legal /\ op \in {"mret", "dret"}
      BY <1>2, <3>1 DEF StillLegal
    <3> QED BY <1>2, <3>2 DEF Legal, DebugIsMachine
  <2> QED BY <2>1, <2>2 DEF StillLegal
<1> QED BY <1>2, <1>4, <1>10, <1>9, <1>11, <1>12 DEF IInv


\* What the sequencer's actions have in common.
LEMMA CycleShape ==
    ASSUME NEW ev, Cycle(ev)
    PROVE  Edge(ev, FALSE) /\ effects' = Applied /\ op' = op /\ enabled' = enabled /\ lsu' = lsu
  BY DEF Cycle

\* The LSU reports exceptions only.
LEMMA LsuErrType == \A k \in {"ok", "align", "access"} : lsu_err(k) \in SUBSET Exceptions
<1>1. \A x, y \in BOOLEAN :
          /\ (IF x THEN {"lalign"} ELSE {}) \cup (IF y THEN {"salign"} ELSE {}) \in SUBSET Exceptions
          /\ (IF x THEN {"laccess"} ELSE {}) \cup (IF y THEN {"saccess"} ELSE {}) \in SUBSET Exceptions
  BY DEF Exceptions, SyncExc, MemExc
<1> QED BY <1>1 DEF lsu_err

\* A step that enters or leaves a trap restarts the fetch.
LEMMA RestartStep ==
    ASSUME IInv, NEW ev \in Outputs, NEW acked, Edge(ev, acked), ~ev.ctrl.csr_we,
           state' = "S_RESTART", state # "S_ALU_WAIT",
           refetch' \in 0 .. 2, op' \in Ops \cup {"none"}, pc2' \in Origins,
           lsu' \in {"ok", "align", "access"},
           effects' \subseteq {"rf", "csr", "mem", "exit"}, enabled' \in BOOLEAN,
           run' => csr'.prv = "M"
    PROVE  IInv'
<1>1. CP_TMO \in Nat /\ CP_TMO > 2
  BY CpuAssumption
<1>2. TypeOK /\ MonitorBound /\ setup \in Setups
  BY DEF IInv
<1>3. /\ ctrl' = ev.ctrl /\ ctrl' \in Ctrl /\ exc_buf' \subseteq Exceptions
      /\ irq_pnd' \subseteq Interrupts \cup {"halt"} /\ irq_buf' \subseteq Interrupts \cup {"halt"}
      /\ env_pend' \in BOOLEAN /\ run' \in BOOLEAN /\ csr' \in Csrs
      /\ setup' = setup /\ lines' \subseteq setup'.lines
  BY <1>2, EdgeType
<1>4. monitor_cnt' = 0
  BY <1>2, MonitorType DEF Edge
<1>5. MonitorBound' /\ monitor_cnt' \in 0 .. CP_TMO + 2
  BY <1>1, <1>4 DEF MonitorBound
<1>6. TypeOK'
  BY <1>3, <1>5 DEF TypeOK, States
<1>7. StillLegal' /\ DebugIsMachine' /\ state' \notin InExecution
  BY DEF StillLegal, DebugIsMachine, InExecution
<1> QED BY <1>2, <1>3, <1>5, <1>6, <1>7 DEF IInv

\* Every clock edge preserves the invariant.
LEMMA StepIInv == IInv /\ [Next]_vars => IInv'
<1> SUFFICES ASSUME IInv, [Next]_vars PROVE IInv'
  OBVIOUS
<1>1. TypeOK /\ setup \in Setups
  BY DEF IInv
<1>2. /\ op \in Ops \cup {"none"} /\ pc2 \in Origins /\ lsu \in {"ok", "align", "access"}
      /\ enabled \in BOOLEAN /\ state \in States
      /\ CanInterrupt \in BOOLEAN
      /\ Applied \subseteq {"rf", "csr", "mem", "exit"}
      /\ {} \subseteq {"rf", "csr", "mem", "exit"}
  BY <1>1, CanInterruptType, AppliedType DEF TypeOK
<1>3. FetchRestart \/ FetchGoesOn => refetch' \in 0 .. 2
  BY <1>1, FetchType
<1>4. Quiet = Drive({}, FALSE, FALSE, FALSE) /\ {} \in SUBSET Exceptions
  BY DEF Quiet, Raise
<1>5. /\ Quiet \in Outputs /\ ~Quiet.enter /\ ~Quiet.exit /\ ~Quiet.ctrl.csr_we
  BY <1>4, DriveType
<1>6. CASE Restart
  <2>1. Edge(Quiet, FALSE) /\ effects' = Applied /\ op' = op /\ enabled' = enabled /\ lsu' = lsu
    BY <1>6, CycleShape DEF Restart
  <2>2. state' = "S_DISPATCH" /\ pc2' = pc2 /\ refetch' \in 0 .. 2
    BY <1>3, <1>6 DEF Restart
  <2> QED BY <1>2, <1>5, <2>1, <2>2, OrdinaryStep DEF States, InExecution
<1>7. CASE DispatchTrap
  <2>1. Edge(Quiet, FALSE) /\ effects' = Applied /\ op' = op /\ enabled' = enabled /\ lsu' = lsu
    BY <1>7, CycleShape DEF DispatchTrap
  <2>2. state' = "S_TRAP_ENTER" /\ pc2' = pc2 /\ refetch' \in 0 .. 2
    BY <1>3, <1>7 DEF DispatchTrap
  <2> QED BY <1>2, <1>5, <2>1, <2>2, OrdinaryStep DEF States, InExecution
<1>8. CASE DispatchWait
  <2>1. Edge(Quiet, FALSE) /\ effects' = Applied /\ op' = op /\ enabled' = enabled /\ lsu' = lsu
    BY <1>8, CycleShape DEF DispatchWait
  <2>2. state' = "S_DISPATCH" /\ pc2' = pc2 /\ refetch' \in 0 .. 2
    BY <1>3, <1>8 DEF DispatchWait, CanIssue
  <2> QED BY <1>2, <1>5, <2>1, <2>2, OrdinaryStep DEF States, InExecution
<1>9. CASE Issue
  <2>1. PICK o \in setup.ops, failed \in BOOLEAN :
            op' = o /\ Edge(Raise(IF failed THEN {"iaccess"} ELSE {}, FALSE), FALSE)
    BY <1>9 DEF Issue
  <2> DEFINE e == IF failed THEN {"iaccess"} ELSE {}
  <2>2. e \in SUBSET Exceptions /\ op' \in Ops
    BY <1>1, <2>1, SetupAssumption DEF Exceptions, SyncExc, InstrExc
  <2>3. Edge(Drive(e, FALSE, FALSE, FALSE), FALSE)
    BY <2>1 DEF Raise
  <2>4. /\ state' = "S_EXECUTE" /\ pc2' = pc2 /\ lsu' = lsu /\ refetch' \in 0 .. 2
        /\ effects' = {} /\ enabled' = FALSE
    BY <1>3, <1>9 DEF Issue
  <2> HIDE DEF e
  <2>5. /\ Drive(e, FALSE, FALSE, FALSE) \in Outputs
        /\ ~Drive(e, FALSE, FALSE, FALSE).enter /\ ~Drive(e, FALSE, FALSE, FALSE).exit
        /\ ~Drive(e, FALSE, FALSE, FALSE).ctrl.csr_we
    BY <2>2, DriveType
  <2> QED BY <1>2, <2>2, <2>3, <2>4, <2>5, OrdinaryStep DEF States, InExecution
<1>10. CASE TrapEnter
  <2> DEFINE ev == [Quiet EXCEPT !.enter = TRUE]
  <2>1. /\ ev \in Outputs /\ ev.enter = TRUE /\ ev.exit = Quiet.exit /\ ev.ctrl = Quiet.ctrl
    BY <1>5 DEF Outputs
  <2>2. ev \in Outputs /\ ev.enter /\ ~ev.ctrl.csr_we
    BY <1>5, <2>1
  <2>3. /\ state = "S_TRAP_ENTER" /\ state' = "S_RESTART" /\ pc2' = TrapVector /\ op' = "none"
        /\ effects' = {} /\ enabled' = FALSE /\ lsu' = lsu /\ refetch' \in 0 .. 2
        /\ Edge(ev, FALSE)
    BY <1>3, <1>10 DEF TrapEnter
  <2> HIDE DEF ev
  <2>4. csr'.prv = "M"
    <3>1. CsrEnter
      BY <2>2, <2>3 DEF IInv, Edge, CsrWriteAccess
    <3>2. run => csr.prv = "M"
      BY DEF IInv, DebugIsMachine
    <3> QED BY <1>1, <3>1, <3>2, CsrEnterType DEF TypeOK
  <2>5. pc2' \in Origins
    BY <2>3 DEF TrapVector, Origins
  <2> QED BY <1>1, <1>2, <2>2, <2>3, <2>4, <2>5, RestartStep
<1>11. CASE TrapExit
  <2> DEFINE ev == [Quiet EXCEPT !.exit = TRUE]
  <2>1. /\ ev \in Outputs /\ ev.exit = TRUE /\ ev.enter = Quiet.enter /\ ev.ctrl = Quiet.ctrl
    BY <1>5 DEF Outputs
  <2>2. ev \in Outputs /\ ~ev.enter /\ ev.exit /\ ~ev.ctrl.csr_we
    BY <1>5, <2>1
  <2>3. /\ state' = "S_RESTART" /\ pc2' \in Origins /\ refetch' \in 0 .. 2 /\ Cycle(ev)
        /\ state = "S_TRAP_EXIT"
    BY <1>3, <1>11 DEF TrapExit, Origins
  <2> HIDE DEF ev
  <2>4. Edge(ev, FALSE) /\ effects' = Applied /\ op' = op /\ enabled' = enabled /\ lsu' = lsu
    BY <2>3, CycleShape
  <2>5. ~run'
    BY <2>2, <2>4 DEF Edge, DebugControl
  <2> QED BY <1>1, <1>2, <2>2, <2>3, <2>4, <2>5, RestartStep
<1>12. CASE Execute
  <2> DEFINE e == instr_il \cup (IF csr.step /\ ~run THEN {"db_step"} ELSE {})
  <2>1. e \in SUBSET Exceptions /\ instr_il \subseteq e
    BY DEF instr_il, Exceptions, SyncExc, InstrExc
  <2>2. /\ state = "S_EXECUTE" /\ state' = NextOf[op] /\ pc2' = "linear" /\ enabled' = CanInterrupt
        /\ Edge(Drive(e, op = "alu", FALSE, FALSE), FALSE)
        /\ effects' = Applied /\ op' = op /\ lsu' = lsu /\ refetch' \in 0 .. 2
    BY <1>3, <1>12 DEF Execute, Raise
  <2> HIDE DEF e
  <2>3. op \in Ops
    BY <2>2 DEF IInv, InExecution
  <2>4. state' \in {"S_DISPATCH", "S_ALU_WAIT", "S_MEM_REQ", "S_BRANCH", "S_RESTART", "S_SYSTEM"}
    BY <2>2, <2>3, Zenon DEF NextOf
  <2>5. /\ Drive(e, op = "alu", FALSE, FALSE) \in Outputs
        /\ ~Drive(e, op = "alu", FALSE, FALSE).enter /\ ~Drive(e, op = "alu", FALSE, FALSE).exit
        /\ ~Drive(e, op = "alu", FALSE, FALSE).ctrl.csr_we
        /\ Drive(e, op = "alu", FALSE, FALSE).exc = e
    BY <2>1, DriveType
  <2> QED BY <1>2, <2>1, <2>2, <2>3, <2>4, <2>5, OrdinaryStep DEF States, Origins
<1>13. CASE AluWait
  <2>1. PICK done \in BOOLEAN :
            /\ state' = IF done \/ InstrFailed THEN "S_DISPATCH" ELSE "S_ALU_WAIT"
            /\ Cycle(Raise(instr_il, done))
    BY <1>13 DEF AluWait
  <2> DEFINE ev == Drive(instr_il, done, FALSE, FALSE)
  <2>2. instr_il \in SUBSET Exceptions
    BY DEF instr_il, Exceptions, SyncExc, InstrExc
  <2>3. Edge(ev, FALSE) /\ effects' = Applied /\ op' = op /\ enabled' = enabled /\ lsu' = lsu
    BY <2>1, CycleShape DEF Raise
  <2>4. /\ state = "S_ALU_WAIT" /\ pc2' = pc2 /\ refetch' \in 0 .. 2
        /\ state' \in {"S_DISPATCH", "S_ALU_WAIT"} /\ (state' = "S_ALU_WAIT" => ~InstrFailed)
        /\ op \in Ops
    BY <1>3, <1>13, <2>1 DEF AluWait, IInv, InExecution
  <2>5. ev \in Outputs /\ ~ev.enter /\ ~ev.exit /\ ~ev.ctrl.csr_we
    BY <2>2, DriveType
  <2>6. ev.exc = instr_il
    BY DEF Drive
  <2> HIDE DEF ev
  <2> QED BY <1>2, <2>3, <2>4, <2>5, <2>6, OrdinaryStep DEF States
<1>14. CASE Branch
  <2>1. PICK taken \in BOOLEAN, misaligned \in BOOLEAN :
            /\ pc2' = IF taken THEN "target" ELSE pc2
            /\ IF taken THEN FetchRestart ELSE FetchGoesOn
            /\ Cycle(Raise(IF taken /\ misaligned THEN {"ialign"} ELSE {}, op = "jal"))
    BY <1>14 DEF Branch
  <2> DEFINE e == IF taken /\ misaligned THEN {"ialign"} ELSE {}
             ev == Drive(e, op = "jal", FALSE, FALSE)
  <2>2. e \in SUBSET Exceptions
    BY DEF Exceptions, SyncExc, InstrExc
  <2>3. Edge(ev, FALSE) /\ effects' = Applied /\ op' = op /\ enabled' = enabled /\ lsu' = lsu
    BY <2>1, CycleShape DEF Raise
  <2>4. state' = "S_DISPATCH" /\ pc2' \in Origins /\ refetch' \in 0 .. 2
    BY <1>2, <1>3, <1>14, <2>1 DEF Branch, Origins
  <2> HIDE DEF e
  <2>5. ev \in Outputs /\ ~ev.enter /\ ~ev.exit /\ ~ev.ctrl.csr_we
    BY <2>2, DriveType
  <2> HIDE DEF ev
  <2> QED BY <1>2, <2>3, <2>4, <2>5, OrdinaryStep DEF States, InExecution
<1>15. CASE MemReq
  <2> DEFINE ev == Drive({}, FALSE, FALSE, ~InstrFailed)
  <2>1. /\ Edge(ev, FALSE) /\ effects' = Applied /\ op' = op /\ enabled' = enabled /\ pc2' = pc2
        /\ lsu' \in {"ok", "align", "access"} /\ refetch' \in 0 .. 2
        /\ state = "S_MEM_REQ" /\ state' \in {"S_DISPATCH", "S_MEM_RSP"}
    BY <1>3, <1>15 DEF MemReq
  <2>2. ev \in Outputs /\ ~ev.enter /\ ~ev.exit /\ ~ev.ctrl.csr_we
    BY <1>4, DriveType
  <2>3. op \in Ops
    BY <2>1 DEF IInv, InExecution
  <2> HIDE DEF ev
  <2> QED BY <1>2, <2>1, <2>2, <2>3, OrdinaryStep DEF States
<1>16. CASE MemWait
  <2> DEFINE ev == Drive(lsu_err(lsu), op \in Reads /\ exc_buf \cap MemExc # {}, FALSE, FALSE)
  <2>1. Edge(ev, FALSE) /\ effects' = Applied /\ op' = op /\ enabled' = enabled /\ lsu' = lsu
    BY <1>16, CycleShape DEF MemWait, Raise
  <2>2. /\ state = "S_MEM_RSP" /\ state' \in {"S_DISPATCH", "S_MEM_RSP"}
        /\ pc2' = pc2 /\ refetch' \in 0 .. 2
    BY <1>3, <1>16 DEF MemWait
  <2>3. ev \in Outputs /\ ~ev.enter /\ ~ev.exit /\ ~ev.ctrl.csr_we
    BY <1>2, LsuErrType, DriveType
  <2>4. op \in Ops
    BY <2>2 DEF IInv, InExecution
  <2> HIDE DEF ev
  <2> QED BY <1>2, <2>1, <2>2, <2>3, <2>4, OrdinaryStep DEF States
<1>17. CASE MemAck
  <2>1. PICK kind \in {"ok", "access"} :
            Edge(Raise(lsu_err(kind), op \in Reads), op \in Writes /\ kind = "ok")
    BY <1>17 DEF MemAck
  <2> DEFINE ev == Drive(lsu_err(kind), op \in Reads, FALSE, FALSE)
             acked == op \in Writes /\ kind = "ok"
  <2>2. Edge(ev, acked)
    BY <2>1 DEF Raise
  <2>3. /\ state' = "S_DISPATCH" /\ effects' = Applied /\ op' = op /\ pc2' = pc2 /\ lsu' = lsu
        /\ enabled' = enabled /\ refetch' \in 0 .. 2
    BY <1>3, <1>17 DEF MemAck
  <2>4. lsu_err(kind) \in SUBSET Exceptions /\ (op \in Reads) \in BOOLEAN
    BY LsuErrType
  <2>5. ev \in Outputs /\ ~ev.enter /\ ~ev.exit /\ ~ev.ctrl.csr_we
    BY <2>4, DriveType
  <2> HIDE DEF ev, acked
  <2> QED BY <1>2, <2>2, <2>3, <2>5, OrdinaryStep DEF States, InExecution
<1>18. CASE System
  <2> DEFINE e == IF InstrFailed THEN {}
                  ELSE CASE op = "ecall" -> {"ecall"} [] op = "ebreak" -> Ebreak [] OTHER -> {}
             ev == Drive(e, TRUE, CsrWe, FALSE)
  <2>1. e \in SUBSET Exceptions /\ CsrWe \in BOOLEAN
    BY Zenon DEF Ebreak, Exceptions, SyncExc, CsrWe
  <2>2. Edge(ev, FALSE) /\ effects' = Applied /\ op' = op /\ enabled' = enabled /\ lsu' = lsu
    BY <1>18, CycleShape DEF System
  <2>3. state = "S_SYSTEM" /\ pc2' = pc2 /\ refetch' \in 0 .. 2
    BY <1>3, <1>18 DEF System
  <2>4. /\ state' \in {"S_DISPATCH", "S_TRAP_EXIT", "S_SLEEP"}
        /\ state' = "S_TRAP_EXIT" => ~InstrFailed /\ op \in {"mret", "dret"}
        /\ CsrWe => state' = "S_DISPATCH"
    BY <1>18 DEF System, CsrWe, CsrOps
  <2> HIDE DEF e
  <2>5. ev \in Outputs /\ ~ev.enter /\ ~ev.exit
    BY <2>1, DriveType
  <2>6. ev.ctrl.csr_we = CsrWe
    BY Zenon DEF Drive
  <2> HIDE DEF ev
  <2> QED BY <1>2, <2>2, <2>3, <2>4, <2>5, <2>6, OrdinaryStep DEF States, InExecution
<1>19. CASE Sleep
  <2>1. /\ state' \in {"S_DISPATCH", "S_SLEEP"} /\ enabled' = CanInterrupt
        /\ Edge(Quiet, FALSE) /\ effects' = Applied
        /\ op' = op /\ pc2' = pc2 /\ lsu' = lsu /\ refetch' \in 0 .. 2
    BY <1>3, <1>19 DEF Sleep
  <2> QED BY <1>2, <1>5, <2>1, OrdinaryStep DEF States, InExecution
<1>20. CASE UNCHANGED vars
  BY <1>20 DEF vars, IInv, TypeOK, MonitorBound, InstrFailed, DebugIsMachine, StillLegal, Legal
<1> QED
  BY <1>6, <1>7, <1>8, <1>9, <1>10, <1>11, <1>12, <1>13, <1>14, <1>15, <1>16, <1>17, <1>18,
     <1>19, <1>20 DEF Next

\* Every step but the entry into a trap and the return is an ordinary edge.
LEMMA OrdinaryEdge ==
    ASSUME Next, ~TrapEnter, ~TrapExit
    PROVE  \E ev, acked : Edge(ev, acked) /\ ~ev.enter /\ ~ev.exit
<1>1. \A e, w, c, r : ~Drive(e, w, c, r).enter /\ ~Drive(e, w, c, r).exit
  BY DEF Drive
<1>2. SUFFICES \E e, w, c, r, acked : Edge(Drive(e, w, c, r), acked)
  BY <1>1
<1>3. CASE Restart \/ DispatchTrap \/ DispatchWait \/ Sleep
  BY <1>3 DEF Restart, DispatchTrap, DispatchWait, Sleep, Cycle, Quiet, Raise
<1>4. CASE Issue \/ Execute \/ AluWait \/ Branch
  BY <1>4, Zenon DEF Issue, Execute, AluWait, Branch, Cycle, Raise
<1>5. CASE MemReq \/ MemWait \/ MemAck \/ System
  BY <1>5, Zenon DEF MemReq, MemWait, MemAck, System, Cycle, Raise
<1> QED BY <1>3, <1>4, <1>5 DEF Next

-----------------------------------------------------------------------------
\* The invariant behind the privilege rules holds in every state.
THEOREM Invariant == Spec => []IInv
<1>1. Init => IInv
  BY InitIInv
<1>2. IInv /\ [Next]_vars => IInv'
  BY StepIInv
<1> QED BY <1>1, <1>2, PTL DEF Spec

\* Type correctness; with it, that the monitor ends every multi-cycle
\* operation before its counter wraps around.
THEOREM TypeCorrect == Spec => []TypeOK
<1>1. IInv => TypeOK
  BY DEF IInv
<1> QED BY <1>1, Invariant, PTL

\* No CSR write of the software hits the edge at which a trap or its return
\* updates the CSRs.
THEOREM TrapsAreRecorded == Spec => []TrapRecorded
<1>1. IInv => TrapRecorded
  BY DEF IInv, TrapRecorded
<1> QED BY <1>1, Invariant, PTL

\* Debug mode has machine-mode rights, whatever dcsr.prv and mstatus hold.
THEOREM DebugModeIsMachine == Spec => []DebugIsMachine
<1>1. IInv => DebugIsMachine
  BY DEF IInv
<1> QED BY <1>1, Invariant, PTL

\* A program in user mode cannot raise its privilege level: only the entry
\* into a trap does, and the return instructions are illegal in user mode.
THEOREM PrivilegeRisesByTrap == Spec => PrivilegeRises
<1>1. IInv /\ [Next]_vars => [csr.prv = "U" /\ csr'.prv = "M" => state = "S_TRAP_ENTER"]_vars
  <2> SUFFICES ASSUME IInv, Next, csr.prv = "U", csr'.prv = "M"
               PROVE  state = "S_TRAP_ENTER"
    BY DEF vars
  <2>1. TypeOK /\ StillLegal
    BY DEF IInv
  <2>2. csr \in Csrs
    BY <2>1 DEF TypeOK
  <2>3. state = "S_TRAP_EXIT" => FALSE
    BY <2>1 DEF StillLegal
  <2>4. CASE TrapEnter
    BY <2>4 DEF TrapEnter
  <2>5. CASE ~TrapEnter /\ ~TrapExit
    <3>1. PICK ev, acked : Edge(ev, acked) /\ ~ev.enter /\ ~ev.exit
      BY <2>5, OrdinaryEdge
    <3> QED BY <2>2, <3>1, EdgeKeeps
  <2> QED BY <2>3, <2>4, <2>5 DEF TrapExit
<1> QED BY <1>1, Invariant, PTL DEF Spec, PrivilegeRises

-----------------------------------------------------------------------------
(* Instructions in order, and precise traps. *)

\* The sequencer's signals of a cycle are registered.
LEMMA EdgeSignals ==
    ASSUME NEW e, NEW w, NEW c, NEW r, NEW acked, Edge(Drive(e, w, c, r), acked)
    PROVE  /\ ctrl'.wb = w /\ ctrl'.csr_we = c /\ ctrl'.lsu_req = r
           /\ exc_buf' = exc_buf \cup e
<1>1. ctrl' = [wb |-> w, csr_we |-> c, lsu_req |-> r]
  BY DEF Edge, Drive
<1>2. exc_buf' = exc_buf \cup e
  BY DEF Edge, TrapBuffer, Collect, Drive
<1> QED BY <1>1, <1>2

\* A cycle after which nothing more happens, and one after which the result is
\* written back unless an exception forbids it.
LEMMA NoEffect ==
    ASSUME ctrl'.wb = FALSE, ctrl'.csr_we = FALSE, ctrl'.lsu_req = FALSE, state' # "S_TRAP_EXIT"
    PROVE  Applied' = effects'
  BY DEF Applied, rf_wb_en

\* After a cycle that asks for a write-back, with no exception, the result is there.
LEMMA WriteBack ==
    ASSUME ctrl'.wb = TRUE, ctrl'.csr_we = FALSE, ctrl'.lsu_req = FALSE, state' # "S_TRAP_EXIT",
           exc_buf' \cap SyncExc = {}, op' \in HasResult
    PROVE  Applied' = effects' \cup {"rf"}
  BY DEF Applied, rf_wb_en

\* What the sequencer itself raises, but for the single step, is synchronous.
LEMMA Raises ==
    /\ {"iaccess", "illegal", "ialign", "ecall", "ebreak", "laccess", "saccess", "lalign", "salign"}
           \subseteq SyncExc
    /\ "db_step" \notin SyncExc /\ "db_brkp" \notin SyncExc
    /\ InstrExc \subseteq SyncExc /\ MemExc \subseteq SyncExc
    /\ "db_step" \notin InstrExc \cup MemExc
  BY DEF SyncExc, InstrExc, MemExc

\* What the classes of instructions leave behind when they are complete.
LEMMA CompleteOf ==
    /\ Complete("none") = {} /\ Complete("fence") = {} /\ Complete("branch") = {}
    /\ Complete("wfi") = {}
    /\ Complete("alu") = {"rf"} /\ Complete("mul") = {"rf"} /\ Complete("jal") = {"rf"}
    /\ \A o \in CsrOps : Complete(o) = {"rf", "csr"}
    /\ \A o \in {"mret", "dret"} : Complete(o) = {"exit"}
    /\ \A o \in Reads : Complete(o) = {"rf", "mem"}
    /\ Complete("store") = {"mem"}
  BY DEF Complete, HasResult, CsrOps, Reads, Writes

\* After reset no instruction has had an effect.
LEMMA InitOrder == Init => OrderInv
<1> SUFFICES ASSUME Init PROVE OrderInv
  OBVIOUS
<1>1. ctrl.wb = FALSE /\ ctrl.csr_we = FALSE /\ ctrl.lsu_req = FALSE
  BY DEF Init, Quiet, Raise, Drive
<1>2. Applied = {}
  BY <1>1 DEF Init, Applied, rf_wb_en
<1> QED BY <1>2, CompleteOf DEF Init, OrderInv, Placed, EffectsSoFar, Between

\* Every clock edge preserves the order of the effects of an instruction.
LEMMA StepOrder == IInv /\ OrderInv /\ [Next]_vars => OrderInv'
<1> SUFFICES ASSUME IInv, OrderInv, [Next]_vars PROVE OrderInv'
  OBVIOUS
<1>1. Placed /\ EffectsSoFar
  BY DEF OrderInv
<1>2. Quiet = Drive({}, FALSE, FALSE, FALSE)
  BY DEF Quiet, Raise
<1>3. ASSUME NEW acked, Edge(Quiet, acked), state' # "S_TRAP_EXIT"
      PROVE  Applied' = effects' /\ exc_buf' = exc_buf
  <2>1. Edge(Drive({}, FALSE, FALSE, FALSE), acked)
    BY <1>2, <1>3
  <2>2. /\ ctrl'.wb = FALSE /\ ctrl'.csr_we = FALSE /\ ctrl'.lsu_req = FALSE
        /\ exc_buf' = exc_buf \cup {}
    BY <2>1, EdgeSignals, Zenon
  <2> QED BY <1>3, <2>2, NoEffect
<1>4. CASE Restart \/ DispatchWait
  <2>1. /\ Edge(Quiet, FALSE) /\ effects' = Applied /\ op' = op /\ state' = "S_DISPATCH"
        /\ state \in {"S_RESTART", "S_DISPATCH"}
    BY <1>4, CycleShape DEF Restart, DispatchWait, CanIssue
  <2> QED BY <1>1, <1>3, <2>1 DEF OrderInv, Placed, EffectsSoFar, Between
<1>5. CASE DispatchTrap
  <2>1. /\ Edge(Quiet, FALSE) /\ effects' = Applied /\ op' = op
        /\ state = "S_DISPATCH" /\ state' = "S_TRAP_ENTER"
    BY <1>5, CycleShape DEF DispatchTrap
  <2> QED BY <1>1, <1>3, <2>1 DEF OrderInv, Placed, EffectsSoFar, Between
<1>6. CASE Issue
  <2>1. PICK e : Edge(Drive(e, FALSE, FALSE, FALSE), FALSE)
    BY <1>6, Zenon DEF Issue, Raise
  <2>2. state' = "S_EXECUTE" /\ effects' = {}
    BY <1>6 DEF Issue
  <2>3. /\ ctrl'.wb = FALSE /\ ctrl'.csr_we = FALSE /\ ctrl'.lsu_req = FALSE
        /\ exc_buf' = exc_buf \cup e
    BY <2>1, EdgeSignals, Zenon
  <2>4. Applied' = {}
    BY <2>2, <2>3, NoEffect
  <2> QED BY <2>2, <2>4 DEF OrderInv, Placed, EffectsSoFar, Between
<1>7. CASE TrapEnter
  <2>1. state' = "S_RESTART" /\ op' = "none" /\ effects' = {} /\ ctrl' = [Quiet EXCEPT !.enter = TRUE].ctrl
    BY <1>7 DEF TrapEnter, Edge
  <2>2. ctrl' = Quiet.ctrl
    BY <2>1 DEF Quiet, Raise, Drive
  <2>3. ctrl'.wb = FALSE /\ ctrl'.csr_we = FALSE /\ ctrl'.lsu_req = FALSE
    BY <2>2 DEF Quiet, Raise, Drive
  <2>4. Applied' = {}
    BY <2>1, <2>3 DEF Applied, rf_wb_en
  <2> QED BY <2>1, <2>4, CompleteOf DEF OrderInv, Placed, EffectsSoFar, Between
<1>8. CASE TrapExit
  <2>1. /\ state = "S_TRAP_EXIT" /\ state' = "S_RESTART" /\ op' = op /\ effects' = Applied
        /\ ctrl' = [Quiet EXCEPT !.exit = TRUE].ctrl
    BY <1>8, CycleShape DEF TrapExit, Edge
  <2>2. ctrl' = Quiet.ctrl
    BY <2>1 DEF Quiet, Raise, Drive
  <2>3. ctrl'.wb = FALSE /\ ctrl'.csr_we = FALSE /\ ctrl'.lsu_req = FALSE
    BY <2>2 DEF Quiet, Raise, Drive
  <2>4. Applied' = {"exit"} /\ op' \in {"mret", "dret"}
    BY <1>1, <2>1, <2>3 DEF Applied, rf_wb_en, Placed, EffectsSoFar, Between
  <2> QED BY <2>1, <2>4, CompleteOf DEF OrderInv, Placed, EffectsSoFar, Between
<1>9. CASE Execute
  <2> DEFINE e == instr_il \cup (IF csr.step /\ ~run THEN {"db_step"} ELSE {})
             w == op = "alu"
  <2>1. /\ state = "S_EXECUTE" /\ state' = NextOf[op] /\ effects' = Applied /\ op' = op
        /\ Edge(Drive(e, w, FALSE, FALSE), FALSE)
    BY <1>9 DEF Execute, Raise
  <2> HIDE DEF e, w
  <2>2. op \in Ops /\ effects' = {}
    BY <1>1, <2>1 DEF IInv, InExecution, EffectsSoFar, Between
  <2>3. /\ op = "alu" => state' = "S_DISPATCH"
        /\ op = "mul" => state' = "S_ALU_WAIT"
        /\ op \in {"branch", "jal"} => state' = "S_BRANCH"
        /\ op \in Reads \cup Writes => state' = "S_MEM_REQ"
        /\ op = "fence" => state' = "S_RESTART"
        /\ op \in SystemOps => state' = "S_SYSTEM"
    BY <2>1, <2>2, Zenon DEF NextOf, SystemOps, CsrOps, Reads, Writes
  <2>4. op \in {"alu", "mul", "branch", "jal", "fence"} \cup Reads \cup Writes \cup SystemOps
    BY <2>2 DEF Ops
  <2>5. /\ ctrl'.wb = w /\ ctrl'.csr_we = FALSE /\ ctrl'.lsu_req = FALSE
        /\ exc_buf' = exc_buf \cup e
    BY <2>1, EdgeSignals, Zenon
  <2>6. CASE op = "alu"
    <3>1. exc_buf' \subseteq {"db_step"} => Applied' = {"rf"}
      BY <2>1, <2>2, <2>3, <2>5, <2>6, WriteBack, Raises DEF HasResult, w
    <3> QED BY <2>1, <2>3, <2>6, <3>1, CompleteOf DEF OrderInv, Placed, EffectsSoFar, Between
  <2>7. CASE op # "alu"
    <3>1. state' # "S_TRAP_EXIT"
      BY <2>3, <2>4
    <3>2. Applied' = {}
      BY <2>2, <2>5, <2>7, <3>1, NoEffect DEF w
    <3> QED BY <2>1, <2>3, <2>4, <2>7, <3>2, CompleteOf DEF OrderInv, Placed, EffectsSoFar, Between
  <2> QED BY <2>6, <2>7
<1>10. CASE AluWait
  <2>1. PICK done \in BOOLEAN :
            /\ state' = IF done \/ InstrFailed THEN "S_DISPATCH" ELSE "S_ALU_WAIT"
            /\ Cycle(Raise(instr_il, done))
    BY <1>10 DEF AluWait
  <2>2. /\ Edge(Drive(instr_il, done, FALSE, FALSE), FALSE) /\ effects' = Applied /\ op' = op
        /\ state = "S_ALU_WAIT"
    BY <1>10, <2>1, CycleShape DEF AluWait, Raise
  <2>3. op' = "mul" /\ effects' = {}
    BY <1>1, <2>2 DEF Placed, EffectsSoFar, Between
  <2>4. /\ ctrl'.wb = done /\ ctrl'.csr_we = FALSE /\ ctrl'.lsu_req = FALSE
        /\ exc_buf' = exc_buf \cup instr_il
    BY <2>2, EdgeSignals, Zenon
  <2>5. done /\ exc_buf' \subseteq {"db_step"} => Applied' = {"rf"}
    BY <2>1, <2>3, <2>4, WriteBack, Raises DEF HasResult
  <2>6. ~done => Applied' = {}
    BY <2>1, <2>3, <2>4, NoEffect
  <2>7. exc_buf' \subseteq {"db_step"} /\ state' = "S_DISPATCH" => done
    BY <2>1, <2>4, Raises DEF InstrFailed
  <2> QED BY <2>1, <2>3, <2>5, <2>6, <2>7, CompleteOf DEF OrderInv, Placed, EffectsSoFar, Between
<1>11. CASE Branch
  <2>1. PICK taken \in BOOLEAN, misaligned \in BOOLEAN :
            Cycle(Raise(IF taken /\ misaligned THEN {"ialign"} ELSE {}, op = "jal"))
    BY <1>11 DEF Branch
  <2> DEFINE e == IF taken /\ misaligned THEN {"ialign"} ELSE {}
             w == op = "jal"
  <2>2. /\ Edge(Drive(e, w, FALSE, FALSE), FALSE) /\ effects' = Applied /\ op' = op
        /\ state = "S_BRANCH" /\ state' = "S_DISPATCH"
    BY <1>11, <2>1, CycleShape DEF Branch, Raise
  <2> HIDE DEF e, w
  <2>3. op' \in {"branch", "jal"} /\ effects' = {}
    BY <1>1, <2>2 DEF Placed, EffectsSoFar, Between
  <2>4. /\ ctrl'.wb = w /\ ctrl'.csr_we = FALSE /\ ctrl'.lsu_req = FALSE
        /\ exc_buf' = exc_buf \cup e
    BY <2>2, EdgeSignals, Zenon
  <2>5. op = "jal" /\ exc_buf' \subseteq {"db_step"} => Applied' = {"rf"}
    BY <2>2, <2>3, <2>4, WriteBack, Raises DEF HasResult, w
  <2>6. op # "jal" => Applied' = {}
    BY <2>2, <2>3, <2>4, NoEffect DEF w
  <2> QED BY <2>2, <2>3, <2>5, <2>6, CompleteOf DEF OrderInv, Placed, EffectsSoFar, Between
<1>12. CASE MemReq
  <2> DEFINE r == ~InstrFailed
  <2>1. /\ Edge(Drive({}, FALSE, FALSE, r), FALSE) /\ effects' = Applied /\ op' = op
        /\ state = "S_MEM_REQ" /\ state' = IF InstrFailed THEN "S_DISPATCH" ELSE "S_MEM_RSP"
    BY <1>12 DEF MemReq
  <2> HIDE DEF r
  <2>2. op' \in Reads \cup Writes /\ effects' = {}
    BY <1>1, <2>1 DEF Placed, EffectsSoFar, Between
  <2>3. /\ ctrl'.wb = FALSE /\ ctrl'.csr_we = FALSE /\ ctrl'.lsu_req = r
        /\ exc_buf' = exc_buf \cup {}
    BY <2>1, EdgeSignals, Zenon
  <2>4. ~InstrFailed => Applied' = IF lsu' = "ok" THEN {"mem"} ELSE {}
    BY <2>1, <2>2, <2>3 DEF Applied, rf_wb_en, r
  <2>5. InstrFailed => ~(exc_buf' \subseteq {"db_step"})
    BY <2>3, Raises DEF InstrFailed
  <2> QED BY <2>1, <2>2, <2>4, <2>5 DEF OrderInv, Placed, EffectsSoFar, Between
<1>13. CASE MemWait
  <2> DEFINE w == op \in Reads /\ exc_buf \cap MemExc # {}
  <2>1. /\ Edge(Drive(lsu_err(lsu), w, FALSE, FALSE), FALSE) /\ effects' = Applied /\ op' = op
        /\ lsu' = lsu /\ state = "S_MEM_RSP"
        /\ state' = IF exc_buf \cap MemExc # {} THEN "S_DISPATCH" ELSE "S_MEM_RSP"
    BY <1>13, CycleShape DEF MemWait, Raise
  <2>2. op' \in Reads \cup Writes /\ effects' = IF lsu = "ok" THEN {"mem"} ELSE {}
    BY <1>1, <2>1 DEF Placed, EffectsSoFar, Between
  <2> HIDE DEF w
  <2>3. /\ ctrl'.wb = w /\ ctrl'.csr_we = FALSE /\ ctrl'.lsu_req = FALSE
        /\ exc_buf' = exc_buf \cup lsu_err(lsu)
    BY <2>1, EdgeSignals
  <2>4. CASE exc_buf \cap MemExc # {}
    <3>1. ~(exc_buf' \subseteq {"db_step"}) /\ state' = "S_DISPATCH"
      BY <2>1, <2>3, <2>4, Raises
    <3> QED BY <3>1 DEF OrderInv, Placed, EffectsSoFar, Between
  <2>5. CASE exc_buf \cap MemExc = {}
    <3>1. w = FALSE
      BY <2>5 DEF w
    <3>2. state' = "S_MEM_RSP"
      BY <2>1, <2>5
    <3>3. Applied' = effects'
      BY <2>3, <3>1, <3>2, NoEffect
    <3> QED BY <2>1, <2>2, <3>2, <3>3 DEF OrderInv, Placed, EffectsSoFar, Between
  <2> QED BY <2>4, <2>5
<1>14. CASE MemAck
  <2>1. PICK kind \in {"ok", "access"} :
            Edge(Raise(lsu_err(kind), op \in Reads), op \in Writes /\ kind = "ok")
    BY <1>14 DEF MemAck
  <2> DEFINE acked == op \in Writes /\ kind = "ok"
             w == op \in Reads
  <2>2. /\ Edge(Drive(lsu_err(kind), w, FALSE, FALSE), acked)
        /\ effects' = Applied /\ op' = op /\ lsu = "ok" /\ state = "S_MEM_RSP" /\ state' = "S_DISPATCH"
    BY <1>14, <2>1 DEF MemAck, Raise
  <2> HIDE DEF acked, w
  <2>3. op' \in Reads \cup Writes /\ effects' = {"mem"}
    BY <1>1, <2>2 DEF Placed, EffectsSoFar, Between
  <2>4. /\ ctrl'.wb = w /\ ctrl'.csr_we = FALSE /\ ctrl'.lsu_req = FALSE
        /\ exc_buf' = exc_buf \cup lsu_err(kind)
    BY <2>2, EdgeSignals, Zenon
  <2>5. op \in Reads /\ exc_buf' \subseteq {"db_step"} => Applied' = {"rf", "mem"}
    <3>1. op \in Reads => op' \in HasResult
      BY <2>2 DEF HasResult
    <3> QED BY <2>2, <2>3, <2>4, <3>1, WriteBack, Raises DEF w
  <2>6. op \notin Reads => Applied' = {"mem"} /\ op' = "store"
    <3>1. SUFFICES ASSUME op \notin Reads PROVE Applied' = {"mem"} /\ op' = "store"
      OBVIOUS
    <3>2. op' = "store"
      BY <2>2, <2>3, <3>1 DEF Reads, Writes
    <3>3. ctrl'.wb = FALSE /\ ctrl'.csr_we = FALSE /\ ctrl'.lsu_req = FALSE
      <4>1. w = FALSE
        BY <3>1 DEF w
      <4> QED BY <2>4, <4>1
    <3>4. state' # "S_TRAP_EXIT"
      BY <2>2
    <3> QED BY <2>3, <3>2, <3>3, <3>4, NoEffect
  <2> QED BY <2>2, <2>3, <2>5, <2>6, CompleteOf DEF OrderInv, Placed, EffectsSoFar, Between
<1>15. CASE System
  <2> DEFINE e == IF InstrFailed THEN {}
                  ELSE CASE op = "ecall" -> {"ecall"} [] op = "ebreak" -> Ebreak [] OTHER -> {}
  <2>1. /\ Edge(Drive(e, TRUE, CsrWe, FALSE), FALSE) /\ effects' = Applied /\ op' = op
        /\ state = "S_SYSTEM"
    BY <1>15, CycleShape DEF System
  <2>2. op \in SystemOps /\ effects' = {}
    BY <1>1, <2>1 DEF Placed, EffectsSoFar, Between
  <2>3. /\ InstrFailed => state' = "S_DISPATCH"
        /\ ~InstrFailed /\ op \in {"mret", "dret"} => state' = "S_TRAP_EXIT"
        /\ ~InstrFailed /\ op = "wfi" => state' = "S_SLEEP"
        /\ ~InstrFailed /\ op \notin {"mret", "dret", "wfi"} => state' = "S_DISPATCH"
    BY <1>15 DEF System
  <2>4. op \in {"ecall", "ebreak"} => InstrFailed \/ e \cap {"ecall", "ebreak", "db_brkp"} # {}
    BY DEF Ebreak
  <2> HIDE DEF e
  <2>5. /\ ctrl'.wb = TRUE /\ ctrl'.csr_we = CsrWe /\ ctrl'.lsu_req = FALSE
        /\ exc_buf' = exc_buf \cup e
    BY <2>1, EdgeSignals
  <2>6. CASE InstrFailed
    BY <2>3, <2>5, <2>6, Raises DEF InstrFailed, OrderInv, Placed, EffectsSoFar, Between
  <2>7. CASE ~InstrFailed /\ op \in CsrOps
    <3>1. ctrl'.csr_we = TRUE /\ state' = "S_DISPATCH"
      BY <2>3, <2>5, <2>7 DEF CsrWe, CsrOps
    <3>2. op' \in HasResult
      BY <2>1, <2>7 DEF HasResult
    <3>3. exc_buf' \subseteq {"db_step"} => Applied' = {"rf", "csr"}
      BY <2>2, <2>5, <3>1, <3>2, Raises DEF Applied, rf_wb_en
    <3> QED BY <2>1, <2>7, <3>1, <3>3, CompleteOf DEF OrderInv, Placed, EffectsSoFar, Between
  <2>8. CASE ~InstrFailed /\ op \in {"ecall", "ebreak"}
    BY <2>3, <2>4, <2>5, <2>8 DEF OrderInv, Placed, EffectsSoFar, Between
  <2>9. CASE ~InstrFailed /\ op = "illegal"
    BY <2>1, <2>9 DEF IInv, StillLegal, Legal
  <2>10. CASE ~InstrFailed /\ op \in {"mret", "dret", "wfi"}
    <3>1. ~CsrWe
      BY <2>10 DEF CsrWe, CsrOps
    <3>2. state' = IF op = "wfi" THEN "S_SLEEP" ELSE "S_TRAP_EXIT"
      BY <2>3, <2>10
    <3>3. ctrl'.wb = TRUE /\ ctrl'.csr_we = FALSE /\ ctrl'.lsu_req = FALSE
      BY <2>5, <3>1 DEF CsrWe
    <3>4. op' \notin HasResult
      BY <2>1, <2>10 DEF HasResult, CsrOps, Reads
    <3>5. Applied' = IF op = "wfi" THEN {} ELSE {"exit"}
      BY <2>2, <3>2, <3>3, <3>4 DEF Applied
    <3> QED BY <2>1, <2>10, <3>2, <3>5 DEF OrderInv, Placed, EffectsSoFar, Between
  <2> QED BY <2>2, <2>6, <2>7, <2>8, <2>9, <2>10 DEF SystemOps
<1>16. CASE Sleep
  <2>1. /\ Edge(Quiet, FALSE) /\ effects' = Applied /\ op' = op
        /\ state = "S_SLEEP" /\ state' \in {"S_DISPATCH", "S_SLEEP"}
    BY <1>16 DEF Sleep
  <2>2. op = "wfi" /\ Applied = {}
    BY <1>1, <2>1 DEF Placed, EffectsSoFar, Between
  <2>3. Applied' = {}
    BY <1>3, <2>1, <2>2
  <2> QED BY <2>1, <2>2, <2>3, CompleteOf DEF OrderInv, Placed, EffectsSoFar, Between
<1>17. CASE UNCHANGED vars
  BY <1>17 DEF vars, OrderInv, Placed, EffectsSoFar, Applied, rf_wb_en
<1> QED
  BY <1>4, <1>5, <1>6, <1>7, <1>8, <1>9, <1>10, <1>11, <1>12, <1>13, <1>14, <1>15, <1>16,
     <1>17 DEF Next

-----------------------------------------------------------------------------
\* The sources of a trap in the order of the encoder: the synchronous
\* exceptions, the halt request, breakpoint and single step, the interrupts.
LEMMA SourceOrder ==
    /\ DOMAIN Priority \subseteq Nat \ {0}
    /\ 1 .. 12 \subseteq DOMAIN Priority
    /\ \A i \in 1 .. 9 : Priority[i] \in SyncExc
    /\ \A x \in SyncExc : \E i \in 1 .. 9 : Priority[i] = x
    /\ Priority[10] = "halt" /\ Priority[11] = "db_brkp" /\ Priority[12] = "db_step"
    /\ \A i \in DOMAIN Priority : i > 12 => Priority[i] \in Interrupts
<1> DEFINE fixed == <<"iaccess", "illegal", "ialign", "ecall", "ebreak", "salign", "lalign",
                      "saccess", "laccess", "halt", "db_brkp", "db_step">>
           source == SyncExc \cup {"halt", "db_brkp", "db_step"} \cup Interrupts
<1>1. /\ fixed[1] = "iaccess" /\ fixed[2] = "illegal" /\ fixed[3] = "ialign" /\ fixed[4] = "ecall"
      /\ fixed[5] = "ebreak" /\ fixed[6] = "salign" /\ fixed[7] = "lalign" /\ fixed[8] = "saccess"
      /\ fixed[9] = "laccess" /\ fixed[10] = "halt" /\ fixed[11] = "db_brkp" /\ fixed[12] = "db_step"
  OBVIOUS
<1>2. Priority = fixed \o Irqs /\ Irqs \in Seq(STRING)
  BY CpuAssumption DEF Priority
<1>3. Irqs \in Seq(source) /\ \A k \in DOMAIN Irqs : Irqs[k] \in Interrupts
  <2>1. \A k \in DOMAIN Irqs : Irqs[k] \in Interrupts
    BY DEF Interrupts, ToSet
  <2>2. Irqs \in [1 .. Len(Irqs) -> source] /\ Len(Irqs) \in Nat
    BY <1>2, <2>1
  <2> HIDE DEF source
  <2>3. Irqs \in Seq(source)
    BY <2>2, SeqDef, Zenon
  <2> QED BY <2>1, <2>3
<1>4. fixed \in Seq(source) /\ Len(fixed) = 12
  <2>1. fixed = [i \in 1 .. 12 |-> fixed[i]]
    BY SMT
  <2>2. Len(fixed) = 12
    BY SMT
  <2> HIDE DEF fixed
  <2>3. \A i \in 1 .. 12 : fixed[i] \in source
    <3>1. \A i \in 1 .. 12 : i \in {1, 2, 3, 4, 5, 6, 7, 8, 9, 10, 11, 12}
      OBVIOUS
    <3>2. /\ fixed[1] \in source /\ fixed[2] \in source /\ fixed[3] \in source /\ fixed[4] \in source
          /\ fixed[5] \in source /\ fixed[6] \in source /\ fixed[7] \in source /\ fixed[8] \in source
          /\ fixed[9] \in source /\ fixed[10] \in source /\ fixed[11] \in source /\ fixed[12] \in source
      BY <1>1, Raises
    <3> HIDE DEF source
    <3> QED BY <3>1, <3>2
  <2> HIDE DEF source
  <2>4. fixed \in [1 .. 12 -> source] /\ 12 \in Nat
    BY <2>1, <2>3
  <2>5. fixed \in Seq(source)
    BY <2>4, SeqDef, Zenon
  <2> QED BY <2>2, <2>5
<1> HIDE DEF fixed, source
<1>5. /\ DOMAIN Priority = 1 .. 12 + Len(Irqs) /\ Len(Irqs) \in Nat
      /\ \A i \in 1 .. 12 : Priority[i] = fixed[i]
      /\ \A i \in 13 .. 12 + Len(Irqs) : Priority[i] = Irqs[i - 12]
  <2>1. /\ Priority \in Seq(source) /\ Len(Priority) = 12 + Len(Irqs)
        /\ \A i \in 1 .. 12 + Len(Irqs) : Priority[i] = IF i <= 12 THEN fixed[i] ELSE Irqs[i - 12]
    <3>1. /\ fixed \o Irqs \in Seq(source) /\ Len(fixed \o Irqs) = Len(fixed) + Len(Irqs)
          /\ \A i \in 1 .. Len(fixed) + Len(Irqs) :
                 (fixed \o Irqs)[i] = IF i <= Len(fixed) THEN fixed[i] ELSE Irqs[i - Len(fixed)]
      BY <1>3, <1>4, ConcatProperties, Zenon
    <3> QED BY <1>2, <1>4, <3>1, Zenon
  <2>2. Len(Irqs) \in Nat /\ DOMAIN Priority = 1 .. Len(Priority)
    BY <1>3, <2>1
  <2> QED BY <2>1, <2>2
<1>6. \A i \in DOMAIN Priority : i > 12 => Priority[i] \in Interrupts
  <2> SUFFICES ASSUME NEW i \in DOMAIN Priority, i > 12 PROVE Priority[i] \in Interrupts
    OBVIOUS
  <2>1. i \in 13 .. 12 + Len(Irqs) /\ i - 12 \in DOMAIN Irqs
    BY <1>3, <1>5
  <2> QED BY <1>3, <1>5, <2>1
<1>7. \A i \in 1 .. 9 : Priority[i] \in SyncExc
  <2> SUFFICES ASSUME NEW i \in 1 .. 9 PROVE Priority[i] \in SyncExc
    OBVIOUS
  <2>1. i \in {1, 2, 3, 4, 5, 6, 7, 8, 9} /\ i \in 1 .. 12
    OBVIOUS
  <2> QED BY <1>1, <1>5, <2>1, Raises
<1>8. \A x \in SyncExc : \E i \in 1 .. 9 : Priority[i] = x
  <2> SUFFICES ASSUME NEW x \in SyncExc PROVE \E i \in 1 .. 9 : fixed[i] = x
    BY <1>5
  <2>1. x \in {fixed[1], fixed[2], fixed[3], fixed[4], fixed[5], fixed[6], fixed[7], fixed[8], fixed[9]}
    BY <1>1 DEF SyncExc, InstrExc, MemExc
  <2> QED BY <2>1
<1> QED BY <1>1, <1>5, <1>6, <1>7, <1>8

\* Of a set of numbers that is not empty, one is the first.
LEMMA First == ASSUME NEW S \in SUBSET Nat, S # {}
               PROVE  \E n \in S : \A m \in S : ~(m < n)
<1> DEFINE R == {pair \in Nat \X Nat : pair[1] < pair[2]}
<1>1. IsWellFoundedOn(R, Nat)
  BY NatLessThanWellFounded DEF OpToRel
<1> HIDE DEF R
<1>2. PICK n \in S : \A m \in S : ~(<<m, n>> \in R)
  BY <1>1, WFMin
<1> QED BY <1>2 DEF R

\* The encoder returns a pending source, the first one in that order.
LEMMA Encoder ==
    ASSUME exc_buf \subseteq Exceptions, irq_buf \subseteq Interrupts \cup {"halt"}
    PROVE  /\ exc_buf \cap SyncExc # {} => ecause \in SyncExc
           /\ exc_buf \cap SyncExc = {} /\ "halt" \in irq_buf => ecause = "halt"
           /\ exc_buf \cap SyncExc = {} /\ "halt" \notin irq_buf /\ "db_brkp" \in exc_buf
                  => ecause = "db_brkp"
           /\ exc_buf = {"db_step"} /\ "halt" \notin irq_buf => ecause = "db_step"
           /\ exc_buf = {} /\ "halt" \notin irq_buf => ecause \in Interrupts
<1> DEFINE pending == exc_buf \cup irq_buf
           hits == {i \in DOMAIN Priority : Priority[i] \in pending}
<1>1. ecause = IF hits = {} THEN "mti" ELSE Priority[Min(hits)]
  BY DEF ecause
<1>2. hits # {} => Min(hits) \in hits /\ \A i \in hits : Min(hits) <= i
  <2> SUFFICES ASSUME hits # {} PROVE Min(hits) \in hits /\ \A i \in hits : Min(hits) <= i
    OBVIOUS
  <2>1. hits \in SUBSET Nat
    BY SourceOrder
  <2> HIDE DEF hits
  <2>2. \E n \in hits : \A m \in hits : n <= m
    <3>1. PICK n \in hits : \A m \in hits : ~(m < n)
      BY <2>1, First
    <3> QED BY <2>1, <3>1
  <2> QED BY <2>2 DEF Min
<1>3. "mti" \in Interrupts
  <2>1. Len(Irqs) \in DOMAIN Irqs /\ Irqs[Len(Irqs)] = "mti"
    BY CpuAssumption DEF Last
  <2> QED BY <2>1 DEF Interrupts, ToSet
<1> DEFINE first == Min(hits)
<1>4. \A i \in DOMAIN Priority : i \in hits <=> Priority[i] \in pending
  OBVIOUS
<1>5. hits \subseteq DOMAIN Priority
  OBVIOUS
<1> HIDE DEF first, hits
<1>6. hits # {} => first \in hits /\ first \in Nat /\ ecause = Priority[first]
  BY <1>1, <1>2, <1>5, SourceOrder DEF first
<1>7. \A i \in hits : first <= i
  BY <1>2 DEF first
<1>8. CASE exc_buf \cap SyncExc # {}
  <2>1. PICK i \in 1 .. 9 : Priority[i] \in exc_buf
    BY <1>8, SourceOrder
  <2>2. i \in hits
    BY <1>4, <2>1, SourceOrder
  <2>3. first \in 1 .. 9
    BY <1>5, <1>6, <1>7, <2>2, SourceOrder
  <2> QED BY <1>6, <1>8, <2>2, <2>3, SourceOrder, Raises
<1>9. CASE exc_buf \cap SyncExc = {}
  <2>1. \A i \in 1 .. 9 : i \notin hits
    <3>1. SyncExc \cap irq_buf = {}
      BY NamesAssumption DEF Exceptions, SyncExc, InstrExc, MemExc
    <3> QED BY <1>4, <1>9, <3>1, SourceOrder
  <2>2. hits # {} => first >= 10
    BY <1>5, <1>6, <2>1, SourceOrder
  <2>3. (10 \in hits <=> "halt" \in irq_buf) /\ (11 \in hits <=> "db_brkp" \in exc_buf)
        /\ (12 \in hits <=> "db_step" \in exc_buf)
    <3>1. "db_brkp" \notin irq_buf /\ "db_step" \notin irq_buf /\ "halt" \notin exc_buf
      BY NamesAssumption DEF Exceptions, SyncExc, InstrExc, MemExc
    <3> QED BY <1>4, <3>1, SourceOrder
  <2>4. CASE "halt" \in irq_buf
    <3>1. first = 10
      BY <1>6, <1>7, <2>2, <2>3, <2>4
    <3> QED BY <1>6, <1>9, <2>3, <2>4, <3>1, SourceOrder
  <2>5. CASE "halt" \notin irq_buf /\ "db_brkp" \in exc_buf
    <3>1. first = 11
      BY <1>6, <1>7, <2>2, <2>3, <2>5
    <3> QED BY <1>6, <1>9, <2>3, <2>5, <3>1, SourceOrder
  <2>6. CASE "halt" \notin irq_buf /\ exc_buf = {"db_step"}
    <3>1. first = 12
      BY <1>6, <1>7, <2>2, <2>3, <2>6
    <3> QED BY <1>6, <1>9, <2>3, <2>6, <3>1, SourceOrder
  <2>7. CASE "halt" \notin irq_buf /\ exc_buf = {}
    <3>1. hits # {} => first > 12
      BY <1>6, <2>2, <2>3, <2>7
    <3> QED BY <1>1, <1>3, <1>5, <1>6, <1>9, <2>7, <3>1, SourceOrder
  <2> QED BY <1>9, <2>4, <2>5, <2>6, <2>7
<1> QED BY <1>8, <1>9

-----------------------------------------------------------------------------
\* What a cycle of the instruction in execution does to the exceptions and to
\* the mode; the CSRs change only in S_DISPATCH.
LEMMA DriveKeeps ==
    ASSUME IInv, NEW e, NEW w, NEW c, NEW r, NEW acked, Edge(Drive(e, w, c, r), acked)
    PROVE  /\ exc_buf' = exc_buf \cup e /\ run' = run
           /\ state # "S_DISPATCH" => csr' = csr
<1>1. ~Drive(e, w, c, r).enter /\ ~Drive(e, w, c, r).exit
  BY DEF Drive
<1>2. run' = run /\ (~ctrl.csr_we => csr' = csr)
  BY <1>1, EdgeKeeps
<1> QED BY <1>2, EdgeSignals DEF IInv

\* A pending exception keeps the result from being written back.
LEMMA Held ==
    ASSUME exc_buf' \cap SyncExc # {} \/ op' \notin HasResult,
           ctrl'.csr_we = FALSE, ctrl'.lsu_req = FALSE, state' # "S_TRAP_EXIT"
    PROVE  Applied' = effects'
  BY DEF Applied, rf_wb_en

\* What the LSU reports.
LEMMA LsuErr ==
    ASSUME op \in Reads \cup Writes
    PROVE  /\ \A k \in {"ok", "align", "access"} : lsu_err(k) \subseteq MemExc
           /\ lsu_err("ok") = {}
           /\ lsu_err("access") \cap {"laccess", "saccess"} # {}
<1>1. op \in Reads \/ op \in Writes
  OBVIOUS
<1>2. /\ {"lalign"} \subseteq MemExc /\ {"salign"} \subseteq MemExc
      /\ {"laccess"} \subseteq MemExc /\ {"saccess"} \subseteq MemExc
  BY DEF MemExc
<1>3. lsu_err("ok") = {}
  BY DEF lsu_err
<1>4. lsu_err("align") \subseteq MemExc
  BY <1>2 DEF lsu_err
<1>5. lsu_err("access") \subseteq MemExc /\ lsu_err("access") \cap {"laccess", "saccess"} # {}
  BY <1>1, <1>2 DEF lsu_err
<1> QED BY <1>3, <1>4, <1>5

\* No exception is pending after reset.
LEMMA InitTrap == Init => TrapInv
  BY DEF Init, TrapInv, Raised, Suppressed, Halting, Permitted, Between, exc_fire

\* Every clock edge preserves what is known of the exceptions.
LEMMA StepRaised == IInv /\ OrderInv /\ Raised /\ Suppressed /\ [Next]_vars => Raised' /\ Suppressed'
<1> SUFFICES ASSUME IInv, OrderInv, Raised, Suppressed, [Next]_vars PROVE Raised' /\ Suppressed'
  OBVIOUS
<1>1. Placed /\ EffectsSoFar
  BY DEF OrderInv
<1>2. Quiet = Drive({}, FALSE, FALSE, FALSE)
  BY DEF Quiet, Raise
<1>3. CASE Restart \/ DispatchWait \/ DispatchTrap
  <2>1. /\ Edge(Drive({}, FALSE, FALSE, FALSE), FALSE) /\ effects' = Applied /\ op' = op
        /\ state \in Between /\ state' \in {"S_DISPATCH", "S_TRAP_ENTER"}
    BY <1>2, <1>3, CycleShape DEF Restart, DispatchWait, DispatchTrap, CanIssue, Between
  <2>2. exc_buf' = exc_buf \cup {} /\ run' = run
    BY <2>1, DriveKeeps, Zenon
  <2>3. /\ ctrl'.wb = FALSE /\ ctrl'.csr_we = FALSE /\ ctrl'.lsu_req = FALSE
        /\ exc_buf' = exc_buf \cup {}
    BY <2>1, EdgeSignals, Zenon
  <2>4. Applied' = effects'
    BY <2>1, <2>3, NoEffect
  <2> QED BY <2>1, <2>2, <2>4 DEF Raised, Suppressed
<1>4. CASE Issue
  <2>1. PICK failed \in BOOLEAN : Edge(Drive(IF failed THEN {"iaccess"} ELSE {}, FALSE, FALSE, FALSE), FALSE)
    BY <1>4 DEF Issue, Raise
  <2>2. state' = "S_EXECUTE" /\ exc_buf = {}
    BY <1>4 DEF Issue, CanIssue, exc_fire
  <2>3. exc_buf' = exc_buf \cup (IF failed THEN {"iaccess"} ELSE {}) /\ run' = run
    BY <2>1, DriveKeeps, Zenon
  <2> QED BY <2>2, <2>3 DEF Raised, Suppressed, Between
<1>5. CASE TrapEnter
  <2>1. state' = "S_RESTART" /\ exc_buf' = {}
    <3>1. [Quiet EXCEPT !.enter = TRUE].enter
      BY DEF Quiet, Raise, Drive
    <3> QED BY <1>5, <3>1 DEF TrapEnter, Edge, TrapBuffer, Collect
  <2> QED BY <2>1 DEF Raised, Suppressed
<1>6. CASE TrapExit
  <2> DEFINE ev == [Quiet EXCEPT !.exit = TRUE]
  <2>1. /\ state = "S_TRAP_EXIT" /\ state' = "S_RESTART" /\ Edge(ev, FALSE)
    BY <1>6, CycleShape DEF TrapExit
  <2>2. ~ev.enter /\ ev.exit /\ ev.exc = {}
    BY DEF Quiet, Raise, Drive
  <2> HIDE DEF ev
  <2>3. exc_buf' = exc_buf /\ ~run'
    BY <2>1, <2>2 DEF Edge, TrapBuffer, Collect, DebugControl
  <2> QED BY <2>1, <2>3 DEF Raised, Suppressed
<1>7. CASE Execute
  <2> DEFINE e == instr_il \cup (IF csr.step /\ ~run THEN {"db_step"} ELSE {})
             w == op = "alu"
  <2>1. /\ state = "S_EXECUTE" /\ state' = NextOf[op] /\ effects' = Applied
        /\ Edge(Drive(e, w, FALSE, FALSE), FALSE)
    BY <1>7 DEF Execute, Raise
  <2>2. e \subseteq {"illegal", "db_step"} /\ (run => "db_step" \notin e)
    BY DEF instr_il
  <2> HIDE DEF e, w
  <2>3. exc_buf' = exc_buf \cup e /\ run' = run
    BY <2>1, DriveKeeps
  <2>4. exc_buf' \subseteq {"iaccess", "illegal", "db_step"} /\ (run' => "db_step" \notin exc_buf')
    BY <2>1, <2>2, <2>3 DEF Raised
  <2>5. op \in Ops /\ effects' = {}
    BY <1>1, <2>1 DEF IInv, InExecution, EffectsSoFar
  <2>6. state' \in {"S_DISPATCH", "S_ALU_WAIT", "S_MEM_REQ", "S_BRANCH", "S_RESTART", "S_SYSTEM"}
    BY <2>1, <2>5, Zenon DEF NextOf
  <2>7. ~(exc_buf' \subseteq {"db_step"}) => Applied' = {}
    <3>1. /\ ctrl'.wb = w /\ ctrl'.csr_we = FALSE /\ ctrl'.lsu_req = FALSE
          /\ exc_buf' = exc_buf \cup e
      BY <2>1, EdgeSignals, Zenon
    <3>2. ~(exc_buf' \subseteq {"db_step"}) => exc_buf' \cap SyncExc # {}
      BY <2>4, Raises
    <3> QED BY <2>5, <2>6, <3>1, <3>2, Held
  <2> QED BY <2>4, <2>6, <2>7 DEF Raised, Suppressed
<1>8. CASE AluWait
  <2>1. PICK done \in BOOLEAN :
            /\ state' = IF done \/ InstrFailed THEN "S_DISPATCH" ELSE "S_ALU_WAIT"
            /\ Cycle(Raise(instr_il, done))
    BY <1>8 DEF AluWait
  <2>2. /\ Edge(Drive(instr_il, done, FALSE, FALSE), FALSE) /\ effects' = Applied /\ state = "S_ALU_WAIT"
    BY <1>8, <2>1, CycleShape DEF AluWait, Raise
  <2>3. instr_il \subseteq {"illegal"}
    BY DEF instr_il
  <2>4. exc_buf' = exc_buf \cup instr_il /\ run' = run
    BY <2>2, DriveKeeps
  <2>5. exc_buf' \subseteq {"iaccess", "illegal", "db_step"} /\ (run' => "db_step" \notin exc_buf')
    BY <2>2, <2>3, <2>4 DEF Raised
  <2>6. ~(exc_buf' \subseteq {"db_step"}) => Applied' = {}
    <3>1. /\ ctrl'.wb = done /\ ctrl'.csr_we = FALSE /\ ctrl'.lsu_req = FALSE
          /\ exc_buf' = exc_buf \cup instr_il
      BY <2>2, EdgeSignals, Zenon
    <3>2. effects' = {} /\ state' # "S_TRAP_EXIT"
      BY <1>1, <2>1, <2>2 DEF EffectsSoFar
    <3>3. ~(exc_buf' \subseteq {"db_step"}) => exc_buf' \cap SyncExc # {}
      BY <2>5, Raises
    <3> QED BY <3>1, <3>2, <3>3, Held
  <2> QED BY <2>1, <2>5, <2>6 DEF Raised, Suppressed
<1>9. CASE Branch
  <2>1. PICK taken \in BOOLEAN, misaligned \in BOOLEAN :
            Cycle(Raise(IF taken /\ misaligned THEN {"ialign"} ELSE {}, op = "jal"))
    BY <1>9 DEF Branch
  <2> DEFINE e == IF taken /\ misaligned THEN {"ialign"} ELSE {}
             w == op = "jal"
  <2>2. /\ Edge(Drive(e, w, FALSE, FALSE), FALSE) /\ effects' = Applied
        /\ state = "S_BRANCH" /\ state' = "S_DISPATCH"
    BY <1>9, <2>1, CycleShape DEF Branch, Raise
  <2>3. e \subseteq {"ialign"}
    OBVIOUS
  <2> HIDE DEF e, w
  <2>4. exc_buf' = exc_buf \cup e /\ run' = run
    BY <2>2, DriveKeeps
  <2>5. exc_buf' \subseteq {"iaccess", "illegal", "ialign", "db_step"} /\ (run' => "db_step" \notin exc_buf')
    BY <2>2, <2>3, <2>4 DEF Raised
  <2>6. ~(exc_buf' \subseteq {"db_step"}) => Applied' = {}
    <3>1. /\ ctrl'.wb = w /\ ctrl'.csr_we = FALSE /\ ctrl'.lsu_req = FALSE
          /\ exc_buf' = exc_buf \cup e
      BY <2>2, EdgeSignals, Zenon
    <3>2. effects' = {} /\ state' # "S_TRAP_EXIT"
      BY <1>1, <2>2 DEF EffectsSoFar
    <3>3. ~(exc_buf' \subseteq {"db_step"}) => exc_buf' \cap SyncExc # {}
      BY <2>5, Raises
    <3> QED BY <3>1, <3>2, <3>3, Held
  <2> QED BY <2>2, <2>5, <2>6 DEF Raised, Suppressed
<1>10. CASE MemReq
  <2> DEFINE r == ~InstrFailed
  <2>1. /\ Edge(Drive({}, FALSE, FALSE, r), FALSE) /\ effects' = Applied
        /\ state = "S_MEM_REQ" /\ state' = IF InstrFailed THEN "S_DISPATCH" ELSE "S_MEM_RSP"
    BY <1>10 DEF MemReq
  <2> HIDE DEF r
  <2>2. exc_buf' = exc_buf \cup {} /\ run' = run
    BY <2>1, DriveKeeps, Zenon
  <2>3. exc_buf \subseteq {"iaccess", "illegal", "db_step"} /\ (run => "db_step" \notin exc_buf)
    BY <2>1 DEF Raised
  <2>4. ~InstrFailed => exc_buf \subseteq {"db_step"}
    BY <2>3 DEF InstrFailed, InstrExc
  <2>5. InstrFailed => Applied' = {}
    <3>1. /\ ctrl'.wb = FALSE /\ ctrl'.csr_we = FALSE /\ ctrl'.lsu_req = r
          /\ exc_buf' = exc_buf \cup {}
      BY <2>1, EdgeSignals, Zenon
    <3>2. InstrFailed => ctrl'.lsu_req = FALSE
      BY <3>1 DEF r
    <3>3. effects' = {}
      BY <1>1, <2>1 DEF EffectsSoFar
    <3> QED BY <2>1, <3>1, <3>2, <3>3, NoEffect
  <2> QED BY <2>1, <2>2, <2>3, <2>4, <2>5 DEF Raised, Suppressed, Between
<1>11. CASE MemWait
  <2> DEFINE w == op \in Reads /\ exc_buf \cap MemExc # {}
  <2>1. /\ Edge(Drive(lsu_err(lsu), w, FALSE, FALSE), FALSE) /\ effects' = Applied /\ lsu' = lsu
        /\ state = "S_MEM_RSP" /\ state' = IF exc_buf \cap MemExc # {} THEN "S_DISPATCH" ELSE "S_MEM_RSP"
    BY <1>11, CycleShape DEF MemWait, Raise
  <2> HIDE DEF w
  <2>2. exc_buf' = exc_buf \cup lsu_err(lsu) /\ run' = run
    BY <2>1, DriveKeeps
  <2>3. op \in Reads \cup Writes /\ lsu \in {"ok", "align", "access"}
    BY <1>1, <2>1 DEF Placed, IInv, TypeOK
  <2>4. lsu_err(lsu) \subseteq MemExc /\ (lsu = "ok" => lsu_err(lsu) = {})
    BY <2>3, LsuErr
  <2>5. /\ exc_buf' \subseteq MemExc \cup {"db_step"} /\ (run' => "db_step" \notin exc_buf')
        /\ lsu' = "ok" => exc_buf' \subseteq {"db_step"}
    BY <2>1, <2>2, <2>4, Raises DEF Raised
  <2>6. state' = "S_DISPATCH" /\ ~(exc_buf' \subseteq {"db_step"}) => Applied' = {}
    <3>1. /\ ctrl'.wb = w /\ ctrl'.csr_we = FALSE /\ ctrl'.lsu_req = FALSE
          /\ exc_buf' = exc_buf \cup lsu_err(lsu)
      BY <2>1, EdgeSignals, Zenon
    <3>2. lsu # "ok" => effects' = {}
      BY <1>1, <2>1 DEF EffectsSoFar
    <3>3. ~(exc_buf' \subseteq {"db_step"}) => exc_buf' \cap SyncExc # {} /\ lsu # "ok"
      BY <2>1, <2>5, Raises
    <3> QED BY <3>1, <3>2, <3>3, Held
  <2> QED BY <2>1, <2>5, <2>6 DEF Raised, Suppressed, Between
<1>12. CASE MemAck
  <2>1. PICK kind \in {"ok", "access"} :
            Edge(Raise(lsu_err(kind), op \in Reads), op \in Writes /\ kind = "ok")
    BY <1>12 DEF MemAck
  <2> DEFINE acked == op \in Writes /\ kind = "ok"
             w == op \in Reads
  <2>2. /\ Edge(Drive(lsu_err(kind), w, FALSE, FALSE), acked)
        /\ effects' = Applied /\ lsu = "ok" /\ state = "S_MEM_RSP" /\ state' = "S_DISPATCH"
    BY <1>12, <2>1 DEF MemAck, Raise
  <2> HIDE DEF acked, w
  <2>3. exc_buf' = exc_buf \cup lsu_err(kind) /\ run' = run
    BY <2>2, DriveKeeps
  <2>4. op \in Reads \cup Writes /\ exc_buf \subseteq {"db_step"} /\ (run => "db_step" \notin exc_buf)
    BY <1>1, <2>2 DEF Placed, Raised
  <2>5. /\ lsu_err(kind) \subseteq MemExc /\ (kind = "ok" => lsu_err(kind) = {})
        /\ kind = "access" => lsu_err(kind) \cap {"laccess", "saccess"} # {}
    BY <2>4, LsuErr
  <2>6. run' => "db_step" \notin exc_buf'
    BY <2>3, <2>4, <2>5, Raises
  <2>7. ~(exc_buf' \subseteq {"db_step"}) => Applied' = {"mem"} /\ exc_buf' \cap {"laccess", "saccess"} # {}
    <3>1. /\ ctrl'.wb = w /\ ctrl'.csr_we = FALSE /\ ctrl'.lsu_req = FALSE
          /\ exc_buf' = exc_buf \cup lsu_err(kind)
      BY <2>2, EdgeSignals, Zenon
    <3>2. effects' = {"mem"}
      BY <1>1, <2>2 DEF EffectsSoFar
    <3>3. ~(exc_buf' \subseteq {"db_step"}) => exc_buf' \cap {"laccess", "saccess"} # {}
      BY <2>3, <2>4, <2>5
    <3>4. ~(exc_buf' \subseteq {"db_step"}) => exc_buf' \cap SyncExc # {}
      BY <3>3, Raises
    <3> QED BY <2>2, <3>1, <3>2, <3>3, <3>4, Held
  <2> QED BY <2>2, <2>6, <2>7 DEF Raised, Suppressed
<1>13. CASE System
  <2> DEFINE e == IF InstrFailed THEN {}
                  ELSE CASE op = "ecall" -> {"ecall"} [] op = "ebreak" -> Ebreak [] OTHER -> {}
  <2>1. /\ Edge(Drive(e, TRUE, CsrWe, FALSE), FALSE) /\ effects' = Applied /\ op' = op
        /\ state = "S_SYSTEM"
    BY <1>13, CycleShape DEF System
  <2>2. /\ e \subseteq {"ecall", "ebreak", "db_brkp"}
        /\ InstrFailed \/ op \notin {"ecall", "ebreak"} => e = {}
    BY DEF Ebreak
  <2> HIDE DEF e
  <2>3. exc_buf' = exc_buf \cup e /\ run' = run
    BY <2>1, DriveKeeps
  <2>4. exc_buf \subseteq {"iaccess", "illegal", "db_step"} /\ (run => "db_step" \notin exc_buf)
    BY <2>1 DEF Raised
  <2>5. ~InstrFailed => exc_buf \subseteq {"db_step"}
    BY <2>4 DEF InstrFailed, InstrExc
  <2>6. /\ InstrFailed => state' = "S_DISPATCH"
        /\ ~InstrFailed /\ op \in {"mret", "dret"} => state' = "S_TRAP_EXIT"
        /\ ~InstrFailed /\ op = "wfi" => state' = "S_SLEEP"
        /\ ~InstrFailed /\ op \notin {"mret", "dret", "wfi"} => state' = "S_DISPATCH"
    BY <1>13 DEF System
  <2>7. state' \in {"S_DISPATCH", "S_TRAP_EXIT", "S_SLEEP"}
    BY <2>6
  <2>8. state' # "S_DISPATCH" => exc_buf' \subseteq {"db_step"}
    BY <2>2, <2>3, <2>5, <2>6
  <2>9. run' => "db_step" \notin exc_buf'
    BY <2>2, <2>3, <2>4
  <2>10. state' = "S_DISPATCH" /\ ~(exc_buf' \subseteq {"db_step"}) => Applied' = {}
    <3>1. /\ ctrl'.wb = TRUE /\ ctrl'.csr_we = CsrWe /\ ctrl'.lsu_req = FALSE
          /\ exc_buf' = exc_buf \cup e
      BY <2>1, EdgeSignals, Zenon
    <3>2. effects' = {}
      BY <1>1, <2>1 DEF EffectsSoFar
    <3>3. CASE InstrFailed
      <4>1. ctrl'.csr_we = FALSE
        BY <3>1, <3>3 DEF CsrWe
      <4>2. exc_buf' \cap SyncExc # {}
        BY <2>3, <3>3, Raises DEF InstrFailed
      <4> QED BY <3>1, <3>2, <4>1, <4>2, Held
    <3>4. CASE ~InstrFailed /\ op \in {"ecall", "ebreak"}
      <4>1. op' \notin HasResult /\ op \notin CsrOps
        BY <2>1, <3>4 DEF HasResult, CsrOps, Reads
      <4>2. ctrl'.csr_we = FALSE
        BY <3>1, <4>1 DEF CsrWe
      <4> QED BY <3>1, <3>2, <4>1, <4>2, Held
    <3>5. CASE ~InstrFailed /\ op \notin {"ecall", "ebreak"}
      BY <2>2, <2>3, <2>5, <3>5
    <3> QED BY <3>3, <3>4, <3>5
  <2> QED BY <2>7, <2>8, <2>9, <2>10 DEF Raised, Suppressed, Between
<1>14. CASE Sleep
  <2>1. /\ Edge(Drive({}, FALSE, FALSE, FALSE), FALSE)
        /\ state = "S_SLEEP" /\ state' \in {"S_DISPATCH", "S_SLEEP"}
    BY <1>2, <1>14 DEF Sleep
  <2>2. exc_buf' = exc_buf \cup {} /\ run' = run
    BY <2>1, DriveKeeps, Zenon
  <2> QED BY <2>1, <2>2 DEF Raised, Suppressed
<1>15. CASE UNCHANGED vars
  BY <1>15 DEF vars, Raised, Suppressed, Applied, rf_wb_en
<1> QED
  BY <1>3, <1>4, <1>5, <1>6, <1>7, <1>8, <1>9, <1>10, <1>11, <1>12, <1>13, <1>14, <1>15 DEF Next

-----------------------------------------------------------------------------
\* Which action leads to which state, and which one decides whether the
\* current instruction can be interrupted.
LEMMA Moves ==
    ASSUME IInv, Next
    PROVE  /\ state' = "S_EXECUTE" => Issue
           /\ state' = "S_SYSTEM" => Execute
           /\ state' = "S_SLEEP" => System \/ Sleep
           /\ state' = "S_TRAP_ENTER" => DispatchTrap
           /\ Issue \/ TrapEnter \/ Execute \/ Sleep \/ enabled' = enabled
<1>1. CASE Restart \/ DispatchTrap \/ DispatchWait \/ Issue
  BY <1>1 DEF Restart, DispatchTrap, DispatchWait, CanIssue, Issue, Cycle
<1>2. CASE TrapEnter \/ TrapExit
  BY <1>2 DEF TrapEnter, TrapExit, Cycle
<1>3. CASE Execute
  <2>1. op \in Ops
    BY <1>3 DEF Execute, IInv, InExecution
  <2>2. state' \in {"S_DISPATCH", "S_ALU_WAIT", "S_MEM_REQ", "S_BRANCH", "S_RESTART", "S_SYSTEM"}
    BY <1>3, <2>1, Zenon DEF Execute, NextOf
  <2> QED BY <1>3, <2>2
<1>4. CASE AluWait \/ Branch \/ MemReq
  BY <1>4 DEF AluWait, Branch, MemReq, Cycle
<1>5. CASE MemWait \/ MemAck
  BY <1>5 DEF MemWait, MemAck, Cycle
<1>6. CASE System
  BY <1>6 DEF System, Cycle
<1>7. CASE Sleep
  BY <1>7 DEF Sleep
<1> QED BY <1>1, <1>2, <1>3, <1>4, <1>5, <1>6, <1>7 DEF Next

\* What a clock edge does to the halt request and to the pending trap.
LEMMA TrapEdge ==
    ASSUME NEW ev, NEW acked, Edge(ev, acked)
    PROVE  /\ "halt" \in irq_pnd' <=> ~run /\ "halt" \in lines
           /\ "halt" \in irq_buf' <=> "halt" \in irq_pnd \/ (env_pend /\ "halt" \in irq_buf)
           /\ ~run /\ "halt" \in lines => "halt" \in lines'
           /\ env_pend' <=> ~ev.enter /\ (env_pend \/ exc_fire \/ irq_fire)
<1>1. "halt" \notin Interrupts
  BY NamesAssumption
<1>2. "halt" \in irq_pnd' <=> ~run /\ "halt" \in lines
  BY <1>1 DEF Edge, TrapBuffer
<1>3. "halt" \in irq_buf' <=> "halt" \in irq_pnd \/ (env_pend /\ "halt" \in irq_buf)
  BY DEF Edge, TrapBuffer, Buffer
<1>4. ~run /\ "halt" \in lines => "halt" \in lines'
  BY <1>1 DEF Edge, Environment
<1>5. env_pend' <=> ~ev.enter /\ (env_pend \/ exc_fire \/ irq_fire)
  BY DEF Edge, TrapBuffer
<1> QED BY <1>2, <1>3, <1>4, <1>5

\* The edges of the actions, and the mode after them.
LEMMA EdgeOf ==
    ASSUME Next
    PROVE  \E ev, acked :
              /\ Edge(ev, acked)
              /\ ev.enter <=> TrapEnter
              /\ TrapExit => ~run'
              /\ ~TrapEnter /\ ~TrapExit => run' = run
              /\ TrapEnter => (~run' => ~run)
              /\ ~TrapEnter => (exc_fire => exc_fire')
<1>1. CASE TrapEnter
  <2> DEFINE ev == [Quiet EXCEPT !.enter = TRUE]
  <2>1. ev.enter /\ ~ev.exit
    BY DEF Quiet, Raise, Drive
  <2>2. Edge(ev, FALSE)
    BY <1>1 DEF TrapEnter
  <2> HIDE DEF ev
  <2>3. ~run' => ~run
    BY <2>1, <2>2 DEF Edge, DebugControl
  <2>4. ~TrapExit
    BY <1>1 DEF TrapEnter, TrapExit
  <2> QED BY <1>1, <2>1, <2>2, <2>3, <2>4
<1>2. CASE TrapExit
  <2> DEFINE ev == [Quiet EXCEPT !.exit = TRUE]
  <2>1. ~ev.enter /\ ev.exit
    BY DEF Quiet, Raise, Drive
  <2>2. Edge(ev, FALSE)
    BY <1>2 DEF TrapExit, Cycle
  <2> HIDE DEF ev
  <2>3. ~run' /\ (exc_fire => exc_fire')
    BY <2>1, <2>2 DEF Edge, DebugControl, TrapBuffer, Collect, exc_fire
  <2>4. ~TrapEnter
    BY <1>2 DEF TrapEnter, TrapExit
  <2> QED BY <1>2, <2>1, <2>2, <2>3, <2>4
<1>3. CASE ~TrapEnter /\ ~TrapExit
  <2>1. PICK ev, acked : Edge(ev, acked) /\ ~ev.enter /\ ~ev.exit
    BY <1>3, OrdinaryEdge
  <2>2. run' = run /\ (exc_fire => exc_fire')
    BY <2>1 DEF Edge, DebugControl, TrapBuffer, Collect, exc_fire
  <2> QED BY <1>3, <2>1, <2>2
<1> QED BY <1>1, <1>2, <1>3

\* In debug mode, outside the entry, no trap is triggered but by an exception.
LEMMA DebugQuiet ==
    ASSUME run, "halt" \notin irq_buf
    PROVE  ~irq_fire
  BY DEF irq_fire, CanInterrupt

\* Every clock edge preserves what is known of halt requests.
LEMMA StepHalting == IInv /\ Raised /\ Halting /\ [Next]_vars => Halting'
<1> SUFFICES ASSUME IInv, Raised, Halting, [Next]_vars PROVE Halting'
  OBVIOUS
<1>1. CASE UNCHANGED vars
  BY <1>1 DEF vars, Halting, exc_fire
<1>2. CASE Next
  <2>1. PICK ev, acked :
              /\ Edge(ev, acked)
              /\ ev.enter <=> TrapEnter
              /\ TrapExit => ~run'
              /\ ~TrapEnter /\ ~TrapExit => run' = run
              /\ TrapEnter => (~run' => ~run)
              /\ ~TrapEnter => (exc_fire => exc_fire')
    BY <1>2, EdgeOf
  <2>2. /\ "halt" \in irq_pnd' <=> ~run /\ "halt" \in lines
        /\ "halt" \in irq_buf' <=> "halt" \in irq_pnd \/ (env_pend /\ "halt" \in irq_buf)
        /\ ~run /\ "halt" \in lines => "halt" \in lines'
        /\ env_pend' <=> ~ev.enter /\ (env_pend \/ exc_fire \/ irq_fire)
    BY <2>1, TrapEdge
  <2>3. CASE ~run'
    <3>1. ~run \/ (run /\ TrapExit)
      BY <2>1, <2>3 DEF IInv, TypeOK
    <3>2. run /\ TrapExit => "halt" \notin irq_pnd' \cup irq_buf'
      BY <2>2 DEF TrapExit, Halting, Between
    <3>3. ~run => /\ "halt" \in irq_buf' => "halt" \in irq_pnd'
                  /\ "halt" \in irq_pnd' => "halt" \in lines'
      BY <2>2 DEF Halting
    <3> QED BY <2>3, <3>1, <3>2, <3>3 DEF Halting
  <2>4. CASE run' /\ TrapEnter
    BY <2>4 DEF TrapEnter, Halting, Between
  <2>5. CASE run' /\ ~TrapEnter
    <3>1. run /\ ~TrapExit
      BY <2>1, <2>5
    <3>2. "halt" \notin irq_pnd'
      BY <2>2, <3>1
    <3>3. CASE state \notin Between
      <4>1. "halt" \notin irq_pnd \cup irq_buf /\ (env_pend => exc_fire)
        BY <3>1, <3>3 DEF Halting
      <4>2. "halt" \notin irq_buf' /\ (env_pend' => exc_fire')
        BY <2>1, <2>2, <2>5, <3>1, <4>1, DebugQuiet
      <4> QED BY <2>5, <3>2, <4>2 DEF Halting
    <3>4. CASE Restart
      BY <2>5, <3>2, <3>4 DEF Restart, FetchRestart, Halting, Between
    <3>5. CASE DispatchTrap
      BY <2>5, <3>5 DEF DispatchTrap, Halting, Between
    <3>6. CASE DispatchWait
      <4>1. state = "S_DISPATCH" /\ state' = "S_DISPATCH" /\ ~env_pend
        BY <3>6 DEF DispatchWait, CanIssue
      <4>2. "halt" \notin irq_buf'
        BY <2>2, <3>1, <4>1 DEF Halting
      <4> QED BY <2>5, <3>2, <4>1, <4>2 DEF Halting, Between
    <3>7. CASE Issue
      <4>1. state = "S_DISPATCH" /\ ~env_pend /\ ~exc_fire /\ refetch = 0 /\ state' = "S_EXECUTE"
        BY <3>7 DEF Issue, CanIssue
      <4>2. "halt" \notin irq_pnd \cup irq_buf
        BY <3>1, <4>1 DEF Halting
      <4>3. "halt" \notin irq_buf' /\ ~env_pend'
        BY <2>2, <3>1, <4>1, <4>2, DebugQuiet
      <4> QED BY <2>5, <3>2, <4>1, <4>3 DEF Halting, Between
    <3>8. state \notin Between \/ Restart \/ DispatchTrap \/ DispatchWait \/ Issue
      BY <1>2, <2>5, <3>1 DEF Next, Between, Execute, AluWait, Branch, MemReq, MemWait, MemAck,
         System, Sleep
    <3> QED BY <3>3, <3>4, <3>5, <3>6, <3>7, <3>8
  <2> QED BY <2>3, <2>4, <2>5
<1> QED BY <1>1, <1>2

\* Every clock edge preserves what is known of the pending trap.
LEMMA StepPermitted == IInv /\ Raised /\ Halting /\ Permitted /\ [Next]_vars => Permitted'
<1> SUFFICES ASSUME IInv, Raised, Halting, Permitted, [Next]_vars PROVE Permitted'
  OBVIOUS
<1>1. CASE UNCHANGED vars
  BY <1>1 DEF vars, Permitted, exc_fire, CanInterrupt
<1>2. CASE Next
  <2>1. PICK ev, acked :
              /\ Edge(ev, acked)
              /\ ev.enter <=> TrapEnter
              /\ TrapExit => ~run'
              /\ ~TrapEnter /\ ~TrapExit => run' = run
              /\ TrapEnter => (~run' => ~run)
              /\ ~TrapEnter => (exc_fire => exc_fire')
    BY <1>2, EdgeOf
  <2>2. /\ "halt" \in irq_pnd' <=> ~run /\ "halt" \in lines
        /\ "halt" \in irq_buf' <=> "halt" \in irq_pnd \/ (env_pend /\ "halt" \in irq_buf)
        /\ ~run /\ "halt" \in lines => "halt" \in lines'
        /\ env_pend' <=> ~ev.enter /\ (env_pend \/ exc_fire \/ irq_fire)
    BY <2>1, TrapEdge
  <2>3. /\ Execute => enabled' = CanInterrupt /\ state = "S_EXECUTE"
        /\ Sleep => enabled' = CanInterrupt /\ state = "S_SLEEP"
        /\ Issue => enabled' = FALSE /\ ~env_pend /\ ~exc_fire /\ state = "S_DISPATCH"
    BY DEF Execute, Sleep, Issue, CanIssue
  <2>4. ASSUME ~run', env_pend' PROVE exc_fire' \/ "halt" \in irq_buf' \/ enabled'
    <3>1. ~TrapEnter
      BY <2>1, <2>2, <2>4
    <3>2. CASE run
      <4>1. TrapExit
        BY <2>1, <2>4, <3>1, <3>2
      <4>2. state = "S_TRAP_EXIT"
        BY <4>1 DEF TrapExit
      <4>3. ~exc_fire
        BY <3>2, <4>2 DEF Raised, exc_fire
      <4>4. "halt" \notin irq_buf /\ ~env_pend
        BY <3>2, <4>2, <4>3 DEF Halting, Between
      <4> QED BY <2>2, <2>4, <3>2, <4>3, <4>4, DebugQuiet
    <3>3. CASE ~run
      <4>1. exc_fire => exc_fire'
        BY <2>1, <3>1
      <4>2. "halt" \in irq_buf => "halt" \in irq_buf'
        BY <2>2, <3>3 DEF Halting
      <4>3. env_pend /\ enabled => enabled'
        <5>1. Issue \/ Execute \/ Sleep \/ enabled' = enabled
          BY <1>2, <3>1, Moves
        <5>2. env_pend /\ enabled => ~Issue /\ ~Execute /\ (Sleep => CanInterrupt)
          BY <2>3 DEF Permitted
        <5>3. Sleep /\ CanInterrupt => enabled'
          BY <2>3
        <5> QED BY <5>1, <5>2, <5>3
      <4>4. env_pend => exc_fire \/ "halt" \in irq_buf \/ enabled
        BY <3>3 DEF Permitted
      <4>5. irq_fire => "halt" \in irq_buf \/ enabled'
        <5>1. state \in {"S_EXECUTE", "S_SLEEP"} => Execute \/ Sleep
          BY <1>2 DEF Next, Restart, DispatchTrap, DispatchWait, CanIssue, Issue, TrapEnter, TrapExit,
             AluWait, Branch, MemReq, MemWait, MemAck, System
        <5> QED BY <2>3, <5>1 DEF irq_fire
      <4> QED BY <2>2, <2>4, <4>1, <4>2, <4>3, <4>4, <4>5
    <3> QED BY <3>2, <3>3
  <2>5. state' = "S_EXECUTE" => ~enabled'
    BY <1>2, <2>3, Moves
  <2>6. state' \in {"S_SYSTEM", "S_SLEEP"} /\ enabled' => CanInterrupt'
    <3> SUFFICES ASSUME state' \in {"S_SYSTEM", "S_SLEEP"}, enabled' PROVE CanInterrupt'
      OBVIOUS
    <3>1. Execute \/ System \/ Sleep
      BY <1>2, Moves
    <3>2. csr' = csr /\ run' = run
      <4>1. \E e, w, c, r, a : Edge(Drive(e, w, c, r), a)
        BY <3>1, Zenon DEF Execute, System, Sleep, Cycle, Raise, Quiet
      <4>2. state # "S_DISPATCH"
        BY <3>1 DEF Execute, System, Sleep
      <4> QED BY <4>1, <4>2, DriveKeeps
    <3>3. CanInterrupt' = CanInterrupt
      BY <3>2 DEF CanInterrupt
    <3>4. System => enabled' = enabled /\ state = "S_SYSTEM"
      BY DEF System, Cycle
    <3>5. CanInterrupt
      BY <2>3, <3>1, <3>4 DEF Permitted
    <3> QED BY <3>3, <3>5
  <2>7. state' = "S_TRAP_ENTER" => env_pend'
    <3>1. DispatchTrap => ~TrapEnter /\ (env_pend \/ exc_fire)
      BY DEF DispatchTrap, TrapEnter
    <3> QED BY <1>2, <2>1, <2>2, <3>1, Moves
  <2> QED BY <2>4, <2>5, <2>6, <2>7 DEF Permitted
<1> QED BY <1>1, <1>2

\* The invariant makes every trap precise, and lets interrupts be taken only
\* after an instruction that could be interrupted.
LEMMA Precise == IInv /\ OrderInv /\ TrapInv => TrapsPrecise
<1> SUFFICES ASSUME IInv, OrderInv, TrapInv, state = "S_TRAP_ENTER"
             PROVE  TrapsPrecise
  BY DEF TrapsPrecise, PreciseTrap, InterruptAfterInstruction
<1>1. exc_buf \subseteq Exceptions /\ irq_buf \subseteq Interrupts \cup {"halt"}
  BY DEF IInv, TypeOK
<1>2. /\ exc_buf \cap SyncExc # {} => ecause \in SyncExc
      /\ exc_buf \cap SyncExc = {} /\ "halt" \in irq_buf => ecause = "halt"
      /\ exc_buf \cap SyncExc = {} /\ "halt" \notin irq_buf /\ "db_brkp" \in exc_buf
             => ecause = "db_brkp"
      /\ exc_buf = {"db_step"} /\ "halt" \notin irq_buf => ecause = "db_step"
      /\ exc_buf = {} /\ "halt" \notin irq_buf => ecause \in Interrupts
  BY <1>1, Encoder
<1>3. /\ exc_buf \subseteq {"db_step"} => Applied = Complete(op)
      /\ ~(exc_buf \subseteq {"db_step"}) =>
             Applied \subseteq {"mem"} /\ (Applied # {} => exc_buf \cap {"laccess", "saccess"} # {})
  BY DEF OrderInv, EffectsSoFar, TrapInv, Suppressed, Between
<1>4. \A c \in SyncExc \cup {"db_brkp"} : c \notin Interrupts \cup {"halt", "db_step"}
  <2>1. "halt" \notin SyncExc /\ "db_step" \notin SyncExc
    BY DEF SyncExc, InstrExc, MemExc
  <2>2. SyncExc \cup {"db_brkp"} \subseteq Exceptions
    BY DEF Exceptions
  <2> QED BY <2>1, <2>2, NamesAssumption
<1>5. exc_buf \subseteq {"db_step"} => exc_buf \cap SyncExc = {}
  BY Raises
<1>6. exc_buf \cap SyncExc = {} => exc_buf \subseteq {"db_brkp", "db_step"}
  BY <1>1 DEF Exceptions
<1>7. "halt" \notin exc_buf /\ "db_brkp" \notin irq_buf
  BY <1>1, NamesAssumption DEF Exceptions, SyncExc, InstrExc, MemExc
<1>8. PreciseTrap
  <2> SUFFICES ASSUME ~("halt" \in irq_buf /\ "db_brkp" \in exc_buf)
               PROVE  IF epc = "pc2" THEN Applied = Complete(op)
                      ELSE Applied \subseteq {"mem"} /\ (Applied # {} => exc_buf \cap {"laccess", "saccess"} # {})
    BY DEF PreciseTrap
  <2>1. CASE exc_buf \subseteq {"db_step"}
    <3>1. IsAsync
      BY <1>2, <1>5, <2>1 DEF IsAsync
    <3> QED BY <1>3, <2>1, <3>1 DEF epc
  <2>2. CASE ~(exc_buf \subseteq {"db_step"})
    <3>1. exc_buf \cap SyncExc # {} \/ ("db_brkp" \in exc_buf /\ "halt" \notin irq_buf)
      BY <1>6, <2>2
    <3>2. ecause \in SyncExc \cup {"db_brkp"}
      BY <1>2, <3>1
    <3>3. ~IsAsync
      BY <1>4, <3>2 DEF IsAsync
    <3> QED BY <1>3, <2>2, <3>3 DEF epc
  <2> QED BY <2>1, <2>2
<1>9. InterruptAfterInstruction
  <2> SUFFICES ASSUME ecause \in Interrupts, ~run PROVE enabled
    BY DEF InterruptAfterInstruction
  <2>1. ecause \notin {"halt", "db_step", "db_brkp"} /\ ecause \notin SyncExc
    BY <1>4, NamesAssumption DEF Exceptions
  <2>2. exc_buf \cap SyncExc = {} /\ "halt" \notin irq_buf
    BY <1>2, <2>1
  <2>3. exc_buf = {}
    BY <1>2, <1>6, <2>1, <2>2
  <2> QED BY <2>2, <2>3 DEF TrapInv, Permitted, exc_fire
<1> QED BY <1>8, <1>9 DEF TrapsPrecise

-----------------------------------------------------------------------------
\* An instruction is issued only after the one before it has completed: no
\* result, CSR write or memory access is outstanding, and an instruction that
\* raised an exception has reached its trap.
THEOREM InstructionsInOrder == Spec => []InOrder
<1>1. Init => IInv /\ OrderInv
  BY InitIInv, InitOrder
<1>2. (IInv /\ OrderInv) /\ [Next]_vars => (IInv /\ OrderInv)'
  BY StepIInv, StepOrder
<1>3. IInv /\ OrderInv => InOrder
  BY DEF OrderInv, EffectsSoFar, Between, InOrder, CanIssue, exc_fire
<1> QED BY <1>1, <1>2, <1>3, PTL DEF Spec

\* Traps are precise: whatever exceptions, halts and interrupts coincide, the
\* trap program counter points to an instruction that has changed nothing (but
\* the memory, if the bus reported the error), or after one that is complete;
\* and an interrupt waits for an instruction of the interrupted program.
THEOREM TrapsArePrecise == Spec => []TrapsPrecise
<1> DEFINE inv == IInv /\ OrderInv /\ TrapInv
<1>1. Init => inv
  BY InitIInv, InitOrder, InitTrap
<1>2. inv /\ [Next]_vars => inv'
  <2> SUFFICES ASSUME inv, [Next]_vars PROVE inv'
    OBVIOUS
  <2>1. IInv' /\ OrderInv'
    BY StepIInv, StepOrder
  <2>2. Raised' /\ Suppressed' /\ Halting' /\ Permitted'
    BY StepRaised, StepHalting, StepPermitted DEF TrapInv
  <2> QED BY <2>1, <2>2 DEF TrapInv
<1>3. inv => TrapsPrecise
  BY Precise
<1> QED BY <1>1, <1>2, <1>3, PTL DEF Spec

-----------------------------------------------------------------------------
(* Protection regions.  The argument: every call is a sequence of register   *)
(* writes; a write to a configuration register or to an address register     *)
(* keeps what a locked region is made of (Kept), Kept is transitive, and     *)
(* what a region covers is a function of what is kept.                       *)

\* The registers as the driver finds them; the width of an address plays no part.
Shaped(s) ==
    /\ s = [lsb |-> s.lsb, cfg |-> s.cfg, addr |-> s.addr]
    /\ s.cfg \in [Region -> PmpConfig]
    /\ s.addr = [i \in Region |-> s.addr[i]]

\* From s to t locked regions keep their entry, their address and, where that
\* is where they start, the address before.
Kept(s, t) ==
    /\ t.lsb = s.lsb
    /\ \A r \in Region : s.cfg[r].l =>
          /\ t.cfg[r] = s.cfg[r]
          /\ t.addr[r] = s.addr[r]
          /\ s.cfg[r].a = TOR /\ r # 0 => t.addr[r - 1] = s.addr[r - 1]

\* Every step of the registers keeps locked regions.
Step(s, t) == Shaped(t) /\ Kept(s, t)

-----------------------------------------------------------------------------
\* Regions are integers, and the one below a region other than 0 is one.
LEMMA RegionBelow == \A r \in Region : r \in Int /\ (r # 0 => r - 1 \in Region /\ r - 1 # r)
  BY CsrAssumption DEF Region

\* Nothing written is a step.
LEMMA StepSame == ASSUME NEW s, Shaped(s) PROVE Step(s, s)
  BY DEF Step, Kept

\* Two steps are one.
LEMMA StepTwice ==
  ASSUME NEW s, NEW t, NEW u, Step(s, t), Step(t, u)
  PROVE  Step(s, u)
<1>1. Shaped(u) BY DEF Step
<1>2. u.lsb = s.lsb BY DEF Step, Kept
<1>3. ASSUME NEW r \in Region, s.cfg[r].l
      PROVE  /\ u.cfg[r] = s.cfg[r]
             /\ u.addr[r] = s.addr[r]
             /\ s.cfg[r].a = TOR /\ r # 0 => u.addr[r - 1] = s.addr[r - 1]
  BY <1>3 DEF Step, Kept
<1> QED BY <1>1, <1>2, <1>3 DEF Step, Kept

\* A write of configuration registers (csr_pmpcfg) is a step.
LEMMA CfgWriteSteps ==
  ASSUME NEW s, Shaped(s), NEW new, \A i \in Region \cap DOMAIN new : new[i] \in PmpConfig
  PROVE  Step(s, csr_pmpcfg(s, new))
<1> DEFINE t == csr_pmpcfg(s, new)
<1>1. t = [lsb |-> s.lsb, cfg |-> t.cfg, addr |-> s.addr]
  BY DEF csr_pmpcfg, Shaped
<1>2. t.cfg \in [Region -> PmpConfig]
  BY DEF csr_pmpcfg, Shaped, PmpConfig, OFF, TOR, NA4, NAPOT
<1>3. \A r \in Region : s.cfg[r].l => t.cfg[r] = s.cfg[r]
  BY DEF csr_pmpcfg, Shaped
<1> HIDE DEF t
<1>4. Shaped(t) BY <1>1, <1>2 DEF Shaped
<1>5. Kept(s, t) BY <1>1, <1>3 DEF Kept
<1> QED BY <1>4, <1>5 DEF Step, t

\* A write of an address register (csr_pmpaddr) is a step: it is refused where
\* the region, or the one that starts there, is locked.
LEMMA AddrWriteSteps ==
  ASSUME NEW s, Shaped(s), NEW i, NEW w
  PROVE  Step(s, csr_pmpaddr(s, i, w))
<1>1. CASE i \notin Region \/ AddrLocked(s, i)
  <2>1. csr_pmpaddr(s, i, w) = s BY <1>1 DEF csr_pmpaddr
  <2> QED BY <2>1, StepSame
<1>2. CASE i \in Region /\ ~AddrLocked(s, i)
  <2> DEFINE v == Truncated(w, pmp_alsb(s))
             t == [s EXCEPT !.addr[i] = v]
  <2>1. csr_pmpaddr(s, i, w) = t BY <1>2 DEF csr_pmpaddr
  <2> HIDE DEF v
  <2>2. t = [lsb |-> s.lsb, cfg |-> s.cfg, addr |-> [s.addr EXCEPT ![i] = v]]
    BY DEF Shaped
  <2> HIDE DEF t
  <2>3. t.addr = [r \in Region |-> IF r = i THEN v ELSE s.addr[r]]
    BY <2>2 DEF Shaped
  <2>4. Shaped(t) BY <2>2, <2>3 DEF Shaped
  <2>5. ASSUME NEW r \in Region, s.cfg[r].l
        PROVE  r # i /\ (s.cfg[r].a = TOR /\ r # 0 => r - 1 # i)
    BY <1>2, <2>5, RegionBelow DEF AddrLocked
  <2>6. Kept(s, t) BY <2>2, <2>3, <2>5, RegionBelow DEF Kept
  <2> QED BY <2>1, <2>4, <2>6 DEF Step
<1> QED BY <1>1, <1>2

-----------------------------------------------------------------------------
\* Probing for the number of regions (astrarv32_cpu_pmp_get_num_regions).
LEMMA NumRegionsSteps ==
  ASSUME NEW s, Shaped(s)
  PROVE  Step(s, astrarv32_cpu_pmp_get_num_regions(s).s)
<1> DEFINE new == [i \in Region |-> Mask]
<1>1. Mask \in PmpConfig BY DEF Mask, CfgZero, PmpConfig, OFF
<1>2. \A i \in Region \cap DOMAIN new : new[i] \in PmpConfig BY <1>1
<1>3. astrarv32_cpu_pmp_get_num_regions(s).s = csr_pmpcfg(s, new)
  BY DEF astrarv32_cpu_pmp_get_num_regions
<1> HIDE DEF new
<1> QED BY <1>2, <1>3, CfgWriteSteps

\* Probing for the granularity (astrarv32_cpu_pmp_get_granularity).
LEMMA GranularitySteps ==
  ASSUME NEW s, Shaped(s)
  PROVE  Step(s, astrarv32_cpu_pmp_get_granularity(s).s)
<1> DEFINE new == [i \in Region \cap (0 .. 3) |-> CfgZero]
           off == csr_pmpcfg(s, new)
<1>1. CfgZero \in PmpConfig BY DEF CfgZero, PmpConfig, OFF
<1>2. \A i \in Region \cap DOMAIN new : new[i] \in PmpConfig BY <1>1
<1>3. astrarv32_cpu_pmp_get_granularity(s).s = csr_pmpaddr(off, 0, AllOnes)
  BY DEF astrarv32_cpu_pmp_get_granularity
<1> HIDE DEF new
<1>4. Step(s, off) BY <1>2, CfgWriteSteps
<1> HIDE DEF off
<1>5. Step(off, csr_pmpaddr(off, 0, AllOnes)) BY <1>4, AddrWriteSteps DEF Step
<1> QED BY <1>3, <1>4, <1>5, StepTwice

\* Setting up a region (astrarv32_cpu_pmp_configure_region).
LEMMA ConfigureSteps ==
  ASSUME NEW s, Shaped(s), NEW index \in Nat, NEW addr, NEW config \in PmpConfig
  PROVE  Step(s, astrarv32_cpu_pmp_configure_region(s, index, addr, config).s)
<1> DEFINE word == {i \in Region : i \div 4 = index \div 4}
           addressed == csr_pmpaddr(s, index, addr)
           clear == [i \in word |-> IF i = index THEN CfgZero ELSE addressed.cfg[i]]
           cleared == csr_pmpcfg(addressed, clear)
           set == [i \in word |-> IF i = index THEN config ELSE cleared.cfg[i]]
           configured == csr_pmpcfg(cleared, set)
           call == astrarv32_cpu_pmp_configure_region(s, index, addr, config)
<1>1. call.s \in {s, configured}
  BY DEF astrarv32_cpu_pmp_configure_region
<1> HIDE DEF call
<1>2. CfgZero \in PmpConfig BY DEF CfgZero, PmpConfig, OFF
<1>3. Step(s, addressed) BY AddrWriteSteps
<1> HIDE DEF addressed
<1>4. \A i \in Region \cap DOMAIN clear : clear[i] \in PmpConfig
  BY <1>2, <1>3 DEF Step, Shaped
<1> HIDE DEF clear
<1>5. Step(addressed, cleared) BY <1>3, <1>4, CfgWriteSteps DEF Step
<1> HIDE DEF cleared
<1>6. \A i \in Region \cap DOMAIN set : set[i] \in PmpConfig
  BY <1>5 DEF Step, Shaped
<1> HIDE DEF set
<1>7. Step(cleared, configured) BY <1>5, <1>6, CfgWriteSteps DEF Step
<1> HIDE DEF configured
<1>8. Step(s, cleared) BY <1>3, <1>5, StepTwice
<1>9. Step(s, configured) BY <1>7, <1>8, StepTwice
<1> QED BY <1>1, <1>9, StepSame DEF call

\* What a locked region covers is a function of what a step keeps.
LEMMA BytesKept ==
  ASSUME NEW s, NEW t, Shaped(s), Kept(s, t), NEW r \in Region, s.cfg[r].l
  PROVE  Bytes_of(t, r) = Bytes_of(s, r)
<1>1. t.lsb = s.lsb /\ t.cfg[r] = s.cfg[r] /\ t.addr[r] = s.addr[r]
  BY DEF Kept
<1>2. s.cfg[r].a = TOR /\ r # 0 => t.addr[r - 1] = s.addr[r - 1]
  BY DEF Kept
<1>3. address_read_back(t, r) = address_read_back(s, r)
  BY <1>1 DEF address_read_back, pmp_alsb
<1>4. \A n : Granule(t, n) = Granule(s, n) BY <1>1 DEF Granule
<1>5. s.cfg[r].a \in {OFF, TOR, NA4, NAPOT} BY DEF Shaped, PmpConfig
<1>6. CASE s.cfg[r].a = OFF BY <1>1, <1>6 DEF Bytes_of, OFF, TOR, NA4, NAPOT
<1>7. CASE s.cfg[r].a = TOR BY <1>1, <1>2, <1>4, <1>7 DEF Bytes_of, OFF, TOR, NA4, NAPOT
<1>8. CASE s.cfg[r].a = NA4 BY <1>1, <1>3, <1>8 DEF Bytes_of, OFF, TOR, NA4, NAPOT
<1>9. CASE s.cfg[r].a = NAPOT BY <1>1, <1>3, <1>9 DEF Bytes_of, OFF, TOR, NA4, NAPOT
<1> QED BY <1>5, <1>6, <1>7, <1>8, <1>9

-----------------------------------------------------------------------------
\* The invariant: the registers have their shape, initially ...
LEMMA InitShaped == CsrInit => Shaped(pmp)
<1>1. CfgZero \in PmpConfig BY DEF CfgZero, PmpConfig, OFF
<1>2. ASSUME NEW g, pmp = [lsb |-> g, cfg |-> [i \in Region |-> CfgZero], addr |-> [i \in Region |-> 0]]
      PROVE  Shaped(pmp)
  BY <1>1, <1>2 DEF Shaped
<1> QED BY <1>2 DEF CsrInit, ProtectionIdle

\* ... and every step of the software is one of the registers.
LEMMA NextSteps == Shaped(pmp) /\ [CsrNext]_csrVars => Step(pmp, pmp')
<1> SUFFICES ASSUME Shaped(pmp), [CsrNext]_csrVars PROVE Step(pmp, pmp')
  OBVIOUS
<1>1. CASE ProtectionCall
  <2>1. CASE pmp' = astrarv32_cpu_pmp_get_num_regions(pmp).s BY <2>1, NumRegionsSteps
  <2>2. CASE pmp' = astrarv32_cpu_pmp_get_granularity(pmp).s BY <2>2, GranularitySteps
  <2>3. ASSUME NEW i \in 0 .. NUM_REGIONS, NEW a \in Addrs, NEW c \in Configs,
               pmp' = astrarv32_cpu_pmp_configure_region(pmp, i, a, c).s
        PROVE  Step(pmp, pmp')
    <3>1. i \in Nat BY CsrAssumption
    <3>2. c \in PmpConfig BY ConfigsAssumption
    <3> QED BY <2>3, <3>1, <3>2, ConfigureSteps
  <2> QED BY <1>1, <2>1, <2>2, <2>3 DEF ProtectionCall
<1>2. CASE CounterStep BY <1>2, StepSame DEF CounterStep
<1>3. CASE UNCHANGED csrVars BY <1>3, StepSame DEF csrVars
<1> QED BY <1>1, <1>2, <1>3 DEF CsrNext

\* The registers keep their shape: every region has a configuration and an address.
THEOREM RegistersShaped == CsrSpec => []Shaped(pmp)
<1>1. Shaped(pmp) /\ [CsrNext]_csrVars => Shaped(pmp)' BY NextSteps DEF Step, Shaped
<1> QED BY <1>1, InitShaped, PTL DEF CsrSpec

\* For any number of regions, any granularity and any arguments, no sequence
\* of driver calls changes what a locked region covers and permits.
THEOREM LockedForGood == CsrSpec => LockHolds
<1>1. ASSUME Shaped(pmp), [CsrNext]_csrVars
      PROVE  \A r \in Region : pmp.cfg[r].l =>
                pmp'.cfg[r] = pmp.cfg[r] /\ Bytes_of(pmp', r) = Bytes_of(pmp, r)
  <2>1. Kept(pmp, pmp') BY <1>1, NextSteps DEF Step
  <2> QED BY <1>1, <2>1, BytesKept DEF Kept
<1> QED BY <1>1, RegistersShaped, PTL DEF CsrSpec, LockHolds

-----------------------------------------------------------------------------
(* The cycle counter.  The argument: the ghost is the value the two halves   *)
(* and the carry stand for; a call that has looked at a half knows how long  *)
(* ago, and ends before the counter can come round.                          *)

\* Values of the counter, and of its halves.
Full == CntHalf * CntHalf
Half == 0 .. CntHalf - 1

\* The upper half the counter stands for, and the one before.
Upper == (counter.hi + counter.carry) % CntHalf
Before(h) == IF h = 0 THEN CntHalf - 1 ELSE h - 1

\* x is the value of the counter d clocks before it is t.
Ago(x, t, d) == x = t - d \/ x = t - d + Full

\* Types; a carry is on its way only just after the lower half overflowed.
Pc == {"off", "idle", "set_hi", "set_lo", "get_hi", "get_lo", "get_hi2", "got"}
CounterTyped ==
    /\ counter \in [lo : Half, hi : Half, carry : {0, 1}]
    /\ counter.carry = 1 => counter.lo = 0
    /\ user \in [pc : Pc, gap : 0 .. MaxGap, value : 0 .. Full - 1, tmp1 : Half, tmp2 : Half,
                 truth : 0 .. Full - 1, began : 0 .. Full - 1]

\* The counter is right, unless it is being set.
Running == user.pc \notin {"off", "set_hi", "set_lo"} => user.truth = Upper * CntHalf + counter.lo

\* While it is set, nothing is carried into the upper half.
Setting ==
    /\ user.pc = "set_hi" => counter.lo = user.gap /\ (user.gap > 0 => counter.carry = 0)
    /\ user.pc = "set_lo" => counter.carry = 0 /\ counter.hi = user.value \div CntHalf
                             /\ counter.lo <= user.gap + 3

\* The upper half was looked at e clocks ago, in a call that began k clocks
\* ago: which one it was, and how the call stays short.
Looked(e, k) ==
    /\ e <= k /\ k - e <= 63
    /\ counter.lo > e  => user.tmp1 = Upper /\ k - e <= 9 * (CntHalf - counter.lo + e)
    /\ counter.lo <= e => /\ user.tmp1 = Before(Upper) \/ (counter.lo = e /\ user.tmp1 = Upper)
                          /\ k - e <= 9 * (e - counter.lo)

\* The lower half d clocks ago.
LowerAgo(d) == IF counter.lo >= d THEN counter.lo - d ELSE CntHalf + counter.lo - d

\* A call that began k clocks ago, before each of its accesses: again at the
\* upper half, at the lower half, at the upper half for the comparison.
Retrying(k) == /\ Ago(user.began, user.truth, k) /\ k <= 61 + user.gap
               /\ counter.lo >= 1 /\ counter.lo <= 7 + user.gap
               /\ k <= 70 + 10 * user.gap - 9 * counter.lo
ReadHigh(k) == Ago(user.began, user.truth, k) /\ Looked(1 + user.gap, k)
ReadLow(k, e) == /\ Ago(user.began, user.truth, k) /\ Looked(e, k)
                 /\ e >= 3 + user.gap /\ e <= 4 + user.gap
                 /\ user.tmp2 = LowerAgo(1 + user.gap)

\* What the call returned is the value f clocks ago, in the time of the call.
Finished(k, f) == /\ Ago(user.began, user.truth, k) /\ Ago(user.value, user.truth, f)
                  /\ f <= k /\ k <= 70 + user.gap

\* No age is as large as the counter.
Ages == 0 .. 99
Getting ==
    /\ user.pc = "get_hi" => \E k \in Ages : Retrying(k)
    /\ user.pc = "get_lo" => \E k \in Ages : ReadHigh(k)
    /\ user.pc = "get_hi2" => \E k, e \in Ages : ReadLow(k, e)
    /\ user.pc = "got" => \E k, f \in Ages : Finished(k, f)

\* The inductive invariant of the counter.
CounterInv == CounterTyped /\ Running /\ Setting /\ Getting

-----------------------------------------------------------------------------
\* Halves of a counter: sizes, and how one half is cut off a value.
LEMMA HalfFacts ==
  /\ CntHalf \in Nat /\ CntHalf > 9
  /\ Full \in Nat /\ Full >= 100
  /\ \A x \in Half : x + 1 \in 0 .. CntHalf
  /\ \A h \in Half : h * CntHalf \in Nat /\ h * CntHalf <= Full - CntHalf
  /\ \A h \in Half : (h + 1) * CntHalf = h * CntHalf + CntHalf
  /\ 0 * CntHalf = 0
  /\ (CntHalf - 1) * CntHalf = Full - CntHalf
<1> DEFINE N == CntHalf
<1>1. N \in Nat /\ N > 9 BY CsrAssumption
<1>2. N * N >= 10 * N BY <1>1
<1>3. \A h \in Half : h * N <= (N - 1) * N BY <1>1 DEF Half
<1>4. (N - 1) * N = N * N - N BY <1>1
<1>5. \A h \in Half : (h + 1) * N = h * N + N BY <1>1 DEF Half
<1>6. \A h \in Half : h * N \in Nat BY <1>1 DEF Half
<1>7. N * N \in Nat BY <1>1
<1> QED BY <1>1, <1>2, <1>3, <1>4, <1>5, <1>6, <1>7 DEF Full, Half

\* Division and remainder by half a counter, where it overflows at most once.
LEMMA HalfDivided ==
  /\ \A x \in Half : x % CntHalf = x /\ x \div CntHalf = 0
  /\ CntHalf % CntHalf = 0 /\ CntHalf \div CntHalf = 1
<1>1. CntHalf \in Nat /\ CntHalf > 9 BY CsrAssumption
<1>2. CntHalf % CntHalf = 0 BY <1>1
<1>3. CntHalf \div CntHalf = 1 BY <1>1
<1>4. \A x \in Half : x \div CntHalf = 0 BY <1>1 DEF Half
<1>5. \A x \in Half : x % CntHalf = x BY <1>1 DEF Half
<1> QED BY <1>2, <1>3, <1>4, <1>5

\* A value is its two halves.
LEMMA ValueSplit ==
  ASSUME NEW v \in 0 .. Full - 1
  PROVE  /\ v \div CntHalf \in Half /\ v % CntHalf \in Half
         /\ v = (v \div CntHalf) * CntHalf + (v % CntHalf)
<1>1. CntHalf \in Nat /\ CntHalf > 9 BY CsrAssumption
<1>a. Full \in Nat BY HalfFacts
<1>b. v \in Nat /\ v < Full BY <1>a
<1>2. v \in Nat /\ v < CntHalf * CntHalf BY <1>b DEF Full
<1>3. v = (v \div CntHalf) * CntHalf + (v % CntHalf) BY <1>1, <1>2
<1>4. v % CntHalf \in Half BY <1>1, <1>2 DEF Half
<1>5. v \div CntHalf \in Nat BY <1>1, <1>2
<1>6. v \div CntHalf < CntHalf BY <1>1, <1>2, <1>3, <1>4, <1>5 DEF Half
<1> QED BY <1>1, <1>3, <1>4, <1>5, <1>6 DEF Half

\* Remainders by the size of the counter, next to it.
LEMMA FullDivided ==
  ASSUME NEW k \in 0 .. Full - 1
  PROVE  k % Full = k /\ (k - Full) % Full = k /\ (k + Full) % Full = k
<1>1. Full \in Nat /\ Full > 0 /\ k \in Nat /\ k < Full BY HalfFacts
<1>2. k % Full = k BY <1>1
<1>3. (k + Full) % Full = k BY <1>1
<1>4. (k - Full) % Full = k BY <1>1
<1> QED BY <1>2, <1>3, <1>4

-----------------------------------------------------------------------------
\* What the registers hold, apart.
LEMMA Parts ==
  ASSUME CounterTyped
  PROVE  /\ counter.lo \in Half /\ counter.hi \in Half /\ counter.carry \in {0, 1}
         /\ Upper \in Half
         /\ counter.carry = 0 => Upper = counter.hi
         /\ counter.carry = 1 => counter.lo = 0 /\ counter.hi = Before(Upper) /\ Before(Upper) # Upper
         /\ counter.carry = 1 => counter.hi + 1 = Upper \/ (counter.hi + 1 = CntHalf /\ Upper = 0)
<1>1. counter.lo \in Half /\ counter.hi \in Half /\ counter.carry \in {0, 1}
  BY DEF CounterTyped
<1>2. counter.carry = 1 => counter.lo = 0 BY DEF CounterTyped
<1>3. CASE counter.carry = 0
  <2>1. counter.hi + counter.carry = counter.hi BY <1>1, <1>3, HalfFacts DEF Half
  <2>2. Upper = counter.hi BY <1>1, <2>1, HalfDivided DEF Upper
  <2> QED BY <1>1, <1>3, <2>2
<1>4. CASE counter.carry = 1
  <2>1. counter.hi + counter.carry = counter.hi + 1 BY <1>4
  <2>2. CASE counter.hi + 1 = CntHalf
    <3>1. Upper = 0 BY <2>1, <2>2, HalfDivided DEF Upper
    <3> QED BY <1>1, <1>2, <1>4, <2>2, <3>1, HalfFacts DEF Before, Half
  <2>3. CASE counter.hi + 1 # CntHalf
    <3>1. counter.hi + 1 \in Half BY <1>1, <2>3, HalfFacts DEF Half
    <3>2. Upper = counter.hi + 1 BY <2>1, <3>1, HalfDivided DEF Upper
    <3> QED BY <1>1, <1>2, <1>4, <3>1, <3>2, HalfFacts DEF Before, Half
  <2> QED BY <2>2, <2>3
<1> QED BY <1>1, <1>3, <1>4

\* A clock of the counter (cycle_inst) in which nothing is written.
LEMMA Clock ==
  ASSUME CounterTyped, cycle_inst("none", 0)
  PROVE  /\ counter' \in [lo : Half, hi : Half, carry : {0, 1}]
         /\ counter'.carry = 1 => counter'.lo = 0
         /\ counter.lo + 1 # CntHalf => /\ counter'.lo = counter.lo + 1 /\ counter'.lo \in Half
                                       /\ counter'.carry = 0
                                       /\ Upper' = Upper
         /\ counter.lo + 1 = CntHalf => /\ counter'.lo = 0 /\ counter'.carry = 1
                                       /\ Before(Upper') = Upper
                                       /\ Upper' = IF Upper + 1 = CntHalf THEN 0 ELSE Upper + 1
<1>1. /\ counter.lo \in Half /\ Upper \in Half
  BY Parts
<1>2. counter' = [lo |-> (counter.lo + 1) % CntHalf, carry |-> (counter.lo + 1) \div CntHalf, hi |-> Upper]
  BY DEF cycle_inst, Upper
<1>3. /\ counter'.lo = (counter.lo + 1) % CntHalf
      /\ counter'.carry = (counter.lo + 1) \div CntHalf
      /\ counter'.hi = Upper
  BY <1>2
<1>4. Upper' = (counter'.hi + counter'.carry) % CntHalf BY DEF Upper
<1>5. CASE counter.lo + 1 # CntHalf
  <2>1. counter.lo + 1 \in Half BY <1>1, <1>5, HalfFacts DEF Half
  <2>2. counter'.lo = counter.lo + 1 /\ counter'.carry = 0 BY <1>3, <2>1, HalfDivided
  <2>3. counter'.hi + counter'.carry = Upper BY <1>1, <1>3, <2>2, HalfFacts DEF Half
  <2>4. Upper' = Upper BY <1>1, <1>4, <2>3, HalfDivided
  <2> QED BY <1>1, <1>2, <1>3, <1>5, <2>1, <2>2, <2>4
<1>6. CASE counter.lo + 1 = CntHalf
  <2>1. counter'.lo = 0 /\ counter'.carry = 1 BY <1>3, <1>6, HalfDivided
  <2>2. counter'.hi + counter'.carry = Upper + 1 BY <1>3, <2>1
  <2>3. Upper' = IF Upper + 1 = CntHalf THEN 0 ELSE Upper + 1
    <3>1. Upper' = (Upper + 1) % CntHalf BY <1>4, <2>2
    <3>2. Upper + 1 # CntHalf => Upper + 1 \in Half BY <1>1, HalfFacts DEF Half
    <3> QED BY <3>1, <3>2, HalfDivided
  <2>4. Before(Upper') = Upper BY <1>1, <2>3, HalfFacts DEF Before, Half
  <2>5. 0 \in Half BY HalfFacts DEF Half
  <2> QED BY <1>1, <1>2, <1>3, <1>6, <2>1, <2>3, <2>4, <2>5
<1> QED BY <1>5, <1>6

\* A clock counts the value the counter stands for.
LEMMA ClockCounts ==
  ASSUME CounterTyped, cycle_inst("none", 0)
  PROVE  /\ Upper * CntHalf + counter.lo \in 0 .. Full - 1
         /\ Upper' * CntHalf + counter'.lo = Tick(Upper * CntHalf + counter.lo)
<1> DEFINE t == Upper * CntHalf + counter.lo
<1>1. counter.lo \in Half /\ Upper \in Half BY Parts
<1>2. Upper * CntHalf \in Nat /\ Upper * CntHalf <= Full - CntHalf BY <1>1, HalfFacts
<1>3. t \in 0 .. Full - 1 BY <1>1, <1>2, HalfFacts DEF Half
<1>4. Tick(t) = IF t + 1 = Full THEN 0 ELSE t + 1
  <2>1. t + 1 # Full => (t + 1) \in 0 .. Full - 1 BY <1>3, HalfFacts
  <2>2. 0 + Full = Full /\ 0 \in 0 .. Full - 1 BY HalfFacts
  <2>3. Full % Full = 0 BY <2>2, FullDivided
  <2>4. t + 1 # Full => (t + 1) % Full = t + 1 BY <2>1, FullDivided
  <2> QED BY <2>3, <2>4 DEF Tick, Full
<1>5. CASE counter.lo + 1 # CntHalf
  <2>1. counter'.lo = counter.lo + 1 /\ Upper' = Upper BY <1>5, Clock
  <2>2. t + 1 # Full BY <1>1, <1>2, <1>5, HalfFacts DEF Half
  <2>3. Upper' * CntHalf + counter'.lo = t + 1 BY <1>1, <1>2, <2>1, HalfFacts DEF Half
  <2> QED BY <1>3, <1>4, <2>2, <2>3
<1>6. CASE counter.lo + 1 = CntHalf
  <2>1. counter'.lo = 0 /\ Upper' = IF Upper + 1 = CntHalf THEN 0 ELSE Upper + 1 BY <1>6, Clock
  <2>2. t + 1 = (Upper + 1) * CntHalf BY <1>1, <1>2, <1>6, HalfFacts DEF Half
  <2>3. CASE Upper + 1 = CntHalf
    <3>1. t + 1 = Full BY <2>2, <2>3 DEF Full
    <3>2. Upper' * CntHalf + counter'.lo = 0 BY <2>1, <2>3, HalfFacts
    <3> QED BY <1>3, <1>4, <3>1, <3>2
  <2>4. CASE Upper + 1 # CntHalf
    <3>1. Upper + 1 \in Half BY <1>1, <2>4, HalfFacts DEF Half
    <3>2. t + 1 # Full BY <2>2, <3>1, HalfFacts
    <3>3. Upper' * CntHalf + counter'.lo = t + 1
      BY <2>1, <2>2, <2>4, <3>1, HalfFacts
    <3> QED BY <1>3, <1>4, <3>2, <3>3
  <2> QED BY <2>3, <2>4
<1> QED BY <1>3, <1>5, <1>6

-----------------------------------------------------------------------------
\* The next value of the counter.
LEMMA TickIs ==
  ASSUME NEW t \in 0 .. Full - 1
  PROVE  Tick(t) = (IF t + 1 = Full THEN 0 ELSE t + 1) /\ Tick(t) \in 0 .. Full - 1
<1>1. t + 1 # Full => (t + 1) \in 0 .. Full - 1 BY HalfFacts
<1>2. 0 + Full = Full /\ 0 \in 0 .. Full - 1 BY HalfFacts
<1>3. Full % Full = 0 BY <1>2, FullDivided
<1>4. t + 1 # Full => (t + 1) % Full = t + 1 BY <1>1, FullDivided
<1>5. Tick(t) = (t + 1) % Full BY DEF Tick, Full
<1> QED BY <1>1, <1>2, <1>3, <1>4, <1>5

\* A clock later a value is one clock older.
LEMMA AgoClock ==
  ASSUME NEW x \in 0 .. Full - 1, NEW t \in 0 .. Full - 1, NEW d \in 0 .. 98, Ago(x, t, d)
  PROVE  Ago(x, Tick(t), d + 1)
<1>1. CASE x = t - d BY <1>1, TickIs, HalfFacts DEF Ago
<1>2. CASE x = t - d + Full BY <1>2, TickIs, HalfFacts DEF Ago
<1> QED BY <1>1, <1>2 DEF Ago

\* The same for a look at the upper half ...
LEMMA LookedClock ==
  ASSUME CounterTyped, cycle_inst("none", 0), user'.tmp1 = user.tmp1,
         NEW e \in 0 .. 8, NEW k \in Nat, Looked(e, k)
  PROVE  Looked(e + 1, k + 1)'
<1>1. counter.lo \in Half /\ Upper \in Half BY Parts
<1>2. CASE counter.lo + 1 # CntHalf
  <2>1. counter'.lo = counter.lo + 1 /\ Upper' = Upper BY <1>2, Clock
  <2>2. Before(Upper)' = Before(Upper) BY <2>1 DEF Before
  <2> QED BY <1>1, <2>1, <2>2, HalfFacts DEF Looked, Half
<1>3. CASE counter.lo + 1 = CntHalf
  <2>1. counter'.lo = 0 /\ Before(Upper)' = Upper BY <1>3, Clock DEF Before
  <2>2. counter.lo > e BY <1>1, <1>3, HalfFacts DEF Half
  <2> QED BY <1>1, <1>3, <2>1, <2>2, HalfFacts DEF Looked, Half
<1> QED BY <1>2, <1>3

\* ... and for one at the lower half.
LEMMA LowerClock ==
  ASSUME CounterTyped, cycle_inst("none", 0), NEW d \in 0 .. 8
  PROVE  LowerAgo(d + 1)' = LowerAgo(d)
<1>1. counter.lo \in Half BY Parts
<1>2. CASE counter.lo + 1 # CntHalf
  <2>1. counter'.lo = counter.lo + 1 BY <1>2, Clock
  <2> QED BY <1>1, <2>1, HalfFacts DEF LowerAgo, Half
<1>3. CASE counter.lo + 1 = CntHalf
  <2>1. counter'.lo = 0 BY <1>3, Clock
  <2> QED BY <1>1, <1>3, <2>1, HalfFacts DEF LowerAgo, Half
<1> QED BY <1>2, <1>3

-----------------------------------------------------------------------------
\* Any clock without a write in which the software is not setting the counter
\* and the ghost ticks keeps what is counted right.
LEMMA RunningClock ==
  ASSUME CounterTyped, Running, user.pc \notin {"off", "set_hi", "set_lo"},
         cycle_inst("none", 0), user'.truth = Tick(user.truth)
  PROVE  Running'
<1>1. user.truth = Upper * CntHalf + counter.lo BY DEF Running
<1>2. user'.truth = Upper' * CntHalf + counter'.lo BY <1>1, ClockCounts
<1> QED BY <1>2 DEF Running

\* Types of what the software keeps, apart.
LEMMA UserParts ==
  ASSUME CounterTyped
  PROVE  /\ user = [pc |-> user.pc, gap |-> user.gap, value |-> user.value, tmp1 |-> user.tmp1,
                    tmp2 |-> user.tmp2, truth |-> user.truth, began |-> user.began]
         /\ user.pc \in Pc /\ user.gap \in {0, 1, 2} /\ user.value \in 0 .. Full - 1
         /\ user.tmp1 \in Half /\ user.tmp2 \in Half
         /\ user.truth \in 0 .. Full - 1 /\ user.began \in 0 .. Full - 1
BY DEF CounterTyped, MaxGap

\* A clock without an access keeps the invariant.
LEMMA NoAccessKeeps ==
  ASSUME CounterInv, user.pc # "off", NoCsrAccess
  PROVE  CounterInv'
<1>1. CounterTyped /\ Running /\ Setting /\ Getting BY DEF CounterInv
<1>2. cycle_inst("none", 0) /\ user.gap \in {0, 1} BY <1>1, UserParts DEF NoCsrAccess, MaxGap
<1>3. user' = [user EXCEPT !.gap = @ + 1, !.truth = Tick(@)] BY DEF NoCsrAccess
<1>4. /\ user'.pc = user.pc /\ user'.gap = user.gap + 1 /\ user'.value = user.value
      /\ user'.tmp1 = user.tmp1 /\ user'.tmp2 = user.tmp2 /\ user'.truth = Tick(user.truth)
      /\ user'.began = user.began
  BY <1>1, <1>3, UserParts
<1>5. CounterTyped'
  <2>1. Tick(user.truth) \in 0 .. Full - 1 BY <1>1, UserParts, TickIs
  <2>2. user' \in [pc : Pc, gap : 0 .. MaxGap, value : 0 .. Full - 1, tmp1 : Half, tmp2 : Half,
                   truth : 0 .. Full - 1, began : 0 .. Full - 1]
    <3>1. user' = [pc |-> user.pc, gap |-> user.gap + 1, value |-> user.value, tmp1 |-> user.tmp1,
                   tmp2 |-> user.tmp2, truth |-> Tick(user.truth), began |-> user.began]
      BY <1>1, <1>3, UserParts
    <3>2. user.gap + 1 \in 0 .. MaxGap BY <1>2 DEF MaxGap
    <3> QED BY <1>1, <2>1, <3>1, <3>2, UserParts
  <2> QED BY <1>1, <1>2, <2>2, Clock DEF CounterTyped
<1>6. Running'
  <2>1. CASE user.pc \in {"off", "set_hi", "set_lo"} BY <1>4, <2>1 DEF Running
  <2>2. CASE user.pc \notin {"off", "set_hi", "set_lo"}
    BY <1>1, <1>2, <1>4, <2>2, RunningClock
  <2> QED BY <2>1, <2>2
<1>7. Setting'
  <2>1. counter.lo \in Half BY <1>1, Parts
  <2>2. ASSUME counter.lo <= 5
        PROVE  counter'.lo = counter.lo + 1 /\ counter'.carry = 0
    <3>1. counter.lo + 1 # CntHalf BY <2>1, <2>2, HalfFacts DEF Half
    <3> QED BY <1>1, <1>2, <3>1, Clock
  <2>3. CASE user.pc = "set_hi"
    <3>1. counter.lo = user.gap BY <1>1, <2>3 DEF Setting
    <3>2. counter'.lo = counter.lo + 1 /\ counter'.carry = 0 BY <1>2, <2>2, <3>1
    <3> QED BY <1>4, <2>3, <3>1, <3>2 DEF Setting
  <2>4. CASE user.pc = "set_lo"
    <3>1. counter.carry = 0 /\ counter.hi = user.value \div CntHalf /\ counter.lo <= user.gap + 3
      BY <1>1, <2>4 DEF Setting
    <3>2. counter.lo <= 5 BY <1>2, <2>1, <3>1, HalfFacts DEF Half
    <3>3. counter'.lo = counter.lo + 1 /\ counter'.carry = 0 BY <2>2, <3>2
    <3>4. counter'.hi = Upper BY <1>2 DEF cycle_inst, Upper
    <3>5. counter'.hi = counter.hi BY <1>1, <3>1, <3>4, Parts
    <3>6. counter'.lo <= user'.gap + 3 BY <1>2, <1>4, <2>1, <3>1, <3>3, HalfFacts DEF Half
    <3>7. counter'.hi = user'.value \div CntHalf BY <1>4, <3>1, <3>5
    <3> QED BY <1>4, <2>4, <3>3, <3>6, <3>7 DEF Setting
  <2> QED BY <1>4, <2>3, <2>4 DEF Setting
<1>8. Getting'
  <2>1. ASSUME NEW k \in Ages, k <= 98, Ago(user.began, user.truth, k)
        PROVE  k + 1 \in Ages /\ Ago(user.began, user.truth, k + 1)'
    <3>1. k \in 0 .. 98 BY <2>1 DEF Ages
    <3>2. Ago(user.began, Tick(user.truth), k + 1) BY <1>1, <2>1, <3>1, UserParts, AgoClock
    <3> QED BY <1>4, <3>1, <3>2 DEF Ago, Ages
  <2>2. ASSUME user.pc = "get_hi" PROVE \E k \in Ages : Retrying(k)'
    <3>1. PICK k \in Ages : Retrying(k) BY <1>1, <2>2 DEF Getting
    <3>2. k <= 98 /\ Ago(user.began, user.truth, k) BY <1>2, <3>1 DEF Retrying, Ages
    <3>3. k + 1 \in Ages /\ Ago(user.began, user.truth, k + 1)' BY <2>1, <3>2
    <3>4. counter.lo \in Half BY <1>1, Parts
    <3>5. counter.lo + 1 # CntHalf BY <1>2, <3>1, <3>4, HalfFacts DEF Retrying, Half
    <3>6. counter'.lo = counter.lo + 1 BY <1>1, <1>2, <3>5, Clock
    <3>7. Retrying(k + 1)' BY <1>2, <1>4, <3>1, <3>3, <3>4, <3>6, HalfFacts DEF Retrying, Half, Ages
    <3> QED BY <3>3, <3>7
  <2>3. ASSUME user.pc = "get_lo" PROVE \E k \in Ages : ReadHigh(k)'
    <3>0. PICK e \in 0 .. 8 : e = 1 + user.gap BY <1>2
    <3>1. PICK k \in Ages : ReadHigh(k) BY <1>1, <2>3 DEF Getting
    <3>2. Looked(e, k) /\ Ago(user.began, user.truth, k) BY <3>0, <3>1 DEF ReadHigh
    <3>3. e \in 0 .. 8 /\ k \in Nat BY DEF Ages
    <3>4. e + 1 = 1 + user'.gap BY <1>2, <1>4, <3>0
    <3>5. k <= 98 BY <3>2, <3>3 DEF Looked
    <3>6. k + 1 \in Ages /\ Ago(user.began, user.truth, k + 1)' BY <2>1, <3>2, <3>5
    <3>7. Looked(e + 1, k + 1)' BY <1>1, <1>2, <1>4, <3>2, <3>3, LookedClock
    <3>8. Looked(1 + user.gap, k + 1)' BY <3>4, <3>7 DEF Looked
    <3> QED BY <3>6, <3>8 DEF ReadHigh
  <2>4. ASSUME user.pc = "get_hi2" PROVE \E k, e \in Ages : ReadLow(k, e)'
    <3>0. PICK d \in 0 .. 8 : d = 1 + user.gap BY <1>2
    <3>1. PICK k \in Ages, e \in Ages : ReadLow(k, e) BY <1>1, <2>4 DEF Getting
    <3>2. /\ Looked(e, k) /\ Ago(user.began, user.truth, k)
          /\ e >= 3 + user.gap /\ e <= 4 + user.gap
          /\ user.tmp2 = LowerAgo(d)
      BY <3>0, <3>1 DEF ReadLow
    <3>3. d \in 0 .. 8 /\ e \in 0 .. 8 /\ e + 1 \in Ages /\ k \in Nat BY <1>2, <3>2 DEF Ages
    <3>4. d + 1 = 1 + user'.gap BY <1>2, <1>4, <3>0
    <3>5. k <= 98 BY <1>2, <3>2, <3>3 DEF Looked
    <3>6. k + 1 \in Ages /\ Ago(user.began, user.truth, k + 1)' BY <2>1, <3>2, <3>5
    <3>7. Looked(e + 1, k + 1)' BY <1>1, <1>2, <1>4, <3>2, <3>3, LookedClock
    <3>8. LowerAgo(d + 1)' = LowerAgo(d) BY <1>1, <1>2, <3>3, LowerClock
    <3>9. user'.tmp2 = LowerAgo(1 + user.gap)' BY <1>4, <3>2, <3>4, <3>8 DEF LowerAgo
    <3>10. e + 1 >= 3 + user'.gap /\ e + 1 <= 4 + user'.gap BY <1>2, <1>4, <3>2, <3>3
    <3>11. ReadLow(k + 1, e + 1)' BY <3>6, <3>7, <3>9, <3>10 DEF ReadLow
    <3> QED BY <3>3, <3>6, <3>11
  <2>5. ASSUME user.pc = "got" PROVE \E k, f \in Ages : Finished(k, f)'
    <3>1. PICK k \in Ages, f \in Ages : Finished(k, f) BY <1>1, <2>5 DEF Getting
    <3>2. /\ Ago(user.began, user.truth, k) /\ Ago(user.value, user.truth, f)
          /\ f <= k /\ k <= 70 + user.gap
      BY <3>1 DEF Finished
    <3>3. k <= 98 /\ f <= 98 /\ f + 1 \in Ages /\ f \in 0 .. 98 BY <1>2, <3>2 DEF Ages
    <3>4. k + 1 \in Ages /\ Ago(user.began, user.truth, k + 1)' BY <2>1, <3>2, <3>3
    <3>5. Ago(user.value, Tick(user.truth), f + 1) BY <1>1, <3>2, <3>3, UserParts, AgoClock
    <3>6. Ago(user.value, user.truth, f + 1)' BY <1>4, <3>5 DEF Ago
    <3>7. f + 1 <= k + 1 /\ k + 1 <= 70 + user'.gap BY <1>2, <1>4, <3>2 DEF Ages
    <3>8. Finished(k + 1, f + 1)' BY <3>4, <3>6, <3>7 DEF Finished
    <3> QED BY <3>3, <3>4, <3>8
  <2>6. user'.pc = user.pc BY <1>4
  <2> QED BY <2>2, <2>3, <2>4, <2>5, <2>6 DEF Getting
<1> QED BY <1>5, <1>6, <1>7, <1>8 DEF CounterInv

-----------------------------------------------------------------------------
\* Setting the counter keeps the invariant: the lower half is cleared first,
\* and is set again before it overflows.
LEMMA SetKeeps ==
  ASSUME CounterInv, NEW v \in CntValues, astrarv32_cpu_set_mcycle(v)
  PROVE  CounterInv'
<1>1. CounterTyped /\ Running /\ Setting /\ Getting BY DEF CounterInv
<1>2. v \in 0 .. Full - 1 BY CsrAssumption DEF Full
<1>3. Tick(user.truth) \in 0 .. Full - 1 BY <1>1, UserParts, TickIs
<1>4. 0 \in Half /\ 0 \in 0 .. Full - 1 BY HalfFacts DEF Half
<1>5. CASE Access("idle", "lo", 0) /\ NextUser([user EXCEPT !.pc = "set_hi", !.value = v])
  <2>1. counter' = [lo |-> 0, carry |-> (counter.lo + 1) \div CntHalf, hi |-> Upper]
    BY <1>5 DEF Access, cycle_inst, Upper
  <2>2. user' = [pc |-> "set_hi", gap |-> 0, value |-> v, tmp1 |-> user.tmp1,
                 tmp2 |-> user.tmp2, truth |-> Tick(user.truth), began |-> user.began]
    BY <1>1, <1>5, UserParts DEF NextUser
  <2>3. (counter.lo + 1) \div CntHalf \in {0, 1}
    <3>1. counter.lo \in Half BY <1>1, Parts
    <3>2. counter.lo + 1 \in Half \/ counter.lo + 1 = CntHalf BY <3>1, HalfFacts DEF Half
    <3> QED BY <3>2, HalfDivided
  <2>4. CounterTyped'
    <3>1. counter' \in [lo : Half, hi : Half, carry : {0, 1}] BY <1>1, <1>4, <2>1, <2>3, Parts
    <3>2. user' \in [pc : Pc, gap : 0 .. MaxGap, value : 0 .. Full - 1, tmp1 : Half, tmp2 : Half,
                     truth : 0 .. Full - 1, began : 0 .. Full - 1]
      BY <1>1, <1>2, <1>3, <2>2, UserParts DEF Pc, MaxGap
    <3> QED BY <2>1, <3>1, <3>2 DEF CounterTyped
  <2>5. user'.pc = "set_hi" /\ user'.gap = 0 /\ counter'.lo = 0 BY <2>1, <2>2
  <2> QED BY <2>4, <2>5 DEF CounterInv, Running, Setting, Getting
<1>6. CASE Access("set_hi", "hi", user.value \div CntHalf) /\ NextUser([user EXCEPT !.pc = "set_lo"])
  <2>1. counter' = [lo |-> (counter.lo + 1) % CntHalf, carry |-> (counter.lo + 1) \div CntHalf,
                    hi |-> user.value \div CntHalf]
    BY <1>6 DEF Access, cycle_inst
  <2>2. user' = [pc |-> "set_lo", gap |-> 0, value |-> user.value, tmp1 |-> user.tmp1,
                 tmp2 |-> user.tmp2, truth |-> Tick(user.truth), began |-> user.began]
    BY <1>1, <1>6, UserParts DEF NextUser
  <2>3. user.pc = "set_hi" /\ counter.lo = user.gap /\ user.gap \in {1, 2}
    BY <1>1, <1>6, UserParts DEF Access, Setting
  <2>4. counter.lo + 1 \in Half BY <2>3, HalfFacts DEF Half
  <2>5. counter'.lo = counter.lo + 1 /\ counter'.carry = 0 /\ counter'.hi = user.value \div CntHalf
    BY <2>1, <2>4, HalfDivided
  <2>6. user.value \div CntHalf \in Half BY <1>1, UserParts, ValueSplit
  <2>7. CounterTyped'
    <3>1. counter' \in [lo : Half, hi : Half, carry : {0, 1}] BY <2>1, <2>4, <2>5, <2>6
    <3>2. user' \in [pc : Pc, gap : 0 .. MaxGap, value : 0 .. Full - 1, tmp1 : Half, tmp2 : Half,
                     truth : 0 .. Full - 1, began : 0 .. Full - 1]
      BY <1>1, <1>3, <2>2, UserParts DEF Pc, MaxGap
    <3> QED BY <2>5, <3>1, <3>2 DEF CounterTyped
  <2>8. user'.pc = "set_lo" /\ user'.gap = 0 /\ user'.value = user.value BY <2>2
  <2>9. counter'.lo <= user'.gap + 3 BY <2>3, <2>5, <2>8
  <2>10. Setting' BY <2>5, <2>8, <2>9 DEF Setting
  <2> QED BY <2>7, <2>8, <2>10 DEF CounterInv, Running, Getting
<1>7. CASE /\ Access("set_lo", "lo", user.value % CntHalf)
           /\ user' = [user EXCEPT !.pc = "idle", !.gap = 0, !.truth = user.value, !.value = 0]
  <2>1. counter' = [lo |-> user.value % CntHalf, carry |-> (counter.lo + 1) \div CntHalf, hi |-> Upper]
    BY <1>7 DEF Access, cycle_inst, Upper
  <2>2. user' = [pc |-> "idle", gap |-> 0, value |-> 0, tmp1 |-> user.tmp1,
                 tmp2 |-> user.tmp2, truth |-> user.value, began |-> user.began]
    BY <1>1, <1>7, UserParts
  <2>3. /\ counter.carry = 0 /\ counter.hi = user.value \div CntHalf
        /\ counter.lo <= user.gap + 3 /\ user.gap \in {1, 2}
    BY <1>1, <1>7, UserParts DEF Access, Setting
  <2>4. counter.lo + 1 \in Half
    <3>1. counter.lo \in Half BY <1>1, Parts
    <3> QED BY <2>3, <3>1, HalfFacts DEF Half
  <2>5. /\ counter'.lo = user.value % CntHalf /\ counter'.carry = 0
        /\ counter'.hi = user.value \div CntHalf
    BY <1>1, <2>1, <2>3, <2>4, HalfDivided, Parts
  <2>6. /\ user.value \div CntHalf \in Half /\ user.value % CntHalf \in Half
        /\ user.value = (user.value \div CntHalf) * CntHalf + (user.value % CntHalf)
    BY <1>1, UserParts, ValueSplit
  <2>7. CounterTyped'
    <3>1. counter' \in [lo : Half, hi : Half, carry : {0, 1}] BY <2>1, <2>5, <2>6
    <3>2. user' \in [pc : Pc, gap : 0 .. MaxGap, value : 0 .. Full - 1, tmp1 : Half, tmp2 : Half,
                     truth : 0 .. Full - 1, began : 0 .. Full - 1]
      BY <1>1, <1>4, <2>2, UserParts DEF Pc, MaxGap
    <3> QED BY <2>5, <3>1, <3>2 DEF CounterTyped
  <2>8. Upper' = user.value \div CntHalf
    <3>1. Upper' = (counter'.hi + counter'.carry) % CntHalf BY DEF Upper
    <3>2. counter'.hi + counter'.carry = user.value \div CntHalf BY <2>5, <2>6, HalfFacts DEF Half
    <3> QED BY <2>6, <3>1, <3>2, HalfDivided
  <2>9. user'.truth = Upper' * CntHalf + counter'.lo BY <2>2, <2>5, <2>6, <2>8
  <2>10. user'.pc = "idle" BY <2>2
  <2> QED BY <2>7, <2>9, <2>10 DEF CounterInv, Running, Setting, Getting
<1> QED BY <1>5, <1>6, <1>7 DEF astrarv32_cpu_set_mcycle

-----------------------------------------------------------------------------
\* Any access that only reads, by software that then stands at pc, keeps the
\* types and what is counted.
LEMMA ReadKeeps ==
  ASSUME CounterTyped, Running, user.pc \notin {"off", "set_hi", "set_lo"}, cycle_inst("none", 0),
         NEW pc \in Pc \ {"off", "set_hi", "set_lo"}, NEW value \in 0 .. Full - 1,
         NEW tmp1 \in Half, NEW tmp2 \in Half, NEW began \in 0 .. Full - 1,
         user' = [pc |-> pc, gap |-> 0, value |-> value, tmp1 |-> tmp1, tmp2 |-> tmp2,
                  truth |-> Tick(user.truth), began |-> began]
  PROVE  /\ CounterTyped' /\ Running' /\ Setting'
         /\ user'.pc = pc /\ user'.gap = 0 /\ user'.value = value /\ user'.tmp1 = tmp1
         /\ user'.tmp2 = tmp2 /\ user'.truth = Tick(user.truth) /\ user'.began = began
<1>1. /\ user'.pc = pc /\ user'.gap = 0 /\ user'.value = value /\ user'.tmp1 = tmp1
      /\ user'.tmp2 = tmp2 /\ user'.truth = Tick(user.truth) /\ user'.began = began
  OBVIOUS
<1>2. Tick(user.truth) \in 0 .. Full - 1 BY UserParts, TickIs
<1>3. user' \in [pc : Pc, gap : 0 .. MaxGap, value : 0 .. Full - 1, tmp1 : Half, tmp2 : Half,
                 truth : 0 .. Full - 1, began : 0 .. Full - 1]
  BY <1>2 DEF MaxGap
<1>4. CounterTyped' BY <1>3, Clock DEF CounterTyped
<1>5. Running' BY <1>1, RunningClock
<1>6. Setting' BY <1>1 DEF Setting
<1> QED BY <1>1, <1>4, <1>5, <1>6

-----------------------------------------------------------------------------
\* Reading the counter keeps the invariant.
LEMMA GetKeeps ==
  ASSUME CounterInv, astrarv32_cpu_get_cycle
  PROVE  CounterInv'
<1>1. CounterTyped /\ Running /\ Setting /\ Getting BY DEF CounterInv
<1>2. /\ counter.lo \in Half /\ counter.hi \in Half /\ Upper \in Half
      /\ counter.carry = 0 => Upper = counter.hi
      /\ counter.carry = 1 => counter.lo = 0 /\ counter.hi = Before(Upper) /\ Before(Upper) # Upper
      /\ counter.carry \in {0, 1}
  BY <1>1, Parts
<1>3. 0 \in Half /\ 0 \in 0 .. Full - 1 BY HalfFacts DEF Half
<1>4. ASSUME NEW k \in Ages, k <= 98, Ago(user.began, user.truth, k),
             user'.began = user.began, user'.truth = Tick(user.truth)
      PROVE  k + 1 \in Ages /\ Ago(user.began, user.truth, k + 1)'
  <2>1. k \in 0 .. 98 BY <1>4 DEF Ages
  <2>2. Ago(user.began, Tick(user.truth), k + 1) BY <1>1, <1>4, <2>1, UserParts, AgoClock
  <2> QED BY <1>4, <2>1, <2>2 DEF Ago, Ages
\* A call begins.
<1>5. CASE /\ Access("idle", "none", 0)
           /\ NextUser([user EXCEPT !.pc = "get_lo", !.tmp1 = counter.hi, !.began = user.truth])
  <2>1. user' = [pc |-> "get_lo", gap |-> 0, value |-> user.value, tmp1 |-> counter.hi,
                 tmp2 |-> user.tmp2, truth |-> Tick(user.truth), began |-> user.truth]
    BY <1>1, <1>5, UserParts DEF NextUser
  <2>2. user.pc = "idle" /\ cycle_inst("none", 0) BY <1>5 DEF Access
  <2>3. /\ CounterTyped' /\ Running' /\ Setting'
        /\ user'.pc = "get_lo" /\ user'.gap = 0 /\ user'.tmp1 = counter.hi
        /\ user'.truth = Tick(user.truth) /\ user'.began = user.truth
    BY <1>1, <1>2, <2>1, <2>2, ReadKeeps, UserParts DEF Pc
  <2>4. Ago(user.began, user.truth, 1)'
    <3>1. user.truth \in 0 .. Full - 1 BY <1>1, UserParts
    <3>2. Ago(user.truth, Tick(user.truth), 1) BY <3>1, TickIs, HalfFacts DEF Ago
    <3> QED BY <2>3, <3>2 DEF Ago
  <2>5. Looked(1, 1)'
    <3>1. CASE counter.lo + 1 # CntHalf
      <4>1. counter'.lo = counter.lo + 1 /\ Upper' = Upper BY <1>1, <2>2, <3>1, Clock
      <4>2. Before(Upper)' = Before(Upper) BY <4>1 DEF Before
      <4> QED BY <1>2, <2>3, <4>1, <4>2, HalfFacts DEF Looked, Half
    <3>2. CASE counter.lo + 1 = CntHalf
      <4>1. counter'.lo = 0 /\ Before(Upper)' = Upper BY <1>1, <2>2, <3>2, Clock DEF Before
      <4>2. counter.carry = 0 BY <1>2, <3>2, HalfFacts
      <4> QED BY <1>2, <2>3, <4>1, <4>2, HalfFacts DEF Looked, Half
    <3> QED BY <3>1, <3>2
  <2>6. ReadHigh(1)' BY <2>3, <2>4, <2>5 DEF ReadHigh, Looked
  <2>7. 1 \in Ages BY DEF Ages
  <2>8. Getting' BY <2>3, <2>6, <2>7 DEF Getting
  <2> QED BY <2>3, <2>8 DEF CounterInv
\* The upper half is looked at again.
<1>6. CASE /\ Access("get_hi", "none", 0)
           /\ NextUser([user EXCEPT !.pc = "get_lo", !.tmp1 = counter.hi])
  <2>1. user' = [pc |-> "get_lo", gap |-> 0, value |-> user.value, tmp1 |-> counter.hi,
                 tmp2 |-> user.tmp2, truth |-> Tick(user.truth), began |-> user.began]
    BY <1>1, <1>6, UserParts DEF NextUser
  <2>2. user.pc = "get_hi" /\ cycle_inst("none", 0) /\ user.gap \in {1, 2}
    BY <1>1, <1>6, UserParts DEF Access
  <2>3. /\ CounterTyped' /\ Running' /\ Setting'
        /\ user'.pc = "get_lo" /\ user'.gap = 0 /\ user'.tmp1 = counter.hi
        /\ user'.truth = Tick(user.truth) /\ user'.began = user.began
    BY <1>1, <1>2, <2>1, <2>2, ReadKeeps, UserParts DEF Pc
  <2>4. PICK k \in Ages : Retrying(k) BY <1>1, <2>2 DEF Getting
  <2>5. /\ Ago(user.began, user.truth, k) /\ k \in Nat /\ k <= 63
        /\ counter.lo >= 1 /\ counter.lo <= 9 /\ k <= 90 - 9 * counter.lo
    BY <1>2, <2>2, <2>4 DEF Retrying, Ages, Half
  <2>6. k + 1 \in Ages /\ Ago(user.began, user.truth, k + 1)' BY <1>4, <2>3, <2>5
  <2>7. Upper = counter.hi BY <1>2, <2>5
  <2>8. Looked(1, k + 1)'
    <3>1. CASE counter.lo + 1 # CntHalf
      <4>1. counter'.lo = counter.lo + 1 /\ Upper' = Upper BY <1>1, <2>2, <3>1, Clock
      <4> QED BY <1>2, <2>3, <2>5, <2>7, <4>1, HalfFacts DEF Looked, Half
    <3>2. CASE counter.lo + 1 = CntHalf
      <4>1. counter'.lo = 0 /\ Before(Upper)' = Upper BY <1>1, <2>2, <3>2, Clock DEF Before
      <4>2. k <= 9 BY <1>2, <2>5, <3>2, HalfFacts DEF Half
      <4> QED BY <1>2, <2>3, <2>5, <2>7, <4>1, <4>2, HalfFacts DEF Looked, Half
    <3> QED BY <3>1, <3>2
  <2>9. ReadHigh(k + 1)' BY <2>3, <2>6, <2>8 DEF ReadHigh, Looked
  <2>10. Getting' BY <2>3, <2>6, <2>9 DEF Getting
  <2> QED BY <2>3, <2>10 DEF CounterInv
\* The lower half is looked at.
<1>7. CASE /\ Access("get_lo", "none", 0)
           /\ NextUser([user EXCEPT !.pc = "get_hi2", !.tmp2 = counter.lo])
  <2>1. user' = [pc |-> "get_hi2", gap |-> 0, value |-> user.value, tmp1 |-> user.tmp1,
                 tmp2 |-> counter.lo, truth |-> Tick(user.truth), began |-> user.began]
    BY <1>1, <1>7, UserParts DEF NextUser
  <2>2. user.pc = "get_lo" /\ cycle_inst("none", 0) /\ user.gap \in {1, 2}
    BY <1>1, <1>7, UserParts DEF Access
  <2>3. /\ CounterTyped' /\ Running' /\ Setting'
        /\ user'.pc = "get_hi2" /\ user'.gap = 0 /\ user'.tmp1 = user.tmp1 /\ user'.tmp2 = counter.lo
        /\ user'.truth = Tick(user.truth) /\ user'.began = user.began
    BY <1>1, <1>2, <2>1, <2>2, ReadKeeps, UserParts DEF Pc
  <2>4. PICK k \in Ages : ReadHigh(k) BY <1>1, <2>2 DEF Getting
  <2>5. PICK e \in {2, 3} : e = 1 + user.gap BY <2>2
  <2>6. Ago(user.began, user.truth, k) /\ Looked(e, k) /\ k \in Nat /\ e \in 0 .. 8
    BY <2>4, <2>5 DEF ReadHigh, Ages
  <2>7. k <= 98 BY <2>5, <2>6 DEF Looked
  <2>8. k + 1 \in Ages /\ Ago(user.began, user.truth, k + 1)' BY <1>4, <2>3, <2>6, <2>7
  <2>9. Looked(e + 1, k + 1)' BY <1>1, <2>2, <2>3, <2>6, LookedClock
  <2>10. user'.tmp2 = LowerAgo(1 + user.gap)'
    <3>1. LowerAgo(0) = counter.lo BY <1>2 DEF LowerAgo, Half
    <3>2. LowerAgo(0 + 1)' = LowerAgo(0) BY <1>1, <2>2, LowerClock
    <3> QED BY <2>3, <3>1, <3>2 DEF LowerAgo
  <2>11. ReadLow(k + 1, e + 1)' BY <2>3, <2>5, <2>8, <2>9, <2>10 DEF ReadLow
  <2>12. e + 1 \in Ages BY <2>5 DEF Ages
  <2>13. Getting' BY <2>3, <2>8, <2>11, <2>12 DEF Getting
  <2> QED BY <2>3, <2>13 DEF CounterInv
\* The upper half has not changed: the call ends.
<1>8. CASE /\ Access("get_hi2", "none", 0) /\ counter.hi = user.tmp1
           /\ NextUser([user EXCEPT !.pc = "got", !.value = counter.hi * CntHalf + user.tmp2,
                                    !.tmp1 = 0, !.tmp2 = 0])
  <2> DEFINE value == counter.hi * CntHalf + user.tmp2
  <2>1. user' = [pc |-> "got", gap |-> 0, value |-> value, tmp1 |-> 0,
                 tmp2 |-> 0, truth |-> Tick(user.truth), began |-> user.began]
    BY <1>1, <1>8, UserParts DEF NextUser
  <2>2. user.pc = "get_hi2" /\ cycle_inst("none", 0) /\ user.gap \in {1, 2}
    BY <1>1, <1>8, UserParts DEF Access
  <2>3. value \in 0 .. Full - 1
    <3>1. counter.hi * CntHalf \in Nat /\ counter.hi * CntHalf <= Full - CntHalf BY <1>2, HalfFacts
    <3>2. user.tmp2 \in Half BY <1>1, UserParts
    <3> QED BY <3>1, <3>2, HalfFacts DEF Half
  <2>4. PICK k \in Ages, e \in Ages : ReadLow(k, e) BY <1>1, <2>2 DEF Getting
  <2>5. PICK d \in {2, 3} : d = 1 + user.gap BY <2>2
  <2>6. /\ Ago(user.began, user.truth, k) /\ Looked(e, k) /\ k \in Nat /\ e \in 4 .. 6
        /\ e >= d + 2 /\ user.tmp2 = LowerAgo(d)
    BY <2>2, <2>4, <2>5 DEF ReadLow, Ages
  <2>7. k <= 69 /\ e <= k BY <2>6 DEF Looked
  <2>8. user.truth = Upper * CntHalf + counter.lo BY <1>1, <2>2 DEF Running
  <2>9. Ago(value, user.truth, d)
    <3>1. ASSUME counter.hi = Upper, counter.lo >= d PROVE value = user.truth - d
      <4>1. user.tmp2 = counter.lo - d BY <2>6, <3>1 DEF LowerAgo
      <4>2. Upper * CntHalf \in Nat BY <1>2, HalfFacts
      <4> QED BY <1>2, <2>5, <2>8, <3>1, <4>1, <4>2 DEF Half
    <3>2. CASE counter.lo > e
      <4>1. counter.lo >= d /\ counter.lo > 0 BY <1>2, <2>5, <2>6, <3>2 DEF Half
      <4>2. counter.hi = Upper BY <1>2, <4>1
      <4> QED BY <3>1, <4>1, <4>2 DEF Ago
    <3>3. CASE counter.lo = e /\ user.tmp1 = Upper
      <4>1. counter.lo >= d BY <2>5, <2>6, <3>3
      <4> QED BY <1>8, <3>1, <3>3, <4>1 DEF Ago
    <3>4. CASE counter.lo <= e /\ user.tmp1 = Before(Upper)
      <4>1. counter.hi = Before(Upper) BY <1>8, <3>4
      <4>2. Before(Upper) # Upper BY <1>2, HalfFacts DEF Before, Half
      <4>3. counter.carry = 1 /\ counter.lo = 0 BY <1>2, <4>1, <4>2
      <4>4. user.tmp2 = CntHalf - d BY <2>5, <2>6, <4>3, HalfFacts DEF LowerAgo
      <4>5. user.truth = Upper * CntHalf BY <1>2, <2>8, <4>3, HalfFacts
      <4>6. counter.hi * CntHalf \in Nat BY <1>2, HalfFacts
      <4>7. CASE Upper = 0
        <5>1. counter.hi = CntHalf - 1 BY <4>1, <4>7 DEF Before
        <5>2. counter.hi * CntHalf = Full - CntHalf BY <5>1, HalfFacts
        <5>3. user.truth = 0 BY <4>5, <4>7, HalfFacts
        <5>4. value = user.truth - d + Full BY <2>5, <4>4, <5>2, <5>3, HalfFacts
        <5> QED BY <5>4 DEF Ago
      <4>8. CASE Upper # 0
        <5>1. counter.hi + 1 = Upper BY <1>2, <4>1, <4>8, HalfFacts DEF Before, Half
        <5>2. Upper * CntHalf = counter.hi * CntHalf + CntHalf BY <1>2, <5>1, HalfFacts
        <5>3. value = user.truth - d BY <2>5, <4>4, <4>5, <4>6, <5>2, HalfFacts
        <5> QED BY <5>3 DEF Ago
      <4> QED BY <4>7, <4>8
    <3>5. counter.lo > e \/ (counter.lo = e /\ user.tmp1 = Upper)
          \/ (counter.lo <= e /\ user.tmp1 = Before(Upper))
      BY <1>2, <2>6 DEF Looked, Half
    <3> QED BY <3>2, <3>3, <3>4, <3>5
  <2>10. Ago(value, Tick(user.truth), d + 1)
    <3>1. d \in 0 .. 98 /\ user.truth \in 0 .. Full - 1 BY <1>1, <2>5, UserParts
    <3> HIDE DEF value
    <3> QED BY <2>3, <2>9, <3>1, AgoClock
  <2> HIDE DEF value
  <2>11. /\ CounterTyped' /\ Running' /\ Setting'
         /\ user'.pc = "got" /\ user'.gap = 0 /\ user'.value = value
         /\ user'.truth = Tick(user.truth) /\ user'.began = user.began
    BY <1>1, <1>3, <2>1, <2>2, <2>3, ReadKeeps, UserParts DEF Pc
  <2>12. k + 1 \in Ages /\ Ago(user.began, user.truth, k + 1)' BY <1>4, <2>6, <2>7, <2>11
  <2>13. Ago(user.value, user.truth, d + 1)' BY <2>10, <2>11 DEF Ago
  <2>14. d + 1 <= k + 1 /\ k + 1 <= 70 /\ d + 1 \in Ages BY <2>5, <2>6, <2>7 DEF Ages
  <2>15. Finished(k + 1, d + 1)' BY <2>11, <2>12, <2>13, <2>14 DEF Finished
  <2>16. Getting' BY <2>11, <2>12, <2>14, <2>15 DEF Getting
  <2> QED BY <2>11, <2>16 DEF CounterInv
\* The upper half has changed: the call tries again, soon after the overflow.
<1>9. CASE /\ Access("get_hi2", "none", 0) /\ counter.hi # user.tmp1
           /\ NextUser([user EXCEPT !.pc = "get_hi", !.tmp1 = 0, !.tmp2 = 0])
  <2>1. user' = [pc |-> "get_hi", gap |-> 0, value |-> user.value, tmp1 |-> 0,
                 tmp2 |-> 0, truth |-> Tick(user.truth), began |-> user.began]
    BY <1>1, <1>9, UserParts DEF NextUser
  <2>2. user.pc = "get_hi2" /\ cycle_inst("none", 0) /\ user.gap \in {1, 2}
    BY <1>1, <1>9, UserParts DEF Access
  <2>3. /\ CounterTyped' /\ Running' /\ Setting'
        /\ user'.pc = "get_hi" /\ user'.gap = 0
        /\ user'.truth = Tick(user.truth) /\ user'.began = user.began
    BY <1>1, <1>3, <2>1, <2>2, ReadKeeps, UserParts DEF Pc
  <2>4. PICK k \in Ages, e \in Ages : ReadLow(k, e) BY <1>1, <2>2 DEF Getting
  <2>5. /\ Ago(user.began, user.truth, k) /\ Looked(e, k) /\ k \in Nat /\ e \in 4 .. 6
    BY <2>2, <2>4 DEF ReadLow, Ages
  <2>6. counter.lo <= e
    <3>1. ASSUME counter.lo > e PROVE FALSE
      <4>1. user.tmp1 = Upper /\ counter.lo > 0 BY <1>2, <2>5, <3>1 DEF Looked, Half
      <4> QED BY <1>2, <1>9, <4>1
    <3> QED BY <1>2, <2>5, <3>1 DEF Half
  <2>7. k - e <= 9 * (e - counter.lo) BY <2>5, <2>6 DEF Looked
  <2>8. k <= 60 - 9 * counter.lo /\ k <= 60 BY <1>2, <2>5, <2>7 DEF Half
  <2>9. counter.lo + 1 # CntHalf BY <1>2, <2>5, <2>6, HalfFacts DEF Half
  <2>10. counter'.lo = counter.lo + 1 BY <1>1, <2>2, <2>9, Clock
  <2>11. k + 1 \in Ages /\ Ago(user.began, user.truth, k + 1)' BY <1>4, <2>3, <2>5, <2>8
  <2>12. Retrying(k + 1)' BY <1>2, <2>3, <2>5, <2>6, <2>8, <2>10, <2>11 DEF Retrying, Half
  <2>13. Getting' BY <2>3, <2>11, <2>12 DEF Getting
  <2> QED BY <2>3, <2>13 DEF CounterInv
\* The value has been used.
<1>10. CASE /\ Access("got", "none", 0)
            /\ NextUser([user EXCEPT !.pc = "idle", !.value = 0, !.began = 0])
  <2>1. user' = [pc |-> "idle", gap |-> 0, value |-> 0, tmp1 |-> user.tmp1,
                 tmp2 |-> user.tmp2, truth |-> Tick(user.truth), began |-> 0]
    BY <1>1, <1>10, UserParts DEF NextUser
  <2>2. user.pc = "got" /\ cycle_inst("none", 0) BY <1>10 DEF Access
  <2>3. CounterTyped' /\ Running' /\ Setting' /\ user'.pc = "idle"
    BY <1>1, <1>3, <2>1, <2>2, ReadKeeps, UserParts DEF Pc
  <2>4. Getting' BY <2>3 DEF Getting
  <2> QED BY <2>3, <2>4 DEF CounterInv
<1>11. ASSUME Access("get_hi2", "none", 0),
              NextUser(IF counter.hi = user.tmp1
                       THEN [user EXCEPT !.pc = "got", !.value = counter.hi * CntHalf + user.tmp2,
                                         !.tmp1 = 0, !.tmp2 = 0]
                       ELSE [user EXCEPT !.pc = "get_hi", !.tmp1 = 0, !.tmp2 = 0])
       PROVE  CounterInv'
  <2>1. CASE counter.hi = user.tmp1
    <3>1. NextUser([user EXCEPT !.pc = "got", !.value = counter.hi * CntHalf + user.tmp2,
                                !.tmp1 = 0, !.tmp2 = 0])
      BY <1>11, <2>1 DEF NextUser
    <3> QED BY <1>8, <1>11, <2>1, <3>1
  <2>2. CASE counter.hi # user.tmp1
    <3>1. NextUser([user EXCEPT !.pc = "get_hi", !.tmp1 = 0, !.tmp2 = 0])
      BY <1>11, <2>2 DEF NextUser
    <3> QED BY <1>9, <1>11, <2>2, <3>1
  <2> QED BY <2>1, <2>2
<1> QED BY <1>5, <1>6, <1>7, <1>10, <1>11 DEF astrarv32_cpu_get_cycle

-----------------------------------------------------------------------------
\* The invariant holds initially: the counter and the ghost are zero.
LEMMA CounterInitially == CsrInit => CounterInv
<1> SUFFICES ASSUME CsrInit PROVE CounterInv
  OBVIOUS
<1>1. /\ counter = [lo |-> 0, hi |-> 0, carry |-> 0]
      /\ user.pc \in {"off", "idle"}
      /\ user = [pc |-> user.pc, gap |-> 0, value |-> 0, tmp1 |-> 0, tmp2 |-> 0, truth |-> 0, began |-> 0]
  BY DEF CsrInit, CounterIdle
<1>2. 0 \in Half /\ 0 \in 0 .. Full - 1 BY HalfFacts DEF Half
<1>3. CounterTyped
  <2>1. counter \in [lo : Half, hi : Half, carry : {0, 1}] BY <1>1, <1>2
  <2>2. user \in [pc : Pc, gap : 0 .. MaxGap, value : 0 .. Full - 1, tmp1 : Half, tmp2 : Half,
                  truth : 0 .. Full - 1, began : 0 .. Full - 1]
    BY <1>1, <1>2 DEF Pc, MaxGap
  <2> QED BY <1>1, <2>1, <2>2 DEF CounterTyped
<1>4. user.truth = Upper * CntHalf + counter.lo
  <2>1. user.truth = 0 /\ counter.lo = 0 /\ counter.hi = 0 /\ counter.carry = 0 BY <1>1
  <2>2. Upper = 0 BY <1>3, <2>1, Parts
  <2> QED BY <2>1, <2>2, HalfFacts
<1> QED BY <1>1, <1>3, <1>4 DEF CounterInv, Running, Setting, Getting

\* Every step keeps it; calls of the protection functions leave the counter alone.
LEMMA CounterKept == CounterInv /\ [CsrNext]_csrVars => CounterInv'
<1> SUFFICES ASSUME CounterInv, [CsrNext]_csrVars PROVE CounterInv'
  OBVIOUS
<1>1. CASE UNCHANGED <<counter, user>>
  BY <1>1 DEF CounterInv, CounterTyped, Running, Setting, Getting, Retrying, ReadHigh, ReadLow,
              Finished, Looked, LowerAgo, Ago, Upper, Before
<1>2. CASE CounterStep BY <1>2, NoAccessKeeps, GetKeeps, SetKeeps DEF CounterStep
<1> QED BY <1>1, <1>2 DEF CsrNext, ProtectionCall, csrVars

\* The invariant is what the software observes: the two halves and the carry
\* are the value counted, and what a call returned is from the time of the call.
LEMMA CounterInvTrue == CounterInv => CounterTrue
<1> SUFFICES ASSUME CounterInv PROVE CounterTrue
  OBVIOUS
<1>1. CounterTyped /\ Running /\ Getting BY DEF CounterInv
<1>2. ASSUME user.pc \notin {"off", "set_hi", "set_lo"} PROVE CntTime = user.truth
  <2> DEFINE c == counter.hi + counter.carry
  <2>1. /\ counter.lo \in Half /\ counter.hi \in Half /\ counter.carry \in {0, 1} /\ Upper \in Half
        /\ counter.carry = 0 => Upper = counter.hi
        /\ counter.carry = 1 => counter.hi + 1 = Upper \/ (counter.hi + 1 = CntHalf /\ Upper = 0)
        /\ counter.carry = 1 => counter.lo = 0
    BY <1>1, Parts
  <2>2. user.truth = Upper * CntHalf + counter.lo /\ user.truth \in 0 .. Full - 1
    BY <1>1, <1>2, UserParts DEF Running
  <2>3. CntTime = (c * CntHalf + counter.lo) % Full BY DEF CntTime, Full
  <2>4. CASE c = Upper
    BY <2>2, <2>3, <2>4, FullDivided
  <2>5. CASE c # Upper
    <3>1. c = CntHalf /\ Upper = 0 /\ counter.lo = 0 BY <2>1, <2>5, HalfFacts DEF Half
    <3>2. c * CntHalf + counter.lo = Full BY <3>1, HalfFacts DEF Full
    <3>3. user.truth = 0 BY <2>2, <3>1, HalfFacts
    <3>4. 0 + Full = Full BY HalfFacts
    <3>5. Full % Full = 0 BY <2>2, <3>3, <3>4, FullDivided
    <3> QED BY <2>3, <3>2, <3>3, <3>5
  <2> QED BY <2>4, <2>5
<1>3. ASSUME user.pc = "got"
      PROVE  (user.value - user.began) % Full <= (user.truth - user.began) % Full
  <2>1. PICK k \in Ages, f \in Ages : Finished(k, f) BY <1>1, <1>3 DEF Getting
  <2>2. /\ Ago(user.began, user.truth, k) /\ Ago(user.value, user.truth, f)
        /\ f <= k /\ k \in 0 .. 99 /\ f \in 0 .. 99
    BY <2>1 DEF Finished, Ages
  <2>3. k \in 0 .. Full - 1 /\ k - f \in 0 .. Full - 1 BY <2>2, HalfFacts
  <2>4. user.truth \in Int /\ user.began \in Int /\ user.value \in Int /\ Full \in Int
    BY <1>1, UserParts, HalfFacts
  <2>5. (user.truth - user.began) % Full = k
    <3>1. user.truth - user.began = k \/ user.truth - user.began = k - Full
      BY <2>2, <2>4 DEF Ago
    <3> QED BY <2>3, <3>1, FullDivided
  <2>6. (user.value - user.began) % Full = k - f
    <3>1. \/ user.value - user.began = k - f
          \/ user.value - user.began = (k - f) - Full
          \/ user.value - user.began = (k - f) + Full
      BY <2>2, <2>4 DEF Ago
    <3> QED BY <2>3, <3>1, FullDivided
  <2> QED BY <2>2, <2>5, <2>6
<1>4. CntHalf * CntHalf = Full BY DEF Full
<1> QED BY <1>2, <1>3, <1>4 DEF CounterTrue

\* For every size of the counter, whatever values are set and however the
\* accesses of the calls are spaced: the counter is what was set plus the
\* clocks since, and a value read in two halves is one it had during the call.
THEOREM CounterRight == CsrSpec => []CounterTrue
<1>1. CsrInit => CounterInv BY CounterInitially
<1>2. CounterInv /\ [CsrNext]_csrVars => CounterInv' BY CounterKept
<1>3. CounterInv => CounterTrue BY CounterInvTrue
<1> QED BY <1>1, <1>2, <1>3, PTL DEF CsrSpec

=============================================================================
