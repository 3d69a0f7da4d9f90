------------------------------- MODULE AmoRmw -------------------------------
(***************************************************************************)
(* rtl/core/astrarv32_bus.vhd, entity astrarv32_bus_amo_rmw: a Zaamo       *)
(* request of a core becomes a read and a write on the system port.        *)
(* Requests are records [stb, lock, id, op, a, v, rw], responses           *)
(* [ack, err, data].  The bitwise operations of the ALU are left out.      *)
(***************************************************************************)
EXTENDS Integers

CONSTANT XLEN               \* width of a data word in bits

VARIABLES state, cmd, rdata, wdata, alu_res

rmwVars == <<state, cmd, rdata, wdata, alu_res>>

Word == 0 .. 2^XLEN - 1
AmoOp == {"swap", "add", "min", "max", "minu", "maxu"}

RmwTypeOK == /\ state \in {"S_IDLE", "S_READ_WAIT", "S_EXECUTE", "S_WRITE", "S_WRITE_WAIT"}
             /\ cmd \in AmoOp
             /\ rdata \in Word /\ wdata \in Word /\ alu_res \in Word

RmwInit == state = "S_IDLE" /\ cmd = "swap" /\ rdata = 0 /\ wdata = 0 /\ alu_res = 0

\* Both operands get one more bit: the sign for signed comparisons, else 0.
cmp_op(x) == IF cmd \in {"min", "max"} /\ x >= 2^(XLEN - 1) THEN x - 2^XLEN ELSE x
cmp_less == cmp_op(rdata) < cmp_op(wdata)
cmp_res == IF cmp_less # (cmd \in {"max", "maxu"}) THEN rdata ELSE wdata
\* Fault: the sum has a carry bit.
AluNoWrap == IF cmd = "add" THEN rdata + wdata ELSE IF cmd = "swap" THEN wdata ELSE cmp_res
Alu == CASE cmd = "swap" -> wdata
         [] cmd = "add"  -> (rdata + wdata) % 2^XLEN
         [] OTHER        -> cmp_res

\* Request and response switches.
sys_req(req) ==
    LET writes == state \in {"S_WRITE", "S_WRITE_WAIT"}
    IN  [req EXCEPT !.stb = state = "S_WRITE" \/ req.stb,
                    !.rw = writes \/ req.rw,
                    !.v = IF writes THEN alu_res ELSE req.v]
\* Fault: errors are passed on for plain accesses only.
core_rspNoErr(rsp) ==
    LET mine == state \in {"S_IDLE", "S_WRITE_WAIT"}
    IN  [ack |-> mine /\ rsp.ack, err |-> state = "S_IDLE" /\ rsp.err,
         data |-> IF state = "S_IDLE" THEN rsp.data ELSE rdata]
core_rsp(rsp) ==
    LET mine == state \in {"S_IDLE", "S_WRITE_WAIT"}
    IN  [ack |-> mine /\ rsp.ack, err |-> mine /\ rsp.err,
         data |-> IF state = "S_IDLE" THEN rsp.data ELSE rdata]

Idle(req) ==
    /\ state = "S_IDLE"
    /\ IF req.stb /\ req.op \in AmoOp
       THEN cmd' = req.op /\ wdata' = req.v /\ state' = "S_READ_WAIT"
       ELSE UNCHANGED <<cmd, wdata, state>>
    /\ UNCHANGED rdata

\* Fault: the write follows the read before the ALU register has the result.
ReadWaitShort(rsp) ==
    /\ state = "S_READ_WAIT"
    /\ rdata' = rsp.data
    /\ state' = IF rsp.ack THEN "S_WRITE" ELSE state
    /\ UNCHANGED <<cmd, wdata>>
\* A bus error of the read is not looked at.
ReadWait(rsp) ==
    /\ state = "S_READ_WAIT"
    /\ rdata' = rsp.data
    /\ state' = IF rsp.ack THEN "S_EXECUTE" ELSE state
    /\ UNCHANGED <<cmd, wdata>>

Execute == state = "S_EXECUTE" /\ state' = "S_WRITE" /\ UNCHANGED <<cmd, rdata, wdata>>
Write   == state = "S_WRITE" /\ state' = "S_WRITE_WAIT" /\ UNCHANGED <<cmd, rdata, wdata>>

WriteWait(rsp) ==
    /\ state = "S_WRITE_WAIT"
    /\ state' = IF rsp.ack THEN "S_IDLE" ELSE state
    /\ UNCHANGED <<cmd, rdata, wdata>>

RmwClock(req, rsp) ==
    /\ alu_res' = Alu
    /\ \/ Idle(req)
       \/ ReadWait(rsp)
       \/ Execute
       \/ Write
       \/ WriteWait(rsp)
=============================================================================
