------------------------------- MODULE Xbus -------------------------------
(***************************************************************************)
(* rtl/core/astrarv32_xbus.vhd without its optional register stage: the    *)
(* bridge to the external Wishbone bus.  Inputs of a cycle: the strobe and *)
(* lock signals, the gateway's terminate signal, the external response.    *)
(***************************************************************************)

VARIABLES pending, locked

xbusVars == <<pending, locked>>

XbusTypeOK == pending \in BOOLEAN /\ locked \in BOOLEAN
XbusInit == pending = FALSE /\ locked = FALSE

\* Outputs: the cycle signal, the acknowledge to the gateway.
xbus_cyc_o(stb) == stb \/ pending
xbus_rsp(ack) == pending /\ ack

Open(stb, lck) ==
    /\ ~pending
    /\ pending' = stb
    /\ locked' = (stb /\ lck)

\* Fault: the gateway's terminate signal is not looked at.
CloseNoTerm(lck, term, ack) ==
    /\ pending
    /\ pending' = IF locked THEN lck ELSE ~ack
    /\ UNCHANGED locked
Close(lck, term, ack) ==
    /\ pending
    /\ pending' = (~term /\ IF locked THEN lck ELSE ~ack)
    /\ UNCHANGED locked

XbusClock(stb, lck, term, ack) == Open(stb, lck) \/ Close(lck, term, ack)
=============================================================================
