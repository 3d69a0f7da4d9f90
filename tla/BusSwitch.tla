----------------------------- MODULE BusSwitch -----------------------------
(***************************************************************************)
(* rtl/core/astrarv32_bus.vhd, entity astrarv32_bus_switch: two host ports *)
(* A and B share one device port.  The module holds the registers, the     *)
(* combinational outputs and one action per arbiter state; a composing     *)
(* module supplies the inputs of each clock cycle:                         *)
(*   stb, lck : [Port -> BOOLEAN]   the hosts' strobe and lock signals     *)
(*   ack      : BOOLEAN             the device's acknowledge               *)
(***************************************************************************)

CONSTANT ROUND_ROBIN_EN     \* generic: alternate the priority of the ports

VARIABLES state,            \* arbiter state
          lock,             \* the hosts' lock signals when the bus was granted
          sel_q,            \* registered port select: routes the response
          pend              \* a_req/b_req: strobe caught while not served

switchVars == <<state, lock, sel_q, pend>>

Port == {"A", "B"}
Other(p) == IF p = "A" THEN "B" ELSE "A"
Busy(p) == IF p = "A" THEN "S_BUSY_A" ELSE "S_BUSY_B"
Idle == "S_IDLE"

SwitchTypeOK == /\ state \in {Idle} \cup {Busy(p) : p \in Port}
                /\ lock \in [Port -> BOOLEAN]
                /\ sel_q \in Port
                /\ pend \in [Port -> BOOLEAN]

SwitchInit == /\ state = Idle
              /\ lock = [p \in Port |-> FALSE]
              /\ sel_q = "A"
              /\ pend = [p \in Port |-> FALSE]

Wants(p, stb) == stb[p] \/ pend[p]

\* Fault: the priority never alternates.
PrioFixed == "A"
\* In the round-robin scheme the port that was not served last comes first.
Prio == IF sel_q = "B" \/ ~ROUND_ROBIN_EN THEN "A" ELSE "B"

\* Port p is granted the bus by an idle arbiter.
Wins(p, stb) == Wants(p, stb) /\ (p = Prio \/ ~Wants(Other(p), stb))

\* Fault: port B's select is not held while it is served.
selNotHeld(stb) == IF state = Idle /\ Wins("B", stb) THEN "B" ELSE "A"
\* Outputs: the selected port and the strobe sent to the device.  An idle
\* arbiter without a request selects port A.
sel(stb) == IF \/ state = Busy("B")
               \/ state = Idle /\ Wins("B", stb)
            THEN "B" ELSE "A"
\* Fault: the caught strobe is sent again in the first cycle of the service.
x_stbTwice(stb) == IF state = Idle THEN \E p \in Port : Wins(p, stb)
                                   ELSE stb[sel(stb)] \/ pend[sel(stb)]
x_stb(stb) == IF state = Idle THEN \E p \in Port : Wins(p, stb)
                              ELSE stb[sel(stb)]

\* The response goes to the port selected in the cycle before.
AckTo(p, ack) == ack /\ sel_q = p

\* Fault: a strobe is caught only while the arbiter is idle.
LatchIdleOnly(stb) == pend' = [p \in Port |-> IF state = Busy(p) THEN FALSE
                                              ELSE pend[p] \/ (state = Idle /\ stb[p])]
Latch(stb) == pend' = [p \in Port |-> IF state = Busy(p) THEN FALSE ELSE pend[p] \/ stb[p]]

Grant(p, stb, lck) ==
    /\ state = Idle
    /\ Wins(p, stb)
    /\ state' = Busy(p)
    /\ lock' = lck
    /\ sel_q' = sel(stb)
    /\ Latch(stb)

NoRequest(stb, lck) ==
    /\ state = Idle
    /\ \A p \in Port : ~Wants(p, stb)
    /\ state' = Idle
    /\ lock' = lck
    /\ sel_q' = sel(stb)
    /\ Latch(stb)

\* Fault: a locked transfer ends with its first acknowledge.
DoneIgnoresLock(p, lck, ack) == (lock[p] /\ ~lck[p]) \/ ack
\* End of a grant: lock release or, if not locked, the acknowledge.
Done(p, lck, ack) == IF lock[p] THEN ~lck[p] ELSE ack

Serve(p, stb, lck, ack) ==
    /\ state = Busy(p)
    /\ state' = IF Done(p, lck, ack) THEN Idle ELSE state
    /\ UNCHANGED lock
    /\ sel_q' = sel(stb)
    /\ Latch(stb)

SwitchClock(stb, lck, ack) ==
    \/ NoRequest(stb, lck)
    \/ \E p \in Port : Grant(p, stb, lck) \/ Serve(p, stb, lck, ack)
=============================================================================
