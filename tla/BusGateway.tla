----------------------------- MODULE BusGateway -----------------------------
(***************************************************************************)
(* rtl/core/astrarv32_bus.vhd, entity astrarv32_bus_gateway: the host port *)
(* is distributed to the address sections, and the bus monitor (the        *)
(* "keeper") ends an access that is not answered within the window of its  *)
(* section.  The inputs of a clock cycle are given by the composing module:*)
(*   stb, lck  the host's strobe and lock signals                          *)
(*   to        the section the host addresses, NoPort if there is none     *)
(*   ack       some section port acknowledges                              *)
(***************************************************************************)
EXTENDS Naturals

CONSTANTS Port,             \* the enabled section ports
          PORT_TMO          \* generics *_TMO: window in cycles, 0 = disabled

NoPort == "none"

VhdlNatural == 0 .. 2^30 - 1 + 2^30       \* up to 2^31 - 1

ASSUME GatewayAssumption == PORT_TMO \in [Port -> VhdlNatural] /\ NoPort \notin Port

VARIABLES state, lock, sel, \* the keeper's registers: lock and section of the
          cnt               \* access, cycles since its last acknowledge

keeper == <<state, lock, sel, cnt>>

\* The windows are extended to powers of two; the counter has one bit more
\* than the largest window needs.
index_size_f(n) == CHOOSE i \in 0 .. 31 : 2^i >= n /\ \A j \in 0 .. i - 1 : 2^j < n
Window(p) == 2^index_size_f(PORT_TMO[p])
CntSize == 2 * Window(CHOOSE p \in Port : \A q \in Port : Window(q) <= Window(p))

KeeperTypeOK == /\ state \in {"S_IDLE", "S_BUSY", "S_ERROR"}
                /\ lock \in BOOLEAN
                /\ sel \in Port \cup {NoPort}
                /\ cnt \in 0 .. CntSize - 1

KeeperInit == state = "S_IDLE" /\ lock = FALSE /\ sel = NoPort /\ cnt = 0

\* Fault: a disabled timeout fires.
tmo_fireDisabled == sel \in Port => (cnt \div Window(sel)) % 2 = 1
\* The window is over; at once if no section is selected at all.
tmo_fire == sel \in Port => PORT_TMO[sel] > 0 /\ (cnt \div Window(sel)) % 2 = 1

\* Outputs: response to the host, termination of external accesses.
bus_err == state = "S_ERROR"
term_o == state = "S_ERROR"
rsp_ack(ack) == state # "S_IDLE" /\ (ack \/ bus_err)

\* Fault: the counter is one value too long.
CountTooLong(ack) == cnt' = IF ack THEN 0 ELSE IF cnt = CntSize THEN 0 ELSE cnt + 1
\* Fault: the window covers the whole burst.
CountNoReset(ack) == cnt' = (cnt + 1) % CntSize
Count(ack) == cnt' = IF ack THEN 0 ELSE (cnt + 1) % CntSize

Accept(stb, lck, to) ==
    /\ state = "S_IDLE"
    /\ state' = IF stb THEN "S_BUSY" ELSE "S_IDLE"
    /\ lock' = lck /\ sel' = to /\ cnt' = 0

Timeout(ack) ==
    /\ state = "S_BUSY" /\ tmo_fire
    /\ state' = "S_ERROR"
    /\ Count(ack) /\ UNCHANGED <<lock, sel>>

\* Fault: a locked transfer is over with its first acknowledge.
FinishedEarly(lck, ack) == ack \/ (lock /\ ~lck)
Finished(lck, ack) == IF lock THEN ~lck ELSE ack
Monitor(lck, ack) ==
    /\ state = "S_BUSY" /\ ~tmo_fire
    /\ state' = IF Finished(lck, ack) THEN "S_IDLE" ELSE "S_BUSY"
    /\ Count(ack) /\ UNCHANGED <<lock, sel>>

Reject(lck) ==
    /\ state = "S_ERROR"
    /\ state' = IF lock /\ lck THEN "S_ERROR" ELSE "S_IDLE"
    /\ UNCHANGED <<lock, sel, cnt>>

KeeperClock(stb, lck, to, ack) ==
    \/ Accept(stb, lck, to)
    \/ Timeout(ack)
    \/ Monitor(lck, ack)
    \/ Reject(lck)
=============================================================================
