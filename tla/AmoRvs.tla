------------------------------- MODULE AmoRvs -------------------------------
(***************************************************************************)
(* rtl/core/astrarv32_bus.vhd, entity astrarv32_bus_amo_rvs: the single    *)
(* reservation set behind the load-reserved and store-conditional          *)
(* instructions of both cores.  Requests and responses are those of        *)
(* AmoRmw; instruction fetches, which it ignores, are left out.            *)
(***************************************************************************)

EXTENDS Integers

CONSTANT Granule(_)         \* the 64-byte block an address lies in

VARIABLES rsv,              \* the reservation: valid, core, address granule
          turn,             \* the core that may take over a reservation
          sc_pend_pass, sc_pend_fail

rvsVars == <<rsv, turn, sc_pend_pass, sc_pend_fail>>

Core == {0, 1}              \* meta(3): low bit of the hart ID

RvsTypeOK(Addr) == /\ rsv \in [set : BOOLEAN, id : Core, addr : {Granule(a) : a \in Addr}]
                   /\ turn \in Core
                   /\ sc_pend_pass \in BOOLEAN /\ sc_pend_fail \in BOOLEAN

RvsInit(a0) == /\ rsv = [set |-> FALSE, id |-> 0, addr |-> Granule(a0)]
               /\ turn = 0
               /\ sc_pend_pass = FALSE /\ sc_pend_fail = FALSE

lr(req) == req.op = "lr"
sc(req) == req.op = "sc"

lr_allow(req) == ~rsv.set \/ rsv.id = req.id \/ turn = req.id

sc_valid(req) == rsv.set /\ rsv.id = req.id /\ rsv.addr = Granule(req.a)

LoadReserved(req) ==
    /\ lr(req)
    /\ rsv' = IF lr_allow(req) THEN [set |-> TRUE, id |-> req.id, addr |-> Granule(req.a)]
              ELSE rsv
    /\ UNCHANGED turn

\* A success and a failure of the owning core clear the reservation.
StoreConditional(req) ==
    /\ sc(req)
    /\ rsv' = [rsv EXCEPT !.set = @ /\ ~(sc_valid(req) \/ rsv.id = req.id)]
    /\ turn' = IF sc_valid(req) THEN 1 - turn ELSE turn

\* Fault: only plain stores invalidate, not the writes of atomic operations.
OtherAccessPlain(req) ==
    /\ ~lr(req) /\ ~sc(req)
    /\ rsv' = [rsv EXCEPT !.set = @ /\ ~(req.op = "st" /\ Granule(req.a) = rsv.addr)]
    /\ UNCHANGED turn
OtherAccess(req) ==
    /\ ~lr(req) /\ ~sc(req)
    /\ rsv' = [rsv EXCEPT !.set = @ /\ ~(req.rw /\ Granule(req.a) = rsv.addr)]
    /\ UNCHANGED turn

ReservationStation(req) ==
    IF req.stb THEN LoadReserved(req) \/ StoreConditional(req) \/ OtherAccess(req)
               ELSE UNCHANGED <<rsv, turn>>

\* A store-conditional without reservation goes on as a read.
bus_request(req) == IF sc(req) /\ ~sc_valid(req)
                    THEN [req EXCEPT !.rw = FALSE, !.op = "ld"] ELSE req

\* Fault: the result of a failed store-conditional is not cleared.
sc_resultSticky(req, rsp) ==
    IF req.stb /\ sc(req)
    THEN IF sc_valid(req) THEN sc_pend_pass' = TRUE /\ UNCHANGED sc_pend_fail
                          ELSE sc_pend_fail' = TRUE /\ UNCHANGED sc_pend_pass
    ELSE UNCHANGED sc_pend_fail /\ sc_pend_pass' = (sc_pend_pass /\ ~rsp.ack)
sc_result(req, rsp) ==
    IF req.stb /\ sc(req)
    THEN IF sc_valid(req) THEN sc_pend_pass' = TRUE /\ UNCHANGED sc_pend_fail
                          ELSE sc_pend_fail' = TRUE /\ UNCHANGED sc_pend_pass
    ELSE IF rsp.ack THEN sc_pend_pass' = FALSE /\ sc_pend_fail' = FALSE
                    ELSE UNCHANGED <<sc_pend_pass, sc_pend_fail>>

response(rsp) ==
    [rsp EXCEPT !.data = IF sc_pend_fail THEN 1 ELSE IF sc_pend_pass THEN 0 ELSE @]

RvsClock(req, rsp) == ReservationStation(req) /\ sc_result(req, rsp)
=============================================================================
