----------------------------- MODULE SmpMemory -----------------------------
(***************************************************************************)
(* The data path of the processor complex in rtl/core/astrarv32_top.vhd:   *)
(* the load/store units of two cores meet in the complex arbiter (round    *)
(* robin), which meets the DMA in a second switch (CPU first); behind it   *)
(* the read-modify-write controller, the reservation set and the memory.   *)
(* Everything between the registers is combinational.  One step is one     *)
(* clock edge; ans says whether the memory answers in that cycle.          *)
(***************************************************************************)
EXTENDS AmoRmw, AmoRvs

CONSTANTS Addr, FirstAddr,  \* word addresses
          Programs,         \* the software: accesses [op, a, v] of each master
          ReadErr, WriteErr \* addresses that answer reads, writes with an error

Host == {"core0", "core1", "dma"}

Access == [op : AmoOp \cup {"ld", "st", "lr", "sc"}, a : Addr, v : Word]

ASSUME SmpAssumption == /\ XLEN \in 1 .. 32 /\ FirstAddr \in Addr
                        /\ ReadErr \subseteq Addr /\ WriteErr \subseteq Addr
                        /\ \A p \in Programs : \A h \in Host : p[h] \subseteq Access
                        /\ \A p \in Programs : \A r \in p["dma"] : r.op \in {"ld", "st"}

VARIABLES prog,             \* the software that runs
          cs_state, cs_lock, cs_sel_q, cs_pend,     \* complex arbiter
          ds_state, ds_lock, ds_sel_q, ds_pend,     \* DMA switch
          lsu,              \* [st, req] of each master
          dev,              \* access the memory has to answer
          mem, link, out    \* memory; ghosts: see AtomicMemory

csVars == <<cs_state, cs_lock, cs_sel_q, cs_pend>>
dsVars == <<ds_state, ds_lock, ds_sel_q, ds_pend>>
vars == <<prog, csVars, dsVars, rmwVars, rvsVars, lsu, dev, mem, link, out>>

cs == INSTANCE BusSwitch WITH ROUND_ROBIN_EN <- TRUE, state <- cs_state,
         lock <- cs_lock, sel_q <- cs_sel_q, pend <- cs_pend
ds == INSTANCE BusSwitch WITH ROUND_ROBIN_EN <- FALSE, state <- ds_state,
         lock <- ds_lock, sel_q <- ds_sel_q, pend <- ds_pend

AllRequests == UNION {p[h] : p \in Programs, h \in Host}

Atomic == INSTANCE AtomicMemory WITH Size <- 2^XLEN,
             Request <- AllRequests

\* The switches, the atomics and every host keep their ranges.
TypeOK == /\ cs!SwitchTypeOK /\ ds!SwitchTypeOK /\ RmwTypeOK /\ RvsTypeOK(Addr)
          /\ lsu \in [Host -> [st : {"idle", "armed", "wait"}, req : AllRequests \cup {Atomic!NoRequest}]]
          /\ dev \in [busy : BOOLEAN, a : Addr, v : Word, rw : BOOLEAN]
          /\ mem \in [Addr -> Word]

NoDev == [busy |-> FALSE, a |-> FirstAddr, v |-> 0, rw |-> FALSE]

Init == /\ prog \in Programs
        /\ cs!SwitchInit /\ ds!SwitchInit /\ RmwInit /\ RvsInit(FirstAddr)
        /\ lsu = [h \in Host |-> [st |-> "idle", req |-> Atomic!NoRequest]]
        /\ dev = NoDev
        /\ mem = [a \in Addr |-> 0]
        /\ link = [h \in Host |-> Atomic!NoLink]
        /\ out = [host |-> "dma", req |-> Atomic!NoRequest, res |-> 0]

-----------------------------------------------------------------------------
(* astrarv32_cpu_lsu.vhd: the address, data and lock registers are loaded  *)
(* a cycle before the strobe; a trap in between withdraws the access.  The *)
(* DMA's bus engine is a master without atomic operations.                 *)

Strobe(h, on) == on /\ lsu[h].st = "armed"
Lock(h) == lsu[h].st # "idle" /\ lsu[h].req.op \in AmoOp

\* The signals a master drives.
Drives(h, on) ==
    [stb |-> Strobe(h, on), lock |-> Lock(h), id |-> IF h = "core1" THEN 1 ELSE 0,
     op |-> lsu[h].req.op, a |-> lsu[h].req.a, v |-> lsu[h].req.v,
     rw |-> lsu[h].req.op \in {"st", "sc"}]

NoAccess == [st |-> "idle", req |-> Atomic!NoRequest]

\* The states a master may be in after the clock edge.
LsuNext(h, on, ack) ==
    CASE lsu[h].st = "idle"  -> {NoAccess} \cup {[st |-> "armed", req |-> r] : r \in prog[h]}
      [] lsu[h].st = "armed" -> {IF on THEN [lsu[h] EXCEPT !.st = "wait"] ELSE NoAccess}
      [] lsu[h].st = "wait"  -> {IF ack THEN NoAccess ELSE lsu[h]}

-----------------------------------------------------------------------------
(* The memory answers a strobe in a later cycle; an access to a faulty     *)
(* address has no effect and returns zero.                                 *)

Fails == dev.a \in (IF dev.rw THEN WriteErr ELSE ReadErr)
Answer(ans) == [ack |-> ans, err |-> ans /\ Fails,
                data |-> IF ans /\ ~dev.rw /\ ~Fails THEN mem[dev.a] ELSE 0]
Effect(ans) == ans /\ dev.rw /\ ~Fails

MemClock(req, ans) ==
    /\ dev' = IF req.stb THEN [busy |-> TRUE, a |-> req.a, v |-> req.v, rw |-> req.rw]
              ELSE IF ans THEN NoDev ELSE dev
    /\ mem' = IF Effect(ans) THEN [mem EXCEPT ![dev.a] = dev.v] ELSE mem

-----------------------------------------------------------------------------
(* Ghosts: the last access with the result its master has seen, and the block its last         *)
(* load-reserved covered as long as nobody wrote to it.                    *)

Observe(h, ack, rsp, ans) ==
    LET r      == lsu[h].req
        broken == IF Effect(ans) THEN Atomic!Broken(Granule(dev.a)) ELSE link
    IN  IF ack
        THEN /\ out' = [host |-> h, req |-> r,
                        res |-> IF rsp.err THEN Atomic!BusError
                                ELSE IF r.op = "st" THEN 0 ELSE rsp.data]
             /\ link' = IF r.op = "lr" /\ ~rsp.err THEN [broken EXCEPT ![h] = Granule(r.a)]
                        ELSE IF r.op = "sc" THEN [broken EXCEPT ![h] = Atomic!NoLink]
                        ELSE broken
        ELSE link' = broken /\ UNCHANGED out

-----------------------------------------------------------------------------
(* One clock edge: the requests travel from the masters to the memory, its *)
(* response back.  The masters in go send the strobe they are armed for.   *)

CoreAt(p) == IF p = "A" THEN "core0" ELSE "core1"

Cycle(go, ans) ==
    LET d    == [h \in Host |-> Drives(h, h \in go)]
        stb1 == [p \in cs!Port |-> d[CoreAt(p)].stb]
        lck1 == [p \in cs!Port |-> d[CoreAt(p)].lock]
        sys1 == [d[CoreAt(cs!sel(stb1))] EXCEPT !.stb = cs!x_stb(stb1)]
        stb2 == [p \in ds!Port |-> IF p = "A" THEN sys1.stb ELSE d["dma"].stb]
        lck2 == [p \in ds!Port |-> IF p = "A" THEN sys1.lock ELSE d["dma"].lock]
        sys2 == [(IF ds!sel(stb2) = "A" THEN sys1 ELSE d["dma"]) EXCEPT !.stb = ds!x_stb(stb2)]
        amo  == sys_req(sys2)
        rsp  == Answer(ans)
        ret  == core_rsp(response(rsp))
        ack1 == ds!AckTo("A", ret.ack)
        ack  == [h \in Host |-> CASE h = "core0" -> cs!AckTo("A", ack1)
                                  [] h = "core1" -> cs!AckTo("B", ack1)
                                  [] h = "dma"   -> ds!AckTo("B", ret.ack)]
        who  == {h \in Host : ack[h]}
    IN  /\ UNCHANGED prog
        /\ cs!SwitchClock(stb1, lck1, ack1)
        /\ ds!SwitchClock(stb2, lck2, ret.ack)
        /\ RmwClock(sys2, response(rsp))
        /\ RvsClock(amo, rsp)
        /\ MemClock(bus_request(amo), ans)
        /\ IF who = {} THEN Observe("dma", FALSE, ret, ans)
           ELSE \E h \in who : Observe(h, TRUE, ret, ans)
        /\ \E l0 \in LsuNext("core0", "core0" \in go, ack["core0"]),
              l1 \in LsuNext("core1", "core1" \in go, ack["core1"]),
              l2 \in LsuNext("dma", "dma" \in go, ack["dma"]) :
              lsu' = [core0 |-> l0, core1 |-> l1, dma |-> l2]

Step(ans) == \E go \in SUBSET {h \in Host : lsu[h].st = "armed"} : Cycle(go, ans)

Next == \E ans \in {FALSE, dev.busy} : Step(ans)

Spec == Init /\ [][Next]_vars

\* The memory answers.
FairSpec == Spec /\ WF_vars(Next) /\ WF_vars(dev.busy /\ Step(TRUE))

-----------------------------------------------------------------------------
\* The whole chain of arbiters and controllers is an atomic memory.
IsAtomic == Atomic!Spec

\* Between two accesses a valid reservation is backed by its core's last
\* load-reserved: nobody wrote to the block since.
ReservationSound ==
    (rsv.set /\ ~dev.busy /\ state = "S_IDLE") =>
        link[IF rsv.id = 0 THEN "core0" ELSE "core1"] = rsv.addr

\* An atomic operation whose read fails is reported as a bus error: the
\* error of the read itself is dropped and the write is trusted to fail too.
ReadErrorReported ==
    out.req.op \in AmoOp /\ out.req.a \in ReadErr => out.res = Atomic!BusError

\* Every access of a core is answered.
CoresServed == \A h \in {"core0", "core1"} : (lsu[h].st = "wait") ~> (lsu[h].st # "wait")

\* What a core is told of an atomic access is so: its reservation was intact,
\* and its read did not fail.
AtomicResultTrue == TypeOK /\ ReservationSound /\ ReadErrorReported
=============================================================================
