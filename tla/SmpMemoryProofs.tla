-------------------------- MODULE SmpMemoryProofs --------------------------
(***************************************************************************)
(* The arbiters, the atomics and the memory of SmpMemory implement the     *)
(* atomic memory, for every program of the two cores and the DMA.          *)
(***************************************************************************)
EXTENDS SmpMemory, TLAPS

Amo(h) == lsu[h].req.op \in AmoOp
Waits(h) == lsu[h].st = "wait"

\* The master whose access the DMA switch has let through, and its access.
Master == IF ds_state = ds!Busy("B") THEN "dma"
          ELSE IF cs_state = cs!Busy("B") THEN "core1" ELSE "core0"
Active == ds_state # ds!Idle /\ Waits(Master)
Job == lsu[Master].req

\* The values of all variables.
Typed == /\ TypeOK /\ prog \in Programs
         /\ DOMAIN link = Host
         /\ \A h \in Host : lsu[h].st # "idle" => lsu[h].req \in prog[h]

\* The complex arbiter holds a strobe exactly if its core waits and is not
\* served.  After an atomic operation it keeps the bus for one more cycle.
InnerSwitch ==
    \A p \in cs!Port :
        /\ cs_state # cs!Busy(p) => cs_pend[p] = Waits(CoreAt(p))
        /\ cs_state = cs!Busy(p) =>
             /\ cs_sel_q = p
             /\ Waits(CoreAt(p)) => cs_lock[p] = Amo(CoreAt(p))
             /\ ~Waits(CoreAt(p)) => /\ lsu[CoreAt(p)].st = "idle" /\ cs_lock[p]
                                     /\ ds_state = ds!Busy("A")

\* So does the DMA switch with the complex and the DMA.
OuterSwitch ==
    /\ ds_state # ds!Busy("A") => ds_pend["A"] = (cs_state # cs!Idle)
    /\ ds_state = ds!Busy("A") =>
         /\ cs_state # cs!Idle /\ ds_sel_q = "A"
         /\ \A p \in cs!Port : cs_state = cs!Busy(p) => ds_lock["A"] = cs_lock[p]
    /\ ds_state # ds!Busy("B") => ds_pend["B"] = Waits("dma")
    /\ ds_state = ds!Busy("B") => Waits("dma") /\ ds_sel_q = "B" /\ ~ds_lock["B"]

\* The controllers and the memory work on the access that was let through, and
\* on nothing else.
Service ==
    /\ ~Active => state = "S_IDLE" /\ ~dev.busy
    /\ Active /\ ~Amo(Master) =>
         /\ state = "S_IDLE" /\ dev.busy /\ dev.a = Job.a
         /\ dev.rw = (Job.op = "st" \/ sc_pend_pass) /\ (dev.rw => dev.v = Job.v)
    /\ Active /\ Amo(Master) =>
         /\ state # "S_IDLE" /\ cmd = Job.op /\ wdata = Job.v
         /\ dev.busy = (state \in {"S_READ_WAIT", "S_WRITE_WAIT"})
         /\ dev.busy => dev.a = Job.a /\ dev.rw = (state = "S_WRITE_WAIT")
         /\ state # "S_READ_WAIT" => Job.a \in ReadErr \/ rdata = mem[Job.a]
         /\ state = "S_WRITE" => alu_res = Alu
         /\ state = "S_WRITE_WAIT" => dev.v = Alu
    /\ sc_pend_pass => Active /\ Job.op = "sc"
    /\ sc_pend_fail = (Active /\ Job.op = "sc" /\ ~sc_pend_pass)

CoreOf(id) == IF id = 0 THEN "core0" ELSE "core1"

\* A reservation is backed by its core's last load-reserved, which may still be
\* under way; nobody is about to write to its block.
Reserved ==
    /\ rsv.set => \/ link[CoreOf(rsv.id)] = rsv.addr
                  \/ Active /\ Job.op = "lr" /\ Master = CoreOf(rsv.id)
    /\ rsv.set /\ Active /\ Job.op = "lr" /\ Master = CoreOf(rsv.id) => rsv.addr = Granule(Job.a)
    /\ rsv.set /\ dev.busy /\ dev.rw => rsv.addr # Granule(dev.a)
    /\ sc_pend_pass => link[Master] = Granule(Job.a)
    /\ Active /\ Job.op = "sc" => ~(rsv.set /\ CoreOf(rsv.id) = Master)

\* The inductive invariant.
Base == Typed /\ InnerSwitch /\ OuterSwitch /\ Service /\ Reserved
IInv == Base /\ ReadErrorReported

\* What the masters and the memory have to respect: a word that cannot be read
\* cannot be written (the error of an atomic operation's read is not looked
\* at), and there are no load-reserved of such words (the reservation is made
\* before the error is known).
Trusted == /\ ReadErr \subseteq WriteErr
           /\ \A p \in Programs : \A h \in Host : \A r \in p[h] : r.op = "lr" => r.a \notin ReadErr

-----------------------------------------------------------------------------
(* The signals of one clock edge.                                          *)

\* What master h asks for.
Ask(h, stb) == [stb |-> stb, lock |-> Lock(h), id |-> IF h = "core1" THEN 1 ELSE 0,
                op |-> lsu[h].req.op, a |-> lsu[h].req.a, v |-> lsu[h].req.v,
                rw |-> lsu[h].req.op \in {"st", "sc"}]

\* The strobes and locks at the complex arbiter and its choice, the same at the
\* DMA switch, and the request behind both.
Stb1(go) == [p \in cs!Port |-> CoreAt(p) \in go]
Lck1 == [p \in cs!Port |-> Lock(CoreAt(p))]
Sel1(go) == CoreAt(cs!sel(Stb1(go)))
X1(go) == cs!x_stb(Stb1(go))
Stb2(go) == [p \in ds!Port |-> IF p = "A" THEN X1(go) ELSE "dma" \in go]
Lck2(go) == [p \in ds!Port |-> Lock(IF p = "A" THEN Sel1(go) ELSE "dma")]
Sel(go) == IF ds!sel(Stb2(go)) = "A" THEN Sel1(go) ELSE "dma"
Sys(go) == Ask(Sel(go), ds!x_stb(Stb2(go)))

\* The response, and the acknowledge as each master sees it.
Ret(ans) == core_rsp(response(Answer(ans)))
Ack1(ans) == ds!AckTo("A", Ret(ans).ack)
Ack(h, ans) == CASE h = "core0" -> cs!AckTo("A", Ack1(ans))
                 [] h = "core1" -> cs!AckTo("B", Ack1(ans))
                 [] h = "dma"   -> ds!AckTo("B", Ret(ans).ack)

\* A step of the data path: the masters in go strobe, ans is the memory's answer.
Edge(go, ans) == /\ go \subseteq {h \in Host : lsu[h].st = "armed"}
                 /\ ans \in {FALSE, dev.busy}
                 /\ Cycle(go, ans)

\* Every step is a clock edge.
LEMMA StepIsEdge == Next => \E go, ans : Edge(go, ans)
BY DEF Next, Step, Edge

\* The parts of the step.
LEMMA Wires ==
    ASSUME Typed, NEW go, NEW ans, Edge(go, ans)
    PROVE  /\ prog' = prog
           /\ cs!SwitchClock(Stb1(go), Lck1, Ack1(ans))
           /\ ds!SwitchClock(Stb2(go), Lck2(go), Ret(ans).ack)
           /\ RmwClock(Sys(go), response(Answer(ans)))
           /\ RvsClock(sys_req(Sys(go)), Answer(ans))
           /\ MemClock(bus_request(sys_req(Sys(go))), ans)
           /\ IF \A h \in Host : ~Ack(h, ans) THEN Observe("dma", FALSE, Ret(ans), ans)
              ELSE \E h \in Host : Ack(h, ans) /\ Observe(h, TRUE, Ret(ans), ans)
           /\ \A h \in Host : lsu'[h] \in LsuNext(h, h \in go, Ack(h, ans))
           /\ DOMAIN lsu' = Host
<1> DEFINE d    == [h \in Host |-> Drives(h, h \in go)]
           stb1 == [p \in cs!Port |-> d[CoreAt(p)].stb]
           lck1 == [p \in cs!Port |-> d[CoreAt(p)].lock]
           sys1 == [d[CoreAt(cs!sel(stb1))] EXCEPT !.stb = cs!x_stb(stb1)]
           stb2 == [p \in ds!Port |-> IF p = "A" THEN sys1.stb ELSE d["dma"].stb]
           lck2 == [p \in ds!Port |-> IF p = "A" THEN sys1.lock ELSE d["dma"].lock]
           sys2 == [(IF ds!sel(stb2) = "A" THEN sys1 ELSE d["dma"]) EXCEPT !.stb = ds!x_stb(stb2)]
           ack  == [h \in Host |-> CASE h = "core0" -> cs!AckTo("A", Ack1(ans))
                                     [] h = "core1" -> cs!AckTo("B", Ack1(ans))
                                     [] h = "dma"   -> ds!AckTo("B", Ret(ans).ack)]
           who  == {h \in Host : ack[h]}
<1>1. /\ prog' = prog
      /\ cs!SwitchClock(stb1, lck1, Ack1(ans))
      /\ ds!SwitchClock(stb2, lck2, Ret(ans).ack)
      /\ RmwClock(sys2, response(Answer(ans)))
      /\ RvsClock(sys_req(sys2), Answer(ans))
      /\ MemClock(bus_request(sys_req(sys2)), ans)
      /\ IF who = {} THEN Observe("dma", FALSE, Ret(ans), ans)
         ELSE \E h \in who : Observe(h, TRUE, Ret(ans), ans)
      /\ \E l0 \in LsuNext("core0", "core0" \in go, ack["core0"]),
            l1 \in LsuNext("core1", "core1" \in go, ack["core1"]),
            l2 \in LsuNext("dma", "dma" \in go, ack["dma"]) :
            lsu' = [core0 |-> l0, core1 |-> l1, dma |-> l2]
  BY DEF Edge, Cycle, Ret, Ack1
<1>2. \A h \in Host : d[h] = Ask(h, h \in go)
  BY DEF Edge, Drives, Strobe, Ask
<1>3. \A p \in cs!Port : CoreAt(p) \in Host
  BY DEF cs!Port, CoreAt, Host
<1> HIDE DEF d
<1>4. stb1 = Stb1(go) /\ lck1 = Lck1
  <2>1. \A p \in cs!Port : d[CoreAt(p)].stb = (CoreAt(p) \in go) /\ d[CoreAt(p)].lock = Lock(CoreAt(p))
    <3> SUFFICES ASSUME NEW p \in cs!Port
                 PROVE  d[CoreAt(p)].stb = (CoreAt(p) \in go) /\ d[CoreAt(p)].lock = Lock(CoreAt(p))
      OBVIOUS
    <3>1. d[CoreAt(p)] = Ask(CoreAt(p), CoreAt(p) \in go)
      BY <1>2, <1>3
    <3> QED
      BY <3>1 DEF Ask
  <2> QED
    BY <2>1, Zenon DEF Stb1, Lck1
<1>5. cs!sel(stb1) \in cs!Port
  BY DEF cs!sel, cs!Port
<1> HIDE DEF stb1, lck1
<1>6. sys1 = Ask(Sel1(go), X1(go))
  <2>1. Sel1(go) \in Host /\ Sel1(go) = CoreAt(cs!sel(stb1)) /\ X1(go) = cs!x_stb(stb1)
    BY <1>3, <1>4, <1>5 DEF Sel1, X1
  <2>2. d[Sel1(go)] = Ask(Sel1(go), Sel1(go) \in go)
    BY <1>2, <2>1
  <2>3. sys1 = [d[Sel1(go)] EXCEPT !.stb = X1(go)]
    BY <2>1
  <2> QED
    BY <2>2, <2>3 DEF Ask
<1> HIDE DEF sys1
<1>7. stb2 = Stb2(go) /\ lck2 = Lck2(go)
  <2>1. d["dma"] = Ask("dma", "dma" \in go)
    BY <1>2 DEF Host
  <2> QED
    BY <1>6, <2>1 DEF Ask, Stb2, Lck2
<1> HIDE DEF stb2, lck2
<1>8. sys2 = Sys(go)
  <2>1. d["dma"] = Ask("dma", "dma" \in go)
    BY <1>2 DEF Host
  <2> QED
    BY <1>6, <1>7, <2>1 DEF Ask, Sys, Sel
<1> HIDE DEF sys2
<1>9. \A h \in Host : ack[h] = Ack(h, ans)
  BY DEF Ack
<1> HIDE DEF ack
<1>10. IF \A h \in Host : ~Ack(h, ans) THEN Observe("dma", FALSE, Ret(ans), ans)
       ELSE \E h \in Host : Ack(h, ans) /\ Observe(h, TRUE, Ret(ans), ans)
  <2>1. who = {} <=> \A h \in Host : ~Ack(h, ans)
    BY <1>9
  <2>2. \A h \in who : h \in Host /\ Ack(h, ans)
    BY <1>9
  <2> QED
    BY <1>1, <2>1, <2>2
<1>11. DOMAIN lsu' = Host /\ \A h \in Host : lsu'[h] \in LsuNext(h, h \in go, Ack(h, ans))
  <2>1. PICK l0 \in LsuNext("core0", "core0" \in go, ack["core0"]),
             l1 \in LsuNext("core1", "core1" \in go, ack["core1"]),
             l2 \in LsuNext("dma", "dma" \in go, ack["dma"]) :
             lsu' = [core0 |-> l0, core1 |-> l1, dma |-> l2]
    BY <1>1
  <2>2. DOMAIN lsu' = Host /\ lsu'["core0"] = l0 /\ lsu'["core1"] = l1 /\ lsu'["dma"] = l2
    BY <2>1 DEF Host
  <2>3. \A h \in Host : h = "core0" \/ h = "core1" \/ h = "dma"
    BY DEF Host
  <2>4. "core0" \in Host /\ "core1" \in Host /\ "dma" \in Host
    BY DEF Host
  <2> QED
    BY <1>9, <2>1, <2>2, <2>3, <2>4
<1> QED
  BY <1>1, <1>4, <1>7, <1>8, <1>10, <1>11

\* Every access is one of the program's, and fits the hardware.
LEMMA Accesses ==
    ASSUME Typed, NEW h \in Host, lsu[h].st # "idle"
    PROVE  /\ lsu[h].req \in prog[h] /\ lsu[h].req \in Access /\ lsu[h].req \in AllRequests
           /\ lsu[h].req.a \in Addr /\ lsu[h].req.v \in Word
           /\ lsu[h].req.op \in AmoOp \cup {"ld", "st", "lr", "sc"}
           /\ h = "dma" => lsu[h].req.op \in {"ld", "st"} /\ ~Amo(h)
<1>1. lsu[h].req \in prog[h] /\ prog \in Programs
  BY DEF Typed
<1>2. lsu[h].req \in Access
  BY <1>1, SmpAssumption
<1>3. lsu[h].req \in AllRequests
  BY <1>1 DEF AllRequests
<1>4. h = "dma" => lsu[h].req.op \in {"ld", "st"}
  BY <1>1, SmpAssumption
<1> QED
  BY <1>1, <1>2, <1>3, <1>4 DEF Access, Amo, AmoOp

\* What a clock edge does to a master.
LEMMA Moves ==
    ASSUME Typed, NEW go, NEW ans, Edge(go, ans), NEW h \in Host
    PROVE  /\ h \in go => lsu[h].st = "armed"
           /\ Waits(h)' = (h \in go \/ (Waits(h) /\ ~Ack(h, ans)))
           /\ Waits(h)' => lsu'[h].req = lsu[h].req
           /\ Waits(h) /\ Ack(h, ans) => lsu'[h].st = "idle"
           /\ lsu'[h].st # "idle" => lsu'[h].req \in prog[h]
           /\ lsu'[h] \in [st : {"idle", "armed", "wait"}, req : AllRequests \cup {Atomic!NoRequest}]
<1>1. h \in go => lsu[h].st = "armed"
  BY DEF Edge
<1>2. /\ lsu[h] \in [st : {"idle", "armed", "wait"}, req : AllRequests \cup {Atomic!NoRequest}]
      /\ lsu[h].st # "idle" => lsu[h].req \in prog[h]
      /\ prog \in Programs
  BY DEF Typed, TypeOK
<1>3. lsu'[h] \in LsuNext(h, h \in go, Ack(h, ans))
  BY Wires
<1>4. CASE lsu[h].st = "idle"
  <2>1. lsu'[h] = NoAccess \/ \E r \in prog[h] : lsu'[h] = [st |-> "armed", req |-> r]
    BY <1>3, <1>4 DEF LsuNext
  <2>2. \A r \in prog[h] : r \in AllRequests
    BY <1>2 DEF AllRequests
  <2>3. lsu'[h].st # "wait" /\ ~(h \in go) /\ ~Waits(h)
    <3>1. lsu'[h].st \in {"idle", "armed"}
      <4>1. NoAccess.st = "idle"
        BY DEF NoAccess
      <4>2. CASE lsu'[h] = NoAccess
        BY <4>1, <4>2
      <4>3. CASE \E r \in prog[h] : lsu'[h] = [st |-> "armed", req |-> r]
        BY <4>3
      <4> QED
        BY <2>1, <4>2, <4>3
    <3>2. ~(h \in go) /\ ~Waits(h)
      BY <1>1, <1>4 DEF Waits
    <3> QED
      BY <3>1, <3>2
  <2>4. CASE lsu'[h] = NoAccess
    BY <2>3, <2>4 DEF NoAccess, Waits
  <2>5. CASE \E r \in prog[h] : lsu'[h] = [st |-> "armed", req |-> r]
    BY <2>2, <2>3, <2>5 DEF Waits
  <2> QED
    BY <2>1, <2>4, <2>5
<1>5. CASE lsu[h].st = "armed"
  <2>1. lsu'[h] = IF h \in go THEN [lsu[h] EXCEPT !.st = "wait"] ELSE NoAccess
    BY <1>3, <1>5 DEF LsuNext
  <2> QED
    BY <1>1, <1>2, <1>5, <2>1 DEF NoAccess, Waits
<1>6. CASE lsu[h].st = "wait"
  <2>1. lsu'[h] = IF Ack(h, ans) THEN NoAccess ELSE lsu[h]
    BY <1>3, <1>6 DEF LsuNext
  <2> QED
    BY <1>1, <1>2, <1>6, <2>1 DEF NoAccess, Waits
<1> QED
  BY <1>2, <1>4, <1>5, <1>6

\* The acknowledge reaches the master whose access was let through.
LEMMA Acks ==
    ASSUME Base, NEW go, NEW ans, Edge(go, ans)
    PROVE  /\ ans \in BOOLEAN /\ Ret(ans).ack \in BOOLEAN /\ (ans => dev.busy /\ Active)
           /\ Ret(ans).ack = (ans /\ state \in {"S_IDLE", "S_WRITE_WAIT"})
           /\ \A h \in Host : Ack(h, ans) = (Ret(ans).ack /\ h = Master)
           /\ Ack1(ans) = (Ret(ans).ack /\ Master # "dma")
           /\ Master \in Host
<1> USE DEF Base
<1>1. ans \in BOOLEAN /\ (ans => dev.busy)
  BY DEF Edge, Typed, TypeOK
<1>2. ans => Active
  BY <1>1 DEF Service
<1>3. Ret(ans).ack = (ans /\ state \in {"S_IDLE", "S_WRITE_WAIT"})
  BY DEF Ret, core_rsp, response, Answer
<1>4. /\ ds_state \in {"S_IDLE", "S_BUSY_A", "S_BUSY_B"} /\ cs_state \in {"S_IDLE", "S_BUSY_A", "S_BUSY_B"}
      /\ ds_sel_q \in {"A", "B"} /\ cs_sel_q \in {"A", "B"}
  BY DEF Typed, TypeOK, cs!SwitchTypeOK, ds!SwitchTypeOK, cs!Busy, ds!Busy, cs!Idle, ds!Idle, cs!Port, ds!Port
<1>5. Master \in Host
  BY DEF Master, Host
<1>6. Ret(ans).ack => /\ ds_state = "S_BUSY_B" => ds_sel_q = "B"
                      /\ ds_state = "S_BUSY_A" => /\ ds_sel_q = "A"
                                                  /\ cs_state = "S_BUSY_A" => cs_sel_q = "A"
                                                  /\ cs_state = "S_BUSY_B" => cs_sel_q = "B"
                                                  /\ cs_state # "S_IDLE"
                      /\ ds_state # "S_IDLE"
  BY <1>2, <1>3 DEF InnerSwitch, OuterSwitch, Active, cs!Busy, ds!Busy, cs!Idle, ds!Idle, cs!Port
<1>7. Ack1(ans) = (Ret(ans).ack /\ Master # "dma")
  BY <1>1, <1>3, <1>4, <1>6 DEF Ack1, ds!AckTo, Master, ds!Busy, cs!Busy
<1>8. \A h \in Host : Ack(h, ans) = (Ret(ans).ack /\ h = Master)
  <2>1. Ack("core0", ans) = (Ret(ans).ack /\ "core0" = Master)
    BY <1>1, <1>3, <1>4, <1>6, <1>7 DEF Ack, cs!AckTo, Master, ds!Busy, cs!Busy
  <2>2. Ack("core1", ans) = (Ret(ans).ack /\ "core1" = Master)
    BY <1>1, <1>3, <1>4, <1>6, <1>7 DEF Ack, cs!AckTo, Master, ds!Busy, cs!Busy
  <2>3. Ack("dma", ans) = (Ret(ans).ack /\ "dma" = Master)
    BY <1>1, <1>3, <1>4, <1>6, <1>7 DEF Ack, ds!AckTo, Master, ds!Busy, cs!Busy
  <2> QED
    BY <2>1, <2>2, <2>3 DEF Host
<1> QED
  BY <1>1, <1>2, <1>3, <1>5, <1>7, <1>8

-----------------------------------------------------------------------------
(* The arbiters.                                                           *)

\* The complex arbiter in one clock edge.
LEMMA InnerMoves ==
    ASSUME Base, NEW go, NEW ans, Edge(go, ans)
    PROVE  /\ cs_state = cs!Idle /\ X1(go) =>
                \E p \in cs!Port : /\ cs_state' = cs!Busy(p) /\ Sel1(go) = CoreAt(p) /\ cs_sel_q' = p
                                   /\ cs_lock'[p] = Lock(CoreAt(p))
                                   /\ CoreAt(p) \in go \/ Waits(CoreAt(p))
           /\ cs_state = cs!Idle /\ ~X1(go) => cs_state' = cs!Idle
           /\ \A p \in cs!Port : cs_state = cs!Busy(p) =>
                /\ ~X1(go) /\ Sel1(go) = CoreAt(p) /\ cs_sel_q' = p /\ cs_lock' = cs_lock
                /\ ~cs_pend'[p]
                /\ cs_state' = IF ~Waits(CoreAt(p)) \/ (Ack(CoreAt(p), ans) /\ ~Amo(CoreAt(p)))
                               THEN cs!Idle ELSE cs!Busy(p)
           /\ \A p \in cs!Port : cs_state # cs!Busy(p) =>
                cs_pend'[p] = (cs_pend[p] \/ CoreAt(p) \in go)
           /\ cs!SwitchTypeOK'
<1> USE DEF Base
<1> DEFINE stb == Stb1(go)
           lck == Lck1
           ack == Ack1(ans)
<1>1. cs!SwitchClock(stb, lck, ack)
  BY Wires
<1>2. \A p \in cs!Port : stb[p] = (CoreAt(p) \in go) /\ lck[p] = Lock(CoreAt(p))
  BY DEF Stb1, Lck1
<1>3. stb \in [cs!Port -> BOOLEAN] /\ lck \in [cs!Port -> BOOLEAN] /\ ack \in BOOLEAN
  <2>1. stb \in [cs!Port -> BOOLEAN]
    BY DEF Stb1
  <2>2. \A h : Lock(h) \in BOOLEAN
    BY DEF Lock
  <2>3. lck \in [cs!Port -> BOOLEAN]
    BY <2>2 DEF Lck1
  <2>4. ack \in BOOLEAN
    BY Acks
  <2> QED
    BY <2>1, <2>3, <2>4
<1>4. cs!SwitchTypeOK
  BY DEF Typed, TypeOK
<1>5. \A p \in cs!Port : CoreAt(p) \in Host /\ CoreAt(p) # "dma" /\ p \in {"A", "B"}
  BY DEF CoreAt, Host, cs!Port
<1>6. \A p \in cs!Port : CoreAt(p) \in go => ~Waits(CoreAt(p)) /\ lsu[CoreAt(p)].st # "idle"
  BY <1>5 DEF Edge, Waits
<1> HIDE DEF stb, lck, ack
<1>7. Sel1(go) = CoreAt(cs!sel(stb)) /\ X1(go) = cs!x_stb(stb)
  BY DEF Sel1, X1, stb
<1>8. \A p \in cs!Port : cs_pend'[p] = IF cs_state = cs!Busy(p) THEN FALSE ELSE cs_pend[p] \/ stb[p]
  BY <1>1 DEF cs!SwitchClock, cs!NoRequest, cs!Grant, cs!Serve, cs!Latch
<1>9. cs!SwitchTypeOK'
  BY <1>1, <1>3, <1>4, <1>8 DEF cs!SwitchClock, cs!NoRequest, cs!Grant, cs!Serve, cs!Latch,
     cs!SwitchTypeOK, cs!Port, cs!Busy, cs!Idle, cs!sel
<1>10. CASE cs_state = cs!Idle
  <2>1. \A p \in cs!Port : cs_state # cs!Busy(p)
    BY <1>10 DEF cs!Port, cs!Busy, cs!Idle
  <2>2. CASE \E p \in cs!Port : cs!Wins(p, stb)
    <3>1. PICK p \in cs!Port : cs!Grant(p, stb, lck)
      BY <1>1, <1>10, <2>1, <2>2 DEF cs!SwitchClock, cs!Serve, cs!NoRequest, cs!Wins
    <3>2. cs!x_stb(stb) /\ cs!sel(stb) = p
      BY <1>10, <2>1, <2>2, <3>1 DEF cs!Grant, cs!x_stb, cs!sel, cs!Wins, cs!Other, cs!Port, cs!Prio, cs!Busy, cs!Idle
    <3>3. cs_state' = cs!Busy(p) /\ cs_lock' = lck /\ cs_sel_q' = p /\ (stb[p] \/ cs_pend[p])
      BY <3>1, <3>2 DEF cs!Grant, cs!Wins, cs!Wants
    <3>4. cs_pend[p] = Waits(CoreAt(p))
      BY <2>1 DEF InnerSwitch
    <3> QED
      BY <1>2, <1>5, <1>7, <1>8, <1>9, <1>10, <2>1, <3>2, <3>3, <3>4
  <2>3. CASE ~\E p \in cs!Port : cs!Wins(p, stb)
    <3>1. ~cs!x_stb(stb)
      BY <1>10, <2>3 DEF cs!x_stb
    <3>2. cs_state' = cs!Idle
      BY <1>1, <1>10, <2>1, <2>3 DEF cs!SwitchClock, cs!Serve, cs!Grant, cs!NoRequest
    <3> QED
      BY <1>2, <1>7, <1>8, <1>9, <1>10, <2>1, <3>1, <3>2
  <2> QED
    BY <2>2, <2>3
<1>11. ASSUME NEW p \in cs!Port, cs_state = cs!Busy(p)
       PROVE  /\ ~X1(go) /\ Sel1(go) = CoreAt(p) /\ cs_sel_q' = p /\ cs_lock' = cs_lock
              /\ cs_state' = IF ~Waits(CoreAt(p)) \/ (Ack(CoreAt(p), ans) /\ ~Amo(CoreAt(p)))
                             THEN cs!Idle ELSE cs!Busy(p)
  <2>1. cs_state # cs!Idle /\ \A x \in cs!Port : cs_state = cs!Busy(x) => x = p
    BY <1>11 DEF cs!Port, cs!Busy, cs!Idle
  <2>2. cs!Serve(p, stb, lck, ack)
    BY <1>1, <2>1 DEF cs!SwitchClock, cs!NoRequest, cs!Grant, cs!Serve
  <2>3. cs!sel(stb) = p /\ cs!x_stb(stb) = stb[p]
    BY <1>5, <1>11, <2>1 DEF cs!sel, cs!x_stb, cs!Port, cs!Busy, cs!Idle
  <2>4. /\ Waits(CoreAt(p)) => cs_lock[p] = Amo(CoreAt(p))
        /\ ~Waits(CoreAt(p)) => lsu[CoreAt(p)].st = "idle" /\ cs_lock[p]
    BY <1>11 DEF InnerSwitch
  <2>5. ~stb[p]
    BY <1>2, <1>6, <2>4
  <2>6. ack <=> Ack(CoreAt(p), ans) \/ (Ret(ans).ack /\ Master # "dma" /\ Master # CoreAt(p))
    BY <1>5, Acks DEF ack
  <2>7. Ret(ans).ack /\ Master # "dma" => Master = CoreAt(p)
    <3>1. Ret(ans).ack => Active
      BY Acks
    <3> QED
      BY <1>5, <1>11, <3>1 DEF Master, CoreAt, cs!Busy
  <2>8. cs!Done(p, lck, ack) <=> ~Waits(CoreAt(p)) \/ (Ack(CoreAt(p), ans) /\ ~Amo(CoreAt(p)))
    <3>1. lck[p] = (lsu[CoreAt(p)].st # "idle" /\ Amo(CoreAt(p)))
      BY <1>2 DEF Lock, Amo
    <3>2. Waits(CoreAt(p)) => lsu[CoreAt(p)].st # "idle"
      BY DEF Waits
    <3> QED
      BY <2>4, <2>6, <2>7, <3>1, <3>2 DEF cs!Done
  <2> QED
    BY <1>7, <2>1, <2>2, <2>3, <2>5, <2>8, <1>11 DEF cs!Serve
<1>12. cs_state = cs!Idle \/ \E p \in cs!Port : cs_state = cs!Busy(p)
  BY <1>4 DEF cs!SwitchTypeOK
<1> QED
  BY <1>2, <1>8, <1>9, <1>10, <1>11, <1>12

\* The DMA switch in one clock edge.
LEMMA OuterMoves ==
    ASSUME Base, NEW go, NEW ans, Edge(go, ans)
    PROVE  /\ ds_state = ds!Idle /\ (X1(go) \/ cs_state # cs!Idle) =>
                /\ ds_state' = ds!Busy("A") /\ Sys(go).stb /\ Sel(go) = Sel1(go) /\ ds_sel_q' = "A"
                /\ ds_lock'["A"] = Lock(Sel1(go))
           /\ ds_state = ds!Idle /\ ~(X1(go) \/ cs_state # cs!Idle) /\ ("dma" \in go \/ Waits("dma")) =>
                /\ ds_state' = ds!Busy("B") /\ Sys(go).stb /\ Sel(go) = "dma" /\ ds_sel_q' = "B"
                /\ ~ds_lock'["B"]
           /\ ds_state = ds!Idle /\ ~(X1(go) \/ cs_state # cs!Idle) /\ ~("dma" \in go \/ Waits("dma")) =>
                ds_state' = ds!Idle /\ ~Sys(go).stb
           /\ ds_state = ds!Busy("A") =>
                /\ ~Sys(go).stb /\ Sel(go) = Sel1(go) /\ ds_sel_q' = "A" /\ ds_lock' = ds_lock
                /\ ~ds_pend'["A"]
                /\ ds_state' = IF ~Waits(Sel1(go)) \/ (Ret(ans).ack /\ ~Amo(Sel1(go)))
                               THEN ds!Idle ELSE ds!Busy("A")
           /\ ds_state = ds!Busy("B") =>
                /\ ~Sys(go).stb /\ Sel(go) = "dma" /\ ds_sel_q' = "B" /\ ds_lock' = ds_lock
                /\ ~ds_pend'["B"]
                /\ ds_state' = IF Ret(ans).ack THEN ds!Idle ELSE ds!Busy("B")
           /\ ds_state # ds!Busy("A") => ds_pend'["A"] = (ds_pend["A"] \/ X1(go))
           /\ ds_state # ds!Busy("B") => ds_pend'["B"] = (ds_pend["B"] \/ "dma" \in go)
           /\ ds!SwitchTypeOK'
<1> USE DEF Base
<1> DEFINE stb == Stb2(go)
           lck == Lck2(go)
           ack == Ret(ans).ack
<1>1. ds!SwitchClock(stb, lck, ack)
  BY Wires
<1>2. "A" \in ds!Port /\ "B" \in ds!Port /\ \A p \in ds!Port : p = "A" \/ p = "B"
  BY DEF ds!Port
<1>3. X1(go) \in BOOLEAN
  <2>1. CASE cs_state = cs!Idle
    BY <2>1 DEF X1, cs!x_stb
  <2>2. CASE cs_state # cs!Idle
    <3>1. cs!sel(Stb1(go)) \in cs!Port
      BY DEF cs!sel, cs!Port
    <3>2. X1(go) = (CoreAt(cs!sel(Stb1(go))) \in go)
      BY <2>2, <3>1 DEF X1, cs!x_stb, Stb1
    <3> QED
      BY <3>2
  <2> QED
    BY <2>1, <2>2
<1>4. /\ stb["A"] = X1(go) /\ stb["B"] = ("dma" \in go)
      /\ lck["A"] = Lock(Sel1(go)) /\ lck["B"] = Lock("dma")
  BY <1>2 DEF Stb2, Lck2
<1>5. stb \in [ds!Port -> BOOLEAN] /\ lck \in [ds!Port -> BOOLEAN] /\ ack \in BOOLEAN
  <2>1. stb \in [ds!Port -> BOOLEAN]
    <3>1. \A p \in ds!Port : (IF p = "A" THEN X1(go) ELSE "dma" \in go) \in BOOLEAN
      <4>1. ("dma" \in go) \in BOOLEAN
        OBVIOUS
      <4>2. \A p \in ds!Port : p = "A" => (IF p = "A" THEN X1(go) ELSE "dma" \in go) = X1(go)
        OBVIOUS
      <4>3. \A p \in ds!Port : p # "A" => (IF p = "A" THEN X1(go) ELSE "dma" \in go) = ("dma" \in go)
        OBVIOUS
      <4> QED
        BY <1>3, <4>1, <4>2, <4>3, Zenon
    <3> QED
      BY <3>1 DEF Stb2
  <2>2. \A h : Lock(h) \in BOOLEAN
    BY DEF Lock
  <2>3. lck \in [ds!Port -> BOOLEAN]
    BY <2>2 DEF Lck2
  <2> QED
    BY <2>1, <2>3, Acks
<1>6. ds!SwitchTypeOK
  BY DEF Typed, TypeOK
<1>7. Sys(go).stb = ds!x_stb(stb) /\ Sel(go) = IF ds!sel(stb) = "A" THEN Sel1(go) ELSE "dma"
  BY DEF Sys, Ask, Sel
<1>8. /\ ~Lock("dma")
      /\ Waits("dma") => ~("dma" \in go)
  <2>1. "dma" \in Host
    BY DEF Host
  <2> QED
    BY <2>1, Accesses DEF Lock, Amo, Edge, Waits
<1> HIDE DEF stb, lck, ack
<1>9. \A p \in ds!Port : ds_pend'[p] = IF ds_state = ds!Busy(p) THEN FALSE ELSE ds_pend[p] \/ stb[p]
  BY <1>1 DEF ds!SwitchClock, ds!NoRequest, ds!Grant, ds!Serve, ds!Latch
<1>10. ds!SwitchTypeOK'
  BY <1>1, <1>5, <1>6, <1>9 DEF ds!SwitchClock, ds!NoRequest, ds!Grant, ds!Serve, ds!Latch,
     ds!SwitchTypeOK, ds!Port, ds!Busy, ds!Idle, ds!sel
<1>11. CASE ds_state = ds!Idle
  <2>1. \A p \in ds!Port : ds_state # ds!Busy(p)
    BY <1>11 DEF ds!Port, ds!Busy, ds!Idle
  <2>2. ds_pend["A"] = (cs_state # cs!Idle) /\ ds_pend["B"] = Waits("dma")
    BY <1>2, <2>1 DEF OuterSwitch
  <2>3. /\ ds!Wins("A", stb) <=> X1(go) \/ cs_state # cs!Idle
        /\ ds!Wins("B", stb) <=> ~(X1(go) \/ cs_state # cs!Idle) /\ ("dma" \in go \/ Waits("dma"))
    BY <1>4, <2>2 DEF ds!Wins, ds!Wants, ds!Other, ds!Prio
  <2>4. CASE \E p \in ds!Port : ds!Wins(p, stb)
    <3>1. PICK p \in ds!Port : ds!Grant(p, stb, lck)
      BY <1>1, <1>11, <2>1, <2>4 DEF ds!SwitchClock, ds!Serve, ds!NoRequest, ds!Wins
    <3>2. ds!x_stb(stb) /\ ds!sel(stb) = p
      BY <1>11, <2>1, <2>3, <2>4, <3>1 DEF ds!Grant, ds!x_stb, ds!sel, ds!Port, ds!Busy, ds!Idle
    <3>3. ds_state' = ds!Busy(p) /\ ds_lock' = lck /\ ds_sel_q' = p /\ ds!Wins(p, stb)
      BY <3>1, <3>2 DEF ds!Grant
    <3> QED
      BY <1>2, <1>4, <1>7, <1>8, <1>9, <1>10, <1>11, <2>1, <2>3, <3>2, <3>3
  <2>5. CASE ~\E p \in ds!Port : ds!Wins(p, stb)
    <3>1. ~ds!x_stb(stb)
      BY <1>11, <2>5 DEF ds!x_stb
    <3>2. ds_state' = ds!Idle
      BY <1>1, <1>11, <2>1, <2>5 DEF ds!SwitchClock, ds!Serve, ds!Grant, ds!NoRequest
    <3> QED
      BY <1>2, <1>4, <1>7, <1>9, <1>10, <1>11, <2>1, <2>3, <2>5, <3>1, <3>2
  <2> QED
    BY <2>4, <2>5
<1>12. ASSUME NEW p \in ds!Port, ds_state = ds!Busy(p)
       PROVE  /\ ds!sel(stb) = p /\ ds!x_stb(stb) = stb[p] /\ ds_sel_q' = p /\ ds_lock' = ds_lock
              /\ ds_state' = IF ds!Done(p, lck, ack) THEN ds!Idle ELSE ds!Busy(p)
              /\ ds_state # ds!Idle /\ \A x \in ds!Port : ds_state = ds!Busy(x) => x = p
  <2>1. ds_state # ds!Idle /\ \A x \in ds!Port : ds_state = ds!Busy(x) => x = p
    BY <1>12 DEF ds!Port, ds!Busy, ds!Idle
  <2>2. ds!Serve(p, stb, lck, ack)
    BY <1>1, <2>1 DEF ds!SwitchClock, ds!NoRequest, ds!Grant, ds!Serve
  <2>3. ds!sel(stb) = p /\ ds!x_stb(stb) = stb[p]
    BY <1>12, <2>1 DEF ds!sel, ds!x_stb, ds!Port, ds!Busy, ds!Idle
  <2> QED
    BY <1>12, <2>1, <2>2, <2>3 DEF ds!Serve
<1>13. CASE ds_state = ds!Busy("A")
  <2>1. /\ ds!sel(stb) = "A" /\ ds!x_stb(stb) = stb["A"] /\ ds_sel_q' = "A" /\ ds_lock' = ds_lock
        /\ ds_state' = IF ds!Done("A", lck, ack) THEN ds!Idle ELSE ds!Busy("A")
        /\ ds_state # ds!Idle /\ ds_state # ds!Busy("B")
    BY <1>2, <1>12, <1>13 DEF ds!Busy, ds!Idle
  <2>2. PICK p \in cs!Port : cs_state = cs!Busy(p)
    BY <1>13 DEF OuterSwitch, Typed, TypeOK, cs!SwitchTypeOK
  <2>3. ~X1(go) /\ Sel1(go) = CoreAt(p)
    BY <2>2, InnerMoves
  <2>4. ds_lock["A"] = cs_lock[p]
    BY <1>13, <2>2 DEF OuterSwitch
  <2>5. /\ Waits(CoreAt(p)) => cs_lock[p] = Amo(CoreAt(p))
        /\ ~Waits(CoreAt(p)) => lsu[CoreAt(p)].st = "idle" /\ cs_lock[p]
    BY <2>2 DEF InnerSwitch
  <2>6. ds!Done("A", lck, ack) <=> ~Waits(Sel1(go)) \/ (ack /\ ~Amo(Sel1(go)))
    <3>1. lck["A"] = (lsu[Sel1(go)].st # "idle" /\ Amo(Sel1(go)))
      BY <1>4 DEF Lock, Amo
    <3>2. Waits(Sel1(go)) => lsu[Sel1(go)].st # "idle"
      BY DEF Waits
    <3> QED
      BY <1>5, <2>3, <2>4, <2>5, <3>1, <3>2 DEF ds!Done
  <2> QED
    BY <1>2, <1>4, <1>7, <1>9, <1>10, <1>13, <2>1, <2>3, <2>6 DEF ack
<1>14. CASE ds_state = ds!Busy("B")
  <2>1. /\ ds!sel(stb) = "B" /\ ds!x_stb(stb) = stb["B"] /\ ds_sel_q' = "B" /\ ds_lock' = ds_lock
        /\ ds_state' = IF ds!Done("B", lck, ack) THEN ds!Idle ELSE ds!Busy("B")
        /\ ds_state # ds!Idle /\ ds_state # ds!Busy("A")
    BY <1>2, <1>12, <1>14 DEF ds!Busy, ds!Idle
  <2>2. Waits("dma") /\ ~ds_lock["B"]
    BY <1>14 DEF OuterSwitch
  <2>3. ds!Done("B", lck, ack) <=> ack
    BY <2>2 DEF ds!Done
  <2> QED
    BY <1>2, <1>4, <1>7, <1>8, <1>9, <1>10, <1>14, <2>1, <2>2, <2>3 DEF ack
<1>15. ds_state = ds!Idle \/ ds_state = ds!Busy("A") \/ ds_state = ds!Busy("B")
  BY <1>2, <1>6 DEF ds!SwitchTypeOK
<1> QED
  BY <1>11, <1>13, <1>14, <1>15

\* The states of the arbiters that go with a master and with an acknowledge.
LEMMA Routes ==
    ASSUME Base, NEW go, NEW ans, Edge(go, ans)
    PROVE  /\ cs_state = cs!Idle \/ \E p \in cs!Port : cs_state = cs!Busy(p)
           /\ ds_state = ds!Idle \/ ds_state = ds!Busy("A") \/ ds_state = ds!Busy("B")
           /\ ds!Idle # ds!Busy("A") /\ ds!Idle # ds!Busy("B") /\ ds!Busy("A") # ds!Busy("B")
           /\ \A p \in cs!Port : /\ cs!Idle # cs!Busy(p) /\ CoreAt(p) \in Host /\ CoreAt(p) # "dma"
                                 /\ \A q \in cs!Port : cs!Busy(p) = cs!Busy(q) => p = q
           /\ ds_state = ds!Busy("B") => Master = "dma"
           /\ \A p \in cs!Port : ds_state = ds!Busy("A") /\ cs_state = cs!Busy(p) => Master = CoreAt(p)
           /\ Ret(ans).ack => Active
           /\ \A p \in cs!Port : Ack(CoreAt(p), ans) <=>
                  Ret(ans).ack /\ cs_state = cs!Busy(p) /\ ds_state = ds!Busy("A")
           /\ Ack("dma", ans) <=> Ret(ans).ack /\ ds_state = ds!Busy("B")
<1> USE DEF Base
<1>1. /\ cs_state = cs!Idle \/ \E p \in cs!Port : cs_state = cs!Busy(p)
      /\ ds_state = ds!Idle \/ ds_state = ds!Busy("A") \/ ds_state = ds!Busy("B")
  BY DEF Typed, TypeOK, cs!SwitchTypeOK, ds!SwitchTypeOK, ds!Port
<1>2. /\ ds!Idle # ds!Busy("A") /\ ds!Idle # ds!Busy("B") /\ ds!Busy("A") # ds!Busy("B")
      /\ \A p \in cs!Port : /\ cs!Idle # cs!Busy(p) /\ CoreAt(p) \in Host /\ CoreAt(p) # "dma"
                            /\ \A q \in cs!Port : cs!Busy(p) = cs!Busy(q) => p = q
  BY DEF ds!Idle, ds!Busy, cs!Idle, cs!Busy, cs!Port, CoreAt, Host
<1>3. /\ ds_state = ds!Busy("B") => Master = "dma"
      /\ \A p \in cs!Port : ds_state = ds!Busy("A") /\ cs_state = cs!Busy(p) => Master = CoreAt(p)
      /\ Master = "dma" => ds_state = ds!Busy("B")
  BY DEF Master, ds!Busy, cs!Busy, cs!Port, CoreAt
<1>4. Ret(ans).ack => Active
  BY Acks
<1>5. Active => ds_state = ds!Busy("B") \/ (ds_state = ds!Busy("A") /\ cs_state # cs!Idle)
  BY <1>1 DEF Active, OuterSwitch
<1>6. \A p \in cs!Port : Active /\ Master = CoreAt(p) =>
          cs_state = cs!Busy(p) /\ ds_state = ds!Busy("A")
  <2> SUFFICES ASSUME NEW p \in cs!Port, Active, Master = CoreAt(p)
               PROVE  cs_state = cs!Busy(p) /\ ds_state = ds!Busy("A")
    OBVIOUS
  <2>1. ds_state = ds!Busy("A")
    BY <1>2, <1>3, <1>5
  <2>2. PICK q \in cs!Port : cs_state = cs!Busy(q)
    BY <1>1, <1>5, <1>2, <2>1
  <2>3. CoreAt(p) = CoreAt(q)
    BY <1>3, <2>1, <2>2
  <2>4. p = q
    BY <2>3 DEF cs!Port, CoreAt
  <2> QED
    BY <2>1, <2>2, <2>4
<1>7. \A h \in Host : Ack(h, ans) = (Ret(ans).ack /\ h = Master)
  BY Acks
<1>8. "dma" \in Host
  BY DEF Host
<1> HIDE DEF Base
<1> QED
  BY <1>1, <1>2, <1>3, <1>4, <1>6, <1>7, <1>8

\* What the two arbiters let through.
LEMMA Arbiter ==
    ASSUME Base, NEW go, NEW ans, Edge(go, ans)
    PROVE  /\ Sys(go).stb => /\ ~Active /\ Sel(go) \in Host
                             /\ Sel(go) \in go \/ Waits(Sel(go))
                             /\ Active' /\ Master' = Sel(go)
                             /\ lsu'[Sel(go)].req = lsu[Sel(go)].req
           /\ Active => ~Sys(go).stb /\ Sel(go) = Master
           /\ Active /\ ~Ret(ans).ack => Active' /\ Master' = Master /\ lsu'[Master].req = Job
           /\ Active /\ Ret(ans).ack => ~Active'
           /\ ~Active /\ ~Sys(go).stb => ~Active'
<1>1. \A h \in Host : /\ Waits(h)' = (h \in go \/ (Waits(h) /\ ~Ack(h, ans)))
                      /\ Waits(h)' => lsu'[h].req = lsu[h].req
                      /\ h \in go => ~Waits(h) /\ lsu[h].st # "idle"
  BY Moves DEF Base, Waits
<1>2. \A p \in cs!Port : cs_state' = cs!Busy(p) /\ ds_state' = ds!Busy("A") => Master' = CoreAt(p)
  BY DEF Master, ds!Busy, cs!Busy, cs!Port, CoreAt
<1>3. ds_state' = ds!Busy("B") => Master' = "dma"
  BY DEF Master
<1>4. Active' = (ds_state' # ds!Idle /\ Waits(Master)')
  BY DEF Active, ds!Idle
<1>5. "dma" \in Host
  BY DEF Host
<1>6. \A p \in cs!Port : cs_state = cs!Busy(p) /\ ~Waits(CoreAt(p)) =>
          ds_state = ds!Busy("A") /\ lsu[CoreAt(p)].st = "idle"
  BY DEF Base, InnerSwitch
<1>7. ds_state = ds!Busy("A") => cs_state # cs!Idle
  BY DEF Base, OuterSwitch
<1>8. CASE ds_state = ds!Idle
  <2>1. ~Active /\ ~Ret(ans).ack
    BY <1>8, Routes DEF Active
  <2>2. CASE X1(go) \/ cs_state # cs!Idle
    <3>1. PICK p \in cs!Port : /\ cs_state' = cs!Busy(p) /\ Sel1(go) = CoreAt(p)
                               /\ CoreAt(p) \in go \/ Waits(CoreAt(p))
      <4>1. CASE cs_state = cs!Idle
        BY <2>2, <4>1, InnerMoves
      <4>2. CASE cs_state # cs!Idle
        <5>1. PICK p \in cs!Port : cs_state = cs!Busy(p)
          BY <4>2, Routes
        <5>2. Waits(CoreAt(p)) /\ ~Ack(CoreAt(p), ans)
          BY <1>6, <1>8, <2>1, <5>1, Routes
        <5> QED
          BY <5>1, <5>2, InnerMoves
      <4> QED
        BY <4>1, <4>2
    <3>2. Sel(go) = CoreAt(p) /\ ds_state' = ds!Busy("A") /\ Sys(go).stb
      BY <1>8, <2>2, <3>1, OuterMoves
    <3>3. CoreAt(p) \in Host /\ ~Ack(CoreAt(p), ans) /\ ds!Busy("A") # ds!Idle
      BY <2>1, Routes
    <3>4. Waits(CoreAt(p))' /\ lsu'[CoreAt(p)].req = lsu[CoreAt(p)].req
      BY <1>1, <3>1, <3>3
    <3>5. Master' = CoreAt(p)
      BY <1>2, <3>1, <3>2
    <3>6. Waits(Master)'
      BY <3>4, <3>5 DEF Waits
    <3> QED
      BY <1>4, <2>1, <3>1, <3>2, <3>3, <3>4, <3>5, <3>6
  <2>3. CASE ~(X1(go) \/ cs_state # cs!Idle) /\ ("dma" \in go \/ Waits("dma"))
    <3>1. ds_state' = ds!Busy("B") /\ Sys(go).stb /\ Sel(go) = "dma"
      BY <1>8, <2>3, OuterMoves
    <3>2. ~Ack("dma", ans) /\ ds!Busy("B") # ds!Idle
      BY <2>1, Routes
    <3>3. Waits("dma")' /\ lsu'["dma"].req = lsu["dma"].req
      BY <1>1, <1>5, <2>3, <3>2
    <3>4. Master' = "dma"
      BY <1>3, <3>1
    <3>5. Waits(Master)'
      BY <3>3, <3>4 DEF Waits
    <3> QED
      BY <1>4, <1>5, <2>1, <2>3, <3>1, <3>2, <3>3, <3>4, <3>5
  <2>4. CASE ~(X1(go) \/ cs_state # cs!Idle) /\ ~("dma" \in go \/ Waits("dma"))
    BY <1>4, <1>8, <2>1, <2>4, OuterMoves
  <2> QED
    BY <2>2, <2>3, <2>4
<1>9. CASE ds_state = ds!Busy("A")
  <2>1. PICK p \in cs!Port : cs_state = cs!Busy(p)
    BY <1>7, <1>9, Routes
  <2>2. /\ Sel1(go) = CoreAt(p)
        /\ cs_state' = IF ~Waits(CoreAt(p)) \/ (Ack(CoreAt(p), ans) /\ ~Amo(CoreAt(p)))
                       THEN cs!Idle ELSE cs!Busy(p)
    BY <2>1, InnerMoves
  <2>3. /\ ~Sys(go).stb /\ Sel(go) = CoreAt(p)
        /\ ds_state' = IF ~Waits(CoreAt(p)) \/ (Ret(ans).ack /\ ~Amo(CoreAt(p)))
                       THEN ds!Idle ELSE ds!Busy("A")
    BY <1>9, <2>2, OuterMoves
  <2>4. Master = CoreAt(p) /\ (Ack(CoreAt(p), ans) <=> Ret(ans).ack)
    BY <1>9, <2>1, Routes
  <2>5. Active <=> Waits(CoreAt(p))
    BY <1>9, <2>4, Routes DEF Active
  <2>6. CASE ~Waits(CoreAt(p))
    BY <1>4, <2>3, <2>4, <2>5, <2>6
  <2>7. CASE Waits(CoreAt(p)) /\ ~Ret(ans).ack
    <3>1. cs_state' = cs!Busy(p) /\ ds_state' = ds!Busy("A")
      BY <2>2, <2>3, <2>4, <2>7
    <3>2. Master' = CoreAt(p)
      BY <1>2, <3>1
    <3>3. Waits(CoreAt(p))' /\ lsu'[CoreAt(p)].req = lsu[CoreAt(p)].req
      BY <1>1, <2>4, <2>7, Routes
    <3>4. Waits(Master)' /\ lsu'[Master].req = Job
      BY <2>4, <3>2, <3>3 DEF Waits, Job
    <3> QED
      BY <1>4, <2>3, <2>4, <2>5, <2>7, <3>1, <3>2, <3>4, Routes
  <2>8. CASE Waits(CoreAt(p)) /\ Ret(ans).ack
    <3>1. ~Waits(CoreAt(p))'
      BY <1>1, <2>4, <2>8, Routes
    <3>2. ~Active'
      <4>1. CASE Amo(CoreAt(p))
        <5>1. Master' = CoreAt(p)
          BY <1>2, <2>2, <2>3, <2>8, <4>1
        <5>2. ~Waits(Master)'
          BY <3>1, <5>1 DEF Waits
        <5> QED
          BY <1>4, <5>2
      <4>2. CASE ~Amo(CoreAt(p))
        BY <1>4, <2>3, <2>8, <4>2
      <4> QED
        BY <4>1, <4>2
    <3> QED
      BY <2>3, <2>4, <2>5, <2>8, <3>2
  <2> QED
    BY <2>6, <2>7, <2>8
<1>10. CASE ds_state = ds!Busy("B")
  <2>1. Waits("dma") /\ Master = "dma" /\ (Ack("dma", ans) <=> Ret(ans).ack)
    BY <1>10, Routes DEF Base, OuterSwitch
  <2>2. Active
    BY <1>10, <2>1, Routes DEF Active
  <2>3. /\ ~Sys(go).stb /\ Sel(go) = "dma"
        /\ ds_state' = IF Ret(ans).ack THEN ds!Idle ELSE ds!Busy("B")
    BY <1>10, OuterMoves
  <2>4. CASE ~Ret(ans).ack
    <3>1. ds_state' = ds!Busy("B") /\ Master' = "dma"
      BY <1>3, <2>3, <2>4
    <3>2. Waits("dma")' /\ lsu'["dma"].req = lsu["dma"].req
      BY <1>1, <1>5, <2>1, <2>4
    <3>3. Waits(Master)' /\ lsu'[Master].req = Job
      BY <2>1, <3>1, <3>2 DEF Waits, Job
    <3> QED
      BY <1>4, <2>1, <2>2, <2>3, <2>4, <3>1, <3>3, Routes
  <2>5. CASE Ret(ans).ack
    BY <1>4, <2>1, <2>2, <2>3, <2>5
  <2> QED
    BY <2>4, <2>5
<1> QED
  BY <1>8, <1>9, <1>10, Routes

\* The complex arbiter keeps its part of the invariant.
LEMMA InnerStep ==
    ASSUME Base, NEW go, NEW ans, Edge(go, ans)
    PROVE  InnerSwitch'
<1> SUFFICES ASSUME NEW p \in cs!Port
             PROVE  /\ cs_state' # cs!Busy(p) => cs_pend'[p] = Waits(CoreAt(p))'
                    /\ cs_state' = cs!Busy(p) =>
                         /\ cs_sel_q' = p
                         /\ Waits(CoreAt(p))' => cs_lock'[p] = Amo(CoreAt(p))'
                         /\ ~Waits(CoreAt(p))' => /\ lsu'[CoreAt(p)].st = "idle" /\ cs_lock'[p]
                                                  /\ ds_state' = ds!Busy("A")
  BY DEF InnerSwitch, cs!Port, CoreAt, cs!Busy, ds!Busy, Waits, Amo
<1> DEFINE h == CoreAt(p)
<1>1. /\ Waits(h)' = (h \in go \/ (Waits(h) /\ ~Ack(h, ans)))
      /\ Waits(h)' => lsu'[h].req = lsu[h].req
      /\ h \in go => ~Waits(h) /\ lsu[h].st = "armed"
      /\ Waits(h) /\ Ack(h, ans) => lsu'[h].st = "idle"
      /\ Waits(h) => lsu[h].st # "idle"
  BY Moves, Routes DEF Base, Waits
<1>2. /\ cs_state # cs!Busy(p) => cs_pend[p] = Waits(h)
      /\ cs_state = cs!Busy(p) => /\ Waits(h) => cs_lock[p] = Amo(h)
                                  /\ ~Waits(h) => lsu[h].st = "idle" /\ cs_lock[p]
  BY DEF Base, InnerSwitch
<1>3. Waits(h)' => Amo(h)' = Amo(h)
  BY <1>1 DEF Amo
<1>4. Ack(h, ans) <=> Ret(ans).ack /\ cs_state = cs!Busy(p) /\ ds_state = ds!Busy("A")
  BY Routes
<1>5. CASE cs_state = cs!Busy(p)
  <2>1. /\ cs_sel_q' = p /\ cs_lock' = cs_lock /\ ~cs_pend'[p]
        /\ cs_state' = IF ~Waits(h) \/ (Ack(h, ans) /\ ~Amo(h)) THEN cs!Idle ELSE cs!Busy(p)
    BY <1>5, InnerMoves
  <2>2. ~Waits(h)' => cs_pend'[p] = Waits(h)'
    <3>1. cs_pend'[p] \in BOOLEAN
      BY InnerMoves DEF cs!SwitchTypeOK
    <3>2. cs_pend'[p] = FALSE
      BY <2>1, <3>1
    <3> QED
      BY <3>2 DEF Waits
  <2>3. CASE ~Waits(h)
    <3>1. ~Waits(h)'
      BY <1>1, <1>2, <1>5, <2>3
    <3> QED
      BY <2>1, <2>2, <2>3, <3>1, Routes
  <2>4. CASE Waits(h) /\ Ack(h, ans)
    <3>1. ~Waits(h)' /\ lsu'[h].st = "idle"
      BY <1>1, <2>4
    <3>2. Amo(h) => cs_lock'[p] /\ ds_state' = ds!Busy("A")
      <4>1. Ret(ans).ack /\ ds_state = ds!Busy("A") /\ Sel1(go) = h
        BY <1>4, <1>5, <2>4, InnerMoves
      <4>2. Amo(h) => ds_state' = ds!Busy("A")
        BY <2>4, <4>1, OuterMoves
      <4> QED
        BY <1>2, <1>5, <2>1, <2>4, <4>2
    <3> QED
      BY <2>1, <2>2, <2>4, <3>1, <3>2, Routes
  <2>5. CASE Waits(h) /\ ~Ack(h, ans)
    BY <1>1, <1>2, <1>3, <1>5, <2>1, <2>5
  <2> QED
    BY <2>3, <2>4, <2>5
<1>6. CASE cs_state # cs!Busy(p)
  <2>1. cs_pend'[p] = (cs_pend[p] \/ h \in go)
    BY <1>6, InnerMoves
  <2>2. ~Ack(h, ans)
    BY <1>4, <1>6
  <2>3. Waits(h)' = (h \in go \/ Waits(h))
    BY <1>1, <2>2
  <2>4. cs_pend'[p] = Waits(h)'
    BY <1>2, <1>6, <2>1, <2>3
  <2>5. ASSUME cs_state' = cs!Busy(p)
        PROVE  cs_sel_q' = p /\ Waits(h)' /\ cs_lock'[p] = Amo(h)'
    <3>1. cs_state = cs!Idle /\ X1(go)
      <4>1. ASSUME NEW q \in cs!Port, cs_state = cs!Busy(q)
            PROVE  FALSE
        <5>1. cs_state' \in {cs!Idle, cs!Busy(q)}
          BY <4>1, InnerMoves
        <5> QED
          BY <1>6, <2>5, <4>1, <5>1, Routes
      <4>2. cs_state = cs!Idle
        BY <4>1, Routes
      <4> QED
        BY <2>5, <4>2, InnerMoves, Routes
    <3>2. PICK q \in cs!Port : /\ cs_state' = cs!Busy(q) /\ cs_sel_q' = q
                               /\ cs_lock'[q] = Lock(CoreAt(q))
                               /\ CoreAt(q) \in go \/ Waits(CoreAt(q))
      BY <3>1, InnerMoves
    <3>3. q = p
      BY <2>5, <3>2, Routes
    <3>4. Waits(h)' /\ Lock(h) = Amo(h)
      <4>1. h \in go \/ Waits(h)
        BY <3>2, <3>3
      <4>2. lsu[h].st # "idle"
        BY <1>1, <4>1
      <4> QED
        <5>1. Waits(h)'
          BY <2>3, <4>1
        <5>2. Lock(h) = Amo(h)
          BY <4>2 DEF Lock, Amo
        <5> QED
          BY <5>1, <5>2
    <3> QED
      BY <1>3, <3>2, <3>3, <3>4
  <2> QED
    BY <2>4, <2>5
<1> QED
  BY <1>5, <1>6

\* So does the DMA switch.
LEMMA OuterStep ==
    ASSUME Base, NEW go, NEW ans, Edge(go, ans)
    PROVE  OuterSwitch'
<1>1. /\ Waits("dma")' = ("dma" \in go \/ (Waits("dma") /\ ~Ack("dma", ans)))
      /\ "dma" \in go => ~Waits("dma")
  BY Moves DEF Base, Waits, Host
<1>2. /\ ds_pend' \in [ds!Port -> BOOLEAN] /\ "A" \in ds!Port /\ "B" \in ds!Port
  BY OuterMoves DEF ds!SwitchTypeOK, ds!Port
<1>3. Ack("dma", ans) <=> Ret(ans).ack /\ ds_state = ds!Busy("B")
  BY Routes
<1>4. /\ ds_state # ds!Busy("A") => ds_pend["A"] = (cs_state # cs!Idle)
      /\ ds_state = ds!Busy("A") => /\ cs_state # cs!Idle
                                    /\ \A p \in cs!Port : cs_state = cs!Busy(p) => ds_lock["A"] = cs_lock[p]
      /\ ds_state # ds!Busy("B") => ds_pend["B"] = Waits("dma")
      /\ ds_state = ds!Busy("B") => Waits("dma") /\ ~ds_lock["B"]
  BY DEF Base, OuterSwitch
<1>5. \A p \in cs!Port : cs_state = cs!Busy(p) =>
          /\ Waits(CoreAt(p)) => cs_lock[p] = Amo(CoreAt(p))
          /\ ~Waits(CoreAt(p)) => ds_state = ds!Busy("A")
  BY DEF Base, InnerSwitch
<1>6. ASSUME ds_state # ds!Busy("A")
      PROVE  cs_state' = cs!Idle <=> ~X1(go) /\ cs_state = cs!Idle
  <2>1. CASE cs_state = cs!Idle
    BY <2>1, InnerMoves, Routes
  <2>2. ASSUME NEW p \in cs!Port, cs_state = cs!Busy(p)
        PROVE  cs_state' = cs!Busy(p)
    <3>1. Waits(CoreAt(p)) /\ ~Ack(CoreAt(p), ans)
      BY <1>5, <1>6, <2>2, Routes
    <3> QED
      BY <2>2, <3>1, InnerMoves
  <2> QED
    BY <2>1, <2>2, Routes
<1>7. /\ ds_state' # ds!Busy("A") => ds_pend'["A"] = (cs_state' # cs!Idle)
      /\ ds_state' = ds!Busy("A") =>
           /\ cs_state' # cs!Idle /\ ds_sel_q' = "A"
           /\ \A p \in cs!Port : cs_state' = cs!Busy(p) => ds_lock'["A"] = cs_lock'[p]
  <2>1. CASE ds_state = ds!Busy("A")
    <3>1. PICK p \in cs!Port : cs_state = cs!Busy(p)
      BY <1>4, <2>1, Routes
    <3>2. /\ Sel1(go) = CoreAt(p) /\ cs_lock' = cs_lock
          /\ cs_state' = IF ~Waits(CoreAt(p)) \/ (Ack(CoreAt(p), ans) /\ ~Amo(CoreAt(p)))
                         THEN cs!Idle ELSE cs!Busy(p)
      BY <3>1, InnerMoves
    <3>3. /\ ds_sel_q' = "A" /\ ds_lock' = ds_lock /\ ~ds_pend'["A"]
          /\ ds_state' = IF ~Waits(CoreAt(p)) \/ (Ret(ans).ack /\ ~Amo(CoreAt(p)))
                         THEN ds!Idle ELSE ds!Busy("A")
      BY <2>1, <3>2, OuterMoves
    <3>4. Ack(CoreAt(p), ans) <=> Ret(ans).ack
      BY <2>1, <3>1, Routes
    <3>5. \A q \in cs!Port : cs!Busy(p) = cs!Busy(q) => p = q
      BY Routes
    <3>6. ds_lock["A"] = cs_lock[p]
      BY <1>4, <2>1, <3>1
    <3> QED
      BY <1>2, <3>2, <3>3, <3>4, <3>5, <3>6, Routes
  <2>2. CASE ds_state = ds!Busy("B")
    <3>1. ds_state' # ds!Busy("A") /\ ds_pend'["A"] = (ds_pend["A"] \/ X1(go))
      BY <2>2, OuterMoves, Routes
    <3> QED
      BY <1>4, <1>6, <2>2, <3>1, Routes
  <2>3. CASE ds_state = ds!Idle
    <3>1. ds_pend'["A"] = (ds_pend["A"] \/ X1(go)) /\ ds_pend["A"] = (cs_state # cs!Idle)
      BY <1>4, <2>3, OuterMoves, Routes
    <3>2. CASE X1(go) \/ cs_state # cs!Idle
      <4>1. ds_state' = ds!Busy("A") /\ ds_sel_q' = "A" /\ ds_lock'["A"] = Lock(Sel1(go))
        BY <2>3, <3>2, OuterMoves
      <4>2. cs_state' # cs!Idle
        BY <1>6, <2>3, <3>2, Routes
      <4>3. ASSUME NEW p \in cs!Port, cs_state' = cs!Busy(p)
            PROVE  cs_lock'[p] = Lock(Sel1(go))
        <5>1. CASE cs_state = cs!Idle
          <6>1. PICK q \in cs!Port : /\ cs_state' = cs!Busy(q) /\ Sel1(go) = CoreAt(q)
                                     /\ cs_lock'[q] = Lock(CoreAt(q))
            BY <3>2, <5>1, InnerMoves
          <6> QED
            BY <4>3, <6>1, Routes
        <5>2. ASSUME NEW q \in cs!Port, cs_state = cs!Busy(q)
              PROVE  cs_lock'[p] = Lock(Sel1(go))
          <6>1. Waits(CoreAt(q)) /\ ~Ack(CoreAt(q), ans) /\ cs_lock[q] = Amo(CoreAt(q))
            BY <1>5, <2>3, <5>2, Routes
          <6>2. Sel1(go) = CoreAt(q) /\ cs_lock' = cs_lock /\ cs_state' = cs!Busy(q)
            BY <5>2, <6>1, InnerMoves
          <6>3. q = p
            BY <4>3, <6>2, Routes
          <6>4. Lock(CoreAt(q)) = Amo(CoreAt(q))
            BY <6>1 DEF Lock, Amo, Waits
          <6> QED
            BY <6>1, <6>2, <6>3, <6>4
        <5> QED
          BY <5>1, <5>2, Routes
      <4> QED
        BY <4>1, <4>2, <4>3
    <3>3. CASE ~(X1(go) \/ cs_state # cs!Idle)
      <4>1. ds_state' # ds!Busy("A") /\ cs_state' = cs!Idle
        BY <1>6, <2>3, <3>3, OuterMoves, Routes
      <4> QED
        BY <3>1, <3>3, <4>1
    <3> QED
      BY <3>2, <3>3
  <2> QED
    BY <2>1, <2>2, <2>3, Routes
<1>8. /\ ds_state' # ds!Busy("B") => ds_pend'["B"] = Waits("dma")'
      /\ ds_state' = ds!Busy("B") => Waits("dma")' /\ ds_sel_q' = "B" /\ ~ds_lock'["B"]
  <2>1. CASE ds_state = ds!Busy("B")
    BY <1>1, <1>2, <1>3, <1>4, <2>1, OuterMoves, Routes
  <2>2. CASE ds_state # ds!Busy("B")
    <3>1. ds_pend'["B"] = (ds_pend["B"] \/ "dma" \in go) /\ ds_pend["B"] = Waits("dma")
      BY <1>4, <2>2, OuterMoves
    <3>2. Waits("dma")' = ("dma" \in go \/ Waits("dma"))
      BY <1>1, <1>3, <2>2
    <3>3. ds_state' = ds!Busy("B") => ds_state = ds!Idle /\ ~(X1(go) \/ cs_state # cs!Idle)
                                      /\ ("dma" \in go \/ Waits("dma"))
      BY <2>2, OuterMoves, Routes
    <3> QED
      BY <3>1, <3>2, <3>3, OuterMoves
  <2> QED
    BY <2>1, <2>2
<1> QED
  BY <1>7, <1>8 DEF OuterSwitch, ds!Busy, cs!Busy, cs!Idle, cs!Port, Waits

-----------------------------------------------------------------------------
(* The function of the atomic operations.                                  *)

\* The number of data values, and of those without sign bit.
LEMMA Width == /\ 2^XLEN \in Nat \ {0} /\ 2^(XLEN - 1) \in Nat \ {0}
               /\ 2^XLEN = 2 * 2^(XLEN - 1)
<1> DEFINE Doubles(n) == 2^n \in Nat \ {0} /\ 2^(n - 1) \in Nat \ {0} /\ 2^n = 2 * 2^(n - 1)
<1>1. XLEN \in 1 .. 32
  BY SmpAssumption
<1>2. CASE XLEN \in 1 .. 8
  <2>1. XLEN = 1 \/ XLEN = 2 \/ XLEN = 3 \/ XLEN = 4 \/ XLEN = 5
        \/ XLEN = 6 \/ XLEN = 7 \/ XLEN = 8
    BY <1>2, SMT
  <2>2. Doubles(1) /\ Doubles(2) /\ Doubles(3) /\ Doubles(4) /\ Doubles(5)
        /\ Doubles(6) /\ Doubles(7) /\ Doubles(8)
    BY SMT
  <2> HIDE DEF Doubles
  <2>3. Doubles(XLEN)
    BY <2>1, <2>2, Zenon
  <2> QED
    BY <2>3 DEF Doubles
<1>3. CASE XLEN \in 9 .. 16
  <2>1. XLEN = 9 \/ XLEN = 10 \/ XLEN = 11 \/ XLEN = 12 \/ XLEN = 13
        \/ XLEN = 14 \/ XLEN = 15 \/ XLEN = 16
    BY <1>3, SMT
  <2>2. Doubles(9) /\ Doubles(10) /\ Doubles(11) /\ Doubles(12) /\ Doubles(13)
        /\ Doubles(14) /\ Doubles(15) /\ Doubles(16)
    BY SMT
  <2> HIDE DEF Doubles
  <2>3. Doubles(XLEN)
    BY <2>1, <2>2, Zenon
  <2> QED
    BY <2>3 DEF Doubles
<1>4. CASE XLEN \in 17 .. 24
  <2>1. XLEN = 17 \/ XLEN = 18 \/ XLEN = 19 \/ XLEN = 20 \/ XLEN = 21
        \/ XLEN = 22 \/ XLEN = 23 \/ XLEN = 24
    BY <1>4, SMT
  <2>2. Doubles(17) /\ Doubles(18) /\ Doubles(19) /\ Doubles(20) /\ Doubles(21)
        /\ Doubles(22) /\ Doubles(23) /\ Doubles(24)
    BY SMT
  <2> HIDE DEF Doubles
  <2>3. Doubles(XLEN)
    BY <2>1, <2>2, Zenon
  <2> QED
    BY <2>3 DEF Doubles
<1>5. CASE XLEN \in 25 .. 32
  <2>1. XLEN = 25 \/ XLEN = 26 \/ XLEN = 27 \/ XLEN = 28 \/ XLEN = 29
        \/ XLEN = 30 \/ XLEN = 31 \/ XLEN = 32
    BY <1>5, SMT
  <2>2. Doubles(25) /\ Doubles(26) /\ Doubles(27) /\ Doubles(28) /\ Doubles(29)
        /\ Doubles(30) /\ Doubles(31) /\ Doubles(32)
    BY SMT
  <2> HIDE DEF Doubles
  <2>3. Doubles(XLEN)
    BY <2>1, <2>2, Zenon
  <2> QED
    BY <2>3 DEF Doubles
<1>6. XLEN \in 1 .. 8 \/ XLEN \in 9 .. 16 \/ XLEN \in 17 .. 24 \/ XLEN \in 25 .. 32
  BY <1>1, SMT
<1> QED
  BY <1>2, <1>3, <1>4, <1>5, <1>6, Zenon

\* The ALU of the controller computes the atomic operation's function.
LEMMA AluIsRmw ==
    ASSUME cmd \in AmoOp, rdata \in Word, wdata \in Word
    PROVE  Alu \in Word /\ Alu = Atomic!Rmw(cmd, rdata, wdata)
<1> DEFINE W == 2^XLEN
           H == 2^(XLEN - 1)
<1>1. W \in Nat \ {0} /\ H \in Nat \ {0} /\ W = 2 * H
  BY Width
<1>2. rdata \in 0 .. W - 1 /\ wdata \in 0 .. W - 1
  BY DEF Word
<1>3. Word = 0 .. W - 1
  BY DEF Word
<1>4. \A x : cmp_op(x) = IF cmd \in {"min", "max"} /\ x >= H THEN x - W ELSE x
  BY DEF cmp_op
<1>5. \A x : Atomic!Signed(x) = IF 2 * x >= W THEN x - W ELSE x
  BY DEF Atomic!Signed
<1>6. cmp_res \in Word
  BY DEF cmp_res
<1>7. Alu \in Word
  <2>1. cmd = "add" => Alu = (rdata + wdata) % W
    BY DEF Alu
  <2>2. rdata + wdata \in Nat
    BY <1>1, <1>2
  <2> HIDE DEF W, H
  <2>3. (rdata + wdata) % W \in 0 .. W - 1
    BY <1>1, <2>2
  <2>4. cmd # "add" => Alu \in Word
    BY <1>6 DEF Alu
  <2> QED
    BY <1>3, <2>1, <2>3, <2>4
<1>8. CASE cmd = "swap"
  BY <1>8 DEF Alu, Atomic!Rmw
<1>9. CASE cmd = "add"
  <2>1. Alu = (rdata + wdata) % W
    BY <1>9 DEF Alu
  <2>2. Atomic!Rmw(cmd, rdata, wdata) = (rdata + wdata) % W
    BY <1>9 DEF Atomic!Rmw
  <2> QED
    BY <1>7, <2>1, <2>2
<1>10. cmd \in {"min", "max", "minu", "maxu"} => Alu = cmp_res
  BY DEF Alu
<1>11. CASE cmd \in {"min", "max"}
  <2>1. /\ cmp_op(rdata) = Atomic!Signed(rdata) /\ cmp_op(rdata) \in Int
        /\ cmp_op(wdata) = Atomic!Signed(wdata) /\ cmp_op(wdata) \in Int
        /\ Atomic!Signed(rdata) = Atomic!Signed(wdata) => rdata = wdata
    <3> HIDE DEF W, H
    <3> QED
      BY <1>1, <1>2, <1>4, <1>5, <1>11
  <2>2. CASE cmd = "min"
    BY <1>10, <2>1, <2>2 DEF cmp_res, cmp_less, Atomic!Rmw
  <2>3. CASE cmd = "max"
    BY <1>10, <2>1, <2>3 DEF cmp_res, cmp_less, Atomic!Rmw
  <2> QED
    BY <1>11, <2>2, <2>3
<1>12. CASE cmd \in {"minu", "maxu"}
  <2>1. cmp_op(rdata) = rdata /\ cmp_op(wdata) = wdata /\ rdata \in Int /\ wdata \in Int
    <3> HIDE DEF W, H
    <3> QED
      BY <1>1, <1>2, <1>4, <1>12
  <2>2. CASE cmd = "minu"
    BY <1>10, <2>1, <2>2 DEF cmp_res, cmp_less, Atomic!Rmw
  <2>3. CASE cmd = "maxu"
    BY <1>10, <2>1, <2>3 DEF cmp_res, cmp_less, Atomic!Rmw
  <2> QED
    BY <1>12, <2>2, <2>3
<1> QED
  BY <1>7, <1>8, <1>9, <1>11, <1>12 DEF AmoOp

-----------------------------------------------------------------------------
(* The controllers and the memory.                                         *)

IdOf(h) == IF h = "core1" THEN 1 ELSE 0

\* The store-conditional of master h has its reservation.
Valid(h) == rsv.set /\ rsv.id = IdOf(h) /\ rsv.addr = Granule(lsu[h].req.a)

\* The results of store-conditionals keep their range.
LEMMA Results ==
    ASSUME Base, NEW go, NEW ans, Edge(go, ans)
    PROVE  sc_pend_pass' \in BOOLEAN /\ sc_pend_fail' \in BOOLEAN
<1>1. sc_result(sys_req(Sys(go)), Answer(ans))
  BY Wires DEF Base, RvsClock
<1>2. sc_pend_pass \in BOOLEAN /\ sc_pend_fail \in BOOLEAN
  BY DEF Base, Typed, TypeOK, RvsTypeOK
<1> QED
  BY <1>1, <1>2 DEF sc_result

\* Master h sees the answer to its access.
Seen(h, ans) == Observe(h, TRUE, Ret(ans), ans)

\* Nothing happens behind the switches without a strobe and an answer.
LEMMA Quiet ==
    ASSUME Base, NEW go, NEW ans, Edge(go, ans), ~Sys(go).stb, state \in {"S_IDLE", "S_WRITE_WAIT"}
    PROVE  /\ UNCHANGED <<cmd, wdata, rdata, rsv, turn>> /\ alu_res' = Alu
           /\ ~ans => /\ UNCHANGED <<state, sc_pend_pass, sc_pend_fail, dev, mem>>
                      /\ link' = link /\ out' = out
           /\ ans => /\ state' = "S_IDLE" /\ ~sc_pend_pass' /\ ~sc_pend_fail' /\ dev' = NoDev
                     /\ Seen(Master, ans)
                     /\ mem' = IF dev.rw /\ ~Fails THEN [mem EXCEPT ![dev.a] = dev.v] ELSE mem
<1> DEFINE q   == sys_req(Sys(go))
           rsp == Answer(ans)
<1>1. /\ RmwClock(Sys(go), response(rsp))
      /\ RvsClock(q, rsp)
      /\ MemClock(bus_request(q), ans)
      /\ IF \A h \in Host : ~Ack(h, ans) THEN Observe("dma", FALSE, Ret(ans), ans)
         ELSE \E h \in Host : Ack(h, ans) /\ Observe(h, TRUE, Ret(ans), ans)
  BY Wires DEF Base
<1>2. /\ ans \in BOOLEAN /\ Ret(ans).ack = ans
      /\ \A h \in Host : Ack(h, ans) = (Ret(ans).ack /\ h = Master)
      /\ Master \in Host
  BY Acks
<1>3. ~q.stb /\ ~bus_request(q).stb
  BY DEF sys_req, bus_request, Sys, Ask
<1>4. rsp.ack = ans /\ response(rsp).ack = ans
  BY DEF Answer, response
<1>5. alu_res' = Alu /\ UNCHANGED <<cmd, wdata, rdata>>
      /\ state' = IF ans THEN "S_IDLE" ELSE state
  BY <1>1, <1>4 DEF RmwClock, Idle, ReadWait, Execute, Write, WriteWait
<1>6. /\ UNCHANGED <<rsv, turn>>
      /\ IF ans THEN ~sc_pend_pass' /\ ~sc_pend_fail'
                ELSE UNCHANGED <<sc_pend_pass, sc_pend_fail>>
  BY <1>1, <1>3, <1>4 DEF RvsClock, ReservationStation, sc_result
<1>7. /\ dev' = IF ans THEN NoDev ELSE dev
      /\ mem' = IF ans /\ dev.rw /\ ~Fails THEN [mem EXCEPT ![dev.a] = dev.v] ELSE mem
  BY <1>1, <1>3 DEF MemClock, Effect
<1>8. CASE ~ans
  <2>1. Observe("dma", FALSE, Ret(ans), ans)
    BY <1>1, <1>2, <1>8
  <2>2. UNCHANGED <<link, out>>
    BY <1>8, <2>1 DEF Observe, Effect
  <2> QED
    BY <1>5, <1>6, <1>7, <1>8, <2>2
<1>9. CASE ans
  <2>1. Seen(Master, ans)
    BY <1>1, <1>2, <1>9 DEF Seen
  <2> QED
    BY <1>5, <1>6, <1>7, <1>9, <2>1
<1> QED
  BY <1>2, <1>8, <1>9

\* An access reaches the controllers.
LEMMA Started ==
    ASSUME Base, NEW go, NEW ans, Edge(go, ans), Sys(go).stb
    PROVE  LET h == Sel(go)
               r == lsu[h].req
           IN  /\ h \in Host /\ lsu[h].st # "idle"
               /\ state = "S_IDLE" /\ ~dev.busy /\ ~sc_pend_pass /\ ~sc_pend_fail /\ ~ans /\ ~Active
               /\ Active' /\ Master' = h /\ Job' = r
               /\ IF r.op \in AmoOp THEN cmd' = r.op /\ wdata' = r.v /\ state' = "S_READ_WAIT"
                                    ELSE UNCHANGED <<cmd, wdata, state>>
               /\ UNCHANGED <<rdata, mem, link, out>> /\ alu_res' = Alu
               /\ r.op = "lr" => \/ rsv' = [set |-> TRUE, id |-> IdOf(h), addr |-> Granule(r.a)]
                                 \/ rsv' = rsv /\ rsv.id # IdOf(h)
               /\ r.op = "sc" => rsv' = [rsv EXCEPT !.set = @ /\ ~(Valid(h) \/ rsv.id = IdOf(h))]
               /\ r.op \notin {"lr", "sc"} =>
                     rsv' = [rsv EXCEPT !.set = @ /\ ~(r.op = "st" /\ Granule(r.a) = rsv.addr)]
               /\ turn' \in {turn, 1 - turn}
               /\ sc_pend_pass' = (r.op = "sc" /\ Valid(h)) /\ sc_pend_fail' = (r.op = "sc" /\ ~Valid(h))
               /\ dev' = [busy |-> TRUE, a |-> r.a, v |-> r.v,
                          rw |-> r.op = "st" \/ (r.op = "sc" /\ Valid(h))]
<1> DEFINE h   == Sel(go)
           r   == lsu[h].req
           q   == sys_req(Sys(go))
           rsp == Answer(ans)
<1>1. /\ h \in Host /\ ~Active /\ Active' /\ Master' = h
      /\ h \in go \/ Waits(h)
      /\ lsu'[h].req = r
  BY Arbiter
<1>2. lsu[h].st # "idle"
  BY <1>1, Moves DEF Base, Waits
<1>3. state = "S_IDLE" /\ ~dev.busy /\ ~sc_pend_pass /\ ~sc_pend_fail
  BY <1>1 DEF Base, Service
<1>4. ~ans /\ ans \in BOOLEAN /\ ~Ret(ans).ack /\ \A x \in Host : ~Ack(x, ans)
  BY <1>1, Acks
<1>5. Job' = r
  BY <1>1 DEF Job
<1>6. /\ RmwClock(Sys(go), response(rsp))
      /\ RvsClock(q, rsp)
      /\ MemClock(bus_request(q), ans)
      /\ Observe("dma", FALSE, Ret(ans), ans)
  BY <1>4, Wires DEF Base
<1>7. /\ Sys(go).op = r.op /\ Sys(go).v = r.v
      /\ q.op = r.op /\ q.a = r.a /\ q.v = r.v /\ q.id = IdOf(h) /\ q.stb
      /\ q.rw = (r.op \in {"st", "sc"})
      /\ [q EXCEPT !.rw = FALSE, !.op = "ld"].stb
      /\ [q EXCEPT !.rw = FALSE, !.op = "ld"].a = r.a
      /\ [q EXCEPT !.rw = FALSE, !.op = "ld"].v = r.v
      /\ [q EXCEPT !.rw = FALSE, !.op = "ld"].rw = FALSE
  <2> DEFINE s == Sys(go).stb
             w == r.op \in {"st", "sc"}
  <2>1. Sys(go) = [stb |-> s, lock |-> Lock(h), id |-> IdOf(h), op |-> r.op, a |-> r.a, v |-> r.v, rw |-> w]
    BY DEF Sys, Ask, IdOf
  <2>2. s /\ w \in BOOLEAN
    OBVIOUS
  <2>3. w <=> (r.op \in {"st", "sc"})
    OBVIOUS
  <2> HIDE DEF s, w
  <2>4. q = [Sys(go) EXCEPT !.stb = TRUE, !.rw = w, !.v = r.v]
    <3>1. /\ (state = "S_WRITE" \/ Sys(go).stb) = TRUE
          /\ (state \in {"S_WRITE", "S_WRITE_WAIT"} \/ Sys(go).rw) = w
          /\ (IF state \in {"S_WRITE", "S_WRITE_WAIT"} THEN alu_res ELSE Sys(go).v) = r.v
      BY <1>3, <2>1, <2>2
    <3>2. q = [Sys(go) EXCEPT !.stb = state = "S_WRITE" \/ Sys(go).stb,
                              !.rw = state \in {"S_WRITE", "S_WRITE_WAIT"} \/ Sys(go).rw,
                              !.v = IF state \in {"S_WRITE", "S_WRITE_WAIT"} THEN alu_res ELSE Sys(go).v]
      BY DEF sys_req
    <3> QED
      BY <3>1, <3>2
  <2>5. /\ Sys(go).op = r.op /\ Sys(go).v = r.v /\ Sys(go).a = r.a /\ Sys(go).id = IdOf(h)
        /\ DOMAIN Sys(go) = {"stb", "lock", "id", "op", "a", "v", "rw"}
    BY <2>1
  <2>6. /\ q.op = r.op /\ q.a = r.a /\ q.v = r.v /\ q.id = IdOf(h) /\ q.stb /\ q.rw = w
        /\ DOMAIN q = {"stb", "lock", "id", "op", "a", "v", "rw"}
    BY <2>4, <2>5
  <2> HIDE DEF q
  <2> QED
    BY <2>3, <2>2, <2>5, <2>6
<1>8. /\ IF r.op \in AmoOp THEN cmd' = r.op /\ wdata' = r.v /\ state' = "S_READ_WAIT"
                           ELSE UNCHANGED <<cmd, wdata, state>>
      /\ rdata' = rdata /\ alu_res' = Alu
  BY <1>3, <1>6, <1>7 DEF RmwClock, Idle, ReadWait, Execute, Write, WriteWait
<1>9. sc_valid(q) = Valid(h)
  BY <1>7 DEF sc_valid, Valid
<1>10. /\ bus_request(q).stb /\ bus_request(q).a = r.a /\ bus_request(q).v = r.v
       /\ bus_request(q).rw = (r.op = "st" \/ (r.op = "sc" /\ Valid(h)))
  <2>1. CASE r.op = "sc" /\ ~Valid(h)
    <3>1. bus_request(q) = [q EXCEPT !.rw = FALSE, !.op = "ld"]
      BY <1>7, <1>9, <2>1 DEF bus_request, sc
    <3> QED
      BY <1>7, <2>1, <3>1
  <2>2. CASE ~(r.op = "sc" /\ ~Valid(h))
    <3>1. bus_request(q) = q
      BY <1>7, <1>9, <2>2 DEF bus_request, sc
    <3> QED
      BY <1>7, <2>2, <3>1
  <2> QED
    BY <2>1, <2>2
<1> HIDE DEF q, rsp
<1>11. /\ dev' = [busy |-> TRUE, a |-> r.a, v |-> r.v, rw |-> r.op = "st" \/ (r.op = "sc" /\ Valid(h))]
       /\ mem' = mem /\ link' = link /\ out' = out
  BY <1>4, <1>6, <1>10 DEF MemClock, Effect, Observe
<1>12. sc_pend_pass' = (r.op = "sc" /\ Valid(h)) /\ sc_pend_fail' = (r.op = "sc" /\ ~Valid(h))
  <2>1. sc_result(q, rsp) /\ ~rsp.ack
    BY <1>4, <1>6 DEF RvsClock, rsp, Answer
  <2>2. sc_pend_pass \in BOOLEAN /\ sc_pend_fail \in BOOLEAN /\ Valid(h) \in BOOLEAN
    BY DEF Base, Typed, TypeOK, RvsTypeOK, Valid
  <2> QED
    BY <1>3, <1>7, <1>9, <2>1, <2>2 DEF sc_result, sc
<1>13. /\ r.op = "lr" => \/ rsv' = [set |-> TRUE, id |-> IdOf(h), addr |-> Granule(r.a)]
                         \/ rsv' = rsv /\ rsv.id # IdOf(h)
       /\ r.op = "sc" => rsv' = [rsv EXCEPT !.set = @ /\ ~(Valid(h) \/ rsv.id = IdOf(h))]
       /\ r.op \notin {"lr", "sc"} =>
             rsv' = [rsv EXCEPT !.set = @ /\ ~(q.rw /\ Granule(r.a) = rsv.addr)]
       /\ turn' \in {turn, 1 - turn}
  <2>1. LoadReserved(q) \/ StoreConditional(q) \/ OtherAccess(q)
    BY <1>6, <1>7 DEF RvsClock, ReservationStation
  <2>2. CASE LoadReserved(q)
    BY <1>7, <2>2 DEF LoadReserved, lr, lr_allow
  <2>3. CASE StoreConditional(q)
    BY <1>7, <1>9, <2>3 DEF StoreConditional, sc
  <2>4. CASE OtherAccess(q)
    BY <1>7, <2>4 DEF OtherAccess, lr, sc
  <2> QED
    BY <2>1, <2>2, <2>3, <2>4
<1>14. r.op \notin {"lr", "sc"} => q.rw = (r.op = "st")
  BY <1>7
<1> QED
  BY <1>1, <1>2, <1>3, <1>4, <1>5, <1>8, <1>11, <1>12, <1>13, <1>14

\* An atomic operation is under way.
LEMMA Atomics ==
    ASSUME Base, NEW go, NEW ans, Edge(go, ans), state # "S_IDLE"
    PROVE  /\ Active /\ Amo(Master) /\ Master \in Host /\ lsu[Master].st # "idle"
           /\ ~sc_pend_pass /\ ~sc_pend_fail
           /\ cmd = Job.op /\ wdata = Job.v
           /\ dev.busy = (state \in {"S_READ_WAIT", "S_WRITE_WAIT"})
           /\ dev.busy => dev.a = Job.a /\ dev.rw = (state = "S_WRITE_WAIT")
           /\ ~Sys(go).stb /\ Sel(go) = Master
<1>1. Active /\ Amo(Master)
  BY DEF Base, Service
<1>2. Master \in Host /\ lsu[Master].st # "idle"
  BY <1>1, Acks DEF Active, Waits
<1>3. ~sc_pend_pass
  BY <1>1 DEF Base, Service, Amo, AmoOp, Job
<1>4. ~sc_pend_fail
  BY <1>1 DEF Base, Service, Amo, AmoOp, Job
<1> QED
  BY <1>1, <1>2, <1>3, <1>4, Arbiter DEF Base, Service

\* It does nothing to the reservation or to memory but in its write.
LEMMA Working ==
    ASSUME Base, NEW go, NEW ans, Edge(go, ans), state \in {"S_READ_WAIT", "S_EXECUTE", "S_WRITE"}
    PROVE  /\ ~Ret(ans).ack /\ Active' /\ Master' = Master /\ Job' = Job
           /\ UNCHANGED <<cmd, wdata, mem, link, out>> /\ alu_res' = Alu
           /\ ~sc_pend_pass' /\ ~sc_pend_fail'
           /\ state = "S_READ_WAIT" =>
                /\ UNCHANGED <<rsv, turn>>
                /\ ~ans => UNCHANGED <<state, dev>> /\ rdata' = 0
                /\ ans => /\ state' = "S_EXECUTE" /\ dev' = NoDev
                          /\ rdata' = IF Job.a \in ReadErr THEN 0 ELSE mem[Job.a]
           /\ state = "S_EXECUTE" => /\ UNCHANGED <<rsv, turn, rdata, dev>> /\ state' = "S_WRITE"
           /\ state = "S_WRITE" =>
                /\ state' = "S_WRITE_WAIT" /\ UNCHANGED <<turn, rdata>>
                /\ rsv' = [rsv EXCEPT !.set = @ /\ ~(Granule(Job.a) = rsv.addr)]
                /\ dev' = [busy |-> TRUE, a |-> Job.a, v |-> alu_res, rw |-> TRUE]
<1> DEFINE q   == sys_req(Sys(go))
           rsp == Answer(ans)
<1>1. /\ Active /\ Amo(Master) /\ Master \in Host
      /\ ~sc_pend_pass /\ ~sc_pend_fail
      /\ dev.busy = (state = "S_READ_WAIT")
      /\ dev.busy => dev.a = Job.a /\ ~dev.rw
      /\ ~Sys(go).stb /\ Sel(go) = Master
  <2>1. state # "S_IDLE" /\ state # "S_WRITE_WAIT"
    OBVIOUS
  <2>2. /\ dev.busy = (state \in {"S_READ_WAIT", "S_WRITE_WAIT"})
        /\ dev.busy => dev.a = Job.a /\ dev.rw = (state = "S_WRITE_WAIT")
    BY <2>1, Atomics
  <2>3. (state \in {"S_READ_WAIT", "S_WRITE_WAIT"}) = (state = "S_READ_WAIT")
    BY <2>1
  <2>4. dev.busy = (state = "S_READ_WAIT")
    BY <2>2, <2>3
  <2>5. dev.busy => dev.a = Job.a /\ ~dev.rw
    BY <2>1, <2>2
  <2> QED
    BY <2>1, <2>4, <2>5, Atomics
<1>2. /\ ans \in BOOLEAN /\ (ans => state = "S_READ_WAIT") /\ ~Ret(ans).ack
      /\ \A x \in Host : ~Ack(x, ans)
  BY <1>1, Acks
<1>3. Active' /\ Master' = Master /\ Job' = Job
  BY <1>1, <1>2, Arbiter DEF Job
<1>4. /\ RmwClock(Sys(go), response(rsp))
      /\ RvsClock(q, rsp)
      /\ MemClock(bus_request(q), ans)
      /\ Observe("dma", FALSE, Ret(ans), ans)
  BY <1>2, Wires DEF Base
<1>5. rsp.ack = ans /\ response(rsp).ack = ans /\ response(rsp).data = rsp.data
  BY <1>1 DEF Answer, response
<1>6. ~Effect(ans)
  BY <1>1, <1>2 DEF Effect
<1>7. UNCHANGED <<link, out, mem>>
  BY <1>4, <1>6 DEF Observe, MemClock
<1>8. q.op = Job.op /\ q.a = Job.a /\ q.op \in AmoOp
  BY <1>1 DEF Sys, Ask, sys_req, Job, Amo
<1>9. q.stb = (state = "S_WRITE")
  <2>1. q.stb = (state = "S_WRITE" \/ Sys(go).stb)
    BY DEF sys_req, Sys, Ask
  <2> QED
    BY <1>1, <2>1
<1>10. bus_request(q) = q /\ ~lr(q) /\ ~sc(q)
  BY <1>8 DEF bus_request, lr, sc, AmoOp
<1>11. state = "S_WRITE" => q.rw /\ q.v = alu_res
  BY DEF sys_req, Sys, Ask
<1> HIDE DEF q
<1>12. /\ alu_res' = Alu /\ UNCHANGED <<cmd, wdata>>
       /\ state = "S_READ_WAIT" => rdata' = rsp.data /\ state' = IF ans THEN "S_EXECUTE" ELSE state
       /\ state = "S_EXECUTE" => rdata' = rdata /\ state' = "S_WRITE"
       /\ state = "S_WRITE" => rdata' = rdata /\ state' = "S_WRITE_WAIT"
  BY <1>4, <1>5 DEF RmwClock, Idle, ReadWait, Execute, Write, WriteWait
<1>13. ~sc_pend_pass' /\ ~sc_pend_fail'
  BY <1>1, <1>4, <1>10 DEF RvsClock, sc_result
<1>14. /\ turn' = turn
       /\ state # "S_WRITE" => rsv' = rsv
       /\ state = "S_WRITE" => rsv' = [rsv EXCEPT !.set = @ /\ ~(Granule(Job.a) = rsv.addr)]
  <2>1. CASE state = "S_WRITE"
    <3>1. OtherAccess(q)
      BY <1>4, <1>9, <1>10, <2>1 DEF RvsClock, ReservationStation, LoadReserved, StoreConditional
    <3>2. rsv' = [rsv EXCEPT !.set = @ /\ ~(q.rw /\ Granule(q.a) = rsv.addr)] /\ turn' = turn
      BY <3>1 DEF OtherAccess
    <3>3. (q.rw /\ Granule(q.a) = rsv.addr) <=> Granule(Job.a) = rsv.addr
      BY <1>8, <1>11, <2>1
    <3> QED
      BY <2>1, <3>2, <3>3
  <2>2. CASE state # "S_WRITE"
    BY <1>4, <1>9, <2>2 DEF RvsClock, ReservationStation
  <2> QED
    BY <2>1, <2>2
<1>15. /\ state = "S_READ_WAIT" /\ ~ans => dev' = dev
       /\ state = "S_READ_WAIT" /\ ans => dev' = NoDev
       /\ state = "S_EXECUTE" => dev' = dev
       /\ state = "S_WRITE" => dev' = [busy |-> TRUE, a |-> Job.a, v |-> alu_res, rw |-> TRUE]
  <2>1. CASE state = "S_WRITE"
    <3>1. dev' = [busy |-> TRUE, a |-> q.a, v |-> q.v, rw |-> q.rw]
      BY <1>4, <1>9, <1>10, <2>1 DEF MemClock
    <3>2. q.rw = TRUE
      BY <2>1 DEF q, sys_req, Sys, Ask
    <3> QED
      BY <1>8, <1>11, <2>1, <3>1, <3>2
  <2>2. CASE state # "S_WRITE"
    BY <1>2, <1>4, <1>9, <1>10, <2>2 DEF MemClock
  <2> QED
    BY <2>1, <2>2
<1>16. state = "S_READ_WAIT" => /\ ~ans => rsp.data = 0
                                /\ ans => rsp.data = IF Job.a \in ReadErr THEN 0 ELSE mem[Job.a]
  BY <1>1, <1>2 DEF rsp, Answer, Fails
<1> HIDE DEF rsp
<1> QED
  BY <1>2, <1>3, <1>7, <1>12, <1>13, <1>14, <1>15, <1>16

\* An access is answered.
LEMMA Answered ==
    ASSUME Base, NEW go, NEW ans, Edge(go, ans), Ret(ans).ack
    PROVE  /\ ans /\ Active /\ ~Active' /\ state \in {"S_IDLE", "S_WRITE_WAIT"} /\ dev.busy
           /\ ~Sys(go).stb /\ Master \in Host /\ lsu[Master].st # "idle" /\ dev.a = Job.a
           /\ out' = [host |-> Master, req |-> Job,
                      res |-> IF Fails THEN Atomic!BusError ELSE IF Job.op = "st" THEN 0
                              ELSE IF state = "S_WRITE_WAIT" THEN rdata
                              ELSE IF sc_pend_fail THEN 1
                              ELSE IF sc_pend_pass \/ dev.rw THEN 0 ELSE mem[dev.a]]
           /\ LET broken == IF dev.rw /\ ~Fails THEN Atomic!Broken(Granule(dev.a)) ELSE link
              IN  link' = IF Job.op = "lr" /\ ~Fails THEN [broken EXCEPT ![Master] = Granule(Job.a)]
                          ELSE IF Job.op = "sc" THEN [broken EXCEPT ![Master] = Atomic!NoLink]
                          ELSE broken
<1>1. ans /\ ans \in BOOLEAN /\ state \in {"S_IDLE", "S_WRITE_WAIT"} /\ Active /\ dev.busy /\ Master \in Host
  BY Acks
<1>2. ~Active' /\ ~Sys(go).stb
  BY <1>1, Arbiter
<1>3. lsu[Master].st # "idle"
  BY <1>1 DEF Active, Waits
<1>4. dev.a = Job.a
  BY <1>1 DEF Base, Service
<1>5. Seen(Master, ans)
  BY <1>1, <1>2, Quiet
<1>6. Ret(ans).err <=> Fails
  BY <1>1 DEF Ret, core_rsp, response, Answer
<1>7. state # "S_IDLE" => ~sc_pend_pass /\ ~sc_pend_fail /\ dev.rw
  BY <1>1, Atomics
<1>8. ~Fails => Ret(ans).data = IF state = "S_WRITE_WAIT" THEN rdata
                                ELSE IF sc_pend_fail THEN 1
                                ELSE IF sc_pend_pass \/ dev.rw THEN 0 ELSE mem[dev.a]
  <2> DEFINE rsp == Answer(ans)
  <2>1. ~Fails => rsp.data = IF dev.rw THEN 0 ELSE mem[dev.a]
    BY <1>1 DEF Answer
  <2>2. response(rsp).data = IF sc_pend_fail THEN 1 ELSE IF sc_pend_pass THEN 0 ELSE rsp.data
    BY DEF response, Answer
  <2>3. Ret(ans).data = IF state = "S_IDLE" THEN response(rsp).data ELSE rdata
    BY DEF Ret, core_rsp
  <2> HIDE DEF rsp
  <2> QED
    BY <1>1, <2>1, <2>2, <2>3
<1>9. Effect(ans) <=> dev.rw /\ ~Fails
  BY <1>1 DEF Effect
<1>10. out' = [host |-> Master, req |-> Job,
               res |-> IF Ret(ans).err THEN Atomic!BusError ELSE IF Job.op = "st" THEN 0 ELSE Ret(ans).data]
  BY <1>5 DEF Seen, Observe, Job
<1>11. LET broken == IF Effect(ans) THEN Atomic!Broken(Granule(dev.a)) ELSE link
       IN  link' = IF Job.op = "lr" /\ ~Ret(ans).err THEN [broken EXCEPT ![Master] = Granule(Job.a)]
                   ELSE IF Job.op = "sc" THEN [broken EXCEPT ![Master] = Atomic!NoLink]
                   ELSE broken
  BY <1>5 DEF Seen, Observe, Job
<1> QED
  BY <1>1, <1>2, <1>3, <1>4, <1>6, <1>8, <1>9, <1>10, <1>11

-----------------------------------------------------------------------------
(* The invariant.                                                          *)

\* Every variable keeps its range.
LEMMA TypeStep ==
    ASSUME Base, NEW go, NEW ans, Edge(go, ans)
    PROVE  Typed'
<1>1. prog' = prog /\ prog \in Programs /\ DOMAIN lsu' = Host
  BY Wires DEF Base, Typed
<1>2. cs!SwitchTypeOK' /\ ds!SwitchTypeOK'
  BY InnerMoves, OuterMoves
<1>3. lsu' \in [Host -> [st : {"idle", "armed", "wait"}, req : AllRequests \cup {Atomic!NoRequest}]]
  <2>1. \A h \in Host : lsu'[h] \in [st : {"idle", "armed", "wait"}, req : AllRequests \cup {Atomic!NoRequest}]
    BY Moves DEF Base
  <2>2. lsu' = [h \in Host |-> lsu'[h]]
    <3>1. lsu' \in [Host -> UNION {{lsu'[h]} : h \in Host}]
      BY Wires DEF Base, Edge, Cycle, Host
    <3> QED
      BY <3>1
  <2> QED
    BY <2>1, <2>2
<1>4. \A h \in Host : lsu'[h].st # "idle" => lsu'[h].req \in prog'[h]
  BY <1>1, Moves DEF Base
<1>5. RmwTypeOK /\ RvsTypeOK(Addr) /\ mem \in [Addr -> Word] /\ DOMAIN link = Host
      /\ dev \in [busy : BOOLEAN, a : Addr, v : Word, rw : BOOLEAN]
  BY DEF Base, Typed, TypeOK
<1>6. Alu \in Word /\ 0 \in Word
  <2>1. 0 \in Word
    <3> DEFINE W == 2^XLEN
    <3>1. W \in Nat \ {0}
      BY Width
    <3>2. Word = 0 .. W - 1
      BY DEF Word
    <3> HIDE DEF W
    <3> QED
      BY <3>1, <3>2
  <2> QED
    BY <1>5, <2>1, AluIsRmw DEF RmwTypeOK
<1>7. NoDev \in [busy : BOOLEAN, a : Addr, v : Word, rw : BOOLEAN]
  BY <1>6, SmpAssumption DEF NoDev
<1>8. \A h : IdOf(h) \in {0, 1}
  BY DEF IdOf
<1>9. /\ RmwTypeOK' /\ RvsTypeOK(Addr)' /\ mem' \in [Addr -> Word] /\ DOMAIN link' = Host
      /\ dev' \in [busy : BOOLEAN, a : Addr, v : Word, rw : BOOLEAN]
  <2>1. CASE Sys(go).stb
    <3> DEFINE h == Sel(go)
               r == lsu[h].req
    <3>1. h \in Host /\ r.a \in Addr /\ r.v \in Word
      BY <2>1, Started, Accesses DEF Base
    <3>2. RmwTypeOK'
      BY <1>5, <1>6, <2>1, <3>1, Started DEF RmwTypeOK
    <3>3. UNCHANGED <<mem, link>>
      BY <2>1, Started
    <3>4. dev' \in [busy : BOOLEAN, a : Addr, v : Word, rw : BOOLEAN]
      <4>1. dev' = [busy |-> TRUE, a |-> r.a, v |-> r.v, rw |-> r.op = "st" \/ (r.op = "sc" /\ Valid(h))]
        BY <2>1, Started
      <4>2. (r.op = "st" \/ (r.op = "sc" /\ Valid(h))) \in BOOLEAN
        OBVIOUS
      <4> QED
        BY <3>1, <4>1, <4>2
    <3>5. RvsTypeOK(Addr)'
      <4>1. rsv' \in [set : BOOLEAN, id : Core, addr : {Granule(a) : a \in Addr}]
        <5>1. rsv \in [set : BOOLEAN, id : Core, addr : {Granule(a) : a \in Addr}]
          BY <1>5 DEF RvsTypeOK
        <5>2. CASE r.op = "lr"
          <6>1. [set |-> TRUE, id |-> IdOf(h), addr |-> Granule(r.a)]
                    \in [set : BOOLEAN, id : Core, addr : {Granule(a) : a \in Addr}]
            BY <1>8, <3>1 DEF Core
          <6> QED
            BY <2>1, <5>1, <5>2, <6>1, Started
        <5>3. ASSUME r.op # "lr"
              PROVE  rsv' \in {rsv, [rsv EXCEPT !.set = FALSE]}
          <6>1. \E b \in BOOLEAN : rsv' = [rsv EXCEPT !.set = rsv.set /\ b]
            BY <2>1, <5>3, Started
          <6>2. rsv.set \in BOOLEAN
            BY <5>1
          <6> QED
            BY <5>1, <6>1, <6>2
        <5> QED
          BY <5>1, <5>2, <5>3
      <4>2. turn' \in Core
        BY <1>5, <2>1, Started DEF RvsTypeOK, Core
      <4> QED
        BY <4>1, <4>2, Results DEF RvsTypeOK
    <3> QED
      BY <1>5, <3>2, <3>3, <3>4, <3>5
  <2>2. CASE ~Sys(go).stb /\ state \in {"S_IDLE", "S_WRITE_WAIT"}
    <3>1. RmwTypeOK'
      BY <1>5, <1>6, <2>2, Quiet, Acks DEF RmwTypeOK
    <3>2. RvsTypeOK(Addr)'
      <4>1. rsv' = rsv /\ turn' = turn
        BY <2>2, Quiet
      <4> QED
        BY <1>5, <4>1, Results DEF RvsTypeOK
    <3>3. dev' \in [busy : BOOLEAN, a : Addr, v : Word, rw : BOOLEAN]
      BY <1>5, <1>7, <2>2, Quiet, Acks
    <3>4. mem' \in [Addr -> Word]
      <4>1. mem' \in {mem, [mem EXCEPT ![dev.a] = dev.v]}
        BY <2>2, Quiet, Acks
      <4> QED
        BY <1>5, <4>1
    <3>5. DOMAIN link' = Host
      <4>1. CASE ~ans
        <5>1. link' = link
          BY <2>2, <4>1, Quiet
        <5> QED
          BY <1>5, <5>1
      <4>2. CASE ans
        <5> DEFINE broken == IF dev.rw /\ ~Fails THEN Atomic!Broken(Granule(dev.a)) ELSE link
        <5>1. DOMAIN broken = Host
          BY <1>5 DEF Atomic!Broken
        <5>2. \/ \E x : link' = [broken EXCEPT ![Master] = x]
              \/ link' = broken
          BY <2>2, <4>2, Acks, Answered
        <5> HIDE DEF broken
        <5> QED
          BY <5>1, <5>2
      <4> QED
        BY <4>1, <4>2
    <3> QED
      BY <3>1, <3>2, <3>3, <3>4, <3>5
  <2>3. CASE state \in {"S_READ_WAIT", "S_EXECUTE", "S_WRITE"}
    <3>1. RmwTypeOK'
      <4>1. Job.a \in Addr
        BY <2>3, Atomics, Accesses DEF Base, Job
      <4>2. mem[Job.a] \in Word
        BY <1>5, <4>1
      <4> QED
        BY <1>5, <1>6, <2>3, <4>2, Working, Acks DEF RmwTypeOK
    <3>2. RvsTypeOK(Addr)'
      <4>1. rsv' \in {rsv, [rsv EXCEPT !.set = FALSE]}
        <5>1. rsv \in [set : BOOLEAN, id : Core, addr : {Granule(a) : a \in Addr}]
          BY <1>5 DEF RvsTypeOK
        <5>2. \E b \in BOOLEAN : rsv' = rsv \/ rsv' = [rsv EXCEPT !.set = rsv.set /\ b]
          BY <2>3, Working
        <5>3. rsv.set \in BOOLEAN
          BY <5>1
        <5> QED
          BY <5>1, <5>2, <5>3
      <4>2. turn' = turn
        BY <2>3, Working
      <4> QED
        BY <1>5, <4>1, <4>2, Results DEF RvsTypeOK
    <3>3. dev' \in [busy : BOOLEAN, a : Addr, v : Word, rw : BOOLEAN]
      <4>1. Job.a \in Addr
        BY <2>3, Atomics, Accesses DEF Base, Job
      <4>2. alu_res \in Word
        BY <1>5 DEF RmwTypeOK
      <4> QED
        <5>1. dev' \in {dev, NoDev, [busy |-> TRUE, a |-> Job.a, v |-> alu_res, rw |-> TRUE]}
          BY <2>3, Working, Acks
        <5>2. [busy |-> TRUE, a |-> Job.a, v |-> alu_res, rw |-> TRUE]
                  \in [busy : BOOLEAN, a : Addr, v : Word, rw : BOOLEAN]
          BY <4>1, <4>2
        <5> QED
          BY <1>5, <1>7, <5>1, <5>2
    <3> QED
      BY <1>5, <2>3, <3>1, <3>2, <3>3, Working
  <2>4. state \in {"S_IDLE", "S_READ_WAIT", "S_EXECUTE", "S_WRITE", "S_WRITE_WAIT"}
    BY <1>5 DEF RmwTypeOK
  <2> QED
    BY <2>1, <2>2, <2>3, <2>4
<1> QED
  BY <1>1, <1>2, <1>3, <1>4, <1>9 DEF Typed, TypeOK

\* The controllers stay on the access that was let through.
LEMMA ServiceStep ==
    ASSUME Base, NEW go, NEW ans, Edge(go, ans)
    PROVE  Service'
<1>1. /\ Amo(Master) <=> Job.op \in AmoOp
      /\ Amo(Master)' <=> Job'.op \in AmoOp
  BY DEF Amo, Job
<1>2. /\ cmd' = cmd /\ rdata' = rdata /\ wdata' = wdata => Alu' = Alu
  BY DEF Alu, cmp_res, cmp_less, cmp_op
<1>3. sc_pend_pass \in BOOLEAN /\ sc_pend_fail \in BOOLEAN
      /\ sc_pend_pass' \in BOOLEAN /\ sc_pend_fail' \in BOOLEAN
  BY Results DEF Base, Typed, TypeOK, RvsTypeOK
<1>4. state \in {"S_IDLE", "S_READ_WAIT", "S_EXECUTE", "S_WRITE", "S_WRITE_WAIT"}
  BY DEF Base, Typed, TypeOK, RmwTypeOK
<1>5. CASE Sys(go).stb
  <2> DEFINE h == Sel(go)
             r == lsu[h].req
  <2>1. /\ state = "S_IDLE" /\ Active' /\ Job' = r
        /\ IF r.op \in AmoOp THEN cmd' = r.op /\ wdata' = r.v /\ state' = "S_READ_WAIT"
                             ELSE UNCHANGED <<cmd, wdata, state>>
        /\ sc_pend_pass' = (r.op = "sc" /\ Valid(h)) /\ sc_pend_fail' = (r.op = "sc" /\ ~Valid(h))
        /\ dev' = [busy |-> TRUE, a |-> r.a, v |-> r.v, rw |-> r.op = "st" \/ (r.op = "sc" /\ Valid(h))]
    BY <1>5, Started
  <2>2. /\ dev'.busy = TRUE /\ dev'.a = r.a /\ dev'.v = r.v
        /\ dev'.rw = (r.op = "st" \/ (r.op = "sc" /\ Valid(h)))
    BY <2>1
  <2> HIDE DEF r
  <2>3. CASE r.op \in AmoOp
    <3>1. /\ r.op # "st" /\ r.op # "sc"
      BY <2>3 DEF AmoOp
    <3>2. ~dev'.rw /\ ~sc_pend_pass' /\ ~sc_pend_fail' /\ Amo(Master)'
      BY <1>1, <2>1, <2>2, <2>3, <3>1
    <3>3. /\ state' = "S_READ_WAIT" /\ cmd' = r.op /\ wdata' = r.v
      BY <2>1, <2>3
    <3>4. dev'.rw = (state' = "S_WRITE_WAIT")
      <4>1. dev'.rw \in BOOLEAN
        BY <2>2
      <4> QED
        BY <3>2, <3>3, <4>1
    <3>5. dev'.busy = (state' \in {"S_READ_WAIT", "S_WRITE_WAIT"})
      BY <2>2, <3>3
    <3>6. sc_pend_fail' = (Active' /\ Job'.op = "sc" /\ ~sc_pend_pass')
      BY <1>3, <2>1, <3>1, <3>2
    <3> QED
      BY <2>1, <2>2, <3>2, <3>3, <3>4, <3>5, <3>6 DEF Service
  <2>4. CASE r.op \notin AmoOp
    <3>1. ~Amo(Master)' /\ state' = "S_IDLE"
      BY <1>1, <2>1, <2>4
    <3>2. dev'.rw = (Job'.op = "st" \/ sc_pend_pass')
      BY <2>1, <2>2
    <3>3. sc_pend_fail' = (Active' /\ Job'.op = "sc" /\ ~sc_pend_pass') /\ (sc_pend_pass' => Job'.op = "sc")
      BY <1>3, <2>1
    <3> QED
      BY <2>1, <2>2, <3>1, <3>2, <3>3 DEF Service
  <2> QED
    BY <2>3, <2>4
<1>6. CASE ~Sys(go).stb /\ state \in {"S_IDLE", "S_WRITE_WAIT"} /\ ~ans
  <2>1. /\ state' = state /\ dev' = dev /\ mem' = mem /\ sc_pend_pass' = sc_pend_pass
        /\ sc_pend_fail' = sc_pend_fail /\ cmd' = cmd /\ wdata' = wdata /\ rdata' = rdata /\ alu_res' = Alu
    BY <1>6, Quiet
  <2>2. CASE Active
    <3>1. Active' /\ Job' = Job
      BY <1>6, <2>2, Acks, Arbiter DEF Job
    <3>2. /\ Amo(Master)' <=> Amo(Master)
          /\ Alu' = Alu
      BY <1>1, <1>2, <2>1, <3>1
    <3> QED
      BY <1>6, <2>1, <2>2, <3>1, <3>2 DEF Base, Service
  <2>3. CASE ~Active
    <3>1. ~Active'
      BY <1>6, <2>3, Arbiter
    <3>2. state = "S_IDLE" /\ ~dev.busy /\ ~sc_pend_pass /\ ~sc_pend_fail
      BY <2>3 DEF Base, Service
    <3>3. sc_pend_fail' = FALSE
      BY <1>3, <2>1, <3>2
    <3> QED
      BY <2>1, <3>1, <3>2, <3>3 DEF Service
  <2> QED
    BY <2>2, <2>3
<1>7. CASE ~Sys(go).stb /\ state \in {"S_IDLE", "S_WRITE_WAIT"} /\ ans
  <2>1. state' = "S_IDLE" /\ ~sc_pend_pass' /\ ~sc_pend_fail' /\ dev' = NoDev
    BY <1>7, Quiet
  <2>2. ~Active' /\ ~dev'.busy
    BY <1>7, <2>1, Acks, Arbiter DEF NoDev
  <2>3. sc_pend_fail' = FALSE
    BY <1>3, <2>1
  <2> QED
    BY <2>1, <2>2, <2>3 DEF Service
<1>8. CASE state \in {"S_READ_WAIT", "S_EXECUTE", "S_WRITE"}
  <2>1. /\ Active' /\ Job' = Job /\ cmd' = cmd /\ wdata' = wdata /\ mem' = mem
        /\ alu_res' = Alu /\ ~sc_pend_pass' /\ ~sc_pend_fail'
    BY <1>8, Working
  <2>2. /\ Amo(Master) /\ cmd = Job.op /\ wdata = Job.v /\ state # "S_IDLE"
        /\ dev.busy = (state \in {"S_READ_WAIT", "S_WRITE_WAIT"})
        /\ dev.busy => dev.a = Job.a /\ dev.rw = (state = "S_WRITE_WAIT")
    BY <1>8, Atomics
  <2>3. Amo(Master)' /\ Job.op # "sc"
    BY <1>1, <2>1, <2>2 DEF AmoOp
  <2>4. sc_pend_fail' = (Active' /\ Job'.op = "sc" /\ ~sc_pend_pass')
    BY <1>3, <2>1, <2>3
  <2>5. /\ state # "S_READ_WAIT" => Job.a \in ReadErr \/ rdata = mem[Job.a]
        /\ state = "S_WRITE" => alu_res = Alu
    BY <1>8, <2>2 DEF Base, Service
  <2>6. CASE state = "S_READ_WAIT" /\ ~ans
    <3>1. state' = state /\ dev' = dev
      BY <2>6, Working
    <3> QED
      BY <2>1, <2>2, <2>3, <2>4, <2>6, <3>1 DEF Service
  <2>7. CASE state = "S_READ_WAIT" /\ ans
    <3>1. /\ state' = "S_EXECUTE" /\ dev' = NoDev
          /\ rdata' = IF Job.a \in ReadErr THEN 0 ELSE mem[Job.a]
      BY <2>7, Working
    <3>2. dev'.busy = FALSE
      BY <3>1 DEF NoDev
    <3>3. dev'.busy = (state' \in {"S_READ_WAIT", "S_WRITE_WAIT"})
      <4>1. state' = "S_EXECUTE"
        BY <3>1
      <4>2. (state' \in {"S_READ_WAIT", "S_WRITE_WAIT"}) = FALSE
        BY <4>1
      <4> QED
        BY <3>2, <4>2, Zenon
    <3>4. Job.a \in ReadErr \/ rdata' = mem[Job.a]
      BY <3>1
    <3> QED
      BY <2>1, <2>2, <2>3, <2>4, <3>1, <3>2, <3>3, <3>4 DEF Service
  <2>8. CASE state = "S_EXECUTE"
    <3>1. state' = "S_WRITE" /\ dev' = dev /\ rdata' = rdata
      BY <2>8, Working
    <3>2. Alu' = Alu
      BY <1>2, <2>1, <3>1
    <3>3. dev'.busy = FALSE
      <4>1. (state \in {"S_READ_WAIT", "S_WRITE_WAIT"}) = FALSE
        BY <2>8
      <4> QED
        BY <2>2, <3>1, <4>1
    <3> QED
      BY <2>1, <2>2, <2>3, <2>4, <2>5, <2>8, <3>1, <3>2, <3>3 DEF Service
  <2>9. CASE state = "S_WRITE"
    <3>1. /\ state' = "S_WRITE_WAIT" /\ rdata' = rdata
          /\ dev' = [busy |-> TRUE, a |-> Job.a, v |-> alu_res, rw |-> TRUE]
      BY <2>9, Working
    <3>2. Alu' = Alu
      BY <1>2, <2>1, <3>1
    <3>3. dev'.busy = TRUE /\ dev'.a = Job.a /\ dev'.v = alu_res /\ dev'.rw = TRUE
      BY <3>1
    <3> QED
      BY <2>1, <2>2, <2>3, <2>4, <2>5, <2>9, <3>1, <3>2, <3>3 DEF Service
  <2> QED
    BY <1>8, <2>6, <2>7, <2>8, <2>9
<1> QED
  BY <1>4, <1>5, <1>6, <1>7, <1>8

\* A reservation is backed by a load-reserved.
LEMMA ReservedStep ==
    ASSUME Base, Trusted, NEW go, NEW ans, Edge(go, ans)
    PROVE  Reserved'
<1>1. /\ rsv.set => \/ link[CoreOf(rsv.id)] = rsv.addr
                    \/ Active /\ Job.op = "lr" /\ Master = CoreOf(rsv.id)
      /\ rsv.set /\ Active /\ Job.op = "lr" /\ Master = CoreOf(rsv.id) => rsv.addr = Granule(Job.a)
      /\ rsv.set /\ dev.busy /\ dev.rw => rsv.addr # Granule(dev.a)
      /\ sc_pend_pass => link[Master] = Granule(Job.a)
      /\ Active /\ Job.op = "sc" => ~(rsv.set /\ CoreOf(rsv.id) = Master)
  BY DEF Base, Reserved
<1>2. state \in {"S_IDLE", "S_READ_WAIT", "S_EXECUTE", "S_WRITE", "S_WRITE_WAIT"}
  BY DEF Base, Typed, TypeOK, RmwTypeOK
<1>3. rsv.id \in {0, 1} /\ DOMAIN rsv = {"set", "id", "addr"} /\ CoreOf(rsv.id) \in Host
  BY DEF Base, Typed, TypeOK, RvsTypeOK, Core, CoreOf, Host
<1>4. CASE Sys(go).stb
  <2> DEFINE h == Sel(go)
             r == lsu[h].req
  <2>1. /\ h \in Host /\ lsu[h].st # "idle" /\ ~Active /\ ~sc_pend_pass
        /\ Active' /\ Master' = h /\ Job' = r /\ link' = link
        /\ r.op = "lr" => \/ rsv' = [set |-> TRUE, id |-> IdOf(h), addr |-> Granule(r.a)]
                          \/ rsv' = rsv /\ rsv.id # IdOf(h)
        /\ r.op = "sc" => rsv' = [rsv EXCEPT !.set = @ /\ ~(Valid(h) \/ rsv.id = IdOf(h))]
        /\ r.op \notin {"lr", "sc"} =>
              rsv' = [rsv EXCEPT !.set = @ /\ ~(r.op = "st" /\ Granule(r.a) = rsv.addr)]
        /\ sc_pend_pass' = (r.op = "sc" /\ Valid(h))
        /\ dev' = [busy |-> TRUE, a |-> r.a, v |-> r.v, rw |-> r.op = "st" \/ (r.op = "sc" /\ Valid(h))]
    BY <1>4, Started
  <2>2. r.op \in {"lr", "sc"} => h \in {"core0", "core1"}
    BY <2>1, Accesses DEF Base, Host
  <2>3. /\ r.op \in {"lr", "sc"} => \A i \in {0, 1} : CoreOf(i) = h <=> i = IdOf(h)
        /\ IdOf(h) \in {0, 1}
    BY <2>2 DEF CoreOf, IdOf
  <2>4. rsv.set => link[CoreOf(rsv.id)] = rsv.addr
    BY <1>1, <2>1
  <2>5. dev'.busy /\ dev'.a = r.a /\ (dev'.rw <=> r.op = "st" \/ (r.op = "sc" /\ Valid(h)))
    BY <2>1
  <2> HIDE DEF r
  <2>6. CASE r.op = "lr"
    <3>1. ~dev'.rw /\ ~sc_pend_pass'
      BY <2>1, <2>5, <2>6
    <3>2. CASE rsv' = [set |-> TRUE, id |-> IdOf(h), addr |-> Granule(r.a)]
      <4>1. rsv'.id = IdOf(h) /\ rsv'.addr = Granule(r.a) /\ CoreOf(IdOf(h)) = h
        BY <2>3, <2>6, <3>2
      <4> QED
        BY <2>1, <2>6, <3>1, <4>1 DEF Reserved
    <3>3. CASE rsv' = rsv /\ rsv.id # IdOf(h)
      <4>1. CoreOf(rsv.id) # h
        BY <1>3, <2>3, <2>6, <3>3
      <4> QED
        BY <2>1, <2>4, <2>6, <3>1, <3>3, <4>1 DEF Reserved
    <3> QED
      BY <2>1, <2>6, <3>2, <3>3
  <2>7. CASE r.op = "sc"
    <3>1. /\ rsv'.set => rsv.set /\ ~Valid(h) /\ rsv.id # IdOf(h)
          /\ rsv'.id = rsv.id /\ rsv'.addr = rsv.addr
      BY <1>3, <2>1, <2>7
    <3>2. rsv'.set => ~(r.op = "sc" /\ Valid(h)) /\ ~dev'.rw /\ CoreOf(rsv'.id) # h
      BY <1>3, <2>3, <2>5, <2>7, <3>1
    <3>3. sc_pend_pass' => Valid(h)
      BY <2>1
    <3>4. Valid(h) => link[h] = Granule(r.a)
      <4>1. Valid(h) => rsv.set /\ rsv.id = IdOf(h) /\ rsv.addr = Granule(r.a)
        BY DEF Valid, r
      <4>2. CoreOf(IdOf(h)) = h
        BY <2>3, <2>7
      <4> QED
        BY <2>4, <4>1, <4>2
    <3> QED
      BY <2>1, <2>4, <2>7, <3>1, <3>2, <3>3, <3>4 DEF Reserved
  <2>8. CASE r.op \notin {"lr", "sc"}
    <3>1. /\ rsv'.set => rsv.set /\ ~(r.op = "st" /\ Granule(r.a) = rsv.addr)
          /\ rsv'.id = rsv.id /\ rsv'.addr = rsv.addr
      BY <1>3, <2>1, <2>8
    <3>2. ~sc_pend_pass'
      BY <2>1, <2>8
    <3> QED
      BY <2>1, <2>4, <2>5, <2>8, <3>1, <3>2 DEF Reserved
  <2> QED
    BY <2>6, <2>7, <2>8
<1>5. CASE ~Sys(go).stb /\ state \in {"S_IDLE", "S_WRITE_WAIT"} /\ ~ans
  <2>1. dev' = dev /\ rsv' = rsv /\ link' = link /\ sc_pend_pass' = sc_pend_pass
    BY <1>5, Quiet
  <2>2. CASE Active
    <3>1. Active' /\ Master' = Master /\ Job' = Job
      BY <1>5, <2>2, Acks, Arbiter DEF Job
    <3> QED
      BY <1>1, <2>1, <2>2, <3>1 DEF Reserved
  <2>3. CASE ~Active
    <3>1. ~Active'
      BY <1>5, <2>3, Arbiter
    <3>2. ~dev.busy /\ ~sc_pend_pass
      BY <2>3 DEF Base, Service
    <3> QED
      BY <1>1, <2>1, <2>3, <3>1, <3>2 DEF Reserved
  <2> QED
    BY <2>2, <2>3
<1>6. CASE ~Sys(go).stb /\ state \in {"S_IDLE", "S_WRITE_WAIT"} /\ ans
  <2> DEFINE broken == IF dev.rw /\ ~Fails THEN Atomic!Broken(Granule(dev.a)) ELSE link
  <2>1. Ret(ans).ack
    BY <1>6, Acks
  <2>2. rsv' = rsv /\ ~sc_pend_pass' /\ dev' = NoDev
    BY <1>6, Quiet
  <2>3. ~dev'.busy
    BY <2>2 DEF NoDev
  <2>4. /\ Active /\ ~Active' /\ dev.busy /\ dev.a = Job.a /\ Master \in Host
        /\ link' = IF Job.op = "lr" /\ ~Fails THEN [broken EXCEPT ![Master] = Granule(Job.a)]
                   ELSE IF Job.op = "sc" THEN [broken EXCEPT ![Master] = Atomic!NoLink]
                   ELSE broken
    BY <2>1, Answered
  <2>5. DOMAIN broken = Host /\ \A g \in Host : broken[g] = link[g] \/ (dev.rw /\ link[g] = Granule(dev.a))
    BY DEF Atomic!Broken, Base, Typed
  <2> HIDE DEF broken
  <2>6. ASSUME rsv.set
        PROVE  link'[CoreOf(rsv.id)] = rsv.addr
    <3> DEFINE c == CoreOf(rsv.id)
    <3>1. CASE Job.op = "lr" /\ Master = c
      <4>1. ~Fails
        <5>1. Job.a \notin ReadErr
          <6>1. lsu[Master].req \in prog[Master] /\ prog \in Programs
            BY <2>1, Answered, Accesses DEF Base, Typed
          <6> QED
            BY <2>4, <3>1, <6>1 DEF Trusted, Job
        <5>2. ~dev.rw
          <6>1. ~Amo(Master) /\ ~sc_pend_pass
            BY <3>1 DEF Base, Service, Amo, Job, AmoOp
          <6>2. dev.rw = (Job.op = "st" \/ sc_pend_pass)
            BY <2>4, <6>1 DEF Base, Service
          <6> QED
            BY <3>1, <6>1, <6>2
        <5> QED
          BY <2>4, <5>1, <5>2 DEF Fails
      <4>2. link' = [broken EXCEPT ![Master] = Granule(Job.a)]
        BY <2>4, <3>1, <4>1
      <4> QED
        BY <1>1, <2>4, <2>5, <2>6, <3>1, <4>2
    <3>2. CASE ~(Job.op = "lr" /\ Master = c)
      <4>1. link[c] = rsv.addr
        BY <1>1, <2>6, <3>2
      <4>2. broken[c] = link[c]
        BY <1>1, <1>3, <2>4, <2>5, <2>6, <4>1
      <4>3. link'[c] = broken[c]
        <5>1. \/ \E x : link' = [broken EXCEPT ![Master] = x] /\ Master # c
              \/ link' = broken
          BY <1>1, <2>4, <2>6, <3>2
        <5> QED
          BY <1>3, <2>5, <5>1
      <4> QED
        BY <4>1, <4>2, <4>3
    <3> QED
      BY <3>1, <3>2
  <2> QED
    BY <2>2, <2>3, <2>4, <2>6 DEF Reserved
<1>7. CASE state \in {"S_READ_WAIT", "S_EXECUTE", "S_WRITE"}
  <2>1. Active' /\ Master' = Master /\ Job' = Job /\ link' = link /\ ~sc_pend_pass'
    BY <1>7, Working
  <2>2. /\ Active /\ Job.op \in AmoOp
        /\ dev.busy = (state \in {"S_READ_WAIT", "S_WRITE_WAIT"})
        /\ dev.busy => dev.rw = (state = "S_WRITE_WAIT")
    BY <1>7, Atomics DEF Amo, Job
  <2>3. Job.op # "lr" /\ Job.op # "sc"
    BY <2>2 DEF AmoOp
  <2>4. rsv.set => link[CoreOf(rsv.id)] = rsv.addr
    BY <1>1, <2>3
  <2>5. CASE state = "S_WRITE"
    <3>1. /\ rsv' = [rsv EXCEPT !.set = @ /\ ~(Granule(Job.a) = rsv.addr)]
          /\ dev' = [busy |-> TRUE, a |-> Job.a, v |-> alu_res, rw |-> TRUE]
      BY <2>5, Working
    <3>2. /\ rsv'.set => rsv.set /\ Granule(Job.a) # rsv.addr
          /\ rsv'.id = rsv.id /\ rsv'.addr = rsv.addr
      BY <1>3, <3>1
    <3>3. dev'.a = Job.a
      BY <3>1
    <3> QED
      BY <2>1, <2>3, <2>4, <3>2, <3>3 DEF Reserved
  <2>6. CASE state # "S_WRITE"
    <3>1. rsv' = rsv
      BY <1>7, <2>6, Working
    <3>2. ~(dev'.busy /\ dev'.rw)
      <4>1. dev' = dev \/ dev' = NoDev
        BY <1>7, <2>6, Working
      <4>2. dev.busy => ~dev.rw
        BY <1>7, <2>2
      <4> QED
        BY <4>1, <4>2 DEF NoDev
    <3> QED
      BY <2>1, <2>3, <2>4, <3>1, <3>2 DEF Reserved
  <2> QED
    BY <2>5, <2>6
<1> QED
  BY <1>2, <1>4, <1>5, <1>6, <1>7

\* The error of an atomic operation's read comes back with its write.
LEMMA ReportStep ==
    ASSUME IInv, Trusted, NEW go, NEW ans, Edge(go, ans)
    PROVE  ReadErrorReported'
<1>1. CASE Ret(ans).ack
  <2>1. /\ dev.a = Job.a /\ Active
        /\ out' = [host |-> Master, req |-> Job,
                   res |-> IF Fails THEN Atomic!BusError ELSE IF Job.op = "st" THEN 0
                           ELSE IF state = "S_WRITE_WAIT" THEN rdata
                           ELSE IF sc_pend_fail THEN 1
                           ELSE IF sc_pend_pass \/ dev.rw THEN 0 ELSE mem[dev.a]]
        /\ state \in {"S_IDLE", "S_WRITE_WAIT"} /\ dev.busy
    BY <1>1, Answered DEF IInv
  <2>2. out'.req = Job
    BY <2>1
  <2>3. ASSUME Job.op \in AmoOp, Job.a \in ReadErr
        PROVE  Fails
    <3>1. state # "S_IDLE"
      BY <2>1, <2>3 DEF IInv, Base, Service, Amo, Job
    <3>2. dev.rw
      BY <2>1, <3>1, Atomics DEF IInv
    <3> QED
      BY <2>1, <2>3, <3>2 DEF Trusted, Fails
  <2>4. Fails => out'.res = Atomic!BusError
    BY <2>1
  <2> QED
    BY <2>2, <2>3, <2>4 DEF ReadErrorReported
<1>2. CASE ~Ret(ans).ack
  <2>1. out' = out
    <3>1. Observe("dma", FALSE, Ret(ans), ans)
      BY <1>2, Wires, Acks DEF IInv, Base
    <3> QED
      BY <3>1 DEF Observe
  <2> QED
    BY <2>1 DEF IInv, ReadErrorReported
<1> QED
  BY <1>1, <1>2

\* Every clock edge keeps the invariant.
LEMMA NextIInv == ASSUME IInv, Trusted, [Next]_vars PROVE IInv'
<1>1. CASE Next
  <2>1. PICK go, ans : Edge(go, ans)
    BY <1>1, StepIsEdge
  <2>2. Base
    BY DEF IInv
  <2>3. Typed' /\ InnerSwitch' /\ OuterSwitch' /\ Service' /\ Reserved'
    BY <2>1, <2>2, TypeStep, InnerStep, OuterStep, ServiceStep, ReservedStep
  <2>4. ReadErrorReported'
    BY <2>1, ReportStep
  <2> QED
    BY <2>3, <2>4 DEF IInv, Base
<1>2. CASE UNCHANGED vars
  BY <1>2 DEF vars, csVars, dsVars, rmwVars, rvsVars, IInv, Base, Typed, TypeOK, InnerSwitch,
     OuterSwitch, Service, Reserved, ReadErrorReported, Active, Master, Job, Waits, Amo, Alu,
     cmp_res, cmp_less, cmp_op, RmwTypeOK, RvsTypeOK, cs!SwitchTypeOK, ds!SwitchTypeOK
<1> QED
  BY <1>1, <1>2

\* The invariant holds at reset.
LEMMA InitIInv == ASSUME Init PROVE IInv
<1> USE DEF Init
<1>1. 0 \in Word
  <2> DEFINE W == 2^XLEN
  <2>1. W \in Nat \ {0}
    BY Width
  <2>2. Word = 0 .. W - 1
    BY DEF Word
  <2> HIDE DEF W
  <2> QED
    BY <2>1, <2>2
<1>2. /\ lsu \in [Host -> [st : {"idle", "armed", "wait"}, req : AllRequests \cup {Atomic!NoRequest}]]
      /\ \A h \in Host : lsu[h].st = "idle"
  BY DEF Host
<1>3. /\ cs_state = cs!Idle /\ ds_state = ds!Idle
      /\ cs!SwitchTypeOK /\ ds!SwitchTypeOK
      /\ \A p \in cs!Port : ~cs_pend[p] /\ cs_pend[p] \in BOOLEAN /\ CoreAt(p) \in Host
      /\ \A p \in ds!Port : ~ds_pend[p] /\ ds_pend[p] \in BOOLEAN
  BY DEF cs!SwitchInit, ds!SwitchInit, cs!SwitchTypeOK, ds!SwitchTypeOK, cs!Port, ds!Port, CoreAt, Host
<1>4. /\ \A p \in cs!Port : cs!Idle # cs!Busy(p)
      /\ \A p \in ds!Port : ds!Idle # ds!Busy(p)
      /\ "A" \in ds!Port /\ "B" \in ds!Port /\ "dma" \in Host
  BY DEF cs!Idle, ds!Idle, cs!Busy, ds!Busy, cs!Port, ds!Port, Host
<1>5. RmwTypeOK /\ RvsTypeOK(Addr)
  BY <1>1, SmpAssumption DEF RmwInit, RvsInit, RmwTypeOK, RvsTypeOK, AmoOp, Core
<1>6. dev \in [busy : BOOLEAN, a : Addr, v : Word, rw : BOOLEAN] /\ ~dev.busy
  BY <1>1, SmpAssumption DEF NoDev
<1>7. mem \in [Addr -> Word] /\ DOMAIN link = Host
  BY <1>1
<1>8. Typed
  BY <1>2, <1>3, <1>5, <1>6, <1>7 DEF Typed, TypeOK
<1>9. \A h \in Host : Waits(h) = FALSE
  BY <1>2 DEF Waits
<1>10. InnerSwitch
  BY <1>3, <1>4, <1>9 DEF InnerSwitch
<1>11. OuterSwitch
  BY <1>3, <1>4, <1>9 DEF OuterSwitch
<1>12. ~Active /\ ~rsv.set /\ ~sc_pend_pass /\ sc_pend_fail = FALSE /\ state = "S_IDLE"
  BY <1>3 DEF Active, RvsInit, RmwInit
<1>13. Service /\ Reserved
  BY <1>6, <1>12 DEF Service, Reserved
<1>14. ReadErrorReported
  BY DEF ReadErrorReported, Atomic!NoRequest, AmoOp
<1> QED
  BY <1>8, <1>10, <1>11, <1>13, <1>14 DEF IInv, Base

\* The invariant gives what the cores are told of an atomic access.
LEMMA ResultsTrue == ASSUME IInv PROVE AtomicResultTrue
<1>1. TypeOK /\ ReadErrorReported
  BY DEF IInv, Base, Typed
<1>2. ReservationSound
  <2> SUFFICES ASSUME rsv.set, ~dev.busy, state = "S_IDLE"
               PROVE  link[CoreOf(rsv.id)] = rsv.addr
    BY DEF ReservationSound, CoreOf
  <2>1. ~(Active /\ ~Amo(Master)) /\ ~(Active /\ Amo(Master))
    BY DEF IInv, Base, Service
  <2> QED
    BY <2>1 DEF IInv, Base, Reserved
<1> QED
  BY <1>1, <1>2 DEF AtomicResultTrue

\* The arbiters, the atomics and the memory keep to the access that was let
\* through, for every program and whatever the width of a word.
THEOREM Inductive == ASSUME Trusted PROVE Spec => []IInv
<1>1. Init => IInv
  BY InitIInv
<1>2. IInv /\ [Next]_vars => IInv'
  BY NextIInv
<1> QED
  BY <1>1, <1>2, PTL DEF Spec

\* The cores are told the truth about their atomic accesses: a reservation that
\* is offered to a store-conditional is intact, and the error of an atomic
\* operation's read is reported.
THEOREM Truthful == ASSUME Trusted PROVE Spec => []AtomicResultTrue
<1>1. IInv => AtomicResultTrue
  BY ResultsTrue
<1> QED
  BY <1>1, Inductive, PTL

-----------------------------------------------------------------------------
(* The refinement.                                                         *)

\* Between the answers nothing changes that the masters or the memory's
\* readers can see.
LEMMA Unseen ==
    ASSUME Base, NEW go, NEW ans, Edge(go, ans), ~Ret(ans).ack
    PROVE  mem' = mem /\ link' = link /\ out' = out
<1>1. state \in {"S_IDLE", "S_READ_WAIT", "S_EXECUTE", "S_WRITE", "S_WRITE_WAIT"}
  BY DEF Base, Typed, TypeOK, RmwTypeOK
<1>2. CASE Sys(go).stb
  BY <1>2, Started
<1>3. CASE ~Sys(go).stb /\ state \in {"S_IDLE", "S_WRITE_WAIT"}
  <2>1. ~ans
    BY <1>3, Acks
  <2> QED
    BY <1>3, <2>1, Quiet
<1>4. CASE state \in {"S_READ_WAIT", "S_EXECUTE", "S_WRITE"}
  BY <1>4, Working
<1> QED
  BY <1>1, <1>2, <1>3, <1>4

\* An answer is the step of the atomic memory: the whole access at once.
LEMMA AnswerIsAtomic ==
    ASSUME Base, Trusted, NEW go, NEW ans, Edge(go, ans), Ret(ans).ack
    PROVE  Atomic!Next
<1> DEFINE h == Master
           r == Job
           broken == IF dev.rw /\ ~Fails THEN Atomic!Broken(Granule(dev.a)) ELSE link
           res == IF Fails THEN Atomic!BusError ELSE IF r.op = "st" THEN 0
                  ELSE IF state = "S_WRITE_WAIT" THEN rdata
                  ELSE IF sc_pend_fail THEN 1
                  ELSE IF sc_pend_pass \/ dev.rw THEN 0 ELSE mem[dev.a]
<1>1. /\ ans /\ Active /\ state \in {"S_IDLE", "S_WRITE_WAIT"} /\ dev.busy
      /\ ~Sys(go).stb /\ h \in Host /\ lsu[h].st # "idle" /\ dev.a = r.a
      /\ out' = [host |-> h, req |-> r, res |-> res]
      /\ link' = IF r.op = "lr" /\ ~Fails THEN [broken EXCEPT ![h] = Granule(r.a)]
                 ELSE IF r.op = "sc" THEN [broken EXCEPT ![h] = Atomic!NoLink]
                 ELSE broken
  BY Answered
<1>2. mem' = IF dev.rw /\ ~Fails THEN [mem EXCEPT ![dev.a] = dev.v] ELSE mem
  BY <1>1, Quiet
<1>3. /\ r \in AllRequests /\ r.op \in AmoOp \cup {"ld", "st", "lr", "sc"}
      /\ r.a \in Addr /\ mem \in [Addr -> Word] /\ DOMAIN link = Host
  BY <1>1, Accesses DEF Base, Typed, TypeOK, Job
<1>4. Amo(h) <=> r.op \in AmoOp
  BY DEF Amo, Job
<1>5. /\ r.op \notin AmoOp => /\ state = "S_IDLE" /\ dev.rw = (r.op = "st" \/ sc_pend_pass)
                              /\ dev.rw => dev.v = r.v
      /\ r.op \in AmoOp => state = "S_WRITE_WAIT" /\ dev.rw
      /\ r.op # "sc" => ~sc_pend_pass /\ ~sc_pend_fail
      /\ r.op = "sc" => sc_pend_fail = ~sc_pend_pass
  <2>1. r.op \in AmoOp => state # "S_IDLE"
    BY <1>1, <1>4 DEF Base, Service
  <2>2. state # "S_IDLE" => dev.rw
    BY <1>1, Atomics
  <2> QED
    BY <1>1, <1>4, <2>1, <2>2 DEF Base, Service
<1>6. CASE Fails
  <2>1. mem' = mem /\ broken = link
    BY <1>2, <1>6
  <2>2. res = Atomic!BusError
    BY <1>6
  <2> HIDE DEF broken, res, h, r
  <2>3. link' \in {link, [link EXCEPT ![h] = Atomic!NoLink]}
    BY <1>1, <1>6, <2>1
  <2>4. Atomic!Fault(h, r)
    BY <1>1, <2>1, <2>2, <2>3 DEF Atomic!Fault, Atomic!Returns
  <2> QED
    BY <1>1, <1>3, <2>4 DEF Atomic!Next
<1>7. CASE ~Fails /\ r.op = "ld"
  <2>1. ~dev.rw /\ res = mem[r.a] /\ broken = link
    BY <1>1, <1>5, <1>7 DEF AmoOp
  <2> HIDE DEF broken, res, h, r
  <2>2. Atomic!Load(h, r)
    BY <1>1, <1>2, <1>7, <2>1 DEF Atomic!Load, Atomic!Returns
  <2> QED
    BY <1>1, <1>3, <2>2 DEF Atomic!Next
<1>8. CASE ~Fails /\ r.op = "st"
  <2>1. dev.rw /\ dev.v = r.v /\ res = 0 /\ broken = Atomic!Broken(Granule(r.a))
    BY <1>1, <1>5, <1>8 DEF AmoOp
  <2> HIDE DEF broken, res, h, r
  <2>2. Atomic!Store(h, r)
    BY <1>1, <1>2, <1>8, <2>1 DEF Atomic!Store, Atomic!Returns
  <2> QED
    BY <1>1, <1>3, <2>2 DEF Atomic!Next
<1>9. CASE ~Fails /\ r.op = "lr"
  <2>1. ~dev.rw /\ res = mem[r.a] /\ broken = link
    BY <1>1, <1>5, <1>9 DEF AmoOp
  <2> HIDE DEF broken, res, h, r
  <2>2. Atomic!LoadReserved(h, r)
    BY <1>1, <1>2, <1>9, <2>1 DEF Atomic!LoadReserved, Atomic!Returns
  <2> QED
    BY <1>1, <1>3, <2>2 DEF Atomic!Next
<1>10. CASE ~Fails /\ r.op = "sc" /\ sc_pend_pass
  <2>1. dev.rw /\ dev.v = r.v /\ res = 0 /\ broken = Atomic!Broken(Granule(r.a))
    BY <1>1, <1>5, <1>10 DEF AmoOp
  <2>2. link[h] = Granule(r.a)
    BY <1>10 DEF Base, Reserved
  <2> HIDE DEF broken, res, h, r
  <2>3. Atomic!StoreConditional(h, r)
    BY <1>1, <1>2, <1>10, <2>1, <2>2 DEF Atomic!StoreConditional, Atomic!Returns, Atomic!Passed
  <2> QED
    BY <1>1, <1>3, <2>3 DEF Atomic!Next
<1>11. CASE ~Fails /\ r.op = "sc" /\ ~sc_pend_pass
  <2>1. ~dev.rw /\ res = 1 /\ broken = link
    BY <1>1, <1>5, <1>11 DEF AmoOp
  <2> HIDE DEF broken, res, h, r
  <2>2. Atomic!StoreConditional(h, r)
    BY <1>1, <1>2, <1>11, <2>1 DEF Atomic!StoreConditional, Atomic!Returns, Atomic!Failed
  <2> QED
    BY <1>1, <1>3, <2>2 DEF Atomic!Next
<1>12. CASE ~Fails /\ r.op \in AmoOp
  <2>1. dev.rw /\ state = "S_WRITE_WAIT" /\ broken = Atomic!Broken(Granule(r.a)) /\ res = rdata
    BY <1>1, <1>5, <1>12 DEF AmoOp
  <2>2. cmd = r.op /\ wdata = r.v /\ dev.v = Alu /\ (r.a \in ReadErr \/ rdata = mem[r.a])
    BY <1>1, <1>4, <1>12, <2>1 DEF Base, Service
  <2>3. rdata = mem[r.a]
    <3>1. r.a \notin WriteErr
      BY <1>1, <1>12, <2>1 DEF Fails
    <3> QED
      BY <2>2, <3>1 DEF Trusted
  <2>4. Alu = Atomic!Rmw(r.op, mem[r.a], r.v)
    <3>1. Alu = Atomic!Rmw(cmd, rdata, wdata)
      BY AluIsRmw DEF Base, Typed, TypeOK, RmwTypeOK
    <3> QED
      BY <2>2, <2>3, <3>1
  <2> HIDE DEF broken, res, h, r
  <2>5. mem' = [mem EXCEPT ![r.a] = Atomic!Rmw(r.op, mem[r.a], r.v)]
    BY <1>1, <1>2, <1>12, <2>1, <2>2, <2>4
  <2>6. link' = Atomic!Broken(Granule(r.a))
    BY <1>1, <1>12, <2>1 DEF AmoOp
  <2>7. out' = [host |-> h, req |-> r, res |-> mem[r.a]]
    BY <1>1, <2>1, <2>3
  <2>8. Atomic!ReadModifyWrite(h, r)
    BY <1>12, <2>5, <2>6, <2>7 DEF Atomic!ReadModifyWrite, Atomic!Returns, AmoOp
  <2> QED
    BY <1>1, <1>3, <2>8 DEF Atomic!Next
<1> QED
  BY <1>3, <1>6, <1>7, <1>8, <1>9, <1>10, <1>11, <1>12

\* At reset the memory is an atomic memory.
LEMMA InitIsAtomic == ASSUME Init PROVE Atomic!Init
<1>1. mem \in [Addr -> Word]
  BY InitIInv DEF IInv, Base, Typed, TypeOK
<1> QED
  BY <1>1 DEF Init, Atomic!Init, Word

\* The whole chain of arbiters and controllers is an atomic memory: every
\* access of a core or the DMA takes effect in one indivisible step, the one in
\* which it is answered, and a store-conditional succeeds only if nobody wrote
\* to the block its core reserved.
THEOREM Refines == ASSUME Trusted PROVE Spec => IsAtomic
<1>1. Init => Atomic!Init
  BY InitIsAtomic
<1>2. ASSUME IInv, [Next]_vars
      PROVE  [Atomic!Next]_<<mem, link, out>>
  <2>1. CASE Next
    <3>1. PICK go, ans : Edge(go, ans)
      BY <2>1, StepIsEdge
    <3>2. Base
      BY <1>2 DEF IInv
    <3>3. CASE Ret(ans).ack
      BY <3>1, <3>2, <3>3, AnswerIsAtomic
    <3>4. CASE ~Ret(ans).ack
      BY <3>1, <3>2, <3>4, Unseen
    <3> QED
      BY <3>3, <3>4
  <2>2. CASE UNCHANGED vars
    BY <2>2 DEF vars
  <2> QED
    BY <1>2, <2>1, <2>2
<1> QED
  BY <1>1, <1>2, Inductive, PTL DEF Spec, IsAtomic, Atomic!Spec
=============================================================================
