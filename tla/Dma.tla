--------------------------------- MODULE Dma ---------------------------------
(* The direct memory access controller (rtl/core/astrarv32_dma.vhd) on its   *)
(* descriptor FIFO, with software that uses it through the driver            *)
(* sw/lib/source/astrarv32_dma.c as sw/example/demo_dma does.  A step is one *)
(* clock.  Memory is a few words of four bytes; an access beyond them is     *)
(* answered with an error.  Words are numbers; the configuration word has a  *)
(* count of NumBits bits, the byte-swap bit and the two types.               *)
EXTENDS PrimFifo, SequencesExt

CONSTANTS Bytes,        \* size of the memory, a multiple of four
          NumValues,    \* 2**(number of count bits)
          Jobs          \* what software does: sequences of jobs

ASSUME DmaAssumption == Bytes \in Nat \ {0} /\ NumValues \in Nat \ {0}

VARIABLES ctrl,         \* enable, start, err, done
          engine,       \* the transfer engine's registers
          data_buf,     \* the four bytes read last
          mem,          \* the memory, by byte
          sw            \* the software: jobs to do, what it is at, the last result

dmaVars == <<vars, ctrl, engine, data_buf, mem, sw>>

\* Types of source and destination: bit 1 increments, bit 0 is a word.
ConstByte == 0
ConstWord == 1
IncByte == 2
IncWord == 3
IsWord(type) == type % 2 = 1
Step(type) == CASE type = IncByte -> 1 [] type = IncWord -> 4 [] OTHER -> 0

ConfWord(d) == d.num + NumValues * ((IF d.bswap THEN 1 ELSE 0) + 2 * d.src_type + 8 * d.dst_type)
Conf(w) == [num |-> w % NumValues, bswap |-> (w \div NumValues) % 2 = 1,
            src_type |-> (w \div (2 * NumValues)) % 4, dst_type |-> (w \div (8 * NumValues)) % 4]

Lane(a) == (a % 4) + 1                  \* the byte of a word an address means
WordAt(m, a) == [i \in 1 .. 4 |-> m[4 * (a \div 4) + i - 1]]
Exists(a) == a < Bytes

\* Fault: the byte order of the byte enables is not swapped with the data.
OnehotPlain(a, bswap) == {Lane(a)}
Onehot(a, bswap) == {IF bswap THEN 5 - Lane(a) ELSE Lane(a)}

\* Bytes are read onto all lanes.
src_align(type, a, word) == IF IsWord(type) THEN word ELSE [i \in 1 .. 4 |-> word[Lane(a)]]
Swapped(word, bswap) == IF bswap THEN [i \in 1 .. 4 |-> word[5 - i]] ELSE word
ben(type, a, bswap) == IF IsWord(type) THEN 1 .. 4 ELSE Onehot(a, bswap)

Write(m, a, word, lanes) ==
    [b \in DOMAIN m |-> IF b \div 4 = a \div 4 /\ Lane(b) \in lanes THEN word[Lane(b)] ELSE m[b]]

-----------------------------------------------------------------------------
(* The controller: one clock, with software's write w to the control         *)
(* register (en, start, ack) or none.                                        *)

NoCtrl == [on |-> FALSE, en |-> FALSE, start |-> FALSE, ack |-> FALSE]

ctrl_access(w) ==
    ctrl' = [enable |-> IF w.on THEN w.en ELSE ctrl.enable,
             start  |-> w.on /\ w.start,
             err    |-> ctrl.enable /\ (ctrl.err \/ engine.err) /\ ~(w.on /\ (w.start \/ w.ack)),
             done   |-> ctrl.enable /\ (ctrl.done \/ engine.done) /\ ~(w.on /\ (w.start \/ w.ack))]
irq_o == ctrl.done

fifo_clr == ~ctrl.enable
fifo_re == engine.state \in {"GET_0", "GET_1", "GET_2"}

S_CHECK ==
    LET go == /\ avail_o /\ ~ctrl.err
              /\ IF engine.run THEN ~engine.err ELSE ctrl.start
    IN  [engine EXCEPT !.done = engine.run /\ ~go, !.err = FALSE, !.num_or = FALSE, !.run = go,
                       !.state = IF go THEN "GET_0" ELSE @]

S_GET_3 == Conf(rdata_o) @@ [engine EXCEPT !.state = "READ_REQ"]

S_READ_REQ == [engine EXCEPT !.dst_addr = IF engine.num_or THEN @ + Step(engine.dst_type) ELSE @,
                             !.num = (@ + NumValues - 1) % NumValues, !.state = "READ_RSP"]

S_READ_RSP(ack) ==
    IF ~ack THEN engine
    ELSE [engine EXCEPT !.err = ~Exists(engine.src_addr),
                        !.state = IF Exists(engine.src_addr) THEN "WRITE_REQ" ELSE "CHECK"]

S_WRITE_REQ == [engine EXCEPT !.src_addr = @ + Step(engine.src_type),
                              !.num_or = engine.num # 0, !.state = "WRITE_RSP"]

S_WRITE_RSP(ack) ==
    IF ~ack THEN engine
    ELSE LET bad == ~Exists(engine.dst_addr)
         IN  [engine EXCEPT !.err = bad,
                            !.state = IF ~engine.num_or \/ ~ctrl.enable \/ bad THEN "CHECK"
                                      ELSE "READ_REQ"]

bus_engine(ack) ==
    engine' = CASE engine.state = "CHECK" -> S_CHECK
                [] engine.state = "GET_0" -> [engine EXCEPT !.state = "GET_1"]
                [] engine.state = "GET_1" -> [engine EXCEPT !.src_addr = rdata_o,
                                                !.state = IF avail_o THEN "GET_2" ELSE @]
                [] engine.state = "GET_2" -> [engine EXCEPT !.dst_addr = rdata_o,
                                                !.state = IF avail_o THEN "GET_3" ELSE @]
                [] engine.state = "GET_3" -> S_GET_3
                [] engine.state = "READ_REQ" -> S_READ_REQ
                [] engine.state = "READ_RSP" -> S_READ_RSP(ack)
                [] engine.state = "WRITE_REQ" -> S_WRITE_REQ
                [] engine.state = "WRITE_RSP" -> S_WRITE_RSP(ack)

\* The memory side: the answer comes when ack is set.
memory_access(ack) ==
    /\ data_buf' = IF engine.state = "READ_RSP" /\ ack /\ Exists(engine.src_addr)
                   THEN src_align(engine.src_type, engine.src_addr, WordAt(mem, engine.src_addr))
                   ELSE data_buf
    /\ mem' = IF engine.state = "WRITE_REQ" /\ Exists(engine.dst_addr)
              THEN Write(mem, engine.dst_addr, Swapped(data_buf, engine.bswap),
                         ben(engine.dst_type, engine.dst_addr, engine.bswap))
              ELSE mem

DmaClock(w, desc, word, ack) ==
    /\ ctrl_access(w)
    /\ Clock(fifo_clr, desc, word, fifo_re)
    /\ bus_engine(ack)
    /\ memory_access(ack)

-----------------------------------------------------------------------------
(* The software.  A register access takes one clock, and the next one comes  *)
(* at the earliest two clocks later.                                         *)

Job == Head(sw.jobs)
Words == FlattenSeq([i \in DOMAIN Job.descs |->
                       <<Job.descs[i].src, Job.descs[i].dst, ConfWord(Job.descs[i])>>])

astrarv32_dma_status ==
    IF ctrl.err THEN "error" ELSE IF engine.run THEN "busy" ELSE IF ctrl.done THEN "done" ELSE "idle"

CtrlWrite(en, start, ack) == [on |-> TRUE, en |-> en, start |-> start, ack |-> ack]

astrarv32_dma_enable(ack) ==
    /\ sw.pc = "enable"
    /\ DmaClock(CtrlWrite(TRUE, FALSE, FALSE), FALSE, 0, ack)
    /\ sw' = [sw EXCEPT !.pc = "check", !.k = 1, !.gap = TRUE, !.before = mem]

\* A full FIFO ends the call after the words already written; the software then
\* gives the job up.
astrarv32_dma_program(ack) ==
    \/ /\ sw.pc = "check"
       /\ DmaClock(NoCtrl, FALSE, 0, ack)
       /\ sw' = IF free_o \/ Job.how = "nocheck" THEN [sw EXCEPT !.pc = "desc", !.gap = TRUE]
                ELSE [sw EXCEPT !.pc = "report", !.result = "full", !.gap = TRUE]
    \/ /\ sw.pc = "desc"
       /\ DmaClock(NoCtrl, TRUE, Words[sw.k], ack)
       /\ sw' = [sw EXCEPT !.k = @ + 1, !.gap = TRUE,
                           !.pc = IF sw.k < Len(Words) THEN "check"
                                  ELSE IF Job.how = "nocheck" THEN "report" ELSE "start",
                           !.result = IF sw.k = Len(Words) /\ Job.how = "nocheck" THEN "full" ELSE @]

\* Fault: the register is written, not updated: the enable bit is cleared.
astrarv32_dma_startPlain(ack) ==
    /\ sw.pc = "start"
    /\ DmaClock(CtrlWrite(FALSE, TRUE, FALSE), FALSE, 0, ack)
    /\ sw' = [sw EXCEPT !.pc = IF Job.how = "irq" THEN "sleep" ELSE "poll", !.gap = TRUE]

\* Then it polls, or sleeps until the interrupt: asleep before the transfer ends.
astrarv32_dma_start(ack) ==
    /\ sw.pc = "start"
    /\ DmaClock(CtrlWrite(TRUE, TRUE, FALSE), FALSE, 0, ack)
    /\ sw' = [sw EXCEPT !.pc = IF Job.how = "irq" THEN "sleep" ELSE "poll", !.gap = TRUE]

Poll(ack) ==
    /\ sw.pc \in {"poll", "woken", "stop"}
    /\ DmaClock(NoCtrl, FALSE, 0, ack)
    /\ LET status == astrarv32_dma_status
       IN sw' = CASE sw.pc = "stop" ->
                       [sw EXCEPT !.gap = TRUE, !.pc = IF status = "busy" THEN @ ELSE "report"]
                  [] sw.pc = "poll" /\ status \notin {"done", "error"} -> [sw EXCEPT !.gap = TRUE]
                  [] OTHER -> [sw EXCEPT !.pc = "report", !.result = status]

\* The interrupt handler acknowledges.
dma_firq_handler(ack) ==
    /\ sw.pc = "sleep" /\ irq_o
    /\ DmaClock(CtrlWrite(TRUE, FALSE, TRUE), FALSE, 0, ack)
    /\ sw' = [sw EXCEPT !.pc = "woken", !.gap = TRUE]

\* A job may be given up while it runs; the software waits until it has ended.
astrarv32_dma_disable(ack) ==
    /\ sw.pc = "poll" /\ Job.how = "abort"
    /\ DmaClock(CtrlWrite(FALSE, FALSE, FALSE), FALSE, 0, ack)
    /\ sw' = [sw EXCEPT !.pc = "stop", !.result = "stopped", !.gap = TRUE]

\* The next job.  After an error or with a full FIFO the controller is disabled
\* first: that removes the descriptors left.  Enabling an enabled controller changes nothing.
NextJob(ack) ==
    /\ sw.pc = "report"
    /\ DmaClock(IF sw.result \in {"error", "full"} THEN CtrlWrite(FALSE, FALSE, FALSE) ELSE NoCtrl, FALSE, 0, ack)
    /\ sw' = IF Len(sw.jobs) = 1 THEN [sw EXCEPT !.pc = "finished"]
             ELSE [sw EXCEPT !.jobs = Tail(@), !.pc = "enable", !.result = "none",
                                 !.gap = TRUE]

NoAccess(ack) == DmaClock(NoCtrl, FALSE, 0, ack) /\ sw' = [sw EXCEPT !.gap = FALSE]

Software(ack) ==
    \/ astrarv32_dma_enable(ack) \/ astrarv32_dma_program(ack) \/ astrarv32_dma_start(ack)
    \/ Poll(ack) \/ dma_firq_handler(ack) \/ astrarv32_dma_disable(ack) \/ NextJob(ack)

DmaBegins ==
    /\ w_pnt = 0 /\ r_pnt = 0 /\ fifo = [i \in Index |-> 0] /\ avail = FALSE /\ rdata = 0
    /\ ctrl = [enable |-> FALSE, start |-> FALSE, err |-> FALSE, done |-> FALSE]
    /\ engine = [state |-> "CHECK", run |-> FALSE, done |-> FALSE, err |-> FALSE, src_addr |-> 0,
                 dst_addr |-> 0, num |-> 0, num_or |-> FALSE, bswap |-> FALSE, src_type |-> 0,
                 dst_type |-> 0]
    /\ data_buf = [i \in 1 .. 4 |-> 0]
    /\ mem = [b \in 0 .. Bytes - 1 |-> b]
DmaInit ==
    /\ DmaBegins
    /\ \E jobs \in Jobs : sw = [jobs |-> jobs, pc |-> "enable", k |-> 1, gap |-> FALSE,
                                before |-> mem, result |-> "none"]

DmaNext == \E ack \in BOOLEAN : NoAccess(ack) \/ (~sw.gap /\ Software(ack))

\* The memory answers in the end, and the software goes on.
Answered == \E s \in {"READ_RSP", "WRITE_RSP"} : engine.state = s /\ engine'.state # s
DmaSpec == /\ DmaInit /\ [][DmaNext]_dmaVars
           /\ WF_dmaVars(NoAccess(TRUE)) 
           /\ SF_dmaVars(~sw.gap /\ \E ack \in BOOLEAN : Software(ack))
           /\ SF_dmaVars(DmaNext /\ Answered)

-----------------------------------------------------------------------------
(* What a job means: element after element, up to an error. *)

\* m: the memory so far and whether an access failed; i: the element.
Element(m, d, i) ==
    LET src == d.src + (i - 1) * Step(d.src_type)
        dst == d.dst + (i - 1) * Step(d.dst_type)
        byte(l) == IF IsWord(d.src_type) THEN m.mem[4 * (src \div 4) + l] ELSE m.mem[src]
        target(b) == IF IsWord(d.dst_type) THEN b \div 4 = dst \div 4
                     ELSE b = IF d.bswap THEN 4 * (dst \div 4) + 3 - (dst % 4) ELSE dst
    IN  IF m.failed \/ ~Exists(src) \/ ~Exists(dst) THEN [m EXCEPT !.failed = TRUE]
        ELSE [m EXCEPT !.mem = [b \in DOMAIN @ |->
                IF target(b) THEN byte(IF d.bswap THEN 3 - (b % 4) ELSE (b % 4)) ELSE @[b]]]

Transferred(m, d) == FoldLeft(LAMBDA acc, i : Element(acc, d, i), m, [i \in 1 .. d.num |-> i])
Expected == FoldLeft(Transferred, [mem |-> sw.before, failed |-> FALSE], Job.descs)

\* What the software is told is true: all descriptors were executed, in order and
\* exactly once, or up to the access that failed; and nothing else was written.
OutcomeTrue ==
    sw.pc = "report" /\ sw.result \notin {"stopped", "full"} =>
        /\ mem = Expected.mem
        /\ Expected.failed <=> sw.result = "error"

\* A job that was started ends.
JobEnds == (sw.pc = "start") ~> (sw.pc = "report")
=============================================================================
