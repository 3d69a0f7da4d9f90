------------------------- MODULE CachedMemoryProofs -------------------------
(***************************************************************************)
(* The safety of CachedMemory for every geometry of the cache, with and    *)
(* without bursts, for every software and any faulty words; and that the   *)
(* cache is an atomic memory.                                              *)
(***************************************************************************)
EXTENDS CachedMemory, TLAPS

\* What the controller is doing: fetching a block, storing one, serving the
\* host's access, carrying out a fence.
Fetching == ctrl.state \in Download \cup {"S_READ_DONE"}
Storing  == ctrl.state \in Upload \cup {"S_WRITE_DONE"}
Serving  == ctrl.state \in {"S_CHECK", "S_BYPASS"} \/ Fetching \/ (Storing /\ ~ctrl.sync)
Syncing  == \/ ctrl.state \in {"S_SYNC_START", "S_SYNC_DELAY", "S_SYNC_CHECK", "S_SYNC_NEXT"}
            \/ (Storing /\ ctrl.sync)

\* Word o of the block that is held at index b, and of the one at work.
Held(b, o) == [t |-> ram.tag[b], i |-> b, o |-> o]
At(o) == [t |-> ctrl.tag, i |-> ctrl.idx, o |-> o]

Strobe == [stb : BOOLEAN, a : Addr, rw : BOOLEAN, amo : BOOLEAN, v : Word]

\* The values of all variables.
Typed == /\ TypeOK
         /\ q \in Seq(Strobe)
         /\ out.res \in Word \cup {Atomic!BusError}

\* The controller works for the host exactly while the host waits, and for the
\* access it waits for.
Protocol ==
    /\ Serving => waiting /\ ~ctrl.pnd_syn /\ ctrl.pnd_bp = Bypasses(req)
    /\ ~Serving => waiting = ctrl.pnd_req
    /\ Serving /\ ctrl.state # "S_CHECK" => ~ctrl.pnd_req /\ ctrl.idx = req.a.i
    /\ ctrl.state \in {"S_CHECK", "S_BYPASS"} => ~ctrl.sync /\ ~ctrl.bus_err
    /\ ctrl.state = "S_BYPASS" => Bypasses(req)
    /\ Fetching => ~Bypasses(req) /\ ctrl.tag = req.a.t /\ ~ctrl.sync
    /\ ctrl.state \in {"S_SYNC_DELAY", "S_SYNC_CHECK", "S_SYNC_NEXT"} => ctrl.sync

\* A status read from the memories is looked at only as long as it is right.
Latched ==
    /\ ctrl.state = "S_CHECK" =>
         \/ ~ctrl.hit /\ ~ctrl.cln
            /\ rd.valid = ram.valid[req.a.i] /\ rd.dirty = ram.dirty[req.a.i]
            /\ rd.tag = ram.tag[req.a.i]
         \/ ctrl.hit /\ ~Bypasses(req) /\ ram.valid[req.a.i] /\ ram.tag[req.a.i] = req.a.t
         \/ ~ctrl.hit /\ ctrl.cln /\ rd.valid /\ rd.tag = ram.tag[req.a.i]
            /\ ram.valid[req.a.i] /\ ~ram.dirty[req.a.i]
            /\ (Bypasses(req) \/ ram.tag[req.a.i] # req.a.t)
    /\ ctrl.state = "S_SYNC_CHECK" => ~ctrl.cln /\ rd.valid = ram.valid[ctrl.idx]
                                      /\ rd.dirty = ram.dirty[ctrl.idx] /\ rd.tag = ram.tag[ctrl.idx]
    /\ Storing => /\ ram.valid[ctrl.idx] /\ ram.dirty[ctrl.idx]
                  /\ ctrl.state = "S_WRITE_START" => rd.tag = ram.tag[ctrl.idx]
                  /\ ~(ctrl.state = "S_WRITE_START" /\ ctrl.ofs_int = 0) => ctrl.tag = ram.tag[ctrl.idx]
                  /\ ctrl.sync \/ Bypasses(req) \/ ram.tag[ctrl.idx] # req.a.t
    /\ Fetching => ~(ram.valid[ctrl.idx] /\ ram.dirty[ctrl.idx])

\* The offsets of the words that are sent and received.
Counted ==
    /\ ctrl.state \in {"S_READ_START", "S_READ_WAIT", "S_WRITE_START", "S_WRITE_REQ", "S_WRITE_RSP"}
         => ctrl.ofs_ext = ctrl.ofs_int /\ (BURSTS_EN => ctrl.ofs_int = 0)
    /\ ctrl.state = "S_READ_BURST" => /\ 0 < ctrl.ofs_int /\ ctrl.ofs_int <= ctrl.ofs_ext
                                      /\ ctrl.ofs_ext <= BLOCK_WORDS
    /\ ctrl.state = "S_WRITE_WAIT" => ctrl.ofs_int = 1 /\ ctrl.ofs_ext = 1
    /\ ctrl.state = "S_WRITE_BURST" => /\ 0 < ctrl.ofs_int /\ ctrl.ofs_int <= ctrl.ofs_buf
                                       /\ \/ ctrl.ofs_buf <= BLOCK_WORDS /\ ctrl.ofs_ext = ctrl.ofs_buf + 1
                                          \/ ctrl.ofs_buf = BLOCK_WORDS + 1 /\ ctrl.ofs_ext = ctrl.ofs_buf
    /\ ctrl.state \in {"S_READ_BURST", "S_WRITE_WAIT", "S_WRITE_BURST"} => BURSTS_EN

\* Words that the memory still has to answer.
Open == CASE ctrl.state = "S_BYPASS" -> IF ctrl.bp_req THEN 0 ELSE 1
          [] ctrl.state \in {"S_READ_WAIT", "S_WRITE_RSP"} -> 1
          [] ctrl.state = "S_READ_BURST" -> ctrl.ofs_ext - ctrl.ofs_int
          [] ctrl.state = "S_WRITE_BURST" ->
               (IF ctrl.ofs_buf < BLOCK_WORDS THEN ctrl.ofs_buf ELSE BLOCK_WORDS) - ctrl.ofs_int
          [] OTHER -> 0

\* The memory is asked for what the controller waits for, in this order.
Queued ==
    /\ Len(q) = Open
    /\ ctrl.state = "S_BYPASS" /\ ~ctrl.bp_req =>
         q[1].a = req.a /\ q[1].rw = (req.op = "st") /\ q[1].amo = (req.op = "swap")
    /\ ctrl.state \in Download \cup Upload =>
         \A k \in 1 .. Len(q) : /\ q[k].a = At(ctrl.ofs_int + k - 1)
                                /\ q[k].rw = Storing /\ ~q[k].amo

\* A valid block has no word that cannot be read: it came without an error.
Sound ==
    \A b \in Block : ram.valid[b] /\ ~(Fetching /\ b = ctrl.idx) =>
        ram.tag[b] \notin Uncached /\ \A o \in Offset : Held(b, o) \notin ReadErr

\* The error flag of a transfer is set for a faulty word of the block; without
\* it, none of the words answered so far is faulty.
Done(o) == ctrl.state \in {"S_READ_DONE", "S_WRITE_DONE"} \/ o < ctrl.ofs_int
Transferred ==
    /\ Fetching => IF ctrl.bus_err THEN \E o \in Offset : At(o) \in ReadErr
                   ELSE \A o \in Offset : Done(o) => At(o) \notin ReadErr
    /\ Storing => IF ctrl.bus_err THEN \E o \in Offset : Held(ctrl.idx, o) \in WriteErr
                  ELSE \A o \in Offset : Done(o) => Held(ctrl.idx, o) \notin WriteErr
    /\ ctrl.state = "S_SYNC_NEXT" /\ ctrl.bus_err =>
         /\ ram.valid[ctrl.idx] /\ ram.dirty[ctrl.idx] /\ ctrl.tag = ram.tag[ctrl.idx]
         /\ \E o \in Offset : Held(ctrl.idx, o) \in WriteErr

\* A block that was valid before the last fence and still is cannot be written
\* back; while the fence is carried out, the blocks before the current one.
Stuck(b) == ram.dirty[b] /\ \E o \in Offset : Held(b, o) \in WriteErr
Flushed ==
    /\ \A b \in old : ram.valid[b]
    /\ ~ctrl.pnd_syn /\ ~Syncing => \A b \in old : Stuck(b)
    /\ ~ctrl.pnd_syn /\ Syncing /\ ctrl.state # "S_SYNC_START" =>
         \A b \in old : b < ctrl.idx => Stuck(b)

\* The inductive invariant.
Core == /\ Typed /\ Protocol /\ Latched /\ Counted /\ Queued
        /\ Sound /\ Transferred /\ Flushed
IInv == Core /\ ErrorsReported /\ ErrorsAreOwn

-----------------------------------------------------------------------------
(* Numbers, queues and memories.                                           *)

\* The counters of the controller: words, strobes and blocks.
LEMMA Counters ==
    /\ \A o \in Offset : /\ o \in Nat /\ o % BLOCK_WORDS = o
                         /\ (o + 1) % BLOCK_WORDS \in Offset
                         /\ o # BLOCK_WORDS - 1 => (o + 1) % BLOCK_WORDS = o + 1 /\ o + 1 \in Offset
                         /\ o = BLOCK_WORDS - 1 => (o + 1) % BLOCK_WORDS = 0
    /\ \A e \in 0 .. 2 * BLOCK_WORDS - 1 :
            /\ e % BLOCK_WORDS \in Offset
            /\ (e + 1) % (2 * BLOCK_WORDS) \in 0 .. 2 * BLOCK_WORDS - 1
            /\ e # 2 * BLOCK_WORDS - 1 => (e + 1) % (2 * BLOCK_WORDS) = e + 1
    /\ \A b \in Block : /\ (b + 1) % NUM_BLOCKS \in Block
                        /\ b # NUM_BLOCKS - 1 => (b + 1) % NUM_BLOCKS = b + 1
    /\ 0 \in Offset /\ 1 \in Offset /\ 0 \in Block
<1> USE CachedAssumption DEF Offset, Block
<1>1. \A o \in Offset : /\ o \in Nat /\ o % BLOCK_WORDS = o
                        /\ (o + 1) % BLOCK_WORDS \in Offset
                        /\ o # BLOCK_WORDS - 1 => (o + 1) % BLOCK_WORDS = o + 1 /\ o + 1 \in Offset
                        /\ o = BLOCK_WORDS - 1 => (o + 1) % BLOCK_WORDS = 0
  OBVIOUS
<1>2. \A e \in 0 .. 2 * BLOCK_WORDS - 1 :
            /\ e % BLOCK_WORDS \in Offset
            /\ (e + 1) % (2 * BLOCK_WORDS) \in 0 .. 2 * BLOCK_WORDS - 1
            /\ e # 2 * BLOCK_WORDS - 1 => (e + 1) % (2 * BLOCK_WORDS) = e + 1
  OBVIOUS
<1>3. \A b \in Block : /\ (b + 1) % NUM_BLOCKS \in Block
                       /\ b # NUM_BLOCKS - 1 => (b + 1) % NUM_BLOCKS = b + 1
  OBVIOUS
<1> QED
  BY <1>1, <1>2, <1>3

\* A queue whose oldest element leaves if ans and that gets b if stb.
Bit(x) == IF x THEN 1 ELSE 0
Rest(s, ans) == IF ans THEN Tail(s) ELSE s
After(s, b, stb, ans) == IF stb THEN Append(Rest(s, ans), b) ELSE Rest(s, ans)

LEMMA QueueStep ==
    ASSUME NEW S, NEW s \in Seq(S), NEW b \in S, NEW stb \in BOOLEAN, NEW ans \in BOOLEAN,
           ans => s # << >>
    PROVE  /\ After(s, b, stb, ans) \in Seq(S) /\ Bit(ans) <= Len(s)
           /\ Len(After(s, b, stb, ans)) = Len(s) - Bit(ans) + Bit(stb)
           /\ \A k \in 1 .. Len(After(s, b, stb, ans)) :
                 After(s, b, stb, ans)[k] = IF k <= Len(s) - Bit(ans) THEN s[k + Bit(ans)] ELSE b
<1> DEFINE rest == Rest(s, ans)
           new == After(s, b, stb, ans)
           gone == Bit(ans)
<1>1. Len(s) \in Nat /\ (ans => Len(s) >= 1)
  OBVIOUS
<1>2. /\ rest \in Seq(S) /\ Len(rest) = Len(s) - gone
      /\ \A k \in 1 .. Len(rest) : rest[k] = s[k + gone]
  BY <1>1 DEF Rest, Bit
<1> HIDE DEF rest
<1>3. /\ new \in Seq(S)
      /\ Len(new) = Len(rest) + Bit(stb)
      /\ \A k \in 1 .. Len(new) : new[k] = IF k <= Len(rest) THEN rest[k] ELSE b
  <2>1. new = IF stb THEN Append(rest, b) ELSE rest
    BY DEF After, rest
  <2>2. rest \in Seq(S)
    BY <1>2
  <2> HIDE DEF new
  <2>3. CASE stb
    <3>1. new = Append(rest, b)
      BY <2>1, <2>3
    <3>2. /\ new \in Seq(S) /\ Len(new) = Len(rest) + 1
          /\ \A k \in 1 .. Len(new) : new[k] = IF k <= Len(rest) THEN rest[k] ELSE b
      BY <2>2, <3>1
    <3> QED
      BY <2>3, <3>2 DEF Bit
  <2>4. CASE ~stb
    <3>1. new = rest /\ Len(rest) \in Nat
      BY <2>1, <2>2, <2>4
    <3>2. \A k \in 1 .. Len(new) : new[k] = IF k <= Len(rest) THEN rest[k] ELSE b
      BY <3>1
    <3>3. Len(new) = Len(rest) + 0
      BY <3>1
    <3> QED
      BY <2>2, <2>4, <3>1, <3>2, <3>3 DEF Bit
  <2> QED
    BY <2>3, <2>4
<1> HIDE DEF new, gone
<1>4. \A k \in 1 .. Len(new) : new[k] = IF k <= Len(s) - gone THEN s[k + gone] ELSE b
  <2> SUFFICES ASSUME NEW k \in 1 .. Len(new)
               PROVE  new[k] = IF k <= Len(s) - gone THEN s[k + gone] ELSE b
    OBVIOUS
  <2>1. Len(rest) \in Nat /\ Len(new) \in Nat
    BY <1>2, <1>3
  <2> QED
    BY <1>2, <1>3, <2>1
<1>5. gone <= Len(s)
  BY <1>1 DEF gone, Bit
<1> QED
  BY <1>2, <1>3, <1>4, <1>5 DEF new, gone

\* One access of the memories of the cache.
LEMMA Memories ==
    ASSUME CacheTypeOK(Word), NEW a \in Addr, NEW w \in [set : BOOLEAN, vld : BOOLEAN, drt : BOOLEAN],
           NEW we \in BOOLEAN, NEW d \in Word, Access(a, w, we, d)
    PROVE  /\ ram'.valid = IF w.set THEN [ram.valid EXCEPT ![a.i] = w.vld] ELSE ram.valid
           /\ ram'.tag = IF w.set THEN [ram.tag EXCEPT ![a.i] = a.t] ELSE ram.tag
           /\ ram'.dirty = IF w.set \/ w.drt THEN [ram.dirty EXCEPT ![a.i] = w.drt] ELSE ram.dirty
           /\ ram'.data = IF we THEN [ram.data EXCEPT ![<<a.i, a.o>>] = d] ELSE ram.data
           /\ rd' = [valid |-> ram.valid[a.i], dirty |-> ram.dirty[a.i],
                     tag |-> ram.tag[a.i], data |-> ram.data[<<a.i, a.o>>]]
           /\ ram' \in [valid : [Block -> BOOLEAN], dirty : [Block -> BOOLEAN],
                        tag : [Block -> Tags], data : [Block \X Offset -> Word]]
           /\ rd' \in [valid : BOOLEAN, dirty : BOOLEAN, tag : Tags, data : Word]
<1>1. a.t \in Tags /\ a.i \in Block /\ a.o \in Offset /\ <<a.i, a.o>> \in Block \X Offset
  BY DEF Addr
<1>2. ram \in [valid : [Block -> BOOLEAN], dirty : [Block -> BOOLEAN],
                tag : [Block -> Tags], data : [Block \X Offset -> Word]]
  BY DEF CacheTypeOK
<1> DEFINE status == IF w.set THEN Status(a, w)
                     ELSE IF w.drt THEN [ram EXCEPT !.dirty[a.i] = TRUE] ELSE ram
<1>3. /\ status \in [valid : [Block -> BOOLEAN], dirty : [Block -> BOOLEAN],
                tag : [Block -> Tags], data : [Block \X Offset -> Word]]
      /\ status.valid = IF w.set THEN [ram.valid EXCEPT ![a.i] = w.vld] ELSE ram.valid
      /\ status.tag = IF w.set THEN [ram.tag EXCEPT ![a.i] = a.t] ELSE ram.tag
      /\ status.dirty = IF w.set \/ w.drt THEN [ram.dirty EXCEPT ![a.i] = w.drt] ELSE ram.dirty
      /\ status.data = ram.data
  <2>1. CASE w.set
    BY <1>1, <1>2, <2>1 DEF Status
  <2>2. CASE ~w.set /\ w.drt
    BY <1>1, <1>2, <2>2
  <2>3. CASE ~w.set /\ ~w.drt
    BY <1>1, <1>2, <2>3
  <2> QED
    BY <2>1, <2>2, <2>3
<1> HIDE DEF status
<1>4. /\ ram' = IF we THEN [status EXCEPT !.data[<<a.i, a.o>>] = d] ELSE status
      /\ rd' = [valid |-> ram.valid[a.i], dirty |-> ram.dirty[a.i],
                tag |-> ram.tag[a.i], data |-> ram.data[<<a.i, a.o>>]]
  BY DEF Access, status
<1>5. rd' \in [valid : BOOLEAN, dirty : BOOLEAN, tag : Tags, data : Word]
  BY <1>1, <1>2, <1>4
<1>6. CASE we
  <2>1. ram' = [status EXCEPT !.data[<<a.i, a.o>>] = d]
    BY <1>4, <1>6
  <2>2. /\ ram'.valid = status.valid /\ ram'.tag = status.tag /\ ram'.dirty = status.dirty
        /\ ram'.data = [status.data EXCEPT ![<<a.i, a.o>>] = d]
    BY <1>3, <2>1
  <2>3. ram' \in [valid : [Block -> BOOLEAN], dirty : [Block -> BOOLEAN],
                  tag : [Block -> Tags], data : [Block \X Offset -> Word]]
    BY <1>1, <1>3, <2>1
  <2> QED
    BY <1>3, <1>4, <1>5, <1>6, <2>2, <2>3
<1>7. CASE ~we
  <2>1. ram' = status
    BY <1>4, <1>7
  <2> QED
    BY <1>3, <1>4, <1>5, <1>7, <2>1
<1> QED
  BY <1>6, <1>7

-----------------------------------------------------------------------------
(* One clock edge.                                                         *)

\* The host's request r with its strobe stb, its fence s, the memory's answer.
Edge(r, stb, s, ans) ==
    /\ r \in prog /\ stb \in BOOLEAN /\ s \in BOOLEAN /\ ans \in BOOLEAN
    /\ ans => q # << >>
    /\ stb \/ s => ~waiting
    /\ ~(stb /\ s)
    /\ ~stb => r = req
    /\ Cycle(r, stb, s, ans)

\* Every step is a clock edge.
LEMMA StepIsEdge == ASSUME Typed, Next PROVE \E r, stb, s, ans : Edge(r, stb, s, ans)
<1>1. req \in prog
  BY DEF Typed, TypeOK
<1>2. PICK ans \in {FALSE, q # << >>} : Step(ans)
  BY DEF Next
<1>3. ans \in BOOLEAN /\ (ans => q # << >>)
  BY <1>2
<1>4. CASE Begin(ans)
  BY <1>3, <1>4 DEF Begin, Edge
<1>5. CASE Fence(ans)
  BY <1>1, <1>3, <1>5 DEF Fence, Edge
<1>6. CASE Proceed(ans)
  BY <1>1, <1>3, <1>6 DEF Proceed, Edge
<1> QED
  BY <1>2, <1>4, <1>5, <1>6 DEF Step

\* The strobe that is answered.
LEMMA Front ==
    ASSUME Typed, NEW r, NEW stb, NEW s, NEW ans, Edge(r, stb, s, ans), ans
    PROVE  q[1] \in Strobe /\ Oldest = q[1] /\ q[1].v \in Word /\ mem[q[1].a] \in Word
<1>1. q \in Seq(Strobe) /\ q # << >>
  BY DEF Edge, Typed
<1>2. q[1] \in Strobe /\ Head(q) = q[1]
  BY <1>1
<1>3. q[1].a \in Addr /\ q[1].v \in Word /\ mem \in [Addr -> Word]
  BY <1>2 DEF Strobe, Typed, TypeOK
<1> QED
  BY <1>2, <1>3 DEF Oldest

\* What host, memory and ghosts do in every clock edge.
LEMMA Signals ==
    ASSUME Typed, NEW r, NEW stb, NEW s, NEW ans, Edge(r, stb, s, ans)
    PROVE  LET h   == Drives(r, stb)
               b   == bus_req(h)
               rsp == host_rsp(h, Answer(ans))
           IN  /\ r \in Request /\ r \in prog /\ prog' = prog /\ req' = r
               /\ h = [stb |-> stb, a |-> r.a, rw |-> r.op = "st", amo |-> r.op = "swap", v |-> r.v]
               /\ h \in Strobe /\ b \in Strobe
               /\ Answer(ans) \in [ack : BOOLEAN, err : BOOLEAN, data : Word]
               /\ Answer(ans).ack = ans
               /\ CacheClock(h, s, Answer(ans)) /\ MemClock(b, ans)
               /\ waiting' = ((waiting \/ stb) /\ ~rsp.ack)
               /\ out' = (IF rsp.ack THEN [host |-> "cpu", req |-> r, res |-> Result(r, rsp)] ELSE out)
               /\ old' = (IF s THEN Block ELSE old) \cap {c \in Block : ram'.valid[c]}
               /\ r.a \in Addr /\ r.v \in Word
<1> DEFINE h == Drives(r, stb)
           b == bus_req(h)
<1>1. r \in Request /\ r \in prog
  BY CachedAssumption DEF Edge, Typed, TypeOK
<1>2. h = [stb |-> stb, a |-> r.a, rw |-> r.op = "st", amo |-> r.op = "swap", v |-> r.v]
  BY DEF Drives
<1>3. r.a \in Addr /\ r.v \in Word /\ h \in Strobe
  BY <1>1, <1>2 DEF Request, Strobe, Edge
<1>4. ctrl.tag \in Tags /\ ctrl.idx \in Block /\ ctrl.bp_req \in BOOLEAN /\ rd.data \in Word
      /\ bus_ofs % BLOCK_WORDS \in Offset
  BY Counters DEF Typed, TypeOK, CacheTypeOK, bus_ofs
<1>5. b \in Strobe
  <2>1. Line(bus_ofs) \in Addr
    BY <1>4 DEF Line, Addr
  <2>2. bus_stb \in BOOLEAN /\ (ctrl.state \in Upload) \in BOOLEAN
    BY DEF bus_stb
  <2> HIDE DEF h
  <2> QED
    BY <1>3, <1>4, <2>1, <2>2 DEF bus_req, Strobe
<1>6. ans => Oldest = q[1] /\ mem[q[1].a] \in Word
  BY Front
<1>7. /\ Answer(ans) \in [ack : BOOLEAN, err : BOOLEAN, data : Word]
      /\ Answer(ans).ack = ans
  <2>1. 0 \in Word
    BY CachedAssumption DEF Word
  <2>2. (ans /\ Fails(Oldest)) \in BOOLEAN /\ ans \in BOOLEAN
    BY DEF Edge
  <2>3. (IF ans /\ ~Oldest.rw /\ ~Fails(Oldest) THEN mem[Oldest.a] ELSE 0) \in Word
    BY <1>6, <2>1
  <2> QED
    BY <2>2, <2>3 DEF Answer
<1> HIDE DEF h, b
<1> QED
  BY <1>1, <1>2, <1>3, <1>5, <1>7 DEF Edge, Cycle, h, b

\* The registers of the controller, and their types.
CtrlType == [state : State, sync : BOOLEAN, bus_err : BOOLEAN, pnd_req : BOOLEAN,
             pnd_syn : BOOLEAN, pnd_bp : BOOLEAN, bp_req : BOOLEAN, hit : BOOLEAN,
             cln : BOOLEAN, tag : Tags, idx : Block, ofs_int : Offset,
             ofs_ext : 0 .. 2 * BLOCK_WORDS - 1, ofs_buf : 0 .. 2 * BLOCK_WORDS - 1]

\* What the typed state gives to every step.
LEMMA Ranges ==
    ASSUME Typed, NEW r, NEW stb, NEW s, NEW ans, Edge(r, stb, s, ans)
    PROVE  /\ ctrl \in CtrlType /\ stb \in BOOLEAN /\ s \in BOOLEAN /\ ans \in BOOLEAN
           /\ Drives(r, stb).stb = stb /\ Drives(r, stb).a = r.a
           /\ (r.a.t \in Uncached \/ Drives(r, stb).amo) = Bypasses(r)
           /\ r.a.t \in Tags /\ r.a.i \in Block /\ r.a.o \in Offset
           /\ Answer(ans).ack = ans /\ Answer(ans).err \in BOOLEAN /\ Answer(ans).data \in Word
           /\ rd.tag \in Tags /\ rd.valid \in BOOLEAN /\ rd.dirty \in BOOLEAN /\ rd.data \in Word
           /\ (ctrl.ofs_int + 1) % BLOCK_WORDS \in Offset
           /\ (ctrl.ofs_ext + 1) % (2 * BLOCK_WORDS) \in 0 .. 2 * BLOCK_WORDS - 1
           /\ (ctrl.idx + 1) % NUM_BLOCKS \in Block
           /\ \A o : o % BLOCK_WORDS \in Offset => Line(o) \in Addr
           /\ 0 \in 0 .. 2 * BLOCK_WORDS - 1 /\ 0 \in Offset /\ 0 \in Block
<1>1. ctrl \in CtrlType
  BY DEF Typed, TypeOK, CacheTypeOK, CtrlType
<1>2. ctrl.ofs_int \in Offset /\ ctrl.ofs_ext \in 0 .. 2 * BLOCK_WORDS - 1 /\ ctrl.idx \in Block
      /\ ctrl.tag \in Tags
  BY <1>1 DEF CtrlType
<1>3. /\ (ctrl.ofs_int + 1) % BLOCK_WORDS \in Offset
      /\ (ctrl.ofs_ext + 1) % (2 * BLOCK_WORDS) \in 0 .. 2 * BLOCK_WORDS - 1
      /\ (ctrl.idx + 1) % NUM_BLOCKS \in Block
      /\ 0 \in Offset /\ 0 \in Block
  <2> HIDE DEF Offset, Block
  <2> QED
    BY <1>2, Counters
<1>4. 0 \in 0 .. 2 * BLOCK_WORDS - 1
  BY CachedAssumption
<1>5. \A o : o % BLOCK_WORDS \in Offset => Line(o) \in Addr
  BY <1>2 DEF Line, Addr
<1>6. /\ stb \in BOOLEAN /\ s \in BOOLEAN /\ ans \in BOOLEAN
      /\ Drives(r, stb).stb = stb /\ Drives(r, stb).a = r.a
      /\ (r.a.t \in Uncached \/ Drives(r, stb).amo) = Bypasses(r)
  BY DEF Edge, Drives, Bypasses
<1>7. /\ rd.tag \in Tags /\ rd.valid \in BOOLEAN /\ rd.dirty \in BOOLEAN /\ rd.data \in Word
  BY DEF Typed, TypeOK, CacheTypeOK
<1>8. r.a.t \in Tags /\ r.a.i \in Block /\ r.a.o \in Offset
  <2>1. r.a \in Addr
    BY Signals
  <2> QED
    BY <2>1 DEF Addr
<1>9. Answer(ans).ack = ans /\ Answer(ans).err \in BOOLEAN /\ Answer(ans).data \in Word
  <2>1. /\ Answer(ans) \in [ack : BOOLEAN, err : BOOLEAN, data : Word]
        /\ Answer(ans).ack = ans
    BY Signals
  <2> QED
    BY <2>1
<1> QED
  BY <1>1, <1>3, <1>4, <1>5, <1>6, <1>7, <1>8, <1>9

\* What a step leaves alone unless its state says otherwise.
Kept(r, stb, s) == Hold(Drives(r, stb), s)

LEMMA Defaults ==
    ASSUME Typed, NEW r, NEW stb, NEW s, NEW ans, Edge(r, stb, s, ans)
    PROVE  LET c == Kept(r, stb, s)
           IN  /\ c \in CtrlType
               /\ c.state = ctrl.state /\ c.sync = ctrl.sync /\ c.bus_err = ctrl.bus_err
               /\ c.pnd_req = (ctrl.pnd_req \/ stb) /\ c.pnd_syn = (ctrl.pnd_syn \/ s)
               /\ c.pnd_bp = ctrl.pnd_bp /\ ~c.bp_req /\ ~c.hit /\ ~c.cln
               /\ c.tag = ctrl.tag /\ c.idx = ctrl.idx /\ c.ofs_int = ctrl.ofs_int
               /\ c.ofs_ext = ctrl.ofs_ext /\ c.ofs_buf = ctrl.ofs_ext
<1>1. ctrl \in CtrlType /\ Drives(r, stb).stb = stb /\ stb \in BOOLEAN /\ s \in BOOLEAN
  BY Ranges
<1> DEFINE req1 == ctrl.pnd_req \/ stb
           syn1 == ctrl.pnd_syn \/ s
<1>2. Kept(r, stb, s) =
        [ctrl EXCEPT !.pnd_req = req1, !.pnd_syn = syn1, !.bp_req = FALSE,
                     !.hit = FALSE, !.cln = FALSE, !.ofs_buf = ctrl.ofs_ext]
  BY <1>1 DEF Kept, Hold
<1>3. req1 \in BOOLEAN /\ syn1 \in BOOLEAN
  BY <1>1
<1> HIDE DEF req1, syn1
<1>4. LET c == Kept(r, stb, s)
      IN  /\ c \in CtrlType
          /\ c.state = ctrl.state /\ c.sync = ctrl.sync /\ c.bus_err = ctrl.bus_err
          /\ c.pnd_req = req1 /\ c.pnd_syn = syn1
          /\ c.pnd_bp = ctrl.pnd_bp /\ ~c.bp_req /\ ~c.hit /\ ~c.cln
          /\ c.tag = ctrl.tag /\ c.idx = ctrl.idx /\ c.ofs_int = ctrl.ofs_int
          /\ c.ofs_ext = ctrl.ofs_ext /\ c.ofs_buf = ctrl.ofs_ext
  BY <1>1, <1>2, <1>3 DEF CtrlType
<1> QED
  BY <1>4 DEF req1, syn1

\* The memory and its queue after a step.
LEMMA Clocked ==
    ASSUME Typed, NEW r, NEW stb, NEW s, NEW ans, Edge(r, stb, s, ans)
    PROVE  LET b == bus_req(Drives(r, stb))
           IN  /\ b \in Strobe /\ q \in Seq(Strobe) /\ q' \in Seq(Strobe) /\ Bit(ans) <= Len(q)
               /\ Len(q') = Len(q) - Bit(ans) + Bit(b.stb)
               /\ \A k \in 1 .. Len(q') : q'[k] = IF k <= Len(q) - Bit(ans) THEN q[k + Bit(ans)] ELSE b
               /\ mem' \in [Addr -> Word]
               /\ mem' = IF ans /\ Writes(q[1]) /\ ~Fails(q[1])
                         THEN [mem EXCEPT ![q[1].a] = q[1].v] ELSE mem
<1> DEFINE b == bus_req(Drives(r, stb))
<1>1. b \in Strobe /\ MemClock(b, ans)
  BY Signals
<1>2. q \in Seq(Strobe) /\ ans \in BOOLEAN /\ (ans => q # << >>) /\ b.stb \in BOOLEAN
  BY <1>1 DEF Typed, Edge, Strobe
<1> HIDE DEF b
<1>3. q' = After(q, b, b.stb, ans)
  BY <1>1 DEF MemClock, After, Rest
<1>4. /\ q' \in Seq(Strobe) /\ Bit(ans) <= Len(q)
      /\ Len(q') = Len(q) - Bit(ans) + Bit(b.stb)
      /\ \A k \in 1 .. Len(q') : q'[k] = IF k <= Len(q) - Bit(ans) THEN q[k + Bit(ans)] ELSE b
  <2> DEFINE new == After(q, b, b.stb, ans)
  <2>1. /\ new \in Seq(Strobe) /\ Bit(ans) <= Len(q)
        /\ Len(new) = Len(q) - Bit(ans) + Bit(b.stb)
        /\ \A k \in 1 .. Len(new) : new[k] = IF k <= Len(q) - Bit(ans) THEN q[k + Bit(ans)] ELSE b
    BY <1>1, <1>2, QueueStep
  <2> HIDE DEF new
  <2>2. q' = new
    BY <1>3 DEF new
  <2> QED
    BY <2>1, <2>2
<1>5. mem' = IF ans /\ Writes(q[1]) /\ ~Fails(q[1]) THEN [mem EXCEPT ![q[1].a] = q[1].v] ELSE mem
  <2>1. ans => Oldest = q[1]
    BY Front
  <2> QED
    BY <1>1, <2>1 DEF MemClock
<1>6. mem' \in [Addr -> Word]
  <2>1. mem \in [Addr -> Word]
    BY DEF Typed, TypeOK
  <2>2. ans => q[1].v \in Word
    BY Front
  <2> QED
    BY <1>5, <2>1, <2>2
<1> QED
  BY <1>1, <1>2, <1>4, <1>5, <1>6 DEF b

\* Nothing is under way in a state that neither sends nor expects a word.
LEMMA Quiet ==
    ASSUME Typed, Queued, NEW r, NEW stb, NEW s, NEW ans, Edge(r, stb, s, ans),
           ctrl.state \notin {"S_BYPASS", "S_READ_START", "S_READ_WAIT", "S_READ_BURST",
                             "S_WRITE_REQ", "S_WRITE_RSP", "S_WRITE_BURST"}
    PROVE  ~ans /\ Len(q') = 0 /\ mem' = mem
<1>1. Len(q) = 0
  BY DEF Queued, Open
<1>2. ~ans
  <2>1. q \in Seq(Strobe) /\ (ans => q # << >>)
    BY DEF Typed, Edge
  <2> QED
    BY <1>1, <2>1
<1>3. ~bus_req(Drives(r, stb)).stb
  BY DEF bus_req, bus_stb
<1>4. Len(q') = 0 - 0 + 0 /\ mem' = mem
  BY <1>1, <1>2, <1>3, Clocked DEF Bit
<1> QED
  BY <1>2, <1>4

\* The types after a step.
LEMMA TypedNext ==
    ASSUME Typed, NEW r, NEW stb, NEW s, NEW ans, Edge(r, stb, s, ans),
           ctrl' \in CtrlType, Counted', Queued',
           ram' \in [valid : [Block -> BOOLEAN], dirty : [Block -> BOOLEAN],
                     tag : [Block -> Tags], data : [Block \X Offset -> Word]],
           rd' \in [valid : BOOLEAN, dirty : BOOLEAN, tag : Tags, data : Word]
    PROVE  Typed'
<1>1. CacheTypeOK(Word)'
  BY DEF CacheTypeOK, CtrlType, Word, Block, Offset, State, Upload, Download
<1>2. prog' \in Programs /\ req' \in prog' /\ waiting' \in BOOLEAN /\ old' \subseteq Block
  BY Signals DEF Typed, TypeOK
<1>3. Len(q') <= BLOCK_WORDS
  <2>1. Len(q') = Open'
    BY DEF Queued
  <2> QED
    BY <2>1, CachedAssumption DEF Open, Counted, CtrlType, Offset
<1>4. q' \in Seq(Strobe) /\ mem' \in [Addr -> Word]
  BY Clocked
<1>5. out'.res \in Word \cup {Atomic!BusError}
  <2>1. rd.data \in Word /\ 0 \in Word /\ Answer(ans).data \in Word
    BY Ranges, CachedAssumption DEF Word
  <2>2. host_rsp(Drives(r, stb), Answer(ans)).data \in Word
    BY <2>1 DEF host_rsp
  <2>3. Result(r, host_rsp(Drives(r, stb), Answer(ans))) \in Word \cup {Atomic!BusError}
    BY <2>1, <2>2 DEF Result
  <2> QED
    BY <2>3, Signals DEF Typed
<1> QED
  BY <1>1, <1>2, <1>3, <1>4, <1>5 DEF Typed, TypeOK

\* A cycle that only reads the memories of the cache.
LEMMA Looks ==
    ASSUME Typed, NEW a \in Addr, Look(a)
    PROVE  /\ ram' = ram
           /\ rd'.valid = ram.valid[a.i] /\ rd'.dirty = ram.dirty[a.i] /\ rd'.tag = ram.tag[a.i]
           /\ rd'.data = ram.data[<<a.i, a.o>>]
           /\ ram' \in [valid : [Block -> BOOLEAN], dirty : [Block -> BOOLEAN],
                        tag : [Block -> Tags], data : [Block \X Offset -> Word]]
           /\ rd' \in [valid : BOOLEAN, dirty : BOOLEAN, tag : Tags, data : Word]
<1>1. Access(a, Read, FALSE, rd.data) /\ rd.data \in Word /\ CacheTypeOK(Word)
  BY DEF Look, Typed, TypeOK, CacheTypeOK
<1>2. Read \in [set : BOOLEAN, vld : BOOLEAN, drt : BOOLEAN]
  BY DEF Read
<1>3. ram' = ram
  BY <1>1 DEF Access, Read
<1>4. /\ rd' = [valid |-> ram.valid[a.i], dirty |-> ram.dirty[a.i],
                tag |-> ram.tag[a.i], data |-> ram.data[<<a.i, a.o>>]]
      /\ ram' \in [valid : [Block -> BOOLEAN], dirty : [Block -> BOOLEAN],
                   tag : [Block -> Tags], data : [Block \X Offset -> Word]]
      /\ rd' \in [valid : BOOLEAN, dirty : BOOLEAN, tag : Tags, data : Word]
  BY <1>1, <1>2, Memories
<1> QED
  BY <1>3, <1>4

-----------------------------------------------------------------------------
(* Every action of the controller keeps the invariant.                     *)

\* An idle controller takes a fence or an access.
LEMMA IdleKeeps ==
    ASSUME Core, NEW r, NEW stb, NEW s, NEW ans, Edge(r, stb, s, ans), Idle(Drives(r, stb), s)
    PROVE  Core'
<1> DEFINE h == Drives(r, stb)
           c == Kept(r, stb, s)
<1> USE DEF Core
<1>1. ctrl.state = "S_IDLE"
  BY DEF Idle
<1>2. /\ ctrl \in CtrlType /\ h.stb = stb /\ h.a = r.a /\ (h.a.t \in Uncached \/ h.amo) = Bypasses(r)
      /\ stb \in BOOLEAN /\ s \in BOOLEAN
  BY Ranges
<1>3. /\ c \in CtrlType /\ c.state = ctrl.state /\ ~c.hit /\ ~c.cln
      /\ c.pnd_req = (ctrl.pnd_req \/ stb) /\ c.pnd_syn = (ctrl.pnd_syn \/ s)
  BY Defaults
<1>4. ctrl' = IF ctrl.pnd_syn THEN [ToIdle(c) EXCEPT !.state = "S_SYNC_START", !.pnd_bp = FALSE]
              ELSE IF h.stb \/ ctrl.pnd_req
              THEN [ToIdle(c) EXCEPT !.state = "S_CHECK", !.pnd_bp = h.a.t \in Uncached \/ h.amo]
              ELSE [ToIdle(c) EXCEPT !.pnd_bp = FALSE]
  BY DEF Idle, SyncFirst, Kept
<1>5. /\ r.a \in Addr /\ req' = r /\ prog' = prog /\ r \in prog
      /\ old' = (IF s THEN Block ELSE old) \cap {b \in Block : ram'.valid[b]}
      /\ waiting' = (waiting \/ stb)
  BY <1>1, Signals DEF host_rsp
<1>6. ~ans /\ Len(q') = 0
  BY <1>1, Quiet
<1>7. /\ ram' = ram
      /\ rd'.valid = ram.valid[r.a.i] /\ rd'.dirty = ram.dirty[r.a.i] /\ rd'.tag = ram.tag[r.a.i]
      /\ ram' \in [valid : [Block -> BOOLEAN], dirty : [Block -> BOOLEAN],
                   tag : [Block -> Tags], data : [Block \X Offset -> Word]]
      /\ rd' \in [valid : BOOLEAN, dirty : BOOLEAN, tag : Tags, data : Word]
  <2>1. Look(r.a)
    BY <1>2 DEF Idle
  <2> QED
    BY <1>5, <2>1, Looks
<1> HIDE DEF c, h
<1>8. /\ ctrl' \in CtrlType
      /\ ctrl'.state = IF ctrl.pnd_syn THEN "S_SYNC_START"
                       ELSE IF stb \/ ctrl.pnd_req THEN "S_CHECK" ELSE "S_IDLE"
      /\ ctrl'.pnd_bp = (~ctrl.pnd_syn /\ (stb \/ ctrl.pnd_req) /\ Bypasses(r))
      /\ ctrl'.bus_err = FALSE /\ ctrl'.sync = FALSE /\ ~ctrl'.hit /\ ~ctrl'.cln
      /\ ctrl'.pnd_req = (ctrl.pnd_req \/ stb) /\ ctrl'.pnd_syn = (ctrl.pnd_syn \/ s)
  <2>1. "S_SYNC_START" \in State /\ "S_CHECK" \in State
    BY DEF State
  <2>2. CASE ctrl.pnd_syn
    BY <1>1, <1>2, <1>3, <1>4, <2>1, <2>2 DEF ToIdle, CtrlType
  <2>3. CASE ~ctrl.pnd_syn /\ (stb \/ ctrl.pnd_req)
    BY <1>1, <1>2, <1>3, <1>4, <2>1, <2>3 DEF ToIdle, CtrlType
  <2>4. CASE ~ctrl.pnd_syn /\ ~(stb \/ ctrl.pnd_req)
    BY <1>1, <1>2, <1>3, <1>4, <2>1, <2>4 DEF ToIdle, CtrlType
  <2> QED
    BY <2>2, <2>3, <2>4
<1>9. Protocol'
  <2>1. waiting \in BOOLEAN /\ waiting = ctrl.pnd_req /\ ~(stb /\ s) /\ (stb \/ s => ~waiting)
    BY <1>1 DEF Typed, TypeOK, Protocol, Serving, Fetching, Storing, Upload, Download, Edge
  <2>2. ctrl.pnd_syn \in BOOLEAN /\ Bypasses(r) \in BOOLEAN
    BY <1>2 DEF CtrlType, Bypasses
  <2> QED
    BY <1>2, <1>5, <1>8, <2>1, <2>2 DEF Protocol, Serving, Fetching, Storing, Upload, Download
<1>10. Latched' /\ Counted' /\ Queued' /\ Transferred'
  BY <1>5, <1>6, <1>7, <1>8 DEF Latched, Storing, Fetching, Counted, Queued, Open, Transferred, Upload, Download
<1>11. Sound'
  BY <1>1, <1>7, <1>8 DEF Sound, Fetching, Download, Held
<1>12. Flushed'
  BY <1>1, <1>5, <1>7, <1>8 DEF Flushed, Syncing, Storing, Upload, Stuck, Held
<1> QED
  BY <1>7, <1>8, <1>9, <1>10, <1>11, <1>12, TypedNext

\* While the controller serves the host, the host only waits.
LEMMA Busy ==
    ASSUME Typed, Protocol, NEW r, NEW stb, NEW s, NEW ans, Edge(r, stb, s, ans), Serving
    PROVE  waiting /\ ~stb /\ ~s /\ r = req /\ ~ctrl.pnd_syn /\ ctrl.pnd_bp = Bypasses(r)
<1>1. waiting /\ ~ctrl.pnd_syn /\ ctrl.pnd_bp = Bypasses(req)
  BY DEF Protocol
<1> QED
  BY <1>1 DEF Edge

\* What surrounds the controller, in every step.
LEMMA Around ==
    ASSUME Typed, NEW r, NEW stb, NEW s, NEW ans, Edge(r, stb, s, ans)
    PROVE  /\ r.a \in Addr /\ req' = r /\ prog' = prog /\ r \in prog
           /\ old' = (IF s THEN Block ELSE old) \cap {b \in Block : ram'.valid[b]}
           /\ waiting' = ((waiting \/ stb) /\ ~host_rsp(Drives(r, stb), Answer(ans)).ack)
           /\ waiting \in BOOLEAN /\ stb \in BOOLEAN /\ s \in BOOLEAN /\ ans \in BOOLEAN
           /\ ~(stb /\ s) /\ (stb \/ s => ~waiting) /\ Bypasses(r) \in BOOLEAN
           /\ old \subseteq Block
BY Signals DEF Typed, TypeOK, Edge, Bypasses

\* The look-up: what the answer of the memories means for the access.
LEMMA CheckLooksUp ==
    ASSUME Core, NEW r, NEW stb, NEW s, NEW ans, Edge(r, stb, s, ans), ctrl.state = "S_CHECK"
    PROVE  LET h  == Drives(r, stb)
               in == ram.valid[r.a.i] /\ ram.tag[r.a.i] = r.a.t
               modified == ram.valid[r.a.i] /\ ram.dirty[r.a.i]
           IN  /\ Hit(h) = in
               /\ ~(Hit(h) /\ ~Bypasses(r)) => Dirty = modified /\ rd.tag = ram.tag[r.a.i]
<1>1. r = req
  BY Busy DEF Core, Serving
<1>2. Drives(r, stb).a = r.a
  BY Ranges DEF Core
<1>3. /\ ctrl.hit \in BOOLEAN /\ ctrl.cln \in BOOLEAN /\ rd.valid \in BOOLEAN /\ rd.dirty \in BOOLEAN
      /\ ram.valid[r.a.i] \in BOOLEAN /\ ram.dirty[r.a.i] \in BOOLEAN
  BY Ranges DEF Core, Typed, TypeOK, CacheTypeOK
<1> QED
  BY <1>1, <1>2, <1>3 DEF Core, Latched, Hit, Dirty

\* The access hits, is passed on, or needs a transfer.
LEMMA CheckKeeps ==
    ASSUME Core, NEW r, NEW stb, NEW s, NEW ans, Edge(r, stb, s, ans), Check(Drives(r, stb), s)
    PROVE  Core'
<1> DEFINE h == Drives(r, stb)
           c == Kept(r, stb, s)
           in == ram.valid[r.a.i] /\ ram.tag[r.a.i] = r.a.t
           modified == ram.valid[r.a.i] /\ ram.dirty[r.a.i]
           store == ~Bypasses(r) /\ in /\ h.rw
           drop  == Bypasses(r) /\ in /\ ~modified
           mark == IF drop THEN Mark(FALSE, FALSE) ELSE IF store THEN Modify ELSE Read
<1> USE DEF Core
<1>1. ctrl.state = "S_CHECK"
  BY DEF Check
<1>2. /\ ctrl \in CtrlType /\ h.stb = stb /\ h.a = r.a /\ stb \in BOOLEAN /\ s \in BOOLEAN
      /\ r.a.t \in Tags /\ r.a.i \in Block /\ 0 \in Offset /\ 0 \in 0 .. 2 * BLOCK_WORDS - 1
  BY Ranges
<1>3. /\ c \in CtrlType /\ c.sync = ctrl.sync /\ c.bus_err = ctrl.bus_err /\ ~c.hit /\ ~c.cln
      /\ c.pnd_bp = ctrl.pnd_bp /\ c.pnd_syn = (ctrl.pnd_syn \/ s)
  BY Defaults
<1>4. waiting /\ ~stb /\ ~s /\ r = req /\ ~ctrl.pnd_syn /\ ctrl.pnd_bp = Bypasses(r)
      /\ ~ctrl.sync /\ ~ctrl.bus_err
  BY <1>1, Busy DEF Serving, Protocol
<1>5. Hit(h) = in /\ (~(in /\ ~Bypasses(r)) => Dirty = modified /\ rd.tag = ram.tag[r.a.i])
  BY <1>1, CheckLooksUp
<1>6. Bypasses(r) \in BOOLEAN /\ Dirty \in BOOLEAN /\ in \in BOOLEAN /\ modified \in BOOLEAN
      /\ h.rw \in BOOLEAN /\ r.a \in Addr /\ r.v \in Word /\ h.v = r.v
  BY Around, Signals DEF Dirty, Drives
<1> DEFINE next == IF ~Bypasses(r) /\ in THEN "S_IDLE"
                   ELSE IF modified /\ (Bypasses(r) => in) THEN "S_WRITE_START"
                   ELSE IF Bypasses(r) THEN "S_BYPASS" ELSE "S_READ_START"
<1>7. AfterCheck(h) = next
  BY <1>4, <1>5, <1>6 DEF AfterCheck
<1>8. ctrl' = [c EXCEPT !.state = next, !.tag = r.a.t, !.idx = r.a.i,
                        !.ofs_ext = 0, !.ofs_int = 0, !.pnd_req = FALSE, !.bp_req = TRUE]
  BY <1>2, <1>7 DEF Check, Kept
<1>9. Access(r.a, mark, store, r.v)
  BY <1>2, <1>4, <1>5, <1>6, CachedAssumption DEF Check
<1>10. mark \in [set : BOOLEAN, vld : BOOLEAN, drt : BOOLEAN] /\ store \in BOOLEAN
       /\ mark.set = drop /\ mark.drt = store /\ (mark.set => ~mark.vld)
  BY <1>6 DEF Mark, Read, Modify
<1>11. /\ ~ans /\ Len(q') = 0
  BY <1>1, Quiet
<1>12. /\ req' = r /\ old' = old \cap {b \in Block : ram'.valid[b]} /\ old \subseteq Block
       /\ waiting' = ~(~Bypasses(r) /\ in)
  BY <1>1, <1>4, <1>5, Around DEF host_rsp
<1> HIDE DEF c, h, mark, next
<1>13. /\ ram'.valid = IF drop THEN [ram.valid EXCEPT ![r.a.i] = FALSE] ELSE ram.valid
       /\ ram'.tag = IF drop THEN [ram.tag EXCEPT ![r.a.i] = r.a.t] ELSE ram.tag
       /\ ram'.dirty = IF drop \/ store THEN [ram.dirty EXCEPT ![r.a.i] = store] ELSE ram.dirty
       /\ rd'.tag = ram.tag[r.a.i]
       /\ ram' \in [valid : [Block -> BOOLEAN], dirty : [Block -> BOOLEAN],
                    tag : [Block -> Tags], data : [Block \X Offset -> Word]]
       /\ rd' \in [valid : BOOLEAN, dirty : BOOLEAN, tag : Tags, data : Word]
  <2>1. CacheTypeOK(Word)
    BY DEF Typed, TypeOK
  <2>2. /\ ram'.valid = IF mark.set THEN [ram.valid EXCEPT ![r.a.i] = mark.vld] ELSE ram.valid
        /\ ram'.tag = IF mark.set THEN [ram.tag EXCEPT ![r.a.i] = r.a.t] ELSE ram.tag
        /\ ram'.dirty = IF mark.set \/ mark.drt THEN [ram.dirty EXCEPT ![r.a.i] = mark.drt] ELSE ram.dirty
        /\ rd' = [valid |-> ram.valid[r.a.i], dirty |-> ram.dirty[r.a.i],
                  tag |-> ram.tag[r.a.i], data |-> ram.data[<<r.a.i, r.a.o>>]]
        /\ ram' \in [valid : [Block -> BOOLEAN], dirty : [Block -> BOOLEAN],
                     tag : [Block -> Tags], data : [Block \X Offset -> Word]]
        /\ rd' \in [valid : BOOLEAN, dirty : BOOLEAN, tag : Tags, data : Word]
    BY <1>6, <1>9, <1>10, <2>1, Memories
  <2> QED
    BY <1>6, <1>10, <2>2
<1>14. ram \in [valid : [Block -> BOOLEAN], dirty : [Block -> BOOLEAN],
                tag : [Block -> Tags], data : [Block \X Offset -> Word]]
  BY DEF Typed, TypeOK, CacheTypeOK
<1>15. \A b \in Block : /\ ram'.valid[b] = (ram.valid[b] /\ ~(drop /\ b = r.a.i))
                        /\ ram'.tag[b] = ram.tag[b]
                        /\ ram'.valid[b] => ram'.dirty[b] = (ram.dirty[b] \/ (store /\ b = r.a.i))
  <2> SUFFICES ASSUME NEW b \in Block
               PROVE  /\ ram'.valid[b] = (ram.valid[b] /\ ~(drop /\ b = r.a.i))
                      /\ ram'.tag[b] = ram.tag[b]
                      /\ ram'.valid[b] => ram'.dirty[b] = (ram.dirty[b] \/ (store /\ b = r.a.i))
    OBVIOUS
  <2>1. ram.valid[b] \in BOOLEAN /\ ram.dirty[b] \in BOOLEAN /\ drop \in BOOLEAN /\ store \in BOOLEAN
    BY <1>6, <1>14
  <2>2. drop => r.a.t = ram.tag[r.a.i]
    OBVIOUS
  <2> HIDE DEF drop, store
  <2>3. ram'.valid[b] = (ram.valid[b] /\ ~(drop /\ b = r.a.i))
    BY <1>2, <1>13, <1>14, <2>1
  <2>4. ram'.tag[b] = ram.tag[b]
    BY <1>2, <1>13, <1>14, <2>1, <2>2
  <2>5. ram'.valid[b] => ram'.dirty[b] = (ram.dirty[b] \/ (store /\ b = r.a.i))
    BY <1>2, <1>13, <1>14, <2>1, <2>3
  <2> QED
    BY <2>3, <2>4, <2>5
<1>16. /\ ctrl' \in CtrlType
       /\ ctrl'.state = next /\ ctrl'.tag = r.a.t /\ ctrl'.idx = r.a.i /\ ~ctrl'.pnd_req /\ ctrl'.bp_req
       /\ ctrl'.ofs_ext = 0 /\ ctrl'.ofs_int = 0
       /\ ~ctrl'.sync /\ ~ctrl'.bus_err /\ ~ctrl'.pnd_syn /\ ctrl'.pnd_bp = Bypasses(r)
  <2>1. next \in State
    BY DEF next, State, Upload, Download
  <2> QED
    BY <1>2, <1>3, <1>4, <1>8, <2>1 DEF CtrlType
<1> HIDE DEF in, modified, store, drop
<1>17. Protocol'
  <2>1. next \in {"S_IDLE", "S_WRITE_START", "S_BYPASS", "S_READ_START"}
        /\ (next = "S_IDLE" <=> ~Bypasses(r) /\ in) /\ (next = "S_BYPASS" => Bypasses(r))
        /\ (next = "S_READ_START" => ~Bypasses(r))
    BY DEF next
  <2>2. waiting' = (next # "S_IDLE")
    BY <1>6, <1>12, <2>1
  <2>3. /\ req' = r /\ waiting' \in BOOLEAN /\ Bypasses(r) \in BOOLEAN
        /\ ctrl'.pnd_bp = Bypasses(r) /\ ~ctrl'.pnd_req /\ ~ctrl'.pnd_syn /\ ~ctrl'.sync /\ ~ctrl'.bus_err
        /\ ctrl'.idx = r.a.i /\ ctrl'.tag = r.a.t /\ ctrl'.pnd_req \in BOOLEAN
    BY <1>6, <1>12, <1>16 DEF CtrlType
  <2>4. CASE next = "S_IDLE"
    <3>1. ctrl'.state = "S_IDLE" /\ ~waiting'
      BY <1>16, <2>2, <2>4
    <3> QED
      BY <2>3, <3>1 DEF Protocol, Serving, Fetching, Storing, Upload, Download
  <2>5. CASE next = "S_BYPASS"
    <3>1. ctrl'.state = "S_BYPASS" /\ waiting' /\ Bypasses(r)
      BY <1>16, <2>1, <2>2, <2>5
    <3> QED
      BY <2>3, <3>1 DEF Protocol, Serving, Fetching, Storing, Upload, Download
  <2>6. CASE next = "S_READ_START"
    <3>1. ctrl'.state = "S_READ_START" /\ waiting' /\ ~Bypasses(r)
      BY <1>16, <2>1, <2>2, <2>6
    <3> QED
      BY <2>3, <3>1 DEF Protocol, Serving, Fetching, Storing, Upload, Download
  <2>7. CASE next = "S_WRITE_START"
    <3>1. ctrl'.state = "S_WRITE_START" /\ waiting'
      BY <1>16, <2>2, <2>7
    <3> QED
      BY <2>3, <3>1 DEF Protocol, Serving, Fetching, Storing, Upload, Download
  <2> QED
    BY <2>1, <2>4, <2>5, <2>6, <2>7
<1>18. Latched'
  <2>1. next = "S_WRITE_START" => ~drop /\ ~store /\ modified /\ (Bypasses(r) \/ ~in)
    BY <1>6 DEF next, drop, store
  <2>2. next = "S_READ_START" => ~drop /\ ~store /\ ~modified
    BY <1>6 DEF next, drop, store
  <2> QED
    BY <1>2, <1>4, <1>6, <1>12, <1>13, <1>15, <1>16, <2>1, <2>2
       DEF Latched, Fetching, Storing, Upload, Download, next, in, modified
<1>19. Counted' /\ Queued' /\ Transferred'
  BY <1>11, <1>12, <1>16, Counters DEF Counted, Queued, Open, Transferred, Done, Fetching, Storing, Upload, Download, next, Offset
<1>20. Sound'
  BY <1>1, <1>15, <1>16 DEF Sound, Fetching, Download, Held, next
<1>21. Flushed'
  <2>1. \A b \in old : Stuck(b)
    BY <1>1, <1>4 DEF Flushed, Syncing, Storing, Upload
  <2> QED
    BY <1>12, <1>15, <1>16, <2>1 DEF Flushed, Syncing, Storing, Upload, Stuck, Held, next
<1> QED
  BY <1>13, <1>16, <1>17, <1>18, <1>19, <1>20, <1>21, TypedNext

\* An access goes past the cache.
LEMMA BypassKeeps ==
    ASSUME Core, NEW r, NEW stb, NEW s, NEW ans, Edge(r, stb, s, ans),
           Bypass(Drives(r, stb), s, Answer(ans))
    PROVE  Core'
<1> DEFINE h == Drives(r, stb)
           c == Kept(r, stb, s)
           b == bus_req(h)
<1> USE DEF Core
<1>1. ctrl.state = "S_BYPASS"
  BY DEF Bypass
<1>2. ctrl \in CtrlType /\ h.a = r.a /\ Answer(ans).ack = ans /\ ans \in BOOLEAN
  BY Ranges
<1>3. /\ c \in CtrlType /\ c.state = ctrl.state /\ c.sync = ctrl.sync /\ c.bus_err = ctrl.bus_err
      /\ c.pnd_req = (ctrl.pnd_req \/ stb) /\ c.pnd_syn = (ctrl.pnd_syn \/ s)
      /\ c.pnd_bp = ctrl.pnd_bp /\ c.idx = ctrl.idx /\ ~c.bp_req
  BY Defaults
<1>4. waiting /\ ~stb /\ ~s /\ r = req /\ ~ctrl.pnd_syn /\ ctrl.pnd_bp = Bypasses(r)
      /\ Bypasses(r) /\ ~ctrl.sync /\ ~ctrl.bus_err /\ ~ctrl.pnd_req /\ ctrl.idx = req.a.i
  BY <1>1, Busy DEF Serving, Protocol
<1>5. ctrl' = [c EXCEPT !.state = IF ans THEN "S_IDLE" ELSE c.state]
  BY <1>2 DEF Bypass, Kept
<1>6. /\ r.a \in Addr /\ req' = r /\ old' = old \cap {x \in Block : ram'.valid[x]} /\ old \subseteq Block
      /\ waiting' = ~ans
  BY <1>1, <1>2, <1>4, Around DEF host_rsp
<1>7. /\ ram' = ram
      /\ ram' \in [valid : [Block -> BOOLEAN], dirty : [Block -> BOOLEAN],
                   tag : [Block -> Tags], data : [Block \X Offset -> Word]]
      /\ rd' \in [valid : BOOLEAN, dirty : BOOLEAN, tag : Tags, data : Word]
  <2>1. Look(r.a)
    BY <1>2 DEF Bypass
  <2> QED
    BY <1>6, <2>1, Looks
<1>8. /\ Bit(ans) <= Len(q) /\ Len(q') = Len(q) - Bit(ans) + Bit(b.stb) /\ Len(q) \in Nat
      /\ \A k \in 1 .. Len(q') : q'[k] = IF k <= Len(q) - Bit(ans) THEN q[k + Bit(ans)] ELSE b
  BY Clocked
<1>9. b.stb = ctrl.bp_req /\ b.a = r.a /\ b.rw = (r.op = "st") /\ b.amo = (r.op = "swap")
  BY <1>1 DEF bus_req, Drives
<1> HIDE DEF c, h, b
<1>10. /\ ctrl' \in CtrlType /\ ctrl'.state = (IF ans THEN "S_IDLE" ELSE "S_BYPASS")
       /\ ~ctrl'.sync /\ ~ctrl'.bus_err /\ ~ctrl'.pnd_req /\ ~ctrl'.pnd_syn /\ ~ctrl'.bp_req
       /\ ctrl'.pnd_bp = Bypasses(r) /\ ctrl'.idx = r.a.i
  <2>1. "S_IDLE" \in State
    BY DEF State
  <2> QED
    BY <1>1, <1>3, <1>4, <1>5, <2>1 DEF CtrlType
<1>11. Protocol' /\ Latched' /\ Counted' /\ Transferred'
  <2>1. CASE ans
    <3>1. ctrl'.state = "S_IDLE" /\ ~waiting'
      BY <1>6, <1>10, <2>1
    <3>2. waiting' \in BOOLEAN /\ ctrl'.pnd_req \in BOOLEAN
      BY <1>2, <1>6, <1>10 DEF CtrlType
    <3>3. Protocol'
      BY <1>10, <3>1, <3>2 DEF Protocol, Serving, Fetching, Storing, Upload, Download
    <3> QED
      BY <3>1, <3>3 DEF Latched, Counted, Transferred, Fetching, Storing, Upload, Download
  <2>2. CASE ~ans
    <3>1. ctrl'.state = "S_BYPASS" /\ waiting'
      BY <1>6, <1>10, <2>2
    <3>2. req' = r /\ Bypasses(r)
      BY <1>4, <1>6
    <3>3. Protocol'
      BY <1>4, <1>10, <3>1, <3>2 DEF Protocol, Serving, Fetching, Storing, Upload, Download
    <3> QED
      BY <3>1, <3>3 DEF Latched, Counted, Transferred, Fetching, Storing, Upload, Download
  <2> QED
    BY <2>1, <2>2
<1>12. Queued'
  <2>1. CASE ctrl.bp_req
    <3>1. Len(q) = 0
      BY <1>1, <2>1 DEF Queued, Open
    <3>2. ~ans /\ Len(q') = 1
      BY <1>2, <1>8, <1>9, <2>1, <3>1 DEF Bit
    <3>3. q'[1] = b
      BY <1>8, <3>1, <3>2 DEF Bit
    <3> QED
      BY <1>6, <1>9, <1>10, <3>2, <3>3 DEF Queued, Open, Upload, Download
  <2>2. CASE ~ctrl.bp_req
    <3>1. Len(q) = 1 /\ q[1].a = r.a /\ q[1].rw = (r.op = "st") /\ q[1].amo = (r.op = "swap")
      BY <1>1, <1>4, <2>2 DEF Queued, Open
    <3>2. Len(q') = 1 - Bit(ans) + 0
      BY <1>8, <1>9, <2>2, <3>1 DEF Bit
    <3>3. CASE ans
      BY <1>10, <3>2, <3>3 DEF Queued, Open, Upload, Download, Bit
    <3>4. CASE ~ans
      <4>1. Len(q') = 1 /\ q'[1] = q[1]
        BY <1>8, <3>1, <3>2, <3>4 DEF Bit
      <4> QED
        BY <1>6, <1>10, <3>1, <3>4, <4>1 DEF Queued, Open, Upload, Download
    <3> QED
      BY <3>3, <3>4
  <2> QED
    BY <2>1, <2>2
<1>13. Sound' /\ Flushed'
  BY <1>1, <1>4, <1>6, <1>7, <1>10 DEF Sound, Held, Fetching, Download, Flushed, Syncing, Storing, Upload, Stuck
<1> QED
  BY <1>7, <1>10, <1>11, <1>12, <1>13, TypedNext

\* No access is answered while the controller transfers a block or carries out
\* a fence.
LEMMA Unanswered ==
    ASSUME Core, NEW r, NEW stb, NEW s, NEW ans, Edge(r, stb, s, ans),
           ctrl.state \notin {"S_CHECK", "S_BYPASS", "S_READ_DONE", "S_WRITE_DONE"}
    PROVE  waiting' = (waiting \/ stb) /\ ~host_rsp(Drives(r, stb), Answer(ans)).ack
<1>1. ~host_rsp(Drives(r, stb), Answer(ans)).ack
  BY DEF host_rsp
<1> QED
  BY <1>1, Around DEF Core

\* A fence begins with block 0.
LEMMA SyncStartKeeps ==
    ASSUME Core, NEW r, NEW stb, NEW s, NEW ans, Edge(r, stb, s, ans), SyncStart(Drives(r, stb), s)
    PROVE  Core'
<1> DEFINE c == Kept(r, stb, s)
<1> USE DEF Core
<1>1. ctrl.state = "S_SYNC_START"
  BY DEF SyncStart
<1>2. ctrl \in CtrlType /\ Drives(r, stb).a = r.a /\ 0 \in Block
  BY Ranges
<1>3. /\ c \in CtrlType /\ c.pnd_req = (ctrl.pnd_req \/ stb)
  BY Defaults
<1>4. ctrl' = [c EXCEPT !.state = "S_SYNC_DELAY", !.pnd_syn = FALSE, !.sync = TRUE, !.idx = 0]
  BY DEF SyncStart, Kept
<1>5. /\ r.a \in Addr /\ req' = r /\ waiting' = (waiting \/ stb)
      /\ old' = (IF s THEN Block ELSE old) \cap {x \in Block : ram'.valid[x]}
      /\ waiting \in BOOLEAN /\ stb \in BOOLEAN
  BY <1>1, Unanswered, Around
<1>6. Len(q') = 0
  BY <1>1, Quiet
<1>7. /\ ram' = ram
      /\ ram' \in [valid : [Block -> BOOLEAN], dirty : [Block -> BOOLEAN],
                   tag : [Block -> Tags], data : [Block \X Offset -> Word]]
      /\ rd' \in [valid : BOOLEAN, dirty : BOOLEAN, tag : Tags, data : Word]
  <2>1. Look(r.a)
    BY <1>2 DEF SyncStart
  <2> QED
    BY <1>5, <2>1, Looks
<1> HIDE DEF c
<1>8. /\ ctrl' \in CtrlType /\ ctrl'.state = "S_SYNC_DELAY" /\ ctrl'.sync /\ ctrl'.idx = 0
      /\ ctrl'.pnd_req = (ctrl.pnd_req \/ stb)
  <2>1. "S_SYNC_DELAY" \in State
    BY DEF State
  <2> QED
    BY <1>2, <1>3, <1>4, <2>1 DEF CtrlType
<1>9. Protocol' /\ Latched' /\ Counted' /\ Transferred' /\ Queued'
  <2>1. waiting = ctrl.pnd_req
    BY <1>1 DEF Protocol, Serving, Fetching, Storing, Upload, Download
  <2> QED
    BY <1>5, <1>6, <1>8, <2>1
       DEF Protocol, Serving, Latched, Counted, Transferred, Queued, Open, Fetching, Storing, Upload, Download
<1>10. Sound'
  BY <1>1, <1>7, <1>8 DEF Sound, Held, Fetching, Download
<1>11. Flushed'
  <2>1. \A x \in Block : ~(x < 0)
    BY CachedAssumption DEF Block
  <2>2. old' \subseteq Block
    BY <1>5
  <2> QED
    BY <1>5, <1>8, <2>1, <2>2 DEF Flushed, Syncing, Storing, Upload
<1> QED
  BY <1>7, <1>8, <1>9, <1>10, <1>11, TypedNext

\* The address of a word of the block at work.
LEMMA Lines ==
    ASSUME Typed
    PROVE  /\ ctrl.ofs_int \in Offset /\ ctrl.ofs_int \in Nat
           /\ ctrl.ofs_ext \in 0 .. 2 * BLOCK_WORDS - 1 /\ ctrl.ofs_buf \in 0 .. 2 * BLOCK_WORDS - 1
           /\ ctrl.tag \in Tags /\ ctrl.idx \in Block
           /\ \A e \in 0 .. 2 * BLOCK_WORDS - 1 :
                 Line(e) \in Addr /\ Line(e).t = ctrl.tag /\ Line(e).i = ctrl.idx
           /\ \A e \in Offset : Line(e) = At(e) /\ Line(e) \in Addr
                                /\ Line(e).t = ctrl.tag /\ Line(e).i = ctrl.idx
<1>1. /\ ctrl.ofs_int \in Offset /\ ctrl.tag \in Tags /\ ctrl.idx \in Block
      /\ ctrl.ofs_ext \in 0 .. 2 * BLOCK_WORDS - 1 /\ ctrl.ofs_buf \in 0 .. 2 * BLOCK_WORDS - 1
  BY DEF Typed, TypeOK, CacheTypeOK
<1>2. \A e : e % BLOCK_WORDS \in Offset =>
                 Line(e) \in Addr /\ Line(e).t = ctrl.tag /\ Line(e).i = ctrl.idx
  BY <1>1 DEF Line, Addr
<1>3. \A e \in 0 .. 2 * BLOCK_WORDS - 1 : e % BLOCK_WORDS \in Offset
  BY Counters
<1>4. \A e \in Offset : e \in Nat /\ e % BLOCK_WORDS = e
  BY Counters
<1>5. \A e \in Offset : Line(e) = At(e)
  BY <1>4 DEF Line, At
<1> QED
  BY <1>1, <1>2, <1>3, <1>4, <1>5

\* The status of the next block is read.
LEMMA SyncDelayKeeps ==
    ASSUME Core, NEW r, NEW stb, NEW s, NEW ans, Edge(r, stb, s, ans), SyncDelay(Drives(r, stb), s)
    PROVE  Core'
<1> DEFINE c == Kept(r, stb, s)
<1> USE DEF Core
<1>1. ctrl.state = "S_SYNC_DELAY"
  BY DEF SyncDelay
<1>3. /\ c \in CtrlType /\ c.pnd_req = (ctrl.pnd_req \/ stb) /\ c.pnd_syn = (ctrl.pnd_syn \/ s)
      /\ c.sync = ctrl.sync /\ c.idx = ctrl.idx /\ ~c.cln
  BY Defaults
<1>4. ctrl' = [c EXCEPT !.state = "S_SYNC_CHECK"]
  BY DEF SyncDelay, Kept
<1>5. /\ waiting' = (waiting \/ stb)
      /\ old' = (IF s THEN Block ELSE old) \cap {x \in Block : ram'.valid[x]}
      /\ waiting \in BOOLEAN /\ stb \in BOOLEAN /\ s \in BOOLEAN
  BY <1>1, Unanswered, Around
<1>6. Len(q') = 0
  BY <1>1, Quiet
<1>7. /\ ram' = ram
      /\ rd'.valid = ram.valid[ctrl.idx] /\ rd'.dirty = ram.dirty[ctrl.idx] /\ rd'.tag = ram.tag[ctrl.idx]
      /\ ram' \in [valid : [Block -> BOOLEAN], dirty : [Block -> BOOLEAN],
                   tag : [Block -> Tags], data : [Block \X Offset -> Word]]
      /\ rd' \in [valid : BOOLEAN, dirty : BOOLEAN, tag : Tags, data : Word]
  <2>1. Look(Line(ctrl.ofs_int))
    BY DEF SyncDelay
  <2>2. Line(ctrl.ofs_int) \in Addr /\ Line(ctrl.ofs_int).i = ctrl.idx
    BY Lines
  <2>3. /\ ram' = ram
        /\ rd'.valid = ram.valid[Line(ctrl.ofs_int).i] /\ rd'.dirty = ram.dirty[Line(ctrl.ofs_int).i]
        /\ rd'.tag = ram.tag[Line(ctrl.ofs_int).i]
        /\ ram' \in [valid : [Block -> BOOLEAN], dirty : [Block -> BOOLEAN],
                     tag : [Block -> Tags], data : [Block \X Offset -> Word]]
        /\ rd' \in [valid : BOOLEAN, dirty : BOOLEAN, tag : Tags, data : Word]
    BY <2>1, <2>2, Looks
  <2> QED
    BY <2>2, <2>3
<1> HIDE DEF c
<1>8. /\ ctrl' \in CtrlType /\ ctrl'.state = "S_SYNC_CHECK" /\ ctrl'.sync /\ ctrl'.idx = ctrl.idx
      /\ ctrl'.pnd_req = (ctrl.pnd_req \/ stb) /\ ctrl'.pnd_syn = (ctrl.pnd_syn \/ s) /\ ~ctrl'.cln
  <2>1. "S_SYNC_CHECK" \in State /\ ctrl.sync
    BY <1>1 DEF State, Protocol
  <2> QED
    BY <1>3, <1>4, <2>1 DEF CtrlType
<1>9. Protocol' /\ Latched' /\ Counted' /\ Transferred' /\ Queued'
  <2>1. waiting = ctrl.pnd_req
    BY <1>1 DEF Protocol, Serving, Fetching, Storing, Upload, Download
  <2> QED
    BY <1>5, <1>6, <1>7, <1>8, <2>1
       DEF Protocol, Serving, Latched, Counted, Transferred, Queued, Open, Fetching, Storing, Upload, Download
<1>10. Sound' /\ Flushed'
  <2>1. ctrl.pnd_syn \in BOOLEAN
    BY Ranges DEF CtrlType
  <2> QED
    BY <1>1, <1>5, <1>7, <1>8, <2>1 DEF Sound, Held, Fetching, Download, Flushed, Syncing, Storing, Upload, Stuck
<1> QED
  BY <1>7, <1>8, <1>9, <1>10, TypedNext

\* A modified block is written back.
LEMMA SyncCheckKeeps ==
    ASSUME Core, NEW r, NEW stb, NEW s, NEW ans, Edge(r, stb, s, ans), SyncCheck(Drives(r, stb), s)
    PROVE  Core'
<1> DEFINE c == Kept(r, stb, s)
           modified == ram.valid[ctrl.idx] /\ ram.dirty[ctrl.idx]
           next == IF modified THEN "S_WRITE_START" ELSE "S_SYNC_NEXT"
<1> USE DEF Core
<1>1. ctrl.state = "S_SYNC_CHECK"
  BY DEF SyncCheck
<1>2. 0 \in Offset /\ 0 \in 0 .. 2 * BLOCK_WORDS - 1
  BY Ranges
<1>3. /\ c \in CtrlType /\ c.pnd_req = (ctrl.pnd_req \/ stb) /\ c.pnd_syn = (ctrl.pnd_syn \/ s)
      /\ c.sync = ctrl.sync /\ c.idx = ctrl.idx
  BY Defaults
<1>4. ctrl' = [c EXCEPT !.state = next, !.ofs_ext = 0, !.ofs_int = 0, !.bus_err = FALSE]
  <2>1. Dirty <=> modified
    BY <1>1 DEF Latched, Dirty
  <2> QED
    BY <2>1 DEF SyncCheck, Kept
<1>5. /\ waiting' = (waiting \/ stb)
      /\ old' = (IF s THEN Block ELSE old) \cap {x \in Block : ram'.valid[x]}
      /\ waiting \in BOOLEAN /\ stb \in BOOLEAN /\ s \in BOOLEAN
  BY <1>1, Unanswered, Around
<1>6. Len(q') = 0
  BY <1>1, Quiet
<1>7. /\ ram' = ram
      /\ rd'.valid = ram.valid[ctrl.idx] /\ rd'.dirty = ram.dirty[ctrl.idx] /\ rd'.tag = ram.tag[ctrl.idx]
      /\ ram' \in [valid : [Block -> BOOLEAN], dirty : [Block -> BOOLEAN],
                   tag : [Block -> Tags], data : [Block \X Offset -> Word]]
      /\ rd' \in [valid : BOOLEAN, dirty : BOOLEAN, tag : Tags, data : Word]
  <2>1. Look(Line(ctrl.ofs_int))
    BY DEF SyncCheck
  <2>2. Line(ctrl.ofs_int) \in Addr /\ Line(ctrl.ofs_int).i = ctrl.idx
    BY Lines
  <2>3. /\ ram' = ram
        /\ rd'.valid = ram.valid[Line(ctrl.ofs_int).i] /\ rd'.dirty = ram.dirty[Line(ctrl.ofs_int).i]
        /\ rd'.tag = ram.tag[Line(ctrl.ofs_int).i]
        /\ ram' \in [valid : [Block -> BOOLEAN], dirty : [Block -> BOOLEAN],
                     tag : [Block -> Tags], data : [Block \X Offset -> Word]]
        /\ rd' \in [valid : BOOLEAN, dirty : BOOLEAN, tag : Tags, data : Word]
    BY <2>1, <2>2, Looks
  <2> QED
    BY <2>2, <2>3
<1> HIDE DEF c
<1>8. /\ ctrl' \in CtrlType /\ ctrl'.state = next /\ ctrl'.sync /\ ctrl'.idx = ctrl.idx
      /\ ctrl'.pnd_req = (ctrl.pnd_req \/ stb) /\ ctrl'.pnd_syn = (ctrl.pnd_syn \/ s)
      /\ ~ctrl'.bus_err /\ ctrl'.ofs_ext = 0 /\ ctrl'.ofs_int = 0
  <2>1. next \in State /\ ctrl.sync
    BY <1>1 DEF State, Upload, Protocol
  <2> HIDE DEF next
  <2> QED
    BY <1>2, <1>3, <1>4, <2>1 DEF CtrlType
<1>9. Protocol' /\ Counted' /\ Transferred' /\ Queued' /\ Latched'
  <2>1. waiting = ctrl.pnd_req
    BY <1>1 DEF Protocol, Serving, Fetching, Storing, Upload, Download
  <2>2. Protocol' /\ Counted' /\ Queued'
    BY <1>5, <1>6, <1>8, <2>1
       DEF Protocol, Serving, Counted, Queued, Open, Fetching, Storing, Upload, Download
  <2>3. Transferred'
    <3>1. \A o \in Offset : ~(o < 0)
      BY CachedAssumption DEF Offset
    <3> QED
      BY <1>8, <3>1 DEF Transferred, Done, Fetching, Storing, Upload, Download
  <2>4. Latched'
    BY <1>7, <1>8 DEF Latched, Fetching, Storing, Upload, Download
  <2> QED
    BY <2>2, <2>3, <2>4
<1>10. Sound' /\ Flushed'
  <2>1. ctrl.pnd_syn \in BOOLEAN
    BY Ranges DEF CtrlType
  <2> QED
    BY <1>1, <1>5, <1>7, <1>8, <2>1 DEF Sound, Held, Fetching, Download, Flushed, Syncing, Storing, Upload, Stuck
<1> QED
  BY <1>7, <1>8, <1>9, <1>10, TypedNext

\* A block is dropped, unless its write-back has failed.
LEMMA SyncNextKeeps ==
    ASSUME Core, NEW r, NEW stb, NEW s, NEW ans, Edge(r, stb, s, ans), SyncNext(Drives(r, stb), s)
    PROVE  Core'
<1> DEFINE c == Kept(r, stb, s)
           a == Line(ctrl.ofs_int)
           mark == Mark(ctrl.bus_err, ctrl.bus_err)
           next == IF LastBlock THEN "S_IDLE" ELSE "S_SYNC_DELAY"
<1> USE DEF Core
<1>1. ctrl.state = "S_SYNC_NEXT"
  BY DEF SyncNext
<1>2. /\ ctrl \in CtrlType /\ (ctrl.idx + 1) % NUM_BLOCKS \in Block
      /\ ctrl.sync
  BY <1>1, Ranges DEF Protocol
<1>3. /\ c \in CtrlType /\ c.pnd_req = (ctrl.pnd_req \/ stb) /\ c.pnd_syn = (ctrl.pnd_syn \/ s)
      /\ c.sync = ctrl.sync /\ c.idx = ctrl.idx
  BY Defaults
<1>4. ctrl' = [c EXCEPT !.state = next, !.idx = (c.idx + 1) % NUM_BLOCKS]
  BY DEF SyncNext, Kept
<1>5. /\ waiting' = (waiting \/ stb)
      /\ old' = (IF s THEN Block ELSE old) \cap {x \in Block : ram'.valid[x]}
      /\ waiting \in BOOLEAN /\ stb \in BOOLEAN /\ s \in BOOLEAN /\ old \subseteq Block
  BY <1>1, Unanswered, Around
<1>6. Len(q') = 0
  BY <1>1, Quiet
<1>7. /\ a \in Addr /\ a.i = ctrl.idx /\ a.t = ctrl.tag /\ ctrl.bus_err \in BOOLEAN
      /\ mark \in [set : BOOLEAN, vld : BOOLEAN, drt : BOOLEAN] /\ rd.data \in Word
      /\ mark.set /\ mark.vld = ctrl.bus_err /\ mark.drt = ctrl.bus_err
  <2>1. a \in Addr /\ a.i = ctrl.idx /\ a.t = ctrl.tag
    BY Lines
  <2>2. ctrl.bus_err \in BOOLEAN /\ rd.data \in Word
    BY DEF Typed, TypeOK, CacheTypeOK
  <2> QED
    BY <2>1, <2>2 DEF Mark
<1>8. /\ ram'.valid = [ram.valid EXCEPT ![ctrl.idx] = ctrl.bus_err]
      /\ ram'.tag = [ram.tag EXCEPT ![ctrl.idx] = ctrl.tag]
      /\ ram'.dirty = [ram.dirty EXCEPT ![ctrl.idx] = ctrl.bus_err]
      /\ ram' \in [valid : [Block -> BOOLEAN], dirty : [Block -> BOOLEAN],
                   tag : [Block -> Tags], data : [Block \X Offset -> Word]]
      /\ rd' \in [valid : BOOLEAN, dirty : BOOLEAN, tag : Tags, data : Word]
  <2>1. Access(a, mark, FALSE, rd.data) /\ CacheTypeOK(Word)
    BY DEF SyncNext, Typed, TypeOK
  <2> HIDE DEF a, mark
  <2>2. /\ ram'.valid = IF mark.set THEN [ram.valid EXCEPT ![a.i] = mark.vld] ELSE ram.valid
        /\ ram'.tag = IF mark.set THEN [ram.tag EXCEPT ![a.i] = a.t] ELSE ram.tag
        /\ ram'.dirty = IF mark.set \/ mark.drt THEN [ram.dirty EXCEPT ![a.i] = mark.drt] ELSE ram.dirty
        /\ ram' \in [valid : [Block -> BOOLEAN], dirty : [Block -> BOOLEAN],
                     tag : [Block -> Tags], data : [Block \X Offset -> Word]]
        /\ rd' \in [valid : BOOLEAN, dirty : BOOLEAN, tag : Tags, data : Word]
    BY <1>7, <2>1, Memories
  <2> QED
    BY <1>7, <2>2
<1>9. ram \in [valid : [Block -> BOOLEAN], dirty : [Block -> BOOLEAN],
                tag : [Block -> Tags], data : [Block \X Offset -> Word]] /\ ctrl.idx \in Block
  BY Lines DEF Typed, TypeOK, CacheTypeOK
<1> HIDE DEF a, mark, c
\* A block that stays is the one of before, and it is stuck.
<1>10. \A b \in Block : ram'.valid[b] =>
          /\ ram.valid[b] /\ ram'.tag[b] = ram.tag[b] /\ (ram.dirty[b] => ram'.dirty[b])
          /\ b = ctrl.idx => ram'.dirty[b] /\ \E o \in Offset : Held(b, o)' \in WriteErr
  <2> SUFFICES ASSUME NEW b \in Block, ram'.valid[b]
               PROVE  /\ ram.valid[b] /\ ram'.tag[b] = ram.tag[b] /\ (ram.dirty[b] => ram'.dirty[b])
                      /\ b = ctrl.idx => ram'.dirty[b] /\ \E o \in Offset : Held(b, o)' \in WriteErr
    OBVIOUS
  <2>1. CASE b = ctrl.idx
    <3>1. ctrl.bus_err /\ ram'.dirty[b] /\ ram'.tag[b] = ctrl.tag
      BY <1>8, <1>9, <2>1
    <3>2. /\ ram.valid[b] /\ ctrl.tag = ram.tag[b]
          /\ \E o \in Offset : Held(b, o) \in WriteErr
      BY <1>1, <2>1, <3>1 DEF Transferred
    <3>3. \A o \in Offset : Held(b, o)' = Held(b, o)
      BY <3>1, <3>2 DEF Held
    <3> QED
      BY <3>1, <3>2, <3>3
  <2>2. CASE b # ctrl.idx
    <3>1. ram'.valid[b] = ram.valid[b] /\ ram'.tag[b] = ram.tag[b] /\ ram'.dirty[b] = ram.dirty[b]
      BY <1>8, <1>9, <2>2
    <3> QED
      BY <2>2, <3>1
  <2> QED
    BY <2>1, <2>2
<1>11. /\ ctrl' \in CtrlType /\ ctrl'.state = next /\ ctrl'.idx = (ctrl.idx + 1) % NUM_BLOCKS
       /\ ctrl'.sync /\ ctrl'.pnd_req = (ctrl.pnd_req \/ stb) /\ ctrl'.pnd_syn = (ctrl.pnd_syn \/ s)
  <2>1. next \in State
    BY DEF State
  <2> HIDE DEF next
  <2> QED
    BY <1>2, <1>3, <1>4, <2>1 DEF CtrlType
<1>12. next \in {"S_IDLE", "S_SYNC_DELAY"}
  OBVIOUS
<1>13. Protocol' /\ Counted' /\ Queued' /\ Latched' /\ Transferred'
  <2>1. waiting = ctrl.pnd_req
    BY <1>1 DEF Protocol, Serving, Fetching, Storing, Upload, Download
  <2> HIDE DEF next
  <2> QED
    BY <1>5, <1>6, <1>11, <1>12, <2>1
       DEF Protocol, Serving, Counted, Queued, Open, Fetching, Storing, Upload, Download, Latched, Transferred
<1>14. Sound'
  <2> HIDE DEF next
  <2> QED
    BY <1>1, <1>10, <1>11, <1>12 DEF Sound, Held, Fetching, Download
<1>15. Flushed'
  <2>1. \A b \in old' : b \in Block /\ ram'.valid[b] /\ (s \/ b \in old)
    BY <1>5
  <2>2. ASSUME ~ctrl'.pnd_syn, NEW b \in old', b <= ctrl.idx PROVE Stuck(b)'
    <3>1. ~ctrl.pnd_syn /\ ~s
      BY <1>11, <2>2
    <3>2. b \in Block /\ ram'.valid[b] /\ b \in old
      BY <2>1, <2>2, <3>1
    <3>3. CASE b = ctrl.idx
      BY <1>10, <3>2, <3>3 DEF Stuck
    <3>4. CASE b # ctrl.idx
      <4>1. b < ctrl.idx
        BY <1>9, <2>2, <3>2, <3>4, CachedAssumption DEF Block
      <4>2. Stuck(b)
        BY <1>1, <3>1, <3>2, <4>1 DEF Flushed, Syncing
      <4> QED
        BY <1>10, <3>2, <4>2 DEF Stuck, Held
    <3> QED
      BY <3>3, <3>4
  <2>3. CASE LastBlock
    <3>1. ctrl'.state = "S_IDLE"
      BY <1>11, <2>3
    <3>2. \A b \in Block : b <= ctrl.idx
      BY <1>9, <2>3, CachedAssumption DEF LastBlock, Block
    <3> QED
      BY <2>1, <2>2, <3>1, <3>2 DEF Flushed, Syncing, Storing, Upload
  <2>4. CASE ~LastBlock
    <3>1. ctrl'.state = "S_SYNC_DELAY" /\ ctrl'.idx = ctrl.idx + 1
      BY <1>9, <1>11, <2>4, Counters DEF LastBlock
    <3>2. \A b \in Block : b < ctrl.idx + 1 => b <= ctrl.idx
      BY <1>9, CachedAssumption DEF Block
    <3>3. \A b \in old' : b < ctrl'.idx => b <= ctrl.idx
      BY <2>1, <3>1, <3>2
    <3> QED
      BY <2>1, <2>2, <3>1, <3>3 DEF Flushed, Syncing, Storing, Upload
  <2> QED
    BY <2>3, <2>4
<1> QED
  BY <1>8, <1>11, <1>13, <1>14, <1>15, TypedNext

\* The first or next word is requested.
LEMMA ReadStartKeeps ==
    ASSUME Core, NEW r, NEW stb, NEW s, NEW ans, Edge(r, stb, s, ans), ReadStart(Drives(r, stb), s)
    PROVE  Core'
<1> DEFINE c == Kept(r, stb, s)
           b == bus_req(Drives(r, stb))
<1> USE DEF Core
<1>1. ctrl.state = "S_READ_START"
  BY DEF ReadStart
<1>2. ctrl \in CtrlType /\ Drives(r, stb).a = r.a
  BY Ranges
<1>3. /\ c \in CtrlType /\ c.pnd_req = (ctrl.pnd_req \/ stb) /\ c.pnd_syn = (ctrl.pnd_syn \/ s)
      /\ c.sync = ctrl.sync /\ c.idx = ctrl.idx /\ c.tag = ctrl.tag /\ c.bus_err = ctrl.bus_err
      /\ c.pnd_bp = ctrl.pnd_bp /\ c.ofs_int = ctrl.ofs_int /\ c.ofs_ext = ctrl.ofs_ext
  BY Defaults
<1>4. waiting /\ ~stb /\ ~s /\ r = req /\ ~ctrl.pnd_syn /\ ctrl.pnd_bp = Bypasses(r)
      /\ ~Bypasses(r) /\ ~ctrl.sync /\ ~ctrl.pnd_req /\ ctrl.idx = req.a.i /\ ctrl.tag = req.a.t
  BY <1>1, Busy DEF Serving, Fetching, Download, Protocol
<1>5. ctrl' = [c EXCEPT !.state = "S_READ_WAIT"]
  BY DEF ReadStart, Kept
<1>6. /\ r.a \in Addr /\ req' = r /\ waiting'
      /\ old' = old \cap {x \in Block : ram'.valid[x]} /\ old \subseteq Block
  BY <1>1, <1>4, Unanswered, Around
<1>7. /\ ram' = ram
      /\ ram' \in [valid : [Block -> BOOLEAN], dirty : [Block -> BOOLEAN],
                   tag : [Block -> Tags], data : [Block \X Offset -> Word]]
      /\ rd' \in [valid : BOOLEAN, dirty : BOOLEAN, tag : Tags, data : Word]
  <2>1. Look(r.a)
    BY <1>2 DEF ReadStart
  <2> QED
    BY <1>6, <2>1, Looks
<1>8. b.stb /\ b.a = At(ctrl.ofs_int) /\ ~b.rw /\ ~b.amo
  <2>1. bus_ofs = ctrl.ofs_int
    BY <1>1 DEF Counted, bus_ofs
  <2>2. Line(bus_ofs) = At(ctrl.ofs_int)
    BY <2>1, Lines
  <2> QED
    BY <1>1, <2>2 DEF bus_req, bus_stb, Upload
<1>9. Len(q') = 1 /\ q'[1] = b
  <2>1. Len(q) = 0
    BY <1>1 DEF Queued, Open
  <2>2. /\ Bit(ans) <= Len(q) /\ Len(q') = Len(q) - Bit(ans) + Bit(b.stb)
        /\ \A k \in 1 .. Len(q') : q'[k] = IF k <= Len(q) - Bit(ans) THEN q[k + Bit(ans)] ELSE b
    BY Clocked
  <2>3. Bit(b.stb) = 1 /\ Bit(ans) = 0
    BY <1>8, <2>1, <2>2 DEF Bit
  <2>4. Len(q') = 1
    BY <2>1, <2>2, <2>3
  <2> QED
    BY <2>1, <2>2, <2>3, <2>4
<1> HIDE DEF c, b
<1>10. /\ ctrl' \in CtrlType /\ ctrl'.state = "S_READ_WAIT" /\ ctrl'.idx = ctrl.idx /\ ctrl'.tag = ctrl.tag
       /\ ~ctrl'.sync /\ ctrl'.bus_err = ctrl.bus_err /\ ~ctrl'.pnd_req /\ ~ctrl'.pnd_syn
       /\ ctrl'.pnd_bp = Bypasses(r) /\ ctrl'.ofs_int = ctrl.ofs_int /\ ctrl'.ofs_ext = ctrl.ofs_ext
  <2>1. "S_READ_WAIT" \in State
    BY DEF State, Download
  <2> QED
    BY <1>1, <1>3, <1>4, <1>5, <2>1 DEF CtrlType
<1>11. Protocol' /\ Counted' /\ Latched' /\ Transferred'
  <2>1. Protocol'
    BY <1>4, <1>6, <1>10 DEF Protocol, Serving, Fetching, Storing, Upload, Download
  <2>2. Counted' /\ Latched'
    BY <1>1, <1>7, <1>10 DEF Counted, Latched, Fetching, Storing, Upload, Download
  <2>3. Transferred'
    BY <1>1, <1>10 DEF Transferred, Done, At, Fetching, Storing, Upload, Download
  <2> QED
    BY <2>1, <2>2, <2>3
<1>12. Queued'
  <2>1. \A k \in 1 .. Len(q') : k = 1
    BY <1>9
  <2>2. ctrl.ofs_int + 1 - 1 = ctrl.ofs_int
    BY Lines
  <2>3. At(ctrl.ofs_int + 1 - 1)' = At(ctrl.ofs_int)
    BY <1>10, <2>2 DEF At
  <2>4. \A k \in 1 .. Len(q') : q'[k].a = At(ctrl.ofs_int + k - 1)' /\ ~q'[k].rw /\ ~q'[k].amo
    BY <1>8, <1>9, <2>1, <2>3
  <2>5. Len(q') = Open' /\ ~Storing'
    BY <1>9, <1>10 DEF Open, Storing, Upload
  <2>6. \A k \in 1 .. Len(q') : q'[k].rw \in BOOLEAN
    BY <1>8, <1>9, <2>1, Clocked DEF b, Strobe
  <2> QED
    BY <1>10, <2>4, <2>5, <2>6 DEF Queued, Storing, Upload
<1>13. Sound' /\ Flushed'
  BY <1>1, <1>4, <1>6, <1>7, <1>10 DEF Sound, Held, Fetching, Download, Flushed, Syncing, Storing, Upload, Stuck
<1> QED
  BY <1>7, <1>10, <1>11, <1>12, <1>13, TypedNext

\* The status of the blocks stays.
SameStatus == /\ ram'.valid = ram.valid /\ ram'.tag = ram.tag /\ ram'.dirty = ram.dirty
              /\ ram' \in [valid : [Block -> BOOLEAN], dirty : [Block -> BOOLEAN],
                           tag : [Block -> Tags], data : [Block \X Offset -> Word]]
              /\ rd' \in [valid : BOOLEAN, dirty : BOOLEAN, tag : Tags, data : Word]

\* What a cycle of a transfer leaves alone.
SameTask ==
    /\ ctrl' \in CtrlType
    /\ ctrl'.sync = ctrl.sync /\ ctrl'.pnd_bp = ctrl.pnd_bp /\ ctrl'.idx = ctrl.idx

\* A block is still fetched after a cycle that only moves words.
LEMMA FetchGoesOn ==
    ASSUME Core, NEW r, NEW stb, NEW s, NEW ans, Edge(r, stb, s, ans),
           ctrl.state \in Download, Fetching', SameStatus, SameTask,
           ctrl'.tag = ctrl.tag,
           ctrl'.pnd_req = (ctrl.pnd_req \/ stb), ctrl'.pnd_syn = (ctrl.pnd_syn \/ s),
           Counted', Queued', Transferred'
    PROVE  Core'
<1> USE DEF Core
<1>1. Fetching
  BY DEF Fetching
<1>2. waiting /\ ~stb /\ ~s /\ r = req /\ ~ctrl.pnd_syn /\ ctrl.pnd_bp = Bypasses(r)
      /\ ~Bypasses(r) /\ ~ctrl.sync /\ ~ctrl.pnd_req /\ ctrl.idx = req.a.i /\ ctrl.tag = req.a.t
  BY <1>1, Busy DEF Serving, Fetching, Download, Protocol
<1>3. /\ req' = r /\ waiting' /\ old' = old \cap {x \in Block : ram'.valid[x]} /\ old \subseteq Block
  BY <1>2, Unanswered, Around DEF Download
<1>4. /\ ~ctrl'.sync /\ ~ctrl'.pnd_req /\ ~ctrl'.pnd_syn /\ ctrl'.pnd_bp = Bypasses(r)
      /\ ctrl'.idx = r.a.i /\ ctrl'.tag = r.a.t
  BY <1>2 DEF SameTask
<1>5. ctrl'.state \in Download \cup {"S_READ_DONE"}
  BY DEF Fetching
<1>6. Protocol'
  BY <1>2, <1>3, <1>4, <1>5 DEF Protocol, Serving, Fetching, Storing, Upload, Download
<1>7. Latched'
  <2>1. ~(ram'.valid[ctrl'.idx] /\ ram'.dirty[ctrl'.idx])
    BY <1>1 DEF Latched, SameStatus, SameTask
  <2> QED
    BY <1>5, <2>1 DEF Latched, Fetching, Storing, Upload, Download
<1>8. Sound' /\ Flushed'
  BY <1>1, <1>2, <1>3, <1>4, <1>5
     DEF SameStatus, Sound, Held, Fetching, Download, Flushed, Syncing, Storing, Upload, Stuck
<1> QED
  BY <1>6, <1>7, <1>8, TypedNext DEF SameStatus, SameTask

\* The answer of the memory is about the oldest word of the transfer.
LEMMA Arrives ==
    ASSUME Core, NEW r, NEW stb, NEW s, NEW ans, Edge(r, stb, s, ans), ans,
           ctrl.state \in Download \cup Upload
    PROVE  /\ Len(q) >= 1
           /\ Answer(ans).err <=> At(ctrl.ofs_int) \in (IF Storing THEN WriteErr ELSE ReadErr)
<1> USE DEF Core
<1>1. q \in Seq(Strobe) /\ q # << >>
  BY DEF Edge, Typed
<1>2. Len(q) >= 1 /\ 1 \in 1 .. Len(q)
  BY <1>1
<1>3. ctrl.ofs_int + 1 - 1 = ctrl.ofs_int
  BY Lines
<1>4. q[1].a = At(ctrl.ofs_int) /\ q[1].rw = Storing /\ ~q[1].amo
  BY <1>2, <1>3 DEF Queued
<1>5. Answer(ans).err <=> Fails(q[1])
  BY Front DEF Answer
<1> QED
  BY <1>2, <1>4, <1>5 DEF Fails, Writes

\* A word that arrives while the data memory is written.
LEMMA Fills ==
    ASSUME Typed, NEW a \in Addr, NEW d \in Word, Access(a, Read, TRUE, d)
    PROVE  SameStatus /\ ram'.data = [ram.data EXCEPT ![<<a.i, a.o>>] = d]
<1>1. Read \in [set : BOOLEAN, vld : BOOLEAN, drt : BOOLEAN] /\ ~Read.set /\ ~Read.drt
  BY DEF Read
<1>2. CacheTypeOK(Word)
  BY DEF Typed, TypeOK
<1>3. /\ ram'.valid = IF Read.set THEN [ram.valid EXCEPT ![a.i] = Read.vld] ELSE ram.valid
      /\ ram'.tag = IF Read.set THEN [ram.tag EXCEPT ![a.i] = a.t] ELSE ram.tag
      /\ ram'.dirty = IF Read.set \/ Read.drt THEN [ram.dirty EXCEPT ![a.i] = Read.drt] ELSE ram.dirty
      /\ ram'.data = [ram.data EXCEPT ![<<a.i, a.o>>] = d]
      /\ ram' \in [valid : [Block -> BOOLEAN], dirty : [Block -> BOOLEAN],
                   tag : [Block -> Tags], data : [Block \X Offset -> Word]]
      /\ rd' \in [valid : BOOLEAN, dirty : BOOLEAN, tag : Tags, data : Word]
  BY <1>1, <1>2, Memories
<1> QED
  BY <1>1, <1>3 DEF SameStatus

\* After the next word the error flag of a download is right again.
LEMMA WordRead ==
    ASSUME Core, NEW r, NEW stb, NEW s, NEW ans, Edge(r, stb, s, ans), ans,
           ctrl.state \in Download, Fetching',
           ctrl'.tag = ctrl.tag, ctrl'.idx = ctrl.idx,
           ctrl'.bus_err = (ctrl.bus_err \/ Answer(ans).err),
           ctrl'.state # "S_READ_DONE" => ctrl'.ofs_int = ctrl.ofs_int + 1,
           ctrl'.state = "S_READ_DONE" => LastWord
    PROVE  Transferred'
<1> USE DEF Core
<1>1. Fetching /\ ~Storing /\ ctrl'.state \in Download \cup {"S_READ_DONE"} /\ ~Storing'
  BY DEF Fetching, Storing, Upload, Download
<1>2. Answer(ans).err <=> At(ctrl.ofs_int) \in ReadErr
  BY <1>1, Arrives
<1>3. IF ctrl.bus_err THEN \E o \in Offset : At(o) \in ReadErr
      ELSE \A o \in Offset : o < ctrl.ofs_int => At(o) \notin ReadErr
  BY <1>1 DEF Transferred, Done
<1>4. \A o \in Offset : At(o)' = At(o)
  BY DEF At
<1>5. ctrl.ofs_int \in Offset
  BY Lines
<1>6. \A o \in Offset : Done(o)' => o < ctrl.ofs_int \/ o = ctrl.ofs_int
  <2>1. CASE ctrl'.state = "S_READ_DONE"
    BY <1>5, <2>1, CachedAssumption DEF LastWord, Offset
  <2>2. CASE ctrl'.state # "S_READ_DONE"
    <3>1. \A o \in Offset : o < ctrl.ofs_int + 1 => o < ctrl.ofs_int \/ o = ctrl.ofs_int
      BY <1>5, CachedAssumption DEF Offset
    <3> QED
      BY <1>1, <2>2, <3>1 DEF Done, Download
  <2> QED
    BY <2>1, <2>2
<1>7. IF ctrl'.bus_err THEN \E o \in Offset : At(o)' \in ReadErr
      ELSE \A o \in Offset : Done(o)' => At(o)' \notin ReadErr
  <2>1. CASE ctrl'.bus_err
    BY <1>2, <1>3, <1>4, <1>5, <2>1
  <2>2. CASE ~ctrl'.bus_err
    <3>1. ~ctrl.bus_err /\ At(ctrl.ofs_int) \notin ReadErr
      BY <1>2, <2>2
    <3> QED
      BY <1>3, <1>4, <1>6, <2>2, <3>1
  <2> QED
    BY <2>1, <2>2
<1> QED
  BY <1>1, <1>7 DEF Transferred, Download

\* The queue of a transfer stays in the order of the words.
LEMMA Shifts ==
    ASSUME Core, NEW r, NEW stb, NEW s, NEW ans, Edge(r, stb, s, ans),
           ctrl.state \in Download \cup Upload,
           bus_stb => bus_ofs = ctrl.ofs_int + Len(q) /\ bus_ofs \in Offset
    PROVE  /\ Len(q) \in Nat /\ Bit(ans) <= Len(q) /\ Len(q') = Len(q) - Bit(ans) + Bit(bus_stb)
           /\ \A k \in 1 .. Len(q') : /\ q'[k].a = At(ctrl.ofs_int + Bit(ans) + k - 1)
                                      /\ q'[k].rw = Storing /\ ~q'[k].amo
<1> DEFINE b == bus_req(Drives(r, stb))
           i == ctrl.ofs_int
           g == Bit(ans)
<1> USE DEF Core
<1>1. b = [stb |-> bus_stb, a |-> Line(bus_ofs), rw |-> ctrl.state \in Upload,
           amo |-> FALSE, v |-> rd.data]
  BY DEF bus_req, Download, Upload
<1>2. /\ q \in Seq(Strobe) /\ g <= Len(q) /\ Len(q') = Len(q) - g + Bit(b.stb)
      /\ \A k \in 1 .. Len(q') : q'[k] = IF k <= Len(q) - g THEN q[k + g] ELSE b
  BY Clocked
<1>3. b.stb = bus_stb /\ (bus_stb => b.a = At(bus_ofs)) /\ b.rw = Storing /\ ~b.amo
  BY <1>1, Lines DEF Storing, Download, Upload
<1>4. \A k \in 1 .. Len(q) : /\ q[k].a = At(ctrl.ofs_int + k - 1)
                             /\ q[k].rw = Storing /\ ~q[k].amo
  BY DEF Queued
<1>5. i \in Nat /\ g \in {0, 1} /\ Len(q) \in Nat
  BY <1>2, Lines DEF Bit
<1>6. Bit(bus_stb) = IF bus_stb THEN 1 ELSE 0
  BY DEF Bit
<1> HIDE DEF b, g
<1>7. ASSUME NEW k \in 1 .. Len(q')
      PROVE  q'[k].a = At(i + g + k - 1) /\ q'[k].rw = Storing /\ ~q'[k].amo
  <2>1. q'[k] = IF k <= Len(q) - g THEN q[k + g] ELSE b
    BY <1>2
  <2>2. k \in Nat /\ k >= 1 /\ k <= Len(q) - g + Bit(bus_stb)
    BY <1>2, <1>3, <1>5, <1>6
  <2>3. CASE k <= Len(q) - g
    <3>1. k + g \in 1 .. Len(q)
      BY <1>5, <2>2, <2>3
    <3>2. i + (k + g) - 1 = i + g + k - 1
      BY <1>5, <2>2
    <3>3. q[k + g].a = At(i + (k + g) - 1) /\ q[k + g].rw = Storing /\ ~q[k + g].amo
      BY <1>4, <3>1
    <3>4. q'[k] = q[k + g]
      BY <2>1, <2>3
    <3> QED
      BY <3>2, <3>3, <3>4
  <2>4. CASE ~(k <= Len(q) - g)
    <3>1. bus_stb /\ k = Len(q) - g + 1
      BY <1>5, <1>6, <2>2, <2>4
    <3>2. bus_ofs = i + Len(q)
      BY <3>1
    <3>3. i + Len(q) = i + g + k - 1
      BY <1>5, <3>1
    <3>4. q'[k] = b
      BY <2>1, <2>4
    <3>5. q'[k].a = At(bus_ofs) /\ At(bus_ofs) = At(i + g + k - 1)
      BY <1>3, <3>1, <3>2, <3>3, <3>4
    <3> QED
      BY <1>3, <3>4, <3>5
  <2> QED
    BY <2>3, <2>4
<1> QED
  BY <1>2, <1>3, <1>5, <1>7 DEF g

\* A word arrives, and is the last one, or the next one is requested.
LEMMA ReadWaitKeeps ==
    ASSUME Core, NEW r, NEW stb, NEW s, NEW ans, Edge(r, stb, s, ans),
           ReadWait(Drives(r, stb), s, Answer(ans))
    PROVE  Core'
<1> DEFINE c == Kept(r, stb, s)
           next == IF BURSTS_EN THEN "S_READ_BURST"
                   ELSE IF LastWord THEN "S_READ_DONE" ELSE "S_READ_START"
<1> USE DEF Core
<1>1. ctrl.state = "S_READ_WAIT" /\ Fetching /\ ctrl.state \in Download
  BY DEF ReadWait, Fetching, Download
<1>2. /\ ctrl \in CtrlType /\ Answer(ans).ack = ans /\ Answer(ans).err \in BOOLEAN /\ ans \in BOOLEAN
      /\ Answer(ans).data \in Word
      /\ (ctrl.ofs_int + 1) % BLOCK_WORDS \in Offset
      /\ (ctrl.ofs_ext + 1) % (2 * BLOCK_WORDS) \in 0 .. 2 * BLOCK_WORDS - 1
  BY Ranges
<1>3. /\ c \in CtrlType /\ c.pnd_req = (ctrl.pnd_req \/ stb) /\ c.pnd_syn = (ctrl.pnd_syn \/ s)
      /\ c.sync = ctrl.sync /\ c.idx = ctrl.idx /\ c.tag = ctrl.tag /\ c.bus_err = ctrl.bus_err
      /\ c.pnd_bp = ctrl.pnd_bp /\ c.ofs_int = ctrl.ofs_int /\ c.ofs_ext = ctrl.ofs_ext
      /\ c.state = ctrl.state
  BY Defaults
<1>4. SameStatus
  <2>1. Access(Line(ctrl.ofs_int), Read, TRUE, Answer(ans).data)
    BY DEF ReadWait
  <2>2. Line(ctrl.ofs_int) \in Addr
    BY Lines
  <2> QED
    BY <1>2, <2>1, <2>2, Fills
<1>5. ~bus_stb /\ Len(q) = 1 /\ ctrl.ofs_ext = ctrl.ofs_int /\ (BURSTS_EN => ctrl.ofs_int = 0)
  BY <1>1 DEF bus_stb, Queued, Open, Counted
<1>6. /\ Len(q') = 1 - Bit(ans)
      /\ \A k \in 1 .. Len(q') : /\ q'[k].a = At(ctrl.ofs_int + Bit(ans) + k - 1)
                                 /\ q'[k].rw = Storing /\ ~q'[k].amo
  BY <1>1, <1>5, Shifts DEF Bit
<1>7. CASE ~ans
  <2>1. ctrl' = c
    BY <1>2, <1>7 DEF ReadWait, Kept
  <2>2. SameTask
    BY <1>3, <2>1 DEF SameTask
  <2>3. Fetching' /\ Counted' /\ Transferred'
    BY <1>1, <1>3, <2>1 DEF Fetching, Counted, Transferred, Done, At, Storing, Download, Upload
  <2>4. ctrl.ofs_int + 0 = ctrl.ofs_int /\ Bit(ans) = 0 /\ Len(q') = 1
    BY <1>6, <1>7, Lines DEF Bit
  <2>5. \A o : At(o)' = At(o)
    BY <1>3, <2>1 DEF At
  <2>6. ~Storing /\ ~Storing' /\ Open' = 1
    BY <1>1, <1>3, <2>1 DEF Storing, Upload, Open
  <2>7. ctrl'.state = "S_READ_WAIT" /\ ctrl'.ofs_int = ctrl.ofs_int
    BY <1>1, <1>3, <2>1
  <2>8. \A k \in 1 .. Len(q') : /\ q'[k].a = At(ctrl.ofs_int + k - 1)'
                                /\ q'[k].rw = Storing' /\ ~q'[k].amo
    <3>1. \A k \in 1 .. Len(q') : At(ctrl.ofs_int + k - 1)' = At(ctrl.ofs_int + k - 1)
      BY <1>3, <2>1, <2>7 DEF At
    <3>2. ctrl.ofs_int + Bit(ans) = ctrl.ofs_int
      BY <2>4
    <3>3. Storing' = Storing
      BY <1>1, <2>7 DEF Storing, Upload
    <3> QED
      BY <1>6, <3>1, <3>2, <3>3
  <2>9. Queued'
    BY <2>4, <2>6, <2>7, <2>8 DEF Queued
  <2> QED
    BY <1>1, <1>3, <1>4, <2>1, <2>2, <2>3, <2>9, FetchGoesOn
<1>8. CASE ans
  <2>1. ctrl' = [c EXCEPT !.ofs_int = (c.ofs_int + 1) % BLOCK_WORDS,
                          !.bus_err = c.bus_err \/ Answer(ans).err,
                          !.ofs_ext = (c.ofs_ext + 1) % (2 * BLOCK_WORDS), !.state = next]
    BY <1>2, <1>3, <1>8 DEF ReadWait, Kept, Taken, NextInt, NextExt
  <2>2. next \in State /\ next \in {"S_READ_BURST", "S_READ_DONE", "S_READ_START"}
    BY DEF State, Download
  <2> HIDE DEF c, next
  <2>3. /\ ctrl' \in CtrlType /\ ctrl'.state = next /\ ctrl'.tag = ctrl.tag /\ ctrl'.idx = ctrl.idx
        /\ ctrl'.sync = ctrl.sync /\ ctrl'.pnd_bp = ctrl.pnd_bp
        /\ ctrl'.pnd_req = (ctrl.pnd_req \/ stb) /\ ctrl'.pnd_syn = (ctrl.pnd_syn \/ s)
        /\ ctrl'.bus_err = (ctrl.bus_err \/ Answer(ans).err)
        /\ ctrl'.ofs_int = (ctrl.ofs_int + 1) % BLOCK_WORDS
        /\ ctrl'.ofs_ext = (ctrl.ofs_ext + 1) % (2 * BLOCK_WORDS)
    <3>1. (c.bus_err \/ Answer(ans).err) \in BOOLEAN
      BY <1>2, <1>3
    <3> QED
      BY <1>2, <1>3, <2>1, <2>2, <3>1 DEF CtrlType
  <2>4. /\ LastWord => ctrl.ofs_int = BLOCK_WORDS - 1
        /\ ~LastWord => (ctrl.ofs_int + 1) % BLOCK_WORDS = ctrl.ofs_int + 1
        /\ BURSTS_EN => ~LastWord
        /\ ctrl.ofs_int # 2 * BLOCK_WORDS - 1
    <3>1. ctrl.ofs_int \in Offset
      BY Lines
    <3>2. ~LastWord => (ctrl.ofs_int + 1) % BLOCK_WORDS = ctrl.ofs_int + 1
      BY <3>1, Counters DEF LastWord
    <3>3. ctrl.ofs_int # 2 * BLOCK_WORDS - 1 /\ 0 # BLOCK_WORDS - 1
      BY <3>1, CachedAssumption DEF Offset
    <3> QED
      BY <1>5, <3>2, <3>3 DEF LastWord
  <2>5. (ctrl.ofs_ext + 1) % (2 * BLOCK_WORDS) = ctrl.ofs_int + 1
    BY <1>5, <2>4, Lines, Counters
  <2>6. Fetching' /\ SameTask
    BY <2>2, <2>3 DEF Fetching, Download, SameTask
  <2>7. Transferred'
    <3>1. ctrl'.state # "S_READ_DONE" => ~LastWord
      BY <2>3, <2>4 DEF next
    <3>2. ctrl'.state = "S_READ_DONE" => LastWord
      BY <2>3 DEF next
    <3>3. ctrl'.state # "S_READ_DONE" => ctrl'.ofs_int = ctrl.ofs_int + 1
      BY <2>3, <2>4, <3>1
    <3> QED
      BY <1>1, <1>8, <2>3, <2>6, <3>2, <3>3, WordRead
  <2>8. Len(q') = 0
    BY <1>6, <1>8 DEF Bit
  <2>9. Counted' /\ Queued'
    <3>1. CASE BURSTS_EN
      <4>1. ctrl'.state = "S_READ_BURST"
        BY <2>3, <3>1 DEF next
      <4>2. ctrl.ofs_int = 0 /\ 0 + 1 = 1
        BY <1>5, <3>1
      <4>3. ctrl'.ofs_int = 1 /\ ctrl'.ofs_ext = 1
        BY <2>3, <2>4, <2>5, <3>1, <4>2
      <4>4. 0 < 1 /\ 1 <= 1 /\ 1 <= BLOCK_WORDS /\ 1 - 1 = 0
        BY CachedAssumption
      <4>5. Counted'
        BY <3>1, <4>1, <4>3, <4>4 DEF Counted
      <4>6. Open' = 0
        BY <4>1, <4>3, <4>4 DEF Open
      <4> QED
        BY <2>8, <4>1, <4>5, <4>6 DEF Queued
    <3>2. CASE ~BURSTS_EN /\ LastWord
      <4>1. ctrl'.state = "S_READ_DONE"
        BY <2>3, <3>2 DEF next
      <4> QED
        BY <2>8, <4>1 DEF Counted, Queued, Open, Download, Upload
    <3>3. CASE ~BURSTS_EN /\ ~LastWord
      <4>1. ctrl'.state = "S_READ_START" /\ ctrl'.ofs_int = ctrl'.ofs_ext
        BY <2>3, <2>4, <2>5, <3>3 DEF next
      <4> QED
        BY <2>8, <3>3, <4>1 DEF Counted, Queued, Open
    <3> QED
      BY <3>1, <3>2, <3>3
  <2> QED
    BY <1>1, <1>4, <2>3, <2>6, <2>7, <2>9, FetchGoesOn
<1> QED
  BY <1>2, <1>7, <1>8

\* The words of a burst are requested ahead of the answers.
LEMMA ReadBurstKeeps ==
    ASSUME Core, NEW r, NEW stb, NEW s, NEW ans, Edge(r, stb, s, ans),
           ReadBurst(Drives(r, stb), s, Answer(ans))
    PROVE  Core'
<1> DEFINE c == Kept(r, stb, s)
           e1 == IF bus_stb THEN (ctrl.ofs_ext + 1) % (2 * BLOCK_WORDS) ELSE ctrl.ofs_ext
           c1 == [c EXCEPT !.ofs_ext = e1]
           next == IF LastWord THEN "S_READ_DONE" ELSE "S_READ_BURST"
<1> USE DEF Core
<1>1. ctrl.state = "S_READ_BURST" /\ Fetching /\ ctrl.state \in Download /\ BURSTS_EN
  BY DEF ReadBurst, Fetching, Download, Counted
<1>2. /\ ctrl \in CtrlType /\ Answer(ans).ack = ans /\ Answer(ans).err \in BOOLEAN /\ ans \in BOOLEAN
      /\ Answer(ans).data \in Word
      /\ (ctrl.ofs_int + 1) % BLOCK_WORDS \in Offset
      /\ (ctrl.ofs_ext + 1) % (2 * BLOCK_WORDS) \in 0 .. 2 * BLOCK_WORDS - 1
  BY Ranges
<1>3. /\ c \in CtrlType /\ c.pnd_req = (ctrl.pnd_req \/ stb) /\ c.pnd_syn = (ctrl.pnd_syn \/ s)
      /\ c.sync = ctrl.sync /\ c.idx = ctrl.idx /\ c.tag = ctrl.tag /\ c.bus_err = ctrl.bus_err
      /\ c.pnd_bp = ctrl.pnd_bp /\ c.ofs_int = ctrl.ofs_int /\ c.ofs_ext = ctrl.ofs_ext
      /\ c.state = ctrl.state
  BY Defaults
<1>4. SameStatus
  <2>1. Access(Line(ctrl.ofs_int), Read, TRUE, Answer(ans).data)
    BY DEF ReadBurst
  <2>2. Line(ctrl.ofs_int) \in Addr
    BY Lines
  <2> QED
    BY <1>2, <2>1, <2>2, Fills
<1>5. /\ (bus_stb <=> ctrl.ofs_ext < BLOCK_WORDS) /\ bus_ofs = ctrl.ofs_ext
      /\ Len(q) = ctrl.ofs_ext - ctrl.ofs_int
      /\ 0 < ctrl.ofs_int /\ ctrl.ofs_int <= ctrl.ofs_ext /\ ctrl.ofs_ext <= BLOCK_WORDS
      /\ ctrl.ofs_int \in Offset /\ ctrl.ofs_int \in Nat /\ ctrl.ofs_ext \in Nat
  <2>1. /\ bus_stb <=> ctrl.ofs_ext < BLOCK_WORDS
        /\ bus_ofs = ctrl.ofs_ext /\ Len(q) = ctrl.ofs_ext - ctrl.ofs_int
        /\ 0 < ctrl.ofs_int /\ ctrl.ofs_int <= ctrl.ofs_ext /\ ctrl.ofs_ext <= BLOCK_WORDS
    BY <1>1 DEF bus_stb, bus_ofs, Queued, Open, Counted
  <2>2. ctrl.ofs_int \in Offset /\ ctrl.ofs_int \in Nat /\ ctrl.ofs_ext \in Nat
    BY Lines, CachedAssumption
  <2> QED
    BY <2>1, <2>2
<1>6. /\ Bit(ans) <= Len(q) /\ Len(q') = Len(q) - Bit(ans) + Bit(bus_stb)
      /\ \A k \in 1 .. Len(q') : /\ q'[k].a = At(ctrl.ofs_int + Bit(ans) + k - 1)
                                 /\ q'[k].rw = Storing /\ ~q'[k].amo
  <2>1. bus_stb => bus_ofs = ctrl.ofs_int + Len(q) /\ bus_ofs \in Offset
    BY <1>5, CachedAssumption DEF Offset
  <2> QED
    BY <1>1, <2>1, Shifts
<1>7. e1 = ctrl.ofs_ext + Bit(bus_stb) /\ e1 \in 0 .. 2 * BLOCK_WORDS - 1 /\ e1 <= BLOCK_WORDS
  <2>1. CASE bus_stb
    <3>1. ctrl.ofs_ext < BLOCK_WORDS /\ ctrl.ofs_ext # 2 * BLOCK_WORDS - 1
      BY <1>5, <2>1, CachedAssumption
    <3>2. (ctrl.ofs_ext + 1) % (2 * BLOCK_WORDS) = ctrl.ofs_ext + 1
      BY <3>1, Lines, Counters
    <3>3. ctrl.ofs_ext + 1 <= BLOCK_WORDS
      BY <1>5, <3>1, CachedAssumption
    <3> QED
      BY <1>2, <2>1, <3>2, <3>3 DEF Bit
  <2>2. CASE ~bus_stb
    <3>1. ctrl.ofs_ext + 0 = ctrl.ofs_ext
      BY <1>5
    <3> QED
      BY <1>5, <2>2, <3>1, Lines DEF Bit
  <2> QED
    BY <2>1, <2>2
<1>8. /\ c1 \in CtrlType /\ c1.pnd_req = (ctrl.pnd_req \/ stb) /\ c1.pnd_syn = (ctrl.pnd_syn \/ s)
      /\ c1.sync = ctrl.sync /\ c1.idx = ctrl.idx /\ c1.tag = ctrl.tag /\ c1.bus_err = ctrl.bus_err
      /\ c1.pnd_bp = ctrl.pnd_bp /\ c1.ofs_int = ctrl.ofs_int /\ c1.ofs_ext = e1
      /\ c1.state = ctrl.state
  <2> HIDE DEF c, e1
  <2> QED
    BY <1>3, <1>7 DEF CtrlType
<1>9. (IF bus_stb THEN NextExt(c) ELSE c) = c1
  <2>1. CASE bus_stb
    BY <1>3, <2>1 DEF NextExt
  <2>2. CASE ~bus_stb
    <3>1. e1 = c.ofs_ext
      BY <1>3, <2>2
    <3> HIDE DEF c, e1
    <3> QED
      BY <1>3, <2>2, <3>1 DEF CtrlType
  <2> QED
    BY <2>1, <2>2
<1>10. ctrl' = IF ~ans THEN c1
               ELSE [Taken(c1, Answer(ans)) EXCEPT !.state = IF LastWord THEN "S_READ_DONE" ELSE @]
  BY <1>2, <1>9 DEF ReadBurst, Kept
<1> HIDE DEF c1, e1
\* The queue holds the words between the answered and the requested ones.
<1>11. ASSUME ctrl'.state \in Download, ctrl'.tag = ctrl.tag, ctrl'.idx = ctrl.idx,
              ctrl'.ofs_int = ctrl.ofs_int + Bit(ans), Len(q') = Open'
       PROVE  Queued'
  <2>1. \A k \in 1 .. Len(q') : At(ctrl.ofs_int + k - 1)' = At(ctrl.ofs_int + Bit(ans) + k - 1)
    BY <1>11 DEF At
  <2>2. ~Storing /\ ~Storing' /\ ctrl'.state # "S_BYPASS"
    BY <1>1, <1>11 DEF Storing, Upload, Download
  <2>3. \A k \in 1 .. Len(q') : /\ q'[k].a = At(ctrl.ofs_int + k - 1)'
                                /\ q'[k].rw = Storing' /\ ~q'[k].amo
    <3>1. Storing' = Storing
      BY <2>2 DEF Storing
    <3> QED
      BY <1>6, <2>1, <3>1
  <2> QED
    BY <1>11, <2>2, <2>3 DEF Queued
<1>12. CASE ~ans
  <2>1. ctrl' = c1
    BY <1>10, <1>12
  <2>2. SameTask /\ Fetching' /\ Transferred'
    BY <1>1, <1>8, <2>1 DEF SameTask, Fetching, Transferred, Done, At, Storing, Download, Upload
  <2>3. /\ ctrl'.state = "S_READ_BURST" /\ ctrl'.ofs_int = ctrl.ofs_int /\ ctrl'.ofs_ext = e1
        /\ ctrl'.tag = ctrl.tag /\ ctrl'.idx = ctrl.idx
    BY <1>1, <1>8, <2>1
  <2>4. Bit(bus_stb) \in {0, 1} /\ Bit(ans) = 0
    BY <1>12 DEF Bit
  <2>5. /\ ctrl.ofs_int <= e1 /\ Len(q') = e1 - ctrl.ofs_int
        /\ ctrl.ofs_int = ctrl.ofs_int + Bit(ans)
    BY <1>5, <1>6, <1>7, <2>4
  <2>6. Counted'
    BY <1>1, <1>5, <1>7, <2>3, <2>5 DEF Counted
  <2>7. Queued'
    <3>1. Open' = e1 - ctrl.ofs_int
      BY <2>3 DEF Open
    <3> QED
      BY <1>11, <2>3, <2>5, <3>1 DEF Download
  <2> QED
    BY <1>1, <1>4, <1>8, <2>1, <2>2, <2>6, <2>7, FetchGoesOn
<1>13. CASE ans
  <2>1. ctrl' = [c1 EXCEPT !.ofs_int = (ctrl.ofs_int + 1) % BLOCK_WORDS,
                           !.bus_err = c1.bus_err \/ Answer(ans).err, !.state = next]
    BY <1>1, <1>8, <1>10, <1>13 DEF Taken, NextInt
  <2>2. next \in State /\ next \in {"S_READ_BURST", "S_READ_DONE"}
    BY DEF State, Download
  <2> HIDE DEF next
  <2>3. /\ ctrl' \in CtrlType /\ ctrl'.state = next /\ ctrl'.tag = ctrl.tag /\ ctrl'.idx = ctrl.idx
        /\ ctrl'.sync = ctrl.sync /\ ctrl'.pnd_bp = ctrl.pnd_bp
        /\ ctrl'.pnd_req = (ctrl.pnd_req \/ stb) /\ ctrl'.pnd_syn = (ctrl.pnd_syn \/ s)
        /\ ctrl'.bus_err = (ctrl.bus_err \/ Answer(ans).err)
        /\ ctrl'.ofs_int = (ctrl.ofs_int + 1) % BLOCK_WORDS
        /\ ctrl'.ofs_ext = e1
    <3>1. (c1.bus_err \/ Answer(ans).err) \in BOOLEAN
      BY <1>2, <1>8
    <3> QED
      BY <1>2, <1>8, <2>1, <2>2, <3>1 DEF CtrlType
  <2>4. ~LastWord => (ctrl.ofs_int + 1) % BLOCK_WORDS = ctrl.ofs_int + 1
    BY <1>5, Counters DEF LastWord
  <2>5. Bit(ans) = 1 /\ Bit(bus_stb) \in {0, 1} /\ Len(q) >= 1
    BY <1>5, <1>6, <1>13 DEF Bit
  <2>6. /\ ctrl.ofs_int + 1 <= e1 /\ Len(q') = e1 - (ctrl.ofs_int + 1) /\ 0 < ctrl.ofs_int + 1
    BY <1>5, <1>6, <1>7, <2>5
  <2>7. SameTask /\ Fetching' /\ Transferred'
    <3>1. SameTask /\ Fetching'
      BY <2>2, <2>3 DEF SameTask, Fetching, Download
    <3>2. ctrl'.state = "S_READ_DONE" => LastWord
      BY <2>3 DEF next
    <3>3. ctrl'.state # "S_READ_DONE" => ctrl'.ofs_int = ctrl.ofs_int + 1
      BY <2>3, <2>4 DEF next
    <3>4. Transferred'
      BY <1>1, <1>13, <2>3, <3>1, <3>2, <3>3, WordRead
    <3> QED
      BY <3>1, <3>4
  <2>8. Counted' /\ Queued'
    <3>1. CASE LastWord
      <4>1. ctrl'.state = "S_READ_DONE"
        BY <2>3, <3>1 DEF next
      <4>2. Len(q') = 0
        <5>1. ctrl.ofs_int + 1 = BLOCK_WORDS
          BY <3>1, CachedAssumption DEF LastWord
        <5> QED
          BY <1>5, <1>7, <2>6, <5>1, CachedAssumption
      <4> QED
        BY <4>1, <4>2 DEF Counted, Queued, Open, Download, Upload
    <3>2. CASE ~LastWord
      <4>1. /\ ctrl'.state = "S_READ_BURST" /\ ctrl'.ofs_int = ctrl.ofs_int + 1
            /\ ctrl'.ofs_ext = e1 /\ ctrl.ofs_int + 1 = ctrl.ofs_int + Bit(ans)
        BY <2>3, <2>4, <2>5, <3>2 DEF next
      <4>2. Counted'
        BY <1>1, <1>7, <2>6, <4>1 DEF Counted
      <4>3. Open' = e1 - (ctrl.ofs_int + 1)
        BY <4>1 DEF Open
      <4>4. ctrl'.ofs_int = ctrl.ofs_int + Bit(ans) /\ Len(q') = Open'
        BY <2>6, <4>1, <4>3
      <4>5. Queued'
        BY <1>11, <2>3, <4>1, <4>4 DEF Download
      <4> QED
        BY <4>2, <4>5
    <3> QED
      BY <3>1, <3>2
  <2> QED
    BY <1>1, <1>4, <2>3, <2>7, <2>8, FetchGoesOn
<1> QED
  BY <1>2, <1>12, <1>13

\* The block is valid now and the access is looked up again, or it has failed.
LEMMA ReadDoneKeeps ==
    ASSUME Core, NEW r, NEW stb, NEW s, NEW ans, Edge(r, stb, s, ans), ReadDone(Drives(r, stb), s)
    PROVE  Core'
<1> DEFINE c == Kept(r, stb, s)
           mark == Mark(Filled, FALSE)
           next == IF ctrl.bus_err THEN "S_IDLE" ELSE "S_CHECK"
<1> USE DEF Core
<1>1. ctrl.state = "S_READ_DONE" /\ Fetching
  BY DEF ReadDone, Fetching
<1>2. /\ ctrl \in CtrlType /\ Drives(r, stb).a = r.a /\ ctrl.bus_err \in BOOLEAN
      /\ r.a.i \in Block /\ r.a.t \in Tags
  BY Ranges DEF Typed, TypeOK, CacheTypeOK
<1>3. /\ c \in CtrlType /\ c.pnd_req = (ctrl.pnd_req \/ stb) /\ c.pnd_syn = (ctrl.pnd_syn \/ s)
      /\ c.sync = ctrl.sync /\ c.bus_err = ctrl.bus_err /\ c.pnd_bp = ctrl.pnd_bp
  BY Defaults
<1>4. waiting /\ ~stb /\ ~s /\ r = req /\ ~ctrl.pnd_syn /\ ctrl.pnd_bp = Bypasses(r)
      /\ ~Bypasses(r) /\ ~ctrl.sync /\ ~ctrl.pnd_req /\ ctrl.idx = r.a.i /\ ctrl.tag = r.a.t
  BY <1>1, Busy DEF Serving, Fetching, Download, Protocol
<1>5. ctrl' = [c EXCEPT !.state = next, !.hit = TRUE]
  BY DEF ReadDone, Kept
<1>6. /\ r.a \in Addr /\ r.v \in Word /\ req' = r /\ waiting' = ~ctrl.bus_err
      /\ old' = old \cap {x \in Block : ram'.valid[x]} /\ old \subseteq Block
  <2>1. host_rsp(Drives(r, stb), Answer(ans)).ack = ctrl.bus_err
    BY <1>1 DEF host_rsp
  <2> QED
    BY <1>2, <1>4, <2>1, Around, Signals
<1>7. Len(q') = 0
  BY <1>1, Quiet
<1>8. /\ ram'.valid = [ram.valid EXCEPT ![r.a.i] = ~ctrl.bus_err]
      /\ ram'.tag = [ram.tag EXCEPT ![r.a.i] = r.a.t]
      /\ ram'.dirty = [ram.dirty EXCEPT ![r.a.i] = FALSE]
      /\ ram' \in [valid : [Block -> BOOLEAN], dirty : [Block -> BOOLEAN],
                   tag : [Block -> Tags], data : [Block \X Offset -> Word]]
      /\ rd' \in [valid : BOOLEAN, dirty : BOOLEAN, tag : Tags, data : Word]
  <2>1. Access(r.a, mark, FALSE, Drives(r, stb).v) /\ CacheTypeOK(Word)
    BY <1>2 DEF ReadDone, Typed, TypeOK
  <2>2. /\ mark \in [set : BOOLEAN, vld : BOOLEAN, drt : BOOLEAN] /\ Drives(r, stb).v = r.v
        /\ mark.set /\ mark.vld = ~ctrl.bus_err /\ mark.drt = FALSE
    BY <1>2 DEF Mark, Filled, Drives
  <2> HIDE DEF mark
  <2>3. /\ ram'.valid = IF mark.set THEN [ram.valid EXCEPT ![r.a.i] = mark.vld] ELSE ram.valid
        /\ ram'.tag = IF mark.set THEN [ram.tag EXCEPT ![r.a.i] = r.a.t] ELSE ram.tag
        /\ ram'.dirty = IF mark.set \/ mark.drt THEN [ram.dirty EXCEPT ![r.a.i] = mark.drt] ELSE ram.dirty
        /\ ram' \in [valid : [Block -> BOOLEAN], dirty : [Block -> BOOLEAN],
                     tag : [Block -> Tags], data : [Block \X Offset -> Word]]
        /\ rd' \in [valid : BOOLEAN, dirty : BOOLEAN, tag : Tags, data : Word]
    BY <1>6, <2>1, <2>2, Memories
  <2> QED
    BY <2>2, <2>3
<1>9. ram \in [valid : [Block -> BOOLEAN], dirty : [Block -> BOOLEAN],
                tag : [Block -> Tags], data : [Block \X Offset -> Word]]
  BY DEF Typed, TypeOK, CacheTypeOK
<1> HIDE DEF mark, c
<1>10. /\ \A b \in Block : b # r.a.i => /\ ram'.valid[b] = ram.valid[b] /\ ram'.tag[b] = ram.tag[b]
                                        /\ ram'.dirty[b] = ram.dirty[b]
       /\ ram'.valid[r.a.i] = ~ctrl.bus_err /\ ram'.tag[r.a.i] = r.a.t
  BY <1>2, <1>8, <1>9
<1>11. /\ ctrl' \in CtrlType /\ ctrl'.state = next /\ ~ctrl'.sync /\ ctrl'.bus_err = ctrl.bus_err
       /\ ~ctrl'.pnd_req /\ ~ctrl'.pnd_syn /\ ctrl'.pnd_bp = Bypasses(r) /\ ctrl'.hit
  <2>1. next \in State
    BY DEF State
  <2> HIDE DEF next
  <2> QED
    BY <1>2, <1>3, <1>4, <1>5, <2>1 DEF CtrlType
<1>12. Sound'
  <2>1. ~ctrl.bus_err => r.a.t \notin Uncached /\ \A o \in Offset : At(o) \notin ReadErr
    BY <1>1, <1>4 DEF Transferred, Done, Bypasses
  <2>2. ~Fetching'
    BY <1>11 DEF Fetching, Download
  <2>3. ASSUME NEW b \in Block, ram'.valid[b]
        PROVE  ram'.tag[b] \notin Uncached /\ \A o \in Offset : Held(b, o)' \notin ReadErr
    <3>1. CASE b = r.a.i
      <4>1. ~ctrl.bus_err /\ ram'.tag[b] = r.a.t
        BY <1>10, <2>3, <3>1
      <4>2. \A o \in Offset : Held(b, o)' = At(o)
        BY <1>4, <3>1, <4>1 DEF Held, At
      <4> QED
        BY <2>1, <4>1, <4>2
    <3>2. CASE b # r.a.i
      BY <1>1, <1>4, <1>10, <2>3, <3>2 DEF Sound, Held
    <3> QED
      BY <3>1, <3>2
  <2> QED
    BY <2>2, <2>3 DEF Sound
<1>13. Flushed'
  <2>1. \A b \in old : ram.valid[b] /\ Stuck(b)
    BY <1>1, <1>4 DEF Flushed, Syncing, Storing, Upload
  <2>2. r.a.i \notin old
    BY <1>1, <1>4, <2>1 DEF Latched, Stuck
  <2>3. \A b \in old' : b \in old /\ b # r.a.i /\ b \in Block /\ ram'.valid[b]
    BY <1>6, <2>2
  <2>4. \A b \in old' : Stuck(b)'
    BY <1>10, <2>1, <2>3 DEF Stuck, Held
  <2>5. ~Syncing'
    BY <1>11 DEF Syncing, Storing, Upload
  <2> QED
    BY <2>3, <2>4, <2>5 DEF Flushed
<1>14. CASE ctrl.bus_err
  <2>1. ctrl'.state = "S_IDLE" /\ ~waiting'
    BY <1>6, <1>11, <1>14
  <2>2. waiting' \in BOOLEAN /\ ctrl'.pnd_req \in BOOLEAN
    BY <1>6, <1>11 DEF CtrlType
  <2>3. Protocol'
    BY <1>11, <2>1, <2>2 DEF Protocol, Serving, Fetching, Storing, Upload, Download
  <2>4. Latched' /\ Counted' /\ Queued' /\ Transferred'
    BY <1>7, <2>1 DEF Latched, Counted, Queued, Open, Transferred, Fetching, Storing, Upload, Download
  <2> QED
    BY <1>8, <1>11, <1>12, <1>13, <2>3, <2>4, TypedNext
<1>15. CASE ~ctrl.bus_err
  <2>1. ctrl'.state = "S_CHECK" /\ waiting' /\ ~ctrl'.bus_err
    BY <1>6, <1>11, <1>15
  <2>2. Protocol'
    BY <1>4, <1>6, <1>11, <2>1 DEF Protocol, Serving, Fetching, Storing, Upload, Download
  <2>3. Latched'
    BY <1>4, <1>6, <1>10, <1>11, <1>15, <2>1 DEF Latched, Fetching, Storing, Upload, Download
  <2>4. Counted' /\ Queued' /\ Transferred'
    BY <1>7, <2>1 DEF Counted, Queued, Open, Transferred, Fetching, Storing, Upload, Download
  <2> QED
    BY <1>8, <1>11, <1>12, <1>13, <2>2, <2>3, <2>4, TypedNext
<1> QED
  BY <1>2, <1>14, <1>15

\* A block is still stored after a cycle that only moves words.
LEMMA StoreGoesOn ==
    ASSUME Core, NEW r, NEW stb, NEW s, NEW ans, Edge(r, stb, s, ans),
           ctrl.state \in Upload, Storing', SameStatus, SameTask,
           ctrl'.pnd_req = (ctrl.pnd_req \/ stb), ctrl'.pnd_syn = (ctrl.pnd_syn \/ s),
           ctrl'.state = "S_WRITE_START" => rd'.tag = ram.tag[ctrl.idx],
           (ctrl'.state = "S_WRITE_START" /\ ctrl'.ofs_int = 0) \/ ctrl'.tag = ram.tag[ctrl.idx],
           Counted', Queued', Transferred'
    PROVE  Core'
<1> USE DEF Core
<1>1. Storing /\ ctrl.state # "S_WRITE_DONE"
  BY DEF Storing, Upload
<1>2. ctrl'.state \in Upload \cup {"S_WRITE_DONE"}
  BY DEF Storing
<1>3. /\ waiting' = (waiting \/ stb) /\ req' = r /\ waiting \in BOOLEAN /\ stb \in BOOLEAN /\ s \in BOOLEAN
      /\ old' = (IF s THEN Block ELSE old) \cap {x \in Block : ram'.valid[x]} /\ old \subseteq Block
  BY Unanswered, Around DEF Upload
<1>4. ctrl'.sync = ctrl.sync /\ ctrl'.pnd_bp = ctrl.pnd_bp /\ ctrl'.idx = ctrl.idx /\ ctrl' \in CtrlType
      /\ ctrl.pnd_syn \in BOOLEAN /\ ctrl.pnd_req \in BOOLEAN /\ ctrl.sync \in BOOLEAN
  BY Ranges DEF SameTask, CtrlType
<1>5. Latched' /\ Sound'
  <2>1. ram.valid[ctrl.idx] /\ ram.dirty[ctrl.idx]
        /\ (ctrl.sync \/ Bypasses(req) \/ ram.tag[ctrl.idx] # req.a.t)
    BY <1>1 DEF Latched
  <2>2. ~ctrl.sync => r = req
    BY <1>1, Busy DEF Serving
  <2>3. ctrl'.state \notin {"S_CHECK", "S_SYNC_CHECK"} /\ ~Fetching' /\ ~Fetching
    BY <1>1, <1>2 DEF Fetching, Storing, Upload, Download
  <2>4. ctrl'.sync \/ Bypasses(req)' \/ ram'.tag[ctrl'.idx] # req'.a.t
    BY <1>3, <1>4, <2>1, <2>2 DEF SameStatus, Bypasses
  <2>5. Latched'
    BY <1>4, <2>1, <2>3, <2>4 DEF Latched, SameStatus
  <2>6. Sound'
    BY <2>3 DEF Sound, Held, SameStatus
  <2> QED
    BY <2>5, <2>6
<1>6. CASE ctrl.sync
  <2>1. Syncing /\ ~Serving /\ Syncing' /\ ~Serving' /\ ctrl.state # "S_SYNC_START"
    BY <1>1, <1>2, <1>4, <1>6 DEF Syncing, Serving, Fetching, Storing, Upload, Download
  <2>2. waiting = ctrl.pnd_req
    BY <2>1 DEF Protocol
  <2>3. Protocol'
    BY <1>2, <1>3, <1>4, <1>6, <2>1, <2>2 DEF Protocol, Fetching, Upload, Download, Serving
  <2>4. Flushed'
    BY <1>3, <1>4, <2>1 DEF Flushed, Stuck, Held, SameStatus
  <2> QED
    BY <1>5, <2>3, <2>4, TypedNext DEF SameStatus, SameTask
<1>7. CASE ~ctrl.sync
  <2>1. Serving /\ ~Syncing /\ Serving' /\ ~Syncing'
    BY <1>1, <1>2, <1>4, <1>7 DEF Syncing, Serving, Fetching, Storing, Upload, Download
  <2>2. waiting /\ ~stb /\ ~s /\ r = req /\ ~ctrl.pnd_syn /\ ctrl.pnd_bp = Bypasses(r)
        /\ ~ctrl.pnd_req /\ ctrl.idx = req.a.i
    BY <1>1, <2>1, Busy DEF Protocol, Storing, Upload
  <2>3. Protocol'
    BY <1>2, <1>3, <1>4, <1>7, <2>1, <2>2 DEF Protocol, Fetching, Upload, Download
  <2>4. Flushed'
    BY <1>3, <1>4, <2>1, <2>2 DEF Flushed, Stuck, Held, SameStatus
  <2> QED
    BY <1>5, <2>3, <2>4, TypedNext DEF SameStatus, SameTask
<1> QED
  BY <1>4, <1>6, <1>7

\* After the next word the error flag of an upload is right again.
LEMMA WordWritten ==
    ASSUME Core, NEW r, NEW stb, NEW s, NEW ans, Edge(r, stb, s, ans), ans,
           ctrl.state \in Upload \ {"S_WRITE_START"}, Storing', SameStatus,
           ctrl'.idx = ctrl.idx,
           ctrl'.bus_err = (ctrl.bus_err \/ Answer(ans).err),
           ctrl'.state # "S_WRITE_DONE" => ctrl'.ofs_int = ctrl.ofs_int + 1,
           ctrl'.state = "S_WRITE_DONE" => LastWord
    PROVE  Transferred'
<1> USE DEF Core
<1>1. Storing /\ ctrl'.state \in Upload \cup {"S_WRITE_DONE"} /\ ~Fetching'
  BY DEF Fetching, Storing, Upload, Download
<1>2. Answer(ans).err <=> At(ctrl.ofs_int) \in WriteErr
  BY <1>1, Arrives
<1>3. IF ctrl.bus_err THEN \E o \in Offset : Held(ctrl.idx, o) \in WriteErr
      ELSE \A o \in Offset : o < ctrl.ofs_int => Held(ctrl.idx, o) \notin WriteErr
  BY <1>1 DEF Transferred, Done
<1>4. \A o \in Offset : Held(ctrl.idx, o)' = Held(ctrl.idx, o)
  BY DEF Held, SameStatus
<1>5. ctrl.ofs_int \in Offset
  BY Lines
<1>6. At(ctrl.ofs_int) = Held(ctrl.idx, ctrl.ofs_int)
  BY <1>1 DEF Latched, At, Held
<1>7. \A o \in Offset : Done(o)' => o < ctrl.ofs_int \/ o = ctrl.ofs_int
  <2>1. CASE ctrl'.state = "S_WRITE_DONE"
    BY <1>5, <2>1, CachedAssumption DEF LastWord, Offset
  <2>2. CASE ctrl'.state # "S_WRITE_DONE"
    <3>1. \A o \in Offset : o < ctrl.ofs_int + 1 => o < ctrl.ofs_int \/ o = ctrl.ofs_int
      BY <1>5, CachedAssumption DEF Offset
    <3> QED
      BY <1>1, <2>2, <3>1 DEF Done, Upload
  <2> QED
    BY <2>1, <2>2
<1>8. IF ctrl'.bus_err THEN \E o \in Offset : Held(ctrl.idx, o)' \in WriteErr
      ELSE \A o \in Offset : Done(o)' => Held(ctrl.idx, o)' \notin WriteErr
  <2>1. CASE ctrl'.bus_err
    BY <1>2, <1>3, <1>4, <1>5, <1>6, <2>1
  <2>2. CASE ~ctrl'.bus_err
    <3>1. ~ctrl.bus_err /\ At(ctrl.ofs_int) \notin WriteErr
      BY <1>2, <2>2
    <3> QED
      BY <1>3, <1>4, <1>6, <1>7, <2>2, <3>1
  <2> QED
    BY <2>1, <2>2
<1> QED
  BY <1>1, <1>8 DEF Transferred, Upload

\* A cycle of an upload reads the block at work.
LEMMA LooksAtBlock ==
    ASSUME Typed, NEW e \in 0 .. 2 * BLOCK_WORDS - 1, Look(Line(e))
    PROVE  SameStatus /\ ram' = ram /\ rd'.tag = ram.tag[ctrl.idx]
           /\ (e \in Offset => rd'.data = ram.data[<<ctrl.idx, e>>])
<1>1. Line(e) \in Addr /\ Line(e).i = ctrl.idx /\ (e \in Offset => Line(e) = At(e))
  BY Lines
<1>2. /\ ram' = ram /\ rd'.tag = ram.tag[Line(e).i] /\ rd'.data = ram.data[<<Line(e).i, Line(e).o>>]
      /\ ram' \in [valid : [Block -> BOOLEAN], dirty : [Block -> BOOLEAN],
                   tag : [Block -> Tags], data : [Block \X Offset -> Word]]
      /\ rd' \in [valid : BOOLEAN, dirty : BOOLEAN, tag : Tags, data : Word]
  BY <1>1, Looks
<1>3. e \in Offset => Line(e).o = e
  BY <1>1 DEF At
<1> QED
  BY <1>1, <1>2, <1>3 DEF SameStatus

\* The tag of the block becomes the address of the upload.
LEMMA WriteStartKeeps ==
    ASSUME Core, NEW r, NEW stb, NEW s, NEW ans, Edge(r, stb, s, ans), WriteStart(Drives(r, stb), s)
    PROVE  Core'
<1> DEFINE c == Kept(r, stb, s)
           tag == IF ctrl.ofs_int = 0 THEN rd.tag ELSE ctrl.tag
<1> USE DEF Core
<1>1. ctrl.state = "S_WRITE_START" /\ ctrl.state \in Upload /\ Storing
  BY DEF WriteStart, Upload, Storing
<1>2. ctrl \in CtrlType /\ rd.tag \in Tags
  BY Ranges
<1>3. /\ c \in CtrlType /\ c.pnd_req = (ctrl.pnd_req \/ stb) /\ c.pnd_syn = (ctrl.pnd_syn \/ s)
      /\ c.sync = ctrl.sync /\ c.idx = ctrl.idx /\ c.tag = ctrl.tag /\ c.bus_err = ctrl.bus_err
      /\ c.pnd_bp = ctrl.pnd_bp /\ c.ofs_int = ctrl.ofs_int /\ c.ofs_ext = ctrl.ofs_ext
  BY Defaults
<1>4. ctrl' = [c EXCEPT !.state = "S_WRITE_REQ", !.tag = tag]
  BY <1>3 DEF WriteStart, Kept
<1>5. tag = ram.tag[ctrl.idx] /\ tag \in Tags
  <2>1. rd.tag = ram.tag[ctrl.idx] /\ (ctrl.ofs_int # 0 => ctrl.tag = ram.tag[ctrl.idx])
    BY <1>1 DEF Latched
  <2> QED
    BY <1>2, <2>1, Lines
<1>6. SameStatus
  <2>1. ctrl.ofs_int \in 0 .. 2 * BLOCK_WORDS - 1
    BY Lines, CachedAssumption DEF Offset
  <2>2. Look(Line(ctrl.ofs_int))
    BY DEF WriteStart
  <2> QED
    BY <2>1, <2>2, LooksAtBlock
<1>7. Len(q') = 0
  BY <1>1, Quiet
<1> HIDE DEF c, tag
<1>8. /\ ctrl' \in CtrlType /\ ctrl'.state = "S_WRITE_REQ" /\ ctrl'.tag = ram.tag[ctrl.idx]
      /\ ctrl'.sync = ctrl.sync /\ ctrl'.idx = ctrl.idx /\ ctrl'.pnd_bp = ctrl.pnd_bp
      /\ ctrl'.bus_err = ctrl.bus_err /\ ctrl'.ofs_int = ctrl.ofs_int /\ ctrl'.ofs_ext = ctrl.ofs_ext
      /\ ctrl'.pnd_req = (ctrl.pnd_req \/ stb) /\ ctrl'.pnd_syn = (ctrl.pnd_syn \/ s)
  <2>1. "S_WRITE_REQ" \in State
    BY DEF State, Upload
  <2> QED
    BY <1>3, <1>4, <1>5, <2>1 DEF CtrlType
<1>9. SameTask /\ Storing' /\ Counted' /\ Queued'
  BY <1>1, <1>7, <1>8 DEF SameTask, Storing, Upload, Download, Counted, Queued, Open
<1>10. Transferred'
  BY <1>1, <1>6, <1>8 DEF Transferred, Done, Held, SameStatus, Fetching, Storing, Upload, Download
<1> QED
  BY <1>1, <1>6, <1>8, <1>9, <1>10, StoreGoesOn

\* A word is sent.
LEMMA WriteReqKeeps ==
    ASSUME Core, NEW r, NEW stb, NEW s, NEW ans, Edge(r, stb, s, ans), WriteReq(Drives(r, stb), s)
    PROVE  Core'
<1> DEFINE c == Kept(r, stb, s)
<1> USE DEF Core
<1>1. ctrl.state = "S_WRITE_REQ" /\ ctrl.state \in Upload /\ ctrl.state \in Download \cup Upload /\ Storing
  BY DEF WriteReq, Upload, Storing
<1>2. ctrl \in CtrlType
  BY Ranges
<1>3. /\ c \in CtrlType /\ c.pnd_req = (ctrl.pnd_req \/ stb) /\ c.pnd_syn = (ctrl.pnd_syn \/ s)
      /\ c.sync = ctrl.sync /\ c.idx = ctrl.idx /\ c.tag = ctrl.tag /\ c.bus_err = ctrl.bus_err
      /\ c.pnd_bp = ctrl.pnd_bp /\ c.ofs_int = ctrl.ofs_int /\ c.ofs_ext = ctrl.ofs_ext
  BY Defaults
<1>4. ctrl' = [c EXCEPT !.state = "S_WRITE_RSP"]
  BY DEF WriteReq, Kept
<1>5. bus_stb /\ bus_ofs = ctrl.ofs_int /\ Len(q) = 0 /\ ctrl.ofs_int \in Offset /\ ctrl.ofs_int \in Nat
  <2>1. bus_stb /\ bus_ofs = ctrl.ofs_int /\ Len(q) = 0
    BY <1>1 DEF bus_stb, bus_ofs, Counted, Queued, Open
  <2> QED
    BY <2>1, Lines
<1>6. SameStatus
  <2>1. ctrl.ofs_int \in 0 .. 2 * BLOCK_WORDS - 1
    BY Lines, CachedAssumption DEF Offset
  <2>2. Look(Line(ctrl.ofs_int))
    BY DEF WriteReq
  <2> QED
    BY <2>1, <2>2, LooksAtBlock
<1>7. /\ Len(q') = 1 /\ Bit(ans) = 0
      /\ \A k \in 1 .. Len(q') : /\ q'[k].a = At(ctrl.ofs_int + Bit(ans) + k - 1)
                                 /\ q'[k].rw = Storing /\ ~q'[k].amo
  <2>1. bus_stb => bus_ofs = ctrl.ofs_int + Len(q) /\ bus_ofs \in Offset
    BY <1>5
  <2>2. /\ Bit(ans) <= Len(q) /\ Len(q') = Len(q) - Bit(ans) + Bit(bus_stb)
        /\ \A k \in 1 .. Len(q') : /\ q'[k].a = At(ctrl.ofs_int + Bit(ans) + k - 1)
                                   /\ q'[k].rw = Storing /\ ~q'[k].amo
    BY <1>1, <2>1, Shifts
  <2> QED
    BY <1>5, <2>2 DEF Bit
<1> HIDE DEF c
<1>8. /\ ctrl' \in CtrlType /\ ctrl'.state = "S_WRITE_RSP" /\ ctrl'.tag = ctrl.tag
      /\ ctrl'.sync = ctrl.sync /\ ctrl'.idx = ctrl.idx /\ ctrl'.pnd_bp = ctrl.pnd_bp
      /\ ctrl'.bus_err = ctrl.bus_err /\ ctrl'.ofs_int = ctrl.ofs_int /\ ctrl'.ofs_ext = ctrl.ofs_ext
      /\ ctrl'.pnd_req = (ctrl.pnd_req \/ stb) /\ ctrl'.pnd_syn = (ctrl.pnd_syn \/ s)
  <2>1. "S_WRITE_RSP" \in State
    BY DEF State, Upload
  <2> QED
    BY <1>3, <1>4, <2>1 DEF CtrlType
<1>9. SameTask /\ Storing' /\ Counted'
  BY <1>1, <1>8 DEF SameTask, Storing, Upload, Download, Counted
<1>10. Queued'
  <2>1. \A k \in 1 .. Len(q') : At(ctrl.ofs_int + k - 1)' = At(ctrl.ofs_int + Bit(ans) + k - 1)
    <3>1. ctrl.ofs_int + Bit(ans) = ctrl.ofs_int
      BY <1>5, <1>7
    <3> QED
      BY <1>8, <3>1 DEF At
  <2>2. Storing' = Storing
    BY <1>1, <1>9
  <2>3. \A k \in 1 .. Len(q') : /\ q'[k].a = At(ctrl.ofs_int + k - 1)'
                                /\ q'[k].rw = Storing' /\ ~q'[k].amo
    BY <1>7, <2>1, <2>2
  <2> QED
    BY <1>7, <1>8, <2>3 DEF Queued, Open
<1>11. Transferred'
  BY <1>1, <1>6, <1>8 DEF Transferred, Done, Held, SameStatus, Fetching, Storing, Upload, Download
<1>12. ctrl'.tag = ram.tag[ctrl.idx]
  BY <1>1, <1>8 DEF Latched
<1> QED
  BY <1>1, <1>6, <1>8, <1>9, <1>10, <1>11, <1>12, StoreGoesOn

\* A word has been written, and is the last one, or the next one is sent.
LEMMA WriteRspKeeps ==
    ASSUME Core, NEW r, NEW stb, NEW s, NEW ans, Edge(r, stb, s, ans),
           WriteRsp(Drives(r, stb), s, Answer(ans))
    PROVE  Core'
<1> DEFINE c == Kept(r, stb, s)
           next == IF BURSTS_EN THEN "S_WRITE_WAIT"
                   ELSE IF LastWord THEN "S_WRITE_DONE" ELSE "S_WRITE_START"
<1> USE DEF Core
<1>1. ctrl.state = "S_WRITE_RSP" /\ Storing /\ ctrl.state \in Upload
      /\ ctrl.state \in Upload \ {"S_WRITE_START"} /\ ctrl.state \in Download \cup Upload
  BY DEF WriteRsp, Storing, Upload
<1>2. /\ ctrl \in CtrlType /\ Answer(ans).ack = ans /\ Answer(ans).err \in BOOLEAN /\ ans \in BOOLEAN
      /\ (ctrl.ofs_int + 1) % BLOCK_WORDS \in Offset
      /\ (ctrl.ofs_ext + 1) % (2 * BLOCK_WORDS) \in 0 .. 2 * BLOCK_WORDS - 1
  BY Ranges
<1>3. /\ c \in CtrlType /\ c.pnd_req = (ctrl.pnd_req \/ stb) /\ c.pnd_syn = (ctrl.pnd_syn \/ s)
      /\ c.sync = ctrl.sync /\ c.idx = ctrl.idx /\ c.tag = ctrl.tag /\ c.bus_err = ctrl.bus_err
      /\ c.pnd_bp = ctrl.pnd_bp /\ c.ofs_int = ctrl.ofs_int /\ c.ofs_ext = ctrl.ofs_ext
      /\ c.state = ctrl.state
  BY Defaults
<1>4. SameStatus /\ rd'.tag = ram.tag[ctrl.idx] /\ ctrl.tag = ram.tag[ctrl.idx]
  <2>1. ctrl.ofs_int \in 0 .. 2 * BLOCK_WORDS - 1
    BY Lines, CachedAssumption DEF Offset
  <2>2. Look(Line(ctrl.ofs_int))
    BY DEF WriteRsp
  <2>3. ctrl.tag = ram.tag[ctrl.idx]
    BY <1>1 DEF Latched
  <2> QED
    BY <2>1, <2>2, <2>3, LooksAtBlock
<1>5. ~bus_stb /\ Len(q) = 1 /\ ctrl.ofs_ext = ctrl.ofs_int /\ (BURSTS_EN => ctrl.ofs_int = 0)
  BY <1>1 DEF bus_stb, Queued, Open, Counted
<1>6. /\ Len(q') = 1 - Bit(ans)
      /\ \A k \in 1 .. Len(q') : /\ q'[k].a = At(ctrl.ofs_int + Bit(ans) + k - 1)
                                 /\ q'[k].rw = Storing /\ ~q'[k].amo
  <2>1. bus_stb => bus_ofs = ctrl.ofs_int + Len(q) /\ bus_ofs \in Offset
    BY <1>5
  <2>2. /\ Len(q') = Len(q) - Bit(ans) + Bit(bus_stb)
        /\ \A k \in 1 .. Len(q') : /\ q'[k].a = At(ctrl.ofs_int + Bit(ans) + k - 1)
                                   /\ q'[k].rw = Storing /\ ~q'[k].amo
    BY <1>1, <2>1, Shifts
  <2>3. Bit(bus_stb) = 0 /\ Bit(ans) \in {0, 1}
    BY <1>5 DEF Bit
  <2> QED
    BY <1>5, <2>2, <2>3
<1>7. CASE ~ans
  <2>1. ctrl' = c
    BY <1>2, <1>7 DEF WriteRsp, Kept
  <2>2. SameTask /\ ctrl'.tag = ram.tag[ctrl.idx]
    BY <1>3, <1>4, <2>1 DEF SameTask
  <2>3. Storing' /\ Counted'
    BY <1>1, <1>3, <2>1 DEF Storing, Counted, Upload
  <2>4. Transferred'
    BY <1>1, <1>3, <1>4, <2>1 DEF Transferred, Done, Held, SameStatus, Fetching, Storing, Upload, Download
  <2>5. ctrl'.state = "S_WRITE_RSP" /\ ctrl'.ofs_int = ctrl.ofs_int
    BY <1>1, <1>3, <2>1
  <2>6. Bit(ans) = 0 /\ Len(q') = 1 /\ ctrl.ofs_int + Bit(ans) = ctrl.ofs_int
    BY <1>6, <1>7, Lines DEF Bit
  <2>7. \A k \in 1 .. Len(q') : At(ctrl.ofs_int + k - 1)' = At(ctrl.ofs_int + Bit(ans) + k - 1)
    BY <1>3, <2>1, <2>5, <2>6 DEF At
  <2>8. Storing' = Storing
    BY <1>1, <2>3
  <2>9. \A k \in 1 .. Len(q') : /\ q'[k].a = At(ctrl.ofs_int + k - 1)'
                                /\ q'[k].rw = Storing' /\ ~q'[k].amo
    BY <1>6, <2>7, <2>8
  <2>10. Queued'
    BY <2>5, <2>6, <2>9 DEF Queued, Open
  <2> QED
    BY <1>1, <1>3, <1>4, <2>1, <2>2, <2>3, <2>4, <2>5, <2>10, StoreGoesOn
<1>8. CASE ans
  <2>1. ctrl' = [c EXCEPT !.ofs_int = (c.ofs_int + 1) % BLOCK_WORDS,
                          !.bus_err = c.bus_err \/ Answer(ans).err,
                          !.ofs_ext = (c.ofs_ext + 1) % (2 * BLOCK_WORDS), !.state = next]
    BY <1>2, <1>3, <1>8 DEF WriteRsp, Kept, Taken, NextInt, NextExt
  <2>2. next \in State /\ next \in {"S_WRITE_WAIT", "S_WRITE_DONE", "S_WRITE_START"}
    BY DEF State, Upload
  <2> HIDE DEF c, next
  <2>3. /\ ctrl' \in CtrlType /\ ctrl'.state = next /\ ctrl'.tag = ctrl.tag /\ ctrl'.idx = ctrl.idx
        /\ ctrl'.sync = ctrl.sync /\ ctrl'.pnd_bp = ctrl.pnd_bp
        /\ ctrl'.pnd_req = (ctrl.pnd_req \/ stb) /\ ctrl'.pnd_syn = (ctrl.pnd_syn \/ s)
        /\ ctrl'.bus_err = (ctrl.bus_err \/ Answer(ans).err)
        /\ ctrl'.ofs_int = (ctrl.ofs_int + 1) % BLOCK_WORDS
        /\ ctrl'.ofs_ext = (ctrl.ofs_ext + 1) % (2 * BLOCK_WORDS)
    <3>1. (c.bus_err \/ Answer(ans).err) \in BOOLEAN
      BY <1>2, <1>3
    <3> QED
      BY <1>2, <1>3, <2>1, <2>2, <3>1 DEF CtrlType
  <2>4. /\ LastWord => ctrl.ofs_int = BLOCK_WORDS - 1
        /\ ~LastWord => (ctrl.ofs_int + 1) % BLOCK_WORDS = ctrl.ofs_int + 1
        /\ BURSTS_EN => ~LastWord
        /\ ctrl.ofs_int # 2 * BLOCK_WORDS - 1
    <3>1. ctrl.ofs_int \in Offset
      BY Lines
    <3>2. ~LastWord => (ctrl.ofs_int + 1) % BLOCK_WORDS = ctrl.ofs_int + 1
      BY <3>1, Counters DEF LastWord
    <3>3. ctrl.ofs_int # 2 * BLOCK_WORDS - 1 /\ 0 # BLOCK_WORDS - 1
      BY <3>1, CachedAssumption DEF Offset
    <3> QED
      BY <1>5, <3>2, <3>3 DEF LastWord
  <2>5. (ctrl.ofs_ext + 1) % (2 * BLOCK_WORDS) = ctrl.ofs_int + 1
    BY <1>5, <2>4, Lines, Counters
  <2>6. Storing' /\ SameTask /\ ctrl'.tag = ram.tag[ctrl.idx]
    BY <1>4, <2>2, <2>3 DEF Storing, Upload, SameTask
  <2>7. Transferred'
    <3>1. ctrl'.state # "S_WRITE_DONE" => ~LastWord
      BY <2>3, <2>4 DEF next
    <3>2. ctrl'.state = "S_WRITE_DONE" => LastWord
      BY <2>3 DEF next
    <3>3. ctrl'.state # "S_WRITE_DONE" => ctrl'.ofs_int = ctrl.ofs_int + 1
      BY <2>3, <2>4, <3>1
    <3> QED
      BY <1>1, <1>4, <1>8, <2>3, <2>6, <3>2, <3>3, WordWritten
  <2>8. Len(q') = 0
    BY <1>6, <1>8 DEF Bit
  <2>9. Counted' /\ Queued'
    <3>1. CASE BURSTS_EN
      <4>1. ctrl'.state = "S_WRITE_WAIT"
        BY <2>3, <3>1 DEF next
      <4>2. ctrl.ofs_int = 0 /\ 0 + 1 = 1
        BY <1>5, <3>1
      <4>3. ctrl'.ofs_int = 1 /\ ctrl'.ofs_ext = 1
        BY <2>3, <2>4, <2>5, <3>1, <4>2
      <4> QED
        BY <2>8, <3>1, <4>1, <4>3 DEF Counted, Queued, Open
    <3>2. CASE ~BURSTS_EN /\ LastWord
      <4>1. ctrl'.state = "S_WRITE_DONE"
        BY <2>3, <3>2 DEF next
      <4> QED
        BY <2>8, <4>1 DEF Counted, Queued, Open, Download, Upload
    <3>3. CASE ~BURSTS_EN /\ ~LastWord
      <4>1. ctrl'.state = "S_WRITE_START" /\ ctrl'.ofs_int = ctrl'.ofs_ext
        BY <2>3, <2>4, <2>5, <3>3 DEF next
      <4> QED
        BY <2>8, <3>3, <4>1 DEF Counted, Queued, Open
    <3> QED
      BY <3>1, <3>2, <3>3
  <2> QED
    BY <1>1, <1>4, <2>3, <2>6, <2>7, <2>9, StoreGoesOn
<1> QED
  BY <1>2, <1>7, <1>8

\* The first word of the rest is read before the burst begins.
LEMMA WriteWaitKeeps ==
    ASSUME Core, NEW r, NEW stb, NEW s, NEW ans, Edge(r, stb, s, ans), WriteWait(Drives(r, stb), s)
    PROVE  Core'
<1> DEFINE c == Kept(r, stb, s)
<1> USE DEF Core
<1>1. ctrl.state = "S_WRITE_WAIT" /\ ctrl.state \in Upload /\ Storing /\ BURSTS_EN
      /\ ctrl.ofs_int = 1 /\ ctrl.ofs_ext = 1
  BY DEF WriteWait, Upload, Storing, Counted
<1>2. ctrl \in CtrlType
  BY Ranges
<1>3. /\ c \in CtrlType /\ c.pnd_req = (ctrl.pnd_req \/ stb) /\ c.pnd_syn = (ctrl.pnd_syn \/ s)
      /\ c.sync = ctrl.sync /\ c.idx = ctrl.idx /\ c.tag = ctrl.tag /\ c.bus_err = ctrl.bus_err
      /\ c.pnd_bp = ctrl.pnd_bp /\ c.ofs_int = 1 /\ c.ofs_ext = 1 /\ c.ofs_buf = 1
  BY <1>1, Defaults
<1>4. (1 + 1) % (2 * BLOCK_WORDS) = 1 + 1 /\ 1 + 1 \in 0 .. 2 * BLOCK_WORDS - 1
  <2>1. 1 \in 0 .. 2 * BLOCK_WORDS - 1 /\ 1 # 2 * BLOCK_WORDS - 1 /\ 1 + 1 \in 0 .. 2 * BLOCK_WORDS - 1
    BY CachedAssumption
  <2> QED
    BY <2>1, Counters
<1>5. ctrl' = [c EXCEPT !.ofs_ext = 1 + 1, !.state = "S_WRITE_BURST"]
  BY <1>3, <1>4 DEF WriteWait, Kept, NextExt
<1>6. SameStatus /\ ctrl.tag = ram.tag[ctrl.idx]
  <2>1. Look(Line(ctrl.ofs_ext))
    BY DEF WriteWait
  <2>2. ctrl.tag = ram.tag[ctrl.idx]
    BY <1>1 DEF Latched
  <2> QED
    BY <2>1, <2>2, Lines, LooksAtBlock
<1>7. Len(q') = 0
  BY <1>1, Quiet
<1> HIDE DEF c
<1>8. /\ ctrl' \in CtrlType /\ ctrl'.state = "S_WRITE_BURST" /\ ctrl'.tag = ctrl.tag
      /\ ctrl'.sync = ctrl.sync /\ ctrl'.idx = ctrl.idx /\ ctrl'.pnd_bp = ctrl.pnd_bp
      /\ ctrl'.bus_err = ctrl.bus_err /\ ctrl'.ofs_int = 1 /\ ctrl'.ofs_ext = 1 + 1 /\ ctrl'.ofs_buf = 1
      /\ ctrl'.pnd_req = (ctrl.pnd_req \/ stb) /\ ctrl'.pnd_syn = (ctrl.pnd_syn \/ s)
  <2>1. "S_WRITE_BURST" \in State
    BY DEF State, Upload
  <2> QED
    BY <1>3, <1>4, <1>5, <2>1 DEF CtrlType
<1>9. SameTask /\ Storing'
  BY <1>8 DEF SameTask, Storing, Upload
<1>10. Counted'
  <2>1. 0 < 1 /\ 1 <= 1 /\ 1 <= BLOCK_WORDS
    BY CachedAssumption
  <2> QED
    BY <1>1, <1>8, <2>1 DEF Counted
<1>11. Queued'
  <2>1. 1 < BLOCK_WORDS /\ 1 - 1 = 0
    BY CachedAssumption
  <2>2. Open' = 0
    BY <1>8, <2>1 DEF Open
  <2> QED
    BY <1>7, <1>8, <2>2 DEF Queued
<1>12. Transferred'
  <2>1. \A o : Held(ctrl.idx, o)' = Held(ctrl.idx, o)
    BY <1>6, <1>8 DEF Held, SameStatus
  <2>2. \A o : Done(o)' <=> Done(o)
    BY <1>1, <1>8 DEF Done
  <2> QED
    BY <1>1, <1>8, <2>1, <2>2 DEF Transferred, Fetching, Storing, Upload, Download
<1> QED
  BY <1>1, <1>6, <1>8, <1>9, <1>10, <1>11, <1>12, StoreGoesOn

\* The words of a burst are sent ahead of the answers.
LEMMA WriteBurstKeeps ==
    ASSUME Core, NEW r, NEW stb, NEW s, NEW ans, Edge(r, stb, s, ans),
           WriteBurst(Drives(r, stb), s, Answer(ans))
    PROVE  Core'
<1> DEFINE c == Kept(r, stb, s)
           e1 == IF bus_stb THEN (ctrl.ofs_ext + 1) % (2 * BLOCK_WORDS) ELSE ctrl.ofs_ext
           c1 == [c EXCEPT !.ofs_ext = e1]
           next == IF LastWord THEN "S_WRITE_DONE" ELSE "S_WRITE_BURST"
           sent == IF ctrl.ofs_buf < BLOCK_WORDS THEN ctrl.ofs_buf ELSE BLOCK_WORDS
           sent1 == IF ctrl.ofs_ext < BLOCK_WORDS THEN ctrl.ofs_ext ELSE BLOCK_WORDS
<1> USE DEF Core
<1>1. ctrl.state = "S_WRITE_BURST" /\ Storing /\ ctrl.state \in Upload /\ BURSTS_EN
      /\ ctrl.state \in Upload \ {"S_WRITE_START"} /\ ctrl.state \in Download \cup Upload
  BY DEF WriteBurst, Storing, Upload, Counted
<1>2. /\ ctrl \in CtrlType /\ Answer(ans).ack = ans /\ Answer(ans).err \in BOOLEAN /\ ans \in BOOLEAN
      /\ (ctrl.ofs_int + 1) % BLOCK_WORDS \in Offset
      /\ (ctrl.ofs_ext + 1) % (2 * BLOCK_WORDS) \in 0 .. 2 * BLOCK_WORDS - 1
  BY Ranges
<1>3. /\ c \in CtrlType /\ c.pnd_req = (ctrl.pnd_req \/ stb) /\ c.pnd_syn = (ctrl.pnd_syn \/ s)
      /\ c.sync = ctrl.sync /\ c.idx = ctrl.idx /\ c.tag = ctrl.tag /\ c.bus_err = ctrl.bus_err
      /\ c.pnd_bp = ctrl.pnd_bp /\ c.ofs_int = ctrl.ofs_int /\ c.ofs_ext = ctrl.ofs_ext
      /\ c.ofs_buf = ctrl.ofs_ext /\ c.state = ctrl.state
  BY Defaults
<1>4. SameStatus /\ ctrl.tag = ram.tag[ctrl.idx]
  <2>1. Look(Line(ctrl.ofs_ext))
    BY DEF WriteBurst
  <2>2. ctrl.tag = ram.tag[ctrl.idx]
    BY <1>1 DEF Latched
  <2> QED
    BY <2>1, <2>2, Lines, LooksAtBlock
<1>5. /\ (bus_stb <=> ctrl.ofs_buf < BLOCK_WORDS) /\ bus_ofs = ctrl.ofs_buf
      /\ Len(q) = sent - ctrl.ofs_int /\ 0 < ctrl.ofs_int /\ ctrl.ofs_int <= ctrl.ofs_buf
      /\ \/ ctrl.ofs_buf <= BLOCK_WORDS /\ ctrl.ofs_ext = ctrl.ofs_buf + 1
         \/ ctrl.ofs_buf = BLOCK_WORDS + 1 /\ ctrl.ofs_ext = ctrl.ofs_buf
  BY <1>1 DEF bus_stb, bus_ofs, Queued, Open, Counted
<1>6. /\ ctrl.ofs_int \in Offset /\ ctrl.ofs_int \in Nat /\ ctrl.ofs_ext \in Nat /\ ctrl.ofs_buf \in Nat
      /\ BLOCK_WORDS \in Nat /\ BLOCK_WORDS >= 2 /\ ctrl.ofs_int < BLOCK_WORDS
      /\ ctrl.ofs_int <= sent /\ sent \in Nat
  BY <1>5, Lines, CachedAssumption DEF Offset
<1>7. /\ Bit(ans) <= Len(q) /\ Len(q') = Len(q) - Bit(ans) + Bit(bus_stb)
      /\ \A k \in 1 .. Len(q') : /\ q'[k].a = At(ctrl.ofs_int + Bit(ans) + k - 1)
                                 /\ q'[k].rw = Storing /\ ~q'[k].amo
  <2>1. bus_stb => bus_ofs = ctrl.ofs_int + Len(q) /\ bus_ofs \in Offset
    BY <1>5, <1>6 DEF Offset
  <2> QED
    BY <1>1, <2>1, Shifts
\* One strobe ahead: what was read is sent now, what is read is sent next.
<1>8. /\ e1 \in 0 .. 2 * BLOCK_WORDS - 1 /\ ctrl.ofs_buf <= ctrl.ofs_ext /\ sent1 = sent + Bit(bus_stb)
      /\ \/ ctrl.ofs_ext <= BLOCK_WORDS /\ e1 = ctrl.ofs_ext + 1
         \/ ctrl.ofs_ext = BLOCK_WORDS + 1 /\ e1 = ctrl.ofs_ext
  <2>1. CASE bus_stb
    <3>1. ctrl.ofs_buf < BLOCK_WORDS /\ ctrl.ofs_ext = ctrl.ofs_buf + 1
      BY <1>5, <1>6, <2>1
    <3>2. ctrl.ofs_ext # 2 * BLOCK_WORDS - 1 /\ ctrl.ofs_ext <= BLOCK_WORDS
      BY <1>6, <3>1
    <3>3. (ctrl.ofs_ext + 1) % (2 * BLOCK_WORDS) = ctrl.ofs_ext + 1
      BY <3>2, Lines, Counters
    <3>4. e1 = ctrl.ofs_ext + 1 /\ e1 \in 0 .. 2 * BLOCK_WORDS - 1
      BY <1>2, <2>1, <3>3
    <3>5. sent1 = sent + 1
      BY <1>6, <3>1
    <3> QED
      BY <1>6, <2>1, <3>1, <3>2, <3>4, <3>5 DEF Bit
  <2>2. CASE ~bus_stb
    <3>1. ctrl.ofs_buf \in {BLOCK_WORDS, BLOCK_WORDS + 1} /\ ctrl.ofs_ext = BLOCK_WORDS + 1
      BY <1>5, <1>6, <2>2
    <3>2. sent = BLOCK_WORDS /\ sent1 = BLOCK_WORDS /\ ctrl.ofs_buf <= ctrl.ofs_ext
      BY <1>6, <3>1
    <3>3. e1 = ctrl.ofs_ext /\ e1 \in 0 .. 2 * BLOCK_WORDS - 1
      BY <2>2, Lines
    <3> QED
      BY <1>6, <2>2, <3>1, <3>2, <3>3 DEF Bit
  <2> QED
    BY <2>1, <2>2
<1>9. /\ c1 \in CtrlType /\ c1.pnd_req = (ctrl.pnd_req \/ stb) /\ c1.pnd_syn = (ctrl.pnd_syn \/ s)
      /\ c1.sync = ctrl.sync /\ c1.idx = ctrl.idx /\ c1.tag = ctrl.tag /\ c1.bus_err = ctrl.bus_err
      /\ c1.pnd_bp = ctrl.pnd_bp /\ c1.ofs_int = ctrl.ofs_int /\ c1.ofs_ext = e1
      /\ c1.ofs_buf = ctrl.ofs_ext /\ c1.state = ctrl.state
  <2> HIDE DEF c, e1
  <2> QED
    BY <1>3, <1>8 DEF CtrlType
<1>10. (IF bus_stb THEN NextExt(c) ELSE c) = c1
  <2>1. CASE bus_stb
    BY <1>3, <2>1 DEF NextExt
  <2>2. CASE ~bus_stb
    <3>1. e1 = c.ofs_ext
      BY <1>3, <2>2
    <3> HIDE DEF c, e1
    <3> QED
      BY <1>3, <2>2, <3>1 DEF CtrlType
  <2> QED
    BY <2>1, <2>2
<1>11. ctrl' = IF ~ans THEN c1
               ELSE [Taken(c1, Answer(ans)) EXCEPT !.state = IF LastWord THEN "S_WRITE_DONE" ELSE @]
  BY <1>2, <1>10 DEF WriteBurst, Kept
<1> HIDE DEF c1, e1, sent, sent1
<1>12. ASSUME ctrl'.state = "S_WRITE_BURST", ctrl'.tag = ctrl.tag, ctrl'.idx = ctrl.idx,
              ctrl'.ofs_int = ctrl.ofs_int + Bit(ans), ctrl'.ofs_ext = e1, ctrl'.ofs_buf = ctrl.ofs_ext
       PROVE  Queued' /\ Counted'
  <2>1. \A k \in 1 .. Len(q') : At(ctrl.ofs_int + k - 1)' = At(ctrl.ofs_int + Bit(ans) + k - 1)
    BY <1>12 DEF At
  <2>2. Storing' = Storing
    BY <1>1, <1>12 DEF Storing, Upload
  <2>3. \A k \in 1 .. Len(q') : /\ q'[k].a = At(ctrl.ofs_int + k - 1)'
                                /\ q'[k].rw = Storing' /\ ~q'[k].amo
    BY <1>7, <2>1, <2>2
  <2>4. Bit(ans) \in {0, 1} /\ Bit(bus_stb) \in {0, 1}
    BY DEF Bit
  <2>5. Len(q') = sent1 - (ctrl.ofs_int + Bit(ans)) /\ 0 < ctrl.ofs_int + Bit(ans)
        /\ ctrl.ofs_int + Bit(ans) <= ctrl.ofs_ext
    <3>1. Len(q') = sent1 - (ctrl.ofs_int + Bit(ans)) /\ 0 < ctrl.ofs_int + Bit(ans)
      <4>1. Len(q) = sent - ctrl.ofs_int /\ 0 < ctrl.ofs_int
        BY <1>5
      <4>2. Len(q') = Len(q) - Bit(ans) + Bit(bus_stb) /\ sent1 = sent + Bit(bus_stb)
        BY <1>7, <1>8
      <4>3. sent \in Nat /\ ctrl.ofs_int \in Nat
        BY <1>6
      <4> QED
        BY <2>4, <4>1, <4>2, <4>3
    <3>2. ctrl.ofs_int + Bit(ans) <= sent /\ sent <= ctrl.ofs_ext
      BY <1>5, <1>6, <1>7, <1>8, <2>4 DEF sent
    <3> QED
      BY <1>6, <2>4, <3>1, <3>2
  <2>6. Open' = sent1 - (ctrl.ofs_int + Bit(ans))
    BY <1>12 DEF Open, sent1
  <2>7. Queued'
    BY <1>12, <2>3, <2>5, <2>6 DEF Queued
  <2>8. Counted'
    BY <1>1, <1>8, <1>12, <2>5 DEF Counted
  <2> QED
    BY <2>7, <2>8
<1>13. CASE ~ans
  <2>1. ctrl' = c1
    BY <1>11, <1>13
  <2>2. SameTask /\ Storing' /\ ctrl'.tag = ram.tag[ctrl.idx]
    BY <1>1, <1>4, <1>9, <2>1 DEF SameTask, Storing
  <2>3. Transferred'
    BY <1>1, <1>4, <1>9, <2>1 DEF Transferred, Done, Held, SameStatus, Fetching, Storing, Download, Upload
  <2>4. ctrl.ofs_int = ctrl.ofs_int + Bit(ans)
    BY <1>6, <1>13 DEF Bit
  <2>5. Queued' /\ Counted'
    BY <1>1, <1>9, <1>12, <2>1, <2>4
  <2> QED
    BY <1>1, <1>4, <1>9, <2>1, <2>2, <2>3, <2>5, StoreGoesOn
<1>14. CASE ans
  <2>1. ctrl' = [c1 EXCEPT !.ofs_int = (ctrl.ofs_int + 1) % BLOCK_WORDS,
                           !.bus_err = c1.bus_err \/ Answer(ans).err, !.state = next]
    BY <1>1, <1>9, <1>11, <1>14 DEF Taken, NextInt
  <2>2. next \in State /\ next \in {"S_WRITE_BURST", "S_WRITE_DONE"}
    BY DEF State, Upload
  <2> HIDE DEF next
  <2>3. /\ ctrl' \in CtrlType /\ ctrl'.state = next /\ ctrl'.tag = ctrl.tag /\ ctrl'.idx = ctrl.idx
        /\ ctrl'.sync = ctrl.sync /\ ctrl'.pnd_bp = ctrl.pnd_bp
        /\ ctrl'.pnd_req = (ctrl.pnd_req \/ stb) /\ ctrl'.pnd_syn = (ctrl.pnd_syn \/ s)
        /\ ctrl'.bus_err = (ctrl.bus_err \/ Answer(ans).err)
        /\ ctrl'.ofs_int = (ctrl.ofs_int + 1) % BLOCK_WORDS
        /\ ctrl'.ofs_ext = e1 /\ ctrl'.ofs_buf = ctrl.ofs_ext
    <3>1. (c1.bus_err \/ Answer(ans).err) \in BOOLEAN
      BY <1>2, <1>9
    <3> QED
      BY <1>2, <1>9, <2>1, <2>2, <3>1 DEF CtrlType
  <2>4. ~LastWord => (ctrl.ofs_int + 1) % BLOCK_WORDS = ctrl.ofs_int + 1
    BY <1>6, Counters DEF LastWord
  <2>5. Bit(ans) = 1
    BY <1>14 DEF Bit
  <2>6. Storing' /\ SameTask /\ ctrl'.tag = ram.tag[ctrl.idx] /\ ctrl'.state # "S_WRITE_START"
    BY <1>4, <2>2, <2>3 DEF Storing, Upload, SameTask
  <2>7. Transferred'
    <3>1. ctrl'.state = "S_WRITE_DONE" => LastWord
      BY <2>3 DEF next
    <3>2. ctrl'.state # "S_WRITE_DONE" => ctrl'.ofs_int = ctrl.ofs_int + 1
      BY <2>3, <2>4 DEF next
    <3> QED
      BY <1>1, <1>4, <1>14, <2>3, <2>6, <3>1, <3>2, WordWritten
  <2>8. Counted' /\ Queued'
    <3>1. CASE LastWord
      <4>1. ctrl'.state = "S_WRITE_DONE"
        BY <2>3, <3>1 DEF next
      <4>2. ctrl.ofs_int + 1 = BLOCK_WORDS
        BY <1>6, <3>1 DEF LastWord
      <4>3. ctrl.ofs_int + 1 <= sent
        BY <1>5, <1>6, <1>7, <2>5
      <4>4. sent = BLOCK_WORDS /\ ~bus_stb
        BY <1>5, <1>6, <4>2, <4>3 DEF sent
      <4>5. Len(q') = 0
        BY <1>5, <1>6, <1>7, <2>5, <4>2, <4>4 DEF Bit
      <4> QED
        BY <4>1, <4>5 DEF Counted, Queued, Open, Download, Upload
    <3>2. CASE ~LastWord
      <4>1. ctrl'.state = "S_WRITE_BURST" /\ ctrl'.ofs_int = ctrl.ofs_int + Bit(ans)
        BY <2>3, <2>4, <2>5, <3>2 DEF next
      <4> QED
        BY <1>12, <2>3, <4>1
    <3> QED
      BY <3>1, <3>2
  <2> QED
    BY <1>1, <1>4, <2>3, <2>6, <2>7, <2>8, StoreGoesOn
<1> QED
  BY <1>2, <1>13, <1>14

\* A fence goes on; for an access the block is clean or, with an error, gone.
LEMMA WriteDoneKeeps ==
    ASSUME Core, NEW r, NEW stb, NEW s, NEW ans, Edge(r, stb, s, ans), WriteDone(Drives(r, stb), s)
    PROVE  Core'
<1> DEFINE c == Kept(r, stb, s)
           a == Line(ctrl.ofs_int)
           mark == IF ctrl.sync THEN Read ELSE Mark(~ctrl.bus_err, FALSE)
           next == IF ctrl.sync THEN "S_SYNC_NEXT" ELSE IF ctrl.bus_err THEN "S_IDLE" ELSE "S_CHECK"
<1> USE DEF Core
<1>1. ctrl.state = "S_WRITE_DONE" /\ Storing
  BY DEF WriteDone, Storing
<1>2. ctrl \in CtrlType /\ ctrl.bus_err \in BOOLEAN /\ ctrl.sync \in BOOLEAN /\ ctrl.idx \in Block
      /\ ctrl.pnd_syn \in BOOLEAN /\ ctrl.pnd_req \in BOOLEAN
  BY Ranges DEF CtrlType
<1>3. /\ c \in CtrlType /\ c.pnd_req = (ctrl.pnd_req \/ stb) /\ c.pnd_syn = (ctrl.pnd_syn \/ s)
      /\ c.sync = ctrl.sync /\ c.bus_err = ctrl.bus_err /\ c.pnd_bp = ctrl.pnd_bp
      /\ c.idx = ctrl.idx /\ c.tag = ctrl.tag /\ ~c.hit
  BY Defaults
<1>4. ctrl' = [c EXCEPT !.cln = TRUE, !.state = next]
  BY DEF WriteDone, Kept
<1>5. /\ req' = r /\ waiting' = ((waiting \/ stb) /\ ~(~ctrl.sync /\ ctrl.bus_err))
      /\ old' = (IF s THEN Block ELSE old) \cap {x \in Block : ram'.valid[x]} /\ old \subseteq Block
      /\ waiting \in BOOLEAN /\ stb \in BOOLEAN /\ s \in BOOLEAN
  <2>1. host_rsp(Drives(r, stb), Answer(ans)).ack = (~ctrl.sync /\ ctrl.bus_err)
    BY <1>1, <1>2 DEF host_rsp
  <2> QED
    BY <2>1, Around
<1>6. Len(q') = 0
  BY <1>1, Quiet
<1>7. /\ ram.valid[ctrl.idx] /\ ram.dirty[ctrl.idx] /\ ctrl.tag = ram.tag[ctrl.idx]
      /\ (ctrl.sync \/ Bypasses(req) \/ ram.tag[ctrl.idx] # req.a.t)
  BY <1>1 DEF Latched
<1>8. /\ a \in Addr /\ a.i = ctrl.idx /\ a.t = ctrl.tag /\ rd.data \in Word
      /\ mark \in [set : BOOLEAN, vld : BOOLEAN, drt : BOOLEAN]
      /\ mark.set = ~ctrl.sync /\ ~mark.drt /\ (~ctrl.sync => mark.vld = ~ctrl.bus_err)
  <2>1. a \in Addr /\ a.i = ctrl.idx /\ a.t = ctrl.tag
    BY Lines
  <2>2. rd.data \in Word
    BY Ranges
  <2>3. /\ mark \in [set : BOOLEAN, vld : BOOLEAN, drt : BOOLEAN]
        /\ mark.set = ~ctrl.sync /\ ~mark.drt /\ (~ctrl.sync => mark.vld = ~ctrl.bus_err)
    BY <1>2 DEF Mark, Read
  <2> QED
    BY <2>1, <2>2, <2>3
<1>9. ram \in [valid : [Block -> BOOLEAN], dirty : [Block -> BOOLEAN],
                tag : [Block -> Tags], data : [Block \X Offset -> Word]]
  BY DEF Typed, TypeOK, CacheTypeOK
<1> HIDE DEF a, mark
<1>10. /\ ram'.valid = IF ctrl.sync THEN ram.valid ELSE [ram.valid EXCEPT ![ctrl.idx] = ~ctrl.bus_err]
       /\ ram'.tag = IF ctrl.sync THEN ram.tag ELSE [ram.tag EXCEPT ![ctrl.idx] = ctrl.tag]
       /\ ram'.dirty = IF ctrl.sync THEN ram.dirty ELSE [ram.dirty EXCEPT ![ctrl.idx] = FALSE]
       /\ rd'.valid = ram.valid[ctrl.idx] /\ rd'.tag = ram.tag[ctrl.idx]
       /\ ram' \in [valid : [Block -> BOOLEAN], dirty : [Block -> BOOLEAN],
                    tag : [Block -> Tags], data : [Block \X Offset -> Word]]
       /\ rd' \in [valid : BOOLEAN, dirty : BOOLEAN, tag : Tags, data : Word]
  <2>1. Access(a, mark, FALSE, rd.data) /\ CacheTypeOK(Word)
    BY DEF WriteDone, a, mark, Typed, TypeOK
  <2>2. /\ ram'.valid = IF mark.set THEN [ram.valid EXCEPT ![a.i] = mark.vld] ELSE ram.valid
        /\ ram'.tag = IF mark.set THEN [ram.tag EXCEPT ![a.i] = a.t] ELSE ram.tag
        /\ ram'.dirty = IF mark.set \/ mark.drt THEN [ram.dirty EXCEPT ![a.i] = mark.drt] ELSE ram.dirty
        /\ rd' = [valid |-> ram.valid[a.i], dirty |-> ram.dirty[a.i],
                  tag |-> ram.tag[a.i], data |-> ram.data[<<a.i, a.o>>]]
        /\ ram' \in [valid : [Block -> BOOLEAN], dirty : [Block -> BOOLEAN],
                     tag : [Block -> Tags], data : [Block \X Offset -> Word]]
        /\ rd' \in [valid : BOOLEAN, dirty : BOOLEAN, tag : Tags, data : Word]
    BY <1>8, <2>1, Memories
  <2>3. mark.drt = FALSE
    BY <1>8
  <2>4. CASE ctrl.sync
    BY <1>8, <2>2, <2>3, <2>4
  <2>5. CASE ~ctrl.sync
    BY <1>8, <2>2, <2>3, <2>5
  <2> QED
    BY <2>4, <2>5
<1> HIDE DEF c
<1>11. /\ ctrl' \in CtrlType /\ ctrl'.state = next /\ ctrl'.sync = ctrl.sync /\ ctrl'.bus_err = ctrl.bus_err
       /\ ctrl'.pnd_req = (ctrl.pnd_req \/ stb) /\ ctrl'.pnd_syn = (ctrl.pnd_syn \/ s)
       /\ ctrl'.pnd_bp = ctrl.pnd_bp /\ ctrl'.idx = ctrl.idx /\ ctrl'.tag = ctrl.tag /\ ~ctrl'.hit /\ ctrl'.cln
  <2>1. next \in State
    BY DEF State
  <2> HIDE DEF next
  <2> QED
    BY <1>3, <1>4, <2>1 DEF CtrlType
<1>12. \A b \in Block : ram'.valid[b] => ram.valid[b] /\ ram'.tag[b] = ram.tag[b]
  <2>1. CASE ctrl.sync
    BY <1>10, <2>1
  <2>2. CASE ~ctrl.sync
    BY <1>2, <1>7, <1>9, <1>10, <2>2
  <2> QED
    BY <2>1, <2>2
<1>13. Sound'
  BY <1>1, <1>11, <1>12 DEF Sound, Held, Fetching, Download
<1>14. CASE ctrl.sync
  <2>1. ctrl'.state = "S_SYNC_NEXT" /\ waiting' = (waiting \/ stb)
    BY <1>5, <1>11, <1>14
  <2>2. waiting = ctrl.pnd_req
    BY <1>1, <1>14 DEF Protocol, Serving, Fetching, Storing, Upload, Download
  <2>3. Protocol' /\ Latched' /\ Counted' /\ Queued'
    BY <1>5, <1>6, <1>11, <1>14, <2>1, <2>2
       DEF Protocol, Latched, Counted, Queued, Open, Serving, Fetching, Storing, Upload, Download
  <2>4. ram'.valid = ram.valid /\ ram'.tag = ram.tag /\ ram'.dirty = ram.dirty
    BY <1>10, <1>14
  <2>5. Transferred'
    BY <1>1, <1>7, <1>11, <2>1, <2>4 DEF Transferred, Held, Fetching, Storing, Upload, Download
  <2>6. Flushed'
    BY <1>1, <1>2, <1>5, <1>11, <1>14, <2>1, <2>4 DEF Flushed, Syncing, Stuck, Held, Storing, Upload
  <2> QED
    BY <1>10, <1>11, <1>13, <2>3, <2>5, <2>6, TypedNext
<1>15. CASE ~ctrl.sync
  <2>1. waiting /\ ~stb /\ ~s /\ r = req /\ ~ctrl.pnd_syn /\ ctrl.pnd_bp = Bypasses(r)
        /\ ~ctrl.pnd_req /\ ctrl.idx = r.a.i
    BY <1>1, <1>15, Busy DEF Serving, Protocol
  <2>2. /\ waiting' = ~ctrl.bus_err /\ ~ctrl'.pnd_req /\ ~ctrl'.pnd_syn /\ ~ctrl'.sync
        /\ ctrl'.state = IF ctrl.bus_err THEN "S_IDLE" ELSE "S_CHECK"
    BY <1>2, <1>5, <1>11, <1>15, <2>1
  <2>3. /\ ram'.valid[ctrl.idx] = ~ctrl.bus_err /\ ~ram'.dirty[ctrl.idx] /\ ram'.tag[ctrl.idx] = ram.tag[ctrl.idx]
        /\ \A b \in Block : b # ctrl.idx => ram'.dirty[b] = ram.dirty[b]
    BY <1>2, <1>7, <1>9, <1>10, <1>15
  <2>4. Flushed'
    <3>1. \A b \in old : ram.valid[b] /\ Stuck(b)
      BY <1>1, <1>15, <2>1 DEF Flushed, Syncing
    <3>2. \A b \in old' : b \in old /\ b \in Block /\ ram'.valid[b]
      BY <1>5, <2>1
    <3>3. ctrl.idx \notin old'
      <4>1. SUFFICES ASSUME ctrl.idx \in old' PROVE FALSE
        OBVIOUS
      <4>2. ~ctrl.bus_err
        BY <2>3, <3>2, <4>1
      <4>3. \A o \in Offset : Held(ctrl.idx, o) \notin WriteErr
        BY <1>1, <4>2 DEF Transferred, Done
      <4>4. \E o \in Offset : Held(ctrl.idx, o) \in WriteErr
        BY <3>1, <3>2, <4>1 DEF Stuck
      <4> QED
        BY <4>3, <4>4
    <3>4. \A b \in old' : ram'.dirty[b] = ram.dirty[b] /\ ram'.tag[b] = ram.tag[b]
      BY <1>12, <2>3, <3>2, <3>3
    <3>5. \A b \in old' : Stuck(b)'
      BY <3>1, <3>2, <3>4 DEF Stuck, Held
    <3>6. ~Syncing'
      BY <2>2 DEF Syncing, Storing, Upload
    <3> QED
      BY <3>2, <3>5, <3>6 DEF Flushed
  <2>5. CASE ctrl.bus_err
    <3>1. ctrl'.state = "S_IDLE" /\ ~waiting'
      BY <2>2, <2>5
    <3>2. waiting' \in BOOLEAN /\ ctrl'.pnd_req \in BOOLEAN
      BY <1>11, <2>2 DEF CtrlType
    <3>3. Protocol'
      BY <2>2, <3>1, <3>2 DEF Protocol, Serving, Fetching, Storing, Upload, Download
    <3>4. Latched' /\ Counted' /\ Queued' /\ Transferred'
      BY <1>6, <3>1 DEF Latched, Counted, Queued, Open, Transferred, Fetching, Storing, Upload, Download
    <3> QED
      BY <1>10, <1>11, <1>13, <2>4, <3>3, <3>4, TypedNext
  <2>6. CASE ~ctrl.bus_err
    <3>1. ctrl'.state = "S_CHECK" /\ waiting' /\ ~ctrl'.bus_err /\ req' = r /\ ctrl'.pnd_bp = Bypasses(r)
      BY <1>5, <1>11, <2>1, <2>2, <2>6
    <3>2. Protocol'
      BY <2>2, <3>1 DEF Protocol, Serving, Fetching, Storing, Upload, Download
    <3>3. ram'.valid[r.a.i] /\ ~ram'.dirty[r.a.i] /\ rd'.valid /\ rd'.tag = ram'.tag[r.a.i]
          /\ (Bypasses(r) \/ ram'.tag[r.a.i] # r.a.t)
      BY <1>7, <1>10, <1>15, <2>1, <2>3, <2>6
    <3>4. Latched'
      BY <1>11, <3>1, <3>3 DEF Latched, Fetching, Storing, Upload, Download
    <3>5. Counted' /\ Queued' /\ Transferred'
      BY <1>6, <3>1 DEF Counted, Queued, Open, Transferred, Fetching, Storing, Upload, Download
    <3> QED
      BY <1>10, <1>11, <1>13, <2>4, <3>2, <3>4, <3>5, TypedNext
  <2> QED
    BY <1>2, <2>5, <2>6
<1> QED
  BY <1>2, <1>14, <1>15

-----------------------------------------------------------------------------
(* The answers.                                                            *)

\* The errors an access may see.
Own(x) == \/ \E a \in ReadErr : a.t = x.a.t /\ a.i = x.a.i
          \/ \E a \in WriteErr : a.i = x.a.i

\* An access that is answered sees an error if one of its words is faulty, and
\* only if a word of its block, or of the block it replaces, is.
LEMMA AnswerTrue ==
    ASSUME Core, NEW r, NEW stb, NEW s, NEW ans, Edge(r, stb, s, ans),
           host_rsp(Drives(r, stb), Answer(ans)).ack
    PROVE  /\ Faulty(r) => host_rsp(Drives(r, stb), Answer(ans)).err
           /\ host_rsp(Drives(r, stb), Answer(ans)).err => Own(r)
<1> DEFINE h == Drives(r, stb)
           rsp == host_rsp(h, Answer(ans))
<1> USE DEF Core
<1>1. ctrl.state \in {"S_CHECK", "S_BYPASS", "S_READ_DONE"} \/ (ctrl.state = "S_WRITE_DONE" /\ ~ctrl.sync)
  BY DEF host_rsp
<1>2. Serving
  BY <1>1 DEF Serving, Fetching, Storing
<1>3. r = req /\ ~stb /\ ctrl.pnd_bp = Bypasses(r)
  BY <1>2, Busy
<1>4. r \in Request /\ r.a \in Addr /\ r.a.i \in Block /\ r.a.t \in Tags /\ Answer(ans).ack = ans
  BY Ranges, Signals
<1>5. CASE ctrl.state = "S_CHECK"
  <2>1. ~rsp.err /\ ~Bypasses(r) /\ Hit(h)
    BY <1>3, <1>5 DEF host_rsp
  <2>2. ram.valid[r.a.i] /\ ram.tag[r.a.i] = r.a.t
    BY <1>5, <2>1, CheckLooksUp
  <2>3. \A o \in Offset : Held(r.a.i, o) \notin ReadErr
    BY <1>4, <1>5, <2>2 DEF Sound, Fetching, Download
  <2>4. \A a \in ReadErr : a \in Addr /\ a.o \in Offset /\ a = [t |-> a.t, i |-> a.i, o |-> a.o]
    BY CachedAssumption DEF Addr
  <2>5. ~Faulty(r)
    BY <2>1, <2>2, <2>3, <2>4 DEF Faulty, Held
  <2> QED
    BY <2>1, <2>5
<1>6. CASE ctrl.state = "S_BYPASS"
  <2>1. rsp = Answer(ans) /\ ans
    BY <1>4, <1>6 DEF host_rsp
  <2>2. q \in Seq(Strobe) /\ q # << >>
    BY <2>1 DEF Edge, Typed
  <2>3. Len(q) # 0
    BY <2>2
  <2>4. ~ctrl.bp_req
    BY <1>6, <2>3 DEF Queued, Open
  <2>5. q[1].a = r.a /\ q[1].rw = (r.op = "st") /\ q[1].amo = (r.op = "swap") /\ Bypasses(r)
    BY <1>3, <1>6, <2>4 DEF Queued, Protocol
  <2>6. rsp.err <=> Fails(q[1])
    <3>1. Oldest = q[1]
      BY <2>1, Front
    <3>2. Answer(ans).err <=> Fails(q[1])
      BY <2>1, <3>1 DEF Answer
    <3> QED
      BY <2>1, <3>2
  <2>7. r.op \in {"ld", "st", "swap"}
    BY <1>4 DEF Request
  <2>8. Fails(q[1]) <=> Faulty(r)
    BY <2>5, <2>7 DEF Fails, Writes, Faulty
  <2>9. Faulty(r) => Own(r)
    BY <2>5 DEF Faulty, Own
  <2> QED
    BY <2>6, <2>8, <2>9
<1>7. CASE ctrl.state = "S_READ_DONE"
  <2>1. rsp.err /\ ctrl.bus_err
    BY <1>7 DEF host_rsp
  <2>2. Fetching /\ ctrl.tag = r.a.t /\ ctrl.idx = r.a.i
    BY <1>3, <1>7 DEF Fetching, Protocol, Serving
  <2>3. \E o \in Offset : At(o) \in ReadErr
    BY <2>1, <2>2 DEF Transferred
  <2>4. Own(r)
    BY <2>2, <2>3 DEF Own, At
  <2> QED
    BY <2>1, <2>4
<1>8. CASE ctrl.state = "S_WRITE_DONE" /\ ~ctrl.sync
  <2>1. rsp.err /\ ctrl.bus_err
    BY <1>8 DEF host_rsp
  <2>2. Storing /\ ctrl.idx = r.a.i
    BY <1>2, <1>3, <1>8 DEF Storing, Protocol
  <2>3. \E o \in Offset : Held(ctrl.idx, o) \in WriteErr
    BY <2>1, <2>2 DEF Transferred
  <2>4. Own(r)
    BY <2>2, <2>3 DEF Own, Held
  <2> QED
    BY <2>1, <2>4
<1> QED
  BY <1>1, <1>5, <1>6, <1>7, <1>8

\* What the host is told of errors stays right.
LEMMA ErrorsKeep ==
    ASSUME IInv, NEW r, NEW stb, NEW s, NEW ans, Edge(r, stb, s, ans)
    PROVE  ErrorsReported' /\ ErrorsAreOwn'
<1> DEFINE rsp == host_rsp(Drives(r, stb), Answer(ans))
<1>1. out' = (IF rsp.ack THEN [host |-> "cpu", req |-> r, res |-> Result(r, rsp)] ELSE out)
  BY Signals DEF IInv, Core
<1>2. CASE ~rsp.ack
  BY <1>1, <1>2 DEF IInv, ErrorsReported, ErrorsAreOwn
<1>3. CASE rsp.ack
  <2>1. (Faulty(r) => rsp.err) /\ (rsp.err => Own(r))
    BY <1>3, AnswerTrue DEF IInv
  <2>2. rd.data \in Word /\ Answer(ans).data \in Word
    BY Ranges DEF IInv, Core
  <2>3. rsp.data \in Word
    BY <2>2 DEF host_rsp
  <2> HIDE DEF rsp
  <2>4. out'.req = r /\ out'.res = Result(r, rsp)
    BY <1>1, <1>3
  <2>5. Result(r, rsp) = Atomic!BusError <=> rsp.err
    BY <2>3, CachedAssumption DEF Result, Word, Atomic!BusError
  <2>6. out'.res = Atomic!BusError <=> rsp.err
    BY <2>4, <2>5
  <2>7. ErrorsReported'
    BY <2>1, <2>4, <2>6 DEF ErrorsReported, Faulty, Bypasses
  <2>8. ErrorsAreOwn'
    BY <2>1, <2>4, <2>6 DEF ErrorsAreOwn, Own
  <2> QED
    BY <2>7, <2>8
<1> QED
  BY <1>2, <1>3

-----------------------------------------------------------------------------
(* The theorems.                                                           *)

\* The invariant holds after reset, with any software.
LEMMA InitIInv == Init => IInv
<1> SUFFICES ASSUME Init PROVE IInv
  OBVIOUS
<1> DEFINE t == CHOOSE x \in Tags : TRUE
           r == CHOOSE x \in prog : TRUE
<1>1. t \in Tags /\ 0 \in Word /\ 0 \in Offset /\ 0 \in Block /\ 0 \in 0 .. 2 * BLOCK_WORDS - 1
  BY Counters, CachedAssumption DEF Word
<1>2. prog \in Programs /\ r \in prog /\ r \in Request /\ req = r
  BY CachedAssumption DEF Init
<1> HIDE DEF t, r
<1>3. ctrl = [state |-> "S_IDLE", sync |-> FALSE, bus_err |-> FALSE, pnd_req |-> FALSE,
              pnd_syn |-> FALSE, pnd_bp |-> FALSE, bp_req |-> FALSE, hit |-> FALSE,
              cln |-> FALSE, tag |-> t, idx |-> 0, ofs_int |-> 0, ofs_ext |-> 0, ofs_buf |-> 0]
  BY DEF Init, CacheInit, t
<1>4. ctrl \in CtrlType
  <2>1. "S_IDLE" \in State
    BY DEF State
  <2> QED
    BY <1>1, <1>3, <2>1 DEF CtrlType
<1>5. rd \in [valid : BOOLEAN, dirty : BOOLEAN, tag : Tags, data : Word]
  BY <1>1 DEF Init, CacheInit, t
<1>6. /\ ram \in [valid : [Block -> BOOLEAN], dirty : [Block -> BOOLEAN],
                  tag : [Block -> Tags], data : [Block \X Offset -> Word]]
      /\ ram.valid = [b \in Block |-> FALSE]
  <2>1. ram \in [valid : {[b \in Block |-> FALSE]}, dirty : [Block -> BOOLEAN],
                 tag : {[b \in Block |-> t]}, data : {[bo \in Block \X Offset |-> 0]}]
    BY CachedAssumption DEF Init, CacheInit, t
  <2>2. /\ [b \in Block |-> FALSE] \in [Block -> BOOLEAN] /\ [b \in Block |-> t] \in [Block -> Tags]
        /\ [bo \in Block \X Offset |-> 0] \in [Block \X Offset -> Word]
    BY <1>1
  <2> QED
    BY <2>1, <2>2
<1>7. waiting = FALSE /\ q = << >> /\ mem \in [Addr -> Word] /\ old = {}
      /\ out.req.op = "none" /\ out.res = 0
  BY <1>1, <1>2 DEF Init, Request
<1>8. Typed
  <2>1. CacheTypeOK(Word)
    BY <1>4, <1>5, <1>6 DEF CacheTypeOK, CtrlType
  <2>2. q \in Seq(Strobe) /\ Len(q) = 0 /\ 0 <= BLOCK_WORDS
    BY <1>7, CachedAssumption
  <2> QED
    BY <1>1, <1>2, <1>7, <2>1, <2>2 DEF Typed, TypeOK
<1>9. ctrl.state = "S_IDLE" /\ ~ctrl.pnd_req /\ ~ctrl.pnd_syn /\ ~ctrl.bus_err /\ ~ctrl.sync
  BY <1>3
<1>10. Protocol
  BY <1>7, <1>9, <1>4 DEF Protocol, Serving, Fetching, Storing, Upload, Download, CtrlType
<1>11. Latched /\ Counted /\ Queued /\ Transferred
  BY <1>7, <1>9 DEF Latched, Counted, Queued, Open, Transferred, Fetching, Storing, Upload, Download
<1>12. Sound /\ Flushed
  BY <1>6, <1>7 DEF Sound, Flushed
<1>13. ErrorsReported /\ ErrorsAreOwn
  <2>1. Atomic!BusError # 0
    BY DEF Atomic!BusError
  <2> QED
    BY <1>7, <2>1 DEF ErrorsReported, ErrorsAreOwn
<1> QED
  BY <1>8, <1>10, <1>11, <1>12, <1>13 DEF IInv, Core

\* Every clock edge keeps it: one action of the controller at a time.
LEMMA EdgeKeeps ==
    ASSUME IInv, NEW r, NEW stb, NEW s, NEW ans, Edge(r, stb, s, ans)
    PROVE  IInv'
<1> DEFINE h == Drives(r, stb)
           rsp == Answer(ans)
<1>1. Core
  BY DEF IInv
<1>2. CacheClock(h, s, rsp)
  BY <1>1, Signals DEF Core
<1>3. ErrorsReported' /\ ErrorsAreOwn'
  BY ErrorsKeep
<1>4. Core'
  <2>1. CASE Idle(h, s)
    BY <1>1, <2>1, IdleKeeps
  <2>2. CASE Check(h, s)
    BY <1>1, <2>2, CheckKeeps
  <2>3. CASE Bypass(h, s, rsp)
    BY <1>1, <2>3, BypassKeeps
  <2>4. CASE SyncStart(h, s)
    BY <1>1, <2>4, SyncStartKeeps
  <2>5. CASE SyncDelay(h, s)
    BY <1>1, <2>5, SyncDelayKeeps
  <2>6. CASE SyncCheck(h, s)
    BY <1>1, <2>6, SyncCheckKeeps
  <2>7. CASE SyncNext(h, s)
    BY <1>1, <2>7, SyncNextKeeps
  <2>8. CASE ReadStart(h, s)
    BY <1>1, <2>8, ReadStartKeeps
  <2>9. CASE ReadWait(h, s, rsp)
    BY <1>1, <2>9, ReadWaitKeeps
  <2>10. CASE ReadDone(h, s)
    BY <1>1, <2>10, ReadDoneKeeps
  <2>11. CASE WriteStart(h, s)
    BY <1>1, <2>11, WriteStartKeeps
  <2>12. CASE WriteReq(h, s)
    BY <1>1, <2>12, WriteReqKeeps
  <2>13. CASE WriteRsp(h, s, rsp)
    BY <1>1, <2>13, WriteRspKeeps
  <2>14. CASE WriteDone(h, s)
    BY <1>1, <2>14, WriteDoneKeeps
  <2>15. CASE ReadBurst(h, s, rsp)
    BY <1>1, <2>15, ReadBurstKeeps
  <2>16. CASE WriteWait(h, s)
    BY <1>1, <2>16, WriteWaitKeeps
  <2>17. CASE WriteBurst(h, s, rsp)
    BY <1>1, <2>17, WriteBurstKeeps
  <2> HIDE DEF h, rsp
  <2> QED
    BY <1>2, <2>1, <2>2, <2>3, <2>4, <2>5, <2>6, <2>7, <2>8, <2>9, <2>10, <2>11, <2>12,
       <2>13, <2>14, <2>15, <2>16, <2>17 DEF CacheClock
<1> QED
  BY <1>3, <1>4 DEF IInv

LEMMA NextIInv == IInv /\ [Next]_vars => IInv'
<1> SUFFICES ASSUME IInv, [Next]_vars PROVE IInv'
  OBVIOUS
<1>1. CASE Next
  <2>1. Typed
    BY DEF IInv, Core
  <2>2. PICK r, stb, s, ans : Edge(r, stb, s, ans)
    BY <1>1, <2>1, StepIsEdge
  <2> QED
    BY <2>2, EdgeKeeps
<1>2. CASE UNCHANGED vars
  <2> USE DEF vars, cacheVars, Serving, Fetching, Storing, Held, At
  <2>1. Typed'
    BY <1>2 DEF IInv, Core, Typed, TypeOK, CacheTypeOK
  <2>2. Protocol' /\ Latched' /\ Counted'
    BY <1>2 DEF IInv, Core, Protocol, Latched, Counted
  <2>3. Queued'
    BY <1>2 DEF IInv, Core, Queued, Open
  <2>4. Sound' /\ Transferred' /\ Flushed'
    BY <1>2 DEF IInv, Core, Sound, Transferred, Done, Flushed, Stuck, Syncing
  <2>5. ErrorsReported' /\ ErrorsAreOwn'
    BY <1>2 DEF IInv, ErrorsReported, ErrorsAreOwn
  <2> QED
    BY <2>1, <2>2, <2>3, <2>4, <2>5 DEF IInv, Core
<1> QED
  BY <1>1, <1>2

\* The invariant of the cache, its host and its memory is inductive.
THEOREM Inductive == Spec => []IInv
BY InitIInv, NextIInv, PTL DEF Spec

\* A bus error is told to the access it belongs to, and to no other.
THEOREM Errors == Spec => []ErrorsExact
<1>1. IInv => ErrorsExact
  BY DEF IInv, Core, Typed, ErrorsExact
<1> QED
  BY <1>1, Inductive, PTL

\* After a fence no block is left that was valid before it, except for blocks
\* that could not be written back.
THEOREM Fences == Spec => []FenceFlushes
<1>1. IInv => FenceFlushes
  <2> SUFFICES ASSUME IInv, ctrl.state = "S_IDLE", ~ctrl.pnd_syn, NEW b \in old
               PROVE  ram.dirty[b] /\ \E a \in WriteErr : a.i = b /\ a.t = ram.tag[b]
    BY DEF FenceFlushes
  <2>1. ~Syncing
    BY DEF Syncing, Storing, Upload
  <2>2. Stuck(b)
    BY <2>1 DEF IInv, Core, Flushed
  <2> QED
    BY <2>2 DEF Stuck, Held
<1> QED
  BY <1>1, Inductive, PTL

-----------------------------------------------------------------------------
(* The words: what the cache holds and what the memory holds.              *)

\* Word o of block b is the same in both.
Same(b, o) == ram.data[<<b, o>>] = mem[Held(b, o)]

\* Where a block is not modified, cache and memory agree, word for word as the
\* transfer of a block goes on.
Agreed ==
    /\ \A b \in Block : ram.valid[b] /\ ~ram.dirty[b] /\ ~(Fetching /\ b = ctrl.idx) =>
            \A o \in Offset : Same(b, o)
    /\ Fetching /\ ~ctrl.bus_err =>
            \A o \in Offset : Done(o) => ram.data[<<ctrl.idx, o>>] = mem[At(o)]
    /\ Storing => \A o \in Offset : Done(o) /\ Held(ctrl.idx, o) \notin WriteErr => Same(ctrl.idx, o)
    /\ ctrl.state = "S_SYNC_NEXT" /\ ram.valid[ctrl.idx] /\ ~ctrl.bus_err =>
            \A o \in Offset : Same(ctrl.idx, o)

\* A word is on its way from the cache to the memory.
Sent ==
    /\ ctrl.state \in Upload =>
            \A k \in 1 .. Len(q) : q[k].v = ram.data[<<ctrl.idx, ctrl.ofs_int + k - 1>>]
    /\ ctrl.state = "S_WRITE_REQ" => rd.data = ram.data[<<ctrl.idx, ctrl.ofs_int>>]
    /\ ctrl.state = "S_WRITE_BURST" /\ ctrl.ofs_buf < BLOCK_WORDS =>
            rd.data = ram.data[<<ctrl.idx, ctrl.ofs_buf>>]

\* The word of an access is in the cache.
In(r) == ram.valid[r.a.i] /\ ram.tag[r.a.i] = r.a.t

\* What the host gets and gives.
Heard ==
    /\ ctrl.state = "S_CHECK" /\ ~Bypasses(req) /\ In(req) => rd.data = ram.data[<<req.a.i, req.a.o>>]
    /\ ctrl.state = "S_BYPASS" => ~In(req) /\ (~ctrl.bp_req => q[1].v = req.v)

\* A block is there because the software asked for it.
Known ==
    /\ \A b \in Block : ram.valid[b] => \E x \in prog : x.a.i = b /\ x.a.t = ram.tag[b]

\* The inductive invariant of the words, on top of IInv.
DataInv == Agreed /\ Sent /\ Heard /\ Known

-----------------------------------------------------------------------------
(* What a clock edge does to the registers of the controller.              *)

\* Where the controller goes.
Goes(r, ans) ==
    LET from(x) == ctrl.state = x
        to(S) == ctrl'.state \in S
    IN  /\ from("S_IDLE")       => to({"S_IDLE", "S_SYNC_START", "S_CHECK"})
        /\ from("S_CHECK")      => to({"S_IDLE", "S_BYPASS", "S_READ_START", "S_WRITE_START"})
        /\ from("S_BYPASS")     => to({IF ans THEN "S_IDLE" ELSE "S_BYPASS"})
        /\ from("S_SYNC_START") => to({"S_SYNC_DELAY"})
        /\ from("S_SYNC_DELAY") => to({"S_SYNC_CHECK"})
        /\ from("S_SYNC_CHECK") => to({IF Dirty THEN "S_WRITE_START" ELSE "S_SYNC_NEXT"})
        /\ from("S_SYNC_NEXT")  => to({"S_IDLE", "S_SYNC_DELAY"})
        /\ from("S_READ_START") => to({"S_READ_WAIT"})
        /\ from("S_READ_WAIT") \/ from("S_READ_BURST") =>
              IF ans THEN to({"S_READ_START", "S_READ_BURST", "S_READ_DONE"}) ELSE to({ctrl.state})
        /\ from("S_READ_DONE")  => to({IF ctrl.bus_err THEN "S_IDLE" ELSE "S_CHECK"})
        /\ from("S_WRITE_START") => to({"S_WRITE_REQ"})
        /\ from("S_WRITE_REQ")  => to({"S_WRITE_RSP"})
        /\ from("S_WRITE_WAIT") => to({"S_WRITE_BURST"})
        /\ from("S_WRITE_RSP") =>
              IF ans THEN to({"S_WRITE_START", "S_WRITE_WAIT", "S_WRITE_DONE"}) ELSE to({ctrl.state})
        /\ from("S_WRITE_BURST") =>
              IF ans THEN to({"S_WRITE_BURST", "S_WRITE_DONE"}) ELSE to({ctrl.state})
        /\ from("S_WRITE_DONE") => to({IF ctrl.sync THEN "S_SYNC_NEXT"
                                       ELSE IF ctrl.bus_err THEN "S_IDLE" ELSE "S_CHECK"})

\* The registers of a transfer.
Keeps(r, ans) ==
    /\ ctrl.state \in Download \cup Upload \cup {"S_SYNC_CHECK", "S_BYPASS"} => ctrl'.idx = ctrl.idx
    /\ ctrl.state \in Download => ctrl'.tag = ctrl.tag
    /\ ctrl.state \in Download \cup Upload =>
          IF ans /\ ctrl.state \in {"S_READ_WAIT", "S_READ_BURST", "S_WRITE_RSP", "S_WRITE_BURST"}
          THEN /\ ctrl'.ofs_int = (ctrl.ofs_int + 1) % BLOCK_WORDS
               /\ ctrl'.bus_err = (ctrl.bus_err \/ Answer(ans).err)
               /\ ctrl'.state \in {"S_READ_DONE", "S_WRITE_DONE"} => LastWord
               /\ ctrl'.state \in Download \cup Upload => ~LastWord
          ELSE ctrl'.ofs_int = ctrl.ofs_int /\ ctrl'.bus_err = ctrl.bus_err
    /\ ctrl.state \in {"S_WRITE_WAIT", "S_WRITE_BURST"} => ctrl'.ofs_buf = ctrl.ofs_ext
    /\ ctrl.state = "S_CHECK" => ctrl'.idx = r.a.i /\ ctrl'.tag = r.a.t /\ ctrl'.ofs_int = 0 /\ ctrl'.bp_req
    /\ ctrl.state = "S_SYNC_CHECK" => ctrl'.ofs_int = 0
    /\ ctrl.state = "S_BYPASS" => ~ctrl'.bp_req
    /\ ctrl.state \in {"S_READ_DONE", "S_WRITE_DONE"} =>
          ctrl'.idx = ctrl.idx /\ ctrl'.bus_err = ctrl.bus_err /\ ctrl'.sync = ctrl.sync
          /\ ctrl'.cln = (ctrl.state = "S_WRITE_DONE")
    /\ ctrl.state = "S_IDLE" => ~ctrl'.cln

\* The registers after the defaults and the state's own assignments.
LEMMA Registers ==
    ASSUME Core, NEW r, NEW stb, NEW s, NEW ans, Edge(r, stb, s, ans)
    PROVE  Goes(r, ans) /\ Keeps(r, ans)
<1> DEFINE h == Drives(r, stb)
           rsp == Answer(ans)
           c == Kept(r, stb, s)
<1> USE DEF Goes, Keeps, Download, Upload
<1>1. CacheClock(h, s, rsp) /\ Typed
  BY Signals DEF Core
<1>2. ctrl \in CtrlType /\ rsp.ack = ans /\ ans \in BOOLEAN /\ rsp.err \in BOOLEAN /\ h.a = r.a
  BY <1>1, Ranges
<1>3. /\ c \in CtrlType
      /\ c.state = ctrl.state /\ c.sync = ctrl.sync /\ c.bus_err = ctrl.bus_err /\ ~c.bp_req /\ ~c.cln
      /\ c.tag = ctrl.tag /\ c.idx = ctrl.idx /\ c.ofs_int = ctrl.ofs_int
      /\ c.ofs_ext = ctrl.ofs_ext /\ c.ofs_buf = ctrl.ofs_ext
  BY <1>1, Defaults
<1>4. Hold(h, s) = c
  BY DEF Kept
<1>5. CASE Idle(h, s)
  <2>1. ctrl.state = "S_IDLE"
    BY <1>5 DEF Idle
  <2>2. \/ ctrl' = [ToIdle(c) EXCEPT !.state = "S_SYNC_START", !.pnd_bp = FALSE]
        \/ ctrl' = [ToIdle(c) EXCEPT !.state = "S_CHECK", !.pnd_bp = h.a.t \in Uncached \/ h.amo]
        \/ ctrl' = [ToIdle(c) EXCEPT !.pnd_bp = FALSE]
    BY <1>4, <1>5 DEF Idle
  <2> HIDE DEF c, h, rsp
  <2>3. ctrl'.state \in {"S_IDLE", "S_SYNC_START", "S_CHECK"} /\ ~ctrl'.cln
    BY <1>3, <2>1, <2>2 DEF ToIdle, CtrlType
  <2> QED
    BY <2>1, <2>3
<1>6. CASE Check(h, s)
  <2>1. ctrl.state = "S_CHECK"
        /\ ctrl' = [c EXCEPT !.state = AfterCheck(h), !.tag = r.a.t, !.idx = r.a.i,
                             !.ofs_ext = 0, !.ofs_int = 0, !.pnd_req = FALSE, !.bp_req = TRUE]
    BY <1>2, <1>4, <1>6 DEF Check
  <2>2. AfterCheck(h) \in {"S_IDLE", "S_BYPASS", "S_READ_START", "S_WRITE_START"}
    BY <1>2 DEF AfterCheck, CtrlType
  <2> HIDE DEF c, h, rsp
  <2> QED
    BY <1>3, <2>1, <2>2 DEF CtrlType
<1>7. CASE Bypass(h, s, rsp)
  <2>1. ctrl.state = "S_BYPASS" /\ ctrl' = [c EXCEPT !.state = IF ans THEN "S_IDLE" ELSE c.state]
    BY <1>2, <1>4, <1>7 DEF Bypass
  <2> HIDE DEF c, h, rsp
  <2> QED
    BY <1>3, <2>1 DEF CtrlType
<1>8. CASE SyncStart(h, s)
  BY <1>3, <1>4, <1>8 DEF SyncStart, CtrlType
<1>9. CASE SyncDelay(h, s)
  BY <1>3, <1>4, <1>9 DEF SyncDelay, CtrlType
<1>10. CASE SyncCheck(h, s)
  BY <1>3, <1>4, <1>10 DEF SyncCheck, CtrlType
<1>11. CASE SyncNext(h, s)
  BY <1>3, <1>4, <1>11 DEF SyncNext, CtrlType
<1>12. CASE ReadStart(h, s)
  BY <1>3, <1>4, <1>12 DEF ReadStart, CtrlType
<1>13. CASE ReadDone(h, s)
  BY <1>3, <1>4, <1>13 DEF ReadDone, CtrlType
<1>14. CASE WriteStart(h, s)
  BY <1>3, <1>4, <1>14 DEF WriteStart, CtrlType
<1>15. CASE WriteReq(h, s)
  BY <1>3, <1>4, <1>15 DEF WriteReq, CtrlType
<1>16. CASE WriteWait(h, s)
  BY <1>3, <1>4, <1>16 DEF WriteWait, NextExt, CtrlType
<1>17. CASE WriteDone(h, s)
  BY <1>3, <1>4, <1>17 DEF WriteDone, CtrlType
<1>18. CASE ReadWait(h, s, rsp)
  <2> DEFINE next == IF BURSTS_EN THEN "S_READ_BURST" ELSE IF LastWord THEN "S_READ_DONE" ELSE "S_READ_START"
  <2>1. ctrl.state = "S_READ_WAIT" /\ (BURSTS_EN => ~LastWord)
    <3>1. ctrl.state = "S_READ_WAIT"
      BY <1>18 DEF ReadWait
    <3>2. BURSTS_EN => ctrl.ofs_int = 0
      BY <3>1 DEF Core, Counted
    <3> QED
      BY <3>1, <3>2, CachedAssumption DEF LastWord
  <2>2. CASE ~ans
    <3>1. ctrl' = c
      BY <1>2, <1>4, <1>18, <2>2 DEF ReadWait
    <3> HIDE DEF c, h, rsp
    <3> QED
      BY <1>2, <1>3, <2>1, <2>2, <3>1
  <2>3. CASE ans
    <3>1. ctrl' = [c EXCEPT !.ofs_int = (c.ofs_int + 1) % BLOCK_WORDS, !.bus_err = c.bus_err \/ rsp.err,
                            !.ofs_ext = (c.ofs_ext + 1) % (2 * BLOCK_WORDS), !.state = next]
      BY <1>2, <1>3, <1>4, <1>18, <2>3 DEF ReadWait, Taken, NextInt, NextExt
    <3>2. next \in {"S_READ_BURST", "S_READ_DONE", "S_READ_START"}
          /\ (next = "S_READ_DONE" => LastWord) /\ (next # "S_READ_DONE" => ~LastWord)
      BY <2>1
    <3> HIDE DEF c, h, rsp, next
    <3>3. /\ ctrl'.state = next /\ ctrl'.idx = ctrl.idx /\ ctrl'.tag = ctrl.tag
          /\ ctrl'.ofs_int = (ctrl.ofs_int + 1) % BLOCK_WORDS /\ ctrl'.bus_err = (ctrl.bus_err \/ rsp.err)
      BY <1>3, <3>1 DEF CtrlType
    <3> QED
      BY <2>1, <2>3, <3>2, <3>3 DEF rsp
  <2> QED
    BY <1>2, <2>2, <2>3
<1>19. CASE WriteRsp(h, s, rsp)
  <2> DEFINE next == IF BURSTS_EN THEN "S_WRITE_WAIT" ELSE IF LastWord THEN "S_WRITE_DONE" ELSE "S_WRITE_START"
  <2>1. ctrl.state = "S_WRITE_RSP" /\ (BURSTS_EN => ~LastWord)
    <3>1. ctrl.state = "S_WRITE_RSP"
      BY <1>19 DEF WriteRsp
    <3>2. BURSTS_EN => ctrl.ofs_int = 0
      BY <3>1 DEF Core, Counted
    <3> QED
      BY <3>1, <3>2, CachedAssumption DEF LastWord
  <2>2. CASE ~ans
    <3>1. ctrl' = c
      BY <1>2, <1>4, <1>19, <2>2 DEF WriteRsp
    <3> HIDE DEF c, h, rsp
    <3> QED
      BY <1>2, <1>3, <2>1, <2>2, <3>1
  <2>3. CASE ans
    <3>1. ctrl' = [c EXCEPT !.ofs_int = (c.ofs_int + 1) % BLOCK_WORDS, !.bus_err = c.bus_err \/ rsp.err,
                            !.ofs_ext = (c.ofs_ext + 1) % (2 * BLOCK_WORDS), !.state = next]
      BY <1>2, <1>3, <1>4, <1>19, <2>3 DEF WriteRsp, Taken, NextInt, NextExt
    <3>2. next \in {"S_WRITE_WAIT", "S_WRITE_DONE", "S_WRITE_START"}
          /\ (next = "S_WRITE_DONE" => LastWord) /\ (next # "S_WRITE_DONE" => ~LastWord)
      BY <2>1
    <3> HIDE DEF c, h, rsp, next
    <3>3. /\ ctrl'.state = next /\ ctrl'.idx = ctrl.idx /\ ctrl'.tag = ctrl.tag
          /\ ctrl'.ofs_int = (ctrl.ofs_int + 1) % BLOCK_WORDS /\ ctrl'.bus_err = (ctrl.bus_err \/ rsp.err)
      BY <1>3, <3>1 DEF CtrlType
    <3> QED
      BY <2>1, <2>3, <3>2, <3>3 DEF rsp
  <2> QED
    BY <1>2, <2>2, <2>3
<1>20. CASE ReadBurst(h, s, rsp)
  <2> DEFINE e1 == IF bus_stb THEN (c.ofs_ext + 1) % (2 * BLOCK_WORDS) ELSE c.ofs_ext
             c1 == IF bus_stb THEN NextExt(c) ELSE c
             next == IF LastWord THEN "S_READ_DONE" ELSE c1.state
  <2>1. ctrl.state = "S_READ_BURST"
    BY <1>20 DEF ReadBurst
  <2>2. /\ c1 \in CtrlType /\ c1.state = ctrl.state /\ c1.idx = ctrl.idx /\ c1.tag = ctrl.tag
        /\ c1.ofs_int = ctrl.ofs_int /\ c1.bus_err = ctrl.bus_err /\ c1.ofs_buf = ctrl.ofs_ext
    <3>1. (ctrl.ofs_ext + 1) % (2 * BLOCK_WORDS) \in 0 .. 2 * BLOCK_WORDS - 1
      BY <1>1, Ranges
    <3>2. c1 = [c EXCEPT !.ofs_ext = e1]
      BY <1>3 DEF NextExt, CtrlType
    <3> HIDE DEF c, c1
    <3> QED
      BY <1>3, <3>1, <3>2 DEF CtrlType
  <2>3. ctrl' = IF ~ans THEN c1 ELSE [Taken(c1, rsp) EXCEPT !.state = next]
    BY <1>2, <1>4, <1>20 DEF ReadBurst, Taken, NextInt
  <2> HIDE DEF c1
  <2>4. CASE ~ans
    BY <2>1, <2>2, <2>3, <2>4
  <2>5. CASE ans
    <3>1. ctrl' = [c1 EXCEPT !.ofs_int = (c1.ofs_int + 1) % BLOCK_WORDS, !.bus_err = c1.bus_err \/ rsp.err,
                             !.state = next]
      BY <2>2, <2>3, <2>5 DEF Taken, NextInt
    <3> HIDE DEF c, h, rsp, next
    <3>2. /\ ctrl'.state = next /\ ctrl'.idx = ctrl.idx /\ ctrl'.tag = ctrl.tag
          /\ ctrl'.ofs_int = (ctrl.ofs_int + 1) % BLOCK_WORDS /\ ctrl'.bus_err = (ctrl.bus_err \/ rsp.err)
          /\ ctrl'.ofs_buf = ctrl.ofs_ext
      BY <2>2, <3>1 DEF CtrlType
    <3> QED
      BY <2>1, <2>2, <2>5, <3>2 DEF rsp, next
  <2> QED
    BY <1>2, <2>4, <2>5
<1>21. CASE WriteBurst(h, s, rsp)
  <2> DEFINE e1 == IF bus_stb THEN (c.ofs_ext + 1) % (2 * BLOCK_WORDS) ELSE c.ofs_ext
             c1 == IF bus_stb THEN NextExt(c) ELSE c
             next == IF LastWord THEN "S_WRITE_DONE" ELSE c1.state
  <2>1. ctrl.state = "S_WRITE_BURST"
    BY <1>21 DEF WriteBurst
  <2>2. /\ c1 \in CtrlType /\ c1.state = ctrl.state /\ c1.idx = ctrl.idx /\ c1.tag = ctrl.tag
        /\ c1.ofs_int = ctrl.ofs_int /\ c1.bus_err = ctrl.bus_err /\ c1.ofs_buf = ctrl.ofs_ext
    <3>1. (ctrl.ofs_ext + 1) % (2 * BLOCK_WORDS) \in 0 .. 2 * BLOCK_WORDS - 1
      BY <1>1, Ranges
    <3>2. c1 = [c EXCEPT !.ofs_ext = e1]
      BY <1>3 DEF NextExt, CtrlType
    <3> HIDE DEF c, c1
    <3> QED
      BY <1>3, <3>1, <3>2 DEF CtrlType
  <2>3. ctrl' = IF ~ans THEN c1 ELSE [Taken(c1, rsp) EXCEPT !.state = next]
    BY <1>2, <1>4, <1>21 DEF WriteBurst, Taken, NextInt
  <2> HIDE DEF c1
  <2>4. CASE ~ans
    BY <2>1, <2>2, <2>3, <2>4
  <2>5. CASE ans
    <3>1. ctrl' = [c1 EXCEPT !.ofs_int = (c1.ofs_int + 1) % BLOCK_WORDS, !.bus_err = c1.bus_err \/ rsp.err,
                             !.state = next]
      BY <2>2, <2>3, <2>5 DEF Taken, NextInt
    <3> HIDE DEF c, h, rsp, next
    <3>2. /\ ctrl'.state = next /\ ctrl'.idx = ctrl.idx /\ ctrl'.tag = ctrl.tag
          /\ ctrl'.ofs_int = (ctrl.ofs_int + 1) % BLOCK_WORDS /\ ctrl'.bus_err = (ctrl.bus_err \/ rsp.err)
          /\ ctrl'.ofs_buf = ctrl.ofs_ext
      BY <2>2, <3>1 DEF CtrlType
    <3> QED
      BY <2>1, <2>2, <2>5, <3>2 DEF rsp, next
  <2> QED
    BY <1>2, <2>4, <2>5
<1> HIDE DEF h, rsp, c, Goes, Keeps
<1> QED
  BY <1>1, <1>5, <1>6, <1>7, <1>8, <1>9, <1>10, <1>11, <1>12, <1>13, <1>14, <1>15, <1>16,
     <1>17, <1>18, <1>19, <1>20, <1>21 DEF CacheClock

-----------------------------------------------------------------------------
(* What a clock edge does to the memories.                                 *)

\* Most states only look at the cache's memories.
LEMMA LooksOnly ==
    ASSUME Core, NEW r, NEW stb, NEW s, NEW ans, Edge(r, stb, s, ans),
           ctrl.state \notin {"S_CHECK", "S_READ_WAIT", "S_READ_BURST", "S_READ_DONE",
                             "S_WRITE_DONE", "S_SYNC_NEXT"}
    PROVE  /\ ram' = ram /\ SameStatus
           /\ ctrl.state = "S_IDLE" => rd'.data = ram.data[<<r.a.i, r.a.o>>]
           /\ ctrl.state = "S_WRITE_START" => rd'.data = ram.data[<<ctrl.idx, ctrl.ofs_int>>]
           /\ ctrl.state \in {"S_WRITE_WAIT", "S_WRITE_BURST"} /\ ctrl.ofs_ext \in Offset =>
                 rd'.data = ram.data[<<ctrl.idx, ctrl.ofs_ext>>]
<1> DEFINE h == Drives(r, stb)
           rsp == Answer(ans)
<1>1. CacheClock(h, s, rsp) /\ Typed /\ r.a \in Addr /\ h.a = r.a
  BY Signals, Ranges DEF Core
<1>2. /\ Line(ctrl.ofs_int) = At(ctrl.ofs_int) /\ Line(ctrl.ofs_int) \in Addr /\ Line(ctrl.ofs_ext) \in Addr
      /\ ctrl.ofs_ext \in Offset => Line(ctrl.ofs_ext) = At(ctrl.ofs_ext)
  BY <1>1, Lines
<1> DEFINE site == IF ctrl.state \in {"S_WRITE_WAIT", "S_WRITE_BURST"} THEN Line(ctrl.ofs_ext)
                   ELSE IF ctrl.state \in {"S_IDLE", "S_BYPASS", "S_SYNC_START", "S_READ_START"} THEN r.a
                   ELSE Line(ctrl.ofs_int)
<1>3. Look(site)
  <2>1. CASE Idle(h, s) \/ Bypass(h, s, rsp) \/ SyncStart(h, s) \/ ReadStart(h, s)
    BY <1>1, <2>1 DEF Idle, Bypass, SyncStart, ReadStart
  <2>2. CASE SyncDelay(h, s) \/ SyncCheck(h, s) \/ WriteStart(h, s) \/ WriteReq(h, s) \/ WriteRsp(h, s, rsp)
    BY <2>2 DEF SyncDelay, SyncCheck, WriteStart, WriteReq, WriteRsp
  <2>3. CASE WriteWait(h, s) \/ WriteBurst(h, s, rsp)
    BY <2>3 DEF WriteWait, WriteBurst
  <2>4. ~Check(h, s) /\ ~SyncNext(h, s) /\ ~ReadWait(h, s, rsp) /\ ~ReadBurst(h, s, rsp)
        /\ ~ReadDone(h, s) /\ ~WriteDone(h, s)
    BY DEF Check, SyncNext, ReadWait, ReadBurst, ReadDone, WriteDone
  <2> HIDE DEF h, rsp, site
  <2> QED
    BY <1>1, <2>1, <2>2, <2>3, <2>4 DEF CacheClock
<1>4. site \in Addr
  BY <1>1, <1>2
<1> HIDE DEF site
<1>5. /\ ram' = ram /\ rd'.data = ram.data[<<site.i, site.o>>]
      /\ ram' \in [valid : [Block -> BOOLEAN], dirty : [Block -> BOOLEAN],
                   tag : [Block -> Tags], data : [Block \X Offset -> Word]]
      /\ rd' \in [valid : BOOLEAN, dirty : BOOLEAN, tag : Tags, data : Word]
  BY <1>1, <1>3, <1>4, Looks
<1>6. SameStatus
  BY <1>5 DEF SameStatus
<1>7. ctrl.state = "S_IDLE" => rd'.data = ram.data[<<r.a.i, r.a.o>>]
  BY <1>5 DEF site
<1>8. ctrl.state = "S_WRITE_START" => rd'.data = ram.data[<<ctrl.idx, ctrl.ofs_int>>]
  BY <1>2, <1>5 DEF site, At
<1>9. ctrl.state \in {"S_WRITE_WAIT", "S_WRITE_BURST"} /\ ctrl.ofs_ext \in Offset =>
                 rd'.data = ram.data[<<ctrl.idx, ctrl.ofs_ext>>]
  BY <1>2, <1>5 DEF site, At
<1> QED
  BY <1>5, <1>6, <1>7, <1>8, <1>9

\* The memory is written by a bypass and by an upload, word by word.
LEMMA Writings ==
    ASSUME Core, NEW r, NEW stb, NEW s, NEW ans, Edge(r, stb, s, ans)
    PROVE  /\ ans => ctrl.state \in {"S_BYPASS", "S_READ_WAIT", "S_READ_BURST", "S_WRITE_RSP", "S_WRITE_BURST"}
           /\ ~ans \/ ctrl.state \notin Upload \cup {"S_BYPASS"} => mem' = mem
           /\ ctrl.state \in Upload /\ ans =>
                 /\ Len(q) >= 1 /\ q[1].v \in Word
                 /\ mem' = IF At(ctrl.ofs_int) \in WriteErr THEN mem
                           ELSE [mem EXCEPT ![At(ctrl.ofs_int)] = q[1].v]
<1> USE DEF Core
<1>1. ans \in BOOLEAN
        /\ mem' = IF ans /\ Writes(q[1]) /\ ~Fails(q[1]) THEN [mem EXCEPT ![q[1].a] = q[1].v] ELSE mem
  BY Clocked DEF Edge
<1>2. ans => q \in Seq(Strobe) /\ Len(q) >= 1 /\ q[1].v \in Word /\ 1 \in 1 .. Len(q)
  <2>1. SUFFICES ASSUME ans PROVE q \in Seq(Strobe) /\ Len(q) >= 1 /\ q[1].v \in Word /\ 1 \in 1 .. Len(q)
    OBVIOUS
  <2>2. q \in Seq(Strobe) /\ q # << >> /\ q[1].v \in Word
    BY <2>1, Front DEF Edge, Typed
  <2>3. Len(q) >= 1 /\ 1 \in 1 .. Len(q)
    BY <2>2
  <2> QED
    BY <2>2, <2>3
<1>3. ans => ctrl.state \in {"S_BYPASS", "S_READ_WAIT", "S_READ_BURST", "S_WRITE_RSP", "S_WRITE_BURST"}
  <2>1. ans => Open # 0
    BY <1>2 DEF Queued
  <2> QED
    BY <2>1 DEF Open
<1>4. ctrl.ofs_int + 1 - 1 = ctrl.ofs_int
  BY Lines
<1>5. ans /\ ctrl.state \in Download \cup Upload =>
        q[1].a = At(ctrl.ofs_int) /\ q[1].rw = Storing /\ ~q[1].amo
  BY <1>2, <1>4 DEF Queued
<1>6. ctrl.state \in Download => ~Storing
  BY DEF Storing, Download, Upload
<1>7. ~ans \/ ctrl.state \notin Upload \cup {"S_BYPASS"} => mem' = mem
  BY <1>1, <1>3, <1>5, <1>6 DEF Writes, Download, Upload
<1>8. ctrl.state \in Upload /\ ans => mem' = IF At(ctrl.ofs_int) \in WriteErr THEN mem
                                             ELSE [mem EXCEPT ![At(ctrl.ofs_int)] = q[1].v]
  BY <1>1, <1>5 DEF Writes, Fails, Storing
<1> QED
  BY <1>2, <1>3, <1>7, <1>8

\* The words of an upload stay in their order.
LEMMA Carries ==
    ASSUME Core, NEW r, NEW stb, NEW s, NEW ans, Edge(r, stb, s, ans), Sent,
           ctrl.state \in Upload, ram'.data = ram.data,
           bus_stb => bus_ofs = ctrl.ofs_int + Len(q) /\ rd.data = ram.data[<<ctrl.idx, bus_ofs>>]
    PROVE  \A k \in 1 .. Len(q') : q'[k].v = ram'.data[<<ctrl.idx, ctrl.ofs_int + Bit(ans) + k - 1>>]
<1> DEFINE b == bus_req(Drives(r, stb))
           i == ctrl.ofs_int
           g == Bit(ans)
<1> USE DEF Core
<1>1. b.stb = bus_stb /\ b.v = rd.data
  BY DEF bus_req, Upload
<1>2. /\ q \in Seq(Strobe) /\ g <= Len(q) /\ Len(q') = Len(q) - g + Bit(b.stb)
      /\ \A k \in 1 .. Len(q') : q'[k] = IF k <= Len(q) - g THEN q[k + g] ELSE b
  BY Clocked
<1>3. i \in Nat /\ g \in {0, 1} /\ Len(q) \in Nat /\ Bit(bus_stb) = IF bus_stb THEN 1 ELSE 0
  BY <1>2, Lines DEF Bit
<1>4. \A k \in 1 .. Len(q) : q[k].v = ram.data[<<ctrl.idx, i + k - 1>>]
  BY DEF Sent
<1> HIDE DEF b, g
<1>5. ASSUME NEW k \in 1 .. Len(q')
      PROVE  q'[k].v = ram.data[<<ctrl.idx, i + g + k - 1>>]
  <2>1. q'[k] = IF k <= Len(q) - g THEN q[k + g] ELSE b
    BY <1>2
  <2>2. k \in Nat /\ k >= 1 /\ k <= Len(q) - g + Bit(bus_stb)
    BY <1>1, <1>2, <1>3
  <2>3. CASE k <= Len(q) - g
    <3>1. k + g \in 1 .. Len(q) /\ i + (k + g) - 1 = i + g + k - 1
      BY <1>3, <2>2, <2>3
    <3>2. q[k + g].v = ram.data[<<ctrl.idx, i + (k + g) - 1>>]
      BY <1>4, <3>1
    <3> QED
      BY <2>1, <2>3, <3>1, <3>2
  <2>4. CASE ~(k <= Len(q) - g)
    <3>1. bus_stb /\ k = Len(q) - g + 1
      BY <1>3, <2>2, <2>4
    <3>2. bus_ofs = i + Len(q) /\ i + Len(q) = i + g + k - 1
      BY <1>3, <3>1
    <3>3. q'[k].v = ram.data[<<ctrl.idx, bus_ofs>>]
      BY <1>1, <2>1, <2>4, <3>1
    <3> QED
      BY <3>2, <3>3
  <2> QED
    BY <2>3, <2>4
<1> QED
  BY <1>5 DEF g

-----------------------------------------------------------------------------
(* What the software sees.                                                 *)

\* The software sees the same if it does so at every address.
LEMMA SameView ==
    ASSUME \A a \in Addr : (IF Cached(a)' THEN ram'.data[<<a.i, a.o>>] ELSE mem'[a])
                           = (IF Cached(a) THEN ram.data[<<a.i, a.o>>] ELSE mem[a])
    PROVE  View' = View
BY DEF View

\* It sees one word more if that word is written.
LEMMA OneWord ==
    ASSUME NEW x \in Addr, NEW v,
           \A a \in Addr : (IF Cached(a)' THEN ram'.data[<<a.i, a.o>>] ELSE mem'[a])
                           = IF a = x THEN v
                             ELSE IF Cached(a) THEN ram.data[<<a.i, a.o>>] ELSE mem[a]
    PROVE  View' = [View EXCEPT ![x] = v]
BY DEF View

\* An address is a block's word.
LEMMA Words ==
    /\ \A a \in Addr : a.i \in Block /\ a.o \in Offset /\ a.t \in Tags /\ a = [t |-> a.t, i |-> a.i, o |-> a.o]
    /\ \A b \in Block : \A o \in Offset :
          Held(b, o).t = ram.tag[b] /\ Held(b, o).i = b /\ Held(b, o).o = o
    /\ \A o : At(o).t = ctrl.tag /\ At(o).i = ctrl.idx /\ At(o).o = o
BY DEF Addr, Held, At

\* A step that changes neither data nor status.
LEMMA Unmoved ==
    ASSUME Core, Agreed, SameStatus, ram'.data = ram.data, mem' = mem,
           Fetching' <=> Fetching,
           Fetching => ctrl'.idx = ctrl.idx /\ ctrl'.tag = ctrl.tag /\ ctrl'.bus_err = ctrl.bus_err,
           Storing' => ctrl'.idx = ctrl.idx,
           \A o \in Offset : (Fetching' \/ Storing') /\ Done(o)' => (Fetching \/ Storing) /\ Done(o),
           ctrl'.state = "S_SYNC_NEXT" =>
              /\ ctrl'.idx = ctrl.idx
              /\ ram.valid[ctrl.idx] /\ ~ctrl'.bus_err => \A o \in Offset : Same(ctrl.idx, o)
    PROVE  Agreed' /\ View' = View
<1>1. \A b \in Block : \A o \in Offset : Same(b, o)' = Same(b, o) /\ Held(b, o)' = Held(b, o)
  BY DEF Same, Held, SameStatus
<1>2. \A b \in Block : ram'.valid[b] /\ ~ram'.dirty[b] /\ ~(Fetching' /\ b = ctrl'.idx) =>
            \A o \in Offset : Same(b, o)'
  BY <1>1 DEF Agreed, SameStatus
<1>3. Fetching' /\ ~ctrl'.bus_err =>
            \A o \in Offset : Done(o)' => ram'.data[<<ctrl'.idx, o>>] = mem'[At(o)']
  <2>1. ~(Fetching /\ Storing)
    BY DEF Fetching, Storing, Download, Upload
  <2>2. Fetching' => \A o \in Offset : At(o)' = At(o)
    BY DEF At
  <2> QED
    BY <2>1, <2>2 DEF Agreed
<1>4. Storing' => \A o \in Offset : Done(o)' /\ Held(ctrl.idx, o)' \notin WriteErr => Same(ctrl.idx, o)'
  <2> SUFFICES ASSUME Storing', NEW o \in Offset, Done(o)', Held(ctrl.idx, o)' \notin WriteErr
               PROVE  Same(ctrl.idx, o)'
    OBVIOUS
  <2>1. ~(Fetching' /\ Storing') /\ ctrl.idx \in Block /\ ctrl'.idx = ctrl.idx
    BY Lines DEF Fetching, Storing, Download, Upload, Core
  <2>2. Held(ctrl.idx, o) \notin WriteErr
    BY <2>1 DEF Held, SameStatus
  <2>3. Same(ctrl.idx, o)
    BY <2>1, <2>2 DEF Agreed
  <2> QED
    BY <2>1, <2>3 DEF Same, Held, SameStatus
<1>5. ctrl'.state = "S_SYNC_NEXT" /\ ram'.valid[ctrl'.idx] /\ ~ctrl'.bus_err =>
        \A o \in Offset : Same(ctrl.idx, o)'
  <2>1. ctrl.idx \in Block
    BY Lines DEF Core
  <2> QED
    BY <1>1, <2>1 DEF SameStatus
<1>6. Agreed'
  <2>1. ctrl'.state = "S_SYNC_NEXT" /\ ram'.valid[ctrl'.idx] /\ ~ctrl'.bus_err =>
          \A o \in Offset : ram'.data[<<ctrl'.idx, o>>] = mem'[Held(ctrl.idx, o)']
    BY <1>5 DEF Same
  <2> QED
    BY <1>2, <1>3, <1>4, <1>5, <2>1 DEF Agreed, Same, Held
<1>7. \A a \in Addr : Cached(a)' = Cached(a)
  BY DEF Cached, SameStatus, Fetching
<1> QED
  BY <1>6, <1>7, SameView

\* A word of an upload arrives: the memory has what the cache has.
LEMMA Uploaded ==
    ASSUME Core, Agreed, Sent, NEW r, NEW stb, NEW s, NEW ans, Edge(r, stb, s, ans), ans,
           ctrl.state \in {"S_WRITE_RSP", "S_WRITE_BURST"}, SameStatus, ram'.data = ram.data,
           Storing', ctrl'.idx = ctrl.idx,
           \A o \in Offset : Done(o)' => Done(o) \/ o = ctrl.ofs_int
    PROVE  Agreed' /\ View' = View
<1> USE DEF Core
<1>1. Storing /\ ~Fetching /\ ~Fetching' /\ ctrl'.state # "S_SYNC_NEXT" /\ ctrl.state \in Upload
  BY DEF Storing, Fetching, Upload, Download
<1>2. ctrl.idx \in Block /\ ctrl.ofs_int \in Offset /\ ctrl.ofs_int \in Nat
      /\ ram.valid[ctrl.idx] /\ ram.dirty[ctrl.idx] /\ ctrl.tag = ram.tag[ctrl.idx]
  BY <1>1, Lines DEF Latched
<1> DEFINE x == At(ctrl.ofs_int)
<1>3. x = Held(ctrl.idx, ctrl.ofs_int) /\ x \in Addr
  BY <1>2, Lines DEF At, Held, Addr
<1>4. Len(q) >= 1 /\ mem' = IF x \in WriteErr THEN mem ELSE [mem EXCEPT ![x] = q[1].v]
  BY <1>1, Writings
<1>5. q[1].v = ram.data[<<ctrl.idx, ctrl.ofs_int>>]
  <2>1. 1 \in 1 .. Len(q) /\ ctrl.ofs_int + 1 - 1 = ctrl.ofs_int
    BY <1>2, <1>4 DEF Typed
  <2> QED
    BY <1>1, <2>1 DEF Sent
<1>6. mem \in [Addr -> Word]
  BY DEF Typed, TypeOK
<1> HIDE DEF x
<1>7. \A a \in Addr : a # x => mem'[a] = mem[a]
  BY <1>3, <1>4, <1>6
<1>8. x \notin WriteErr => mem'[x] = ram.data[<<ctrl.idx, ctrl.ofs_int>>]
  BY <1>3, <1>4, <1>5, <1>6
<1>9. \A b \in Block : \A o \in Offset : Held(b, o)' = Held(b, o) /\ Held(b, o) \in Addr
  BY DEF Held, SameStatus, Addr, Typed, TypeOK, CacheTypeOK
<1>10. \A b \in Block : \A o \in Offset : b # ctrl.idx \/ o # ctrl.ofs_int => Same(b, o)' = Same(b, o)
  <2>1. \A b \in Block : \A o \in Offset : b # ctrl.idx \/ o # ctrl.ofs_int => Held(b, o) # x
    BY <1>2, <1>3 DEF Held
  <2> QED
    BY <1>7, <1>9, <2>1 DEF Same
<1>11. \A b \in Block : ram'.valid[b] /\ ~ram'.dirty[b] => \A o \in Offset : Same(b, o)'
  BY <1>1, <1>2, <1>10 DEF Agreed, SameStatus
<1>12. \A o \in Offset : Done(o)' /\ Held(ctrl.idx, o)' \notin WriteErr => Same(ctrl.idx, o)'
  <2> SUFFICES ASSUME NEW o \in Offset, Done(o)', Held(ctrl.idx, o)' \notin WriteErr
               PROVE  Same(ctrl.idx, o)'
    OBVIOUS
  <2>1. CASE o = ctrl.ofs_int
    BY <1>2, <1>3, <1>8, <1>9, <2>1 DEF Same
  <2>2. CASE o # ctrl.ofs_int
    BY <1>1, <1>2, <1>9, <1>10, <2>2 DEF Agreed
  <2> QED
    BY <2>1, <2>2
<1>13. Agreed'
  BY <1>1, <1>11, <1>12 DEF Agreed
<1>14. \A a \in Addr : Cached(a)' = Cached(a) /\ (~Cached(a) => mem'[a] = mem[a])
  <2>1. \A a \in Addr : Cached(a)' = Cached(a)
    BY <1>1 DEF Cached, SameStatus, Fetching
  <2>2. Cached(x)
    BY <1>1, <1>2, <1>3 DEF Cached, Fetching, Held
  <2> QED
    BY <1>7, <2>1, <2>2
<1> QED
  BY <1>13, <1>14, SameView

\* A word of a download arrives: the cache has what the memory has.
LEMMA Downloaded ==
    ASSUME Core, Agreed, NEW r, NEW stb, NEW s, NEW ans, Edge(r, stb, s, ans),
           ctrl.state \in {"S_READ_WAIT", "S_READ_BURST"}, SameStatus, mem' = mem,
           ram'.data = [ram.data EXCEPT ![<<ctrl.idx, ctrl.ofs_int>>] = Answer(ans).data],
           Fetching', ctrl'.idx = ctrl.idx, ctrl'.tag = ctrl.tag,
           ctrl'.bus_err = (ctrl.bus_err \/ (ans /\ Answer(ans).err)),
           \A o \in Offset : Done(o)' => Done(o) \/ (ans /\ o = ctrl.ofs_int)
    PROVE  Agreed' /\ View' = View
<1> USE DEF Core
<1>1. Fetching /\ ~Storing' /\ ctrl'.state # "S_SYNC_NEXT" /\ ctrl.state \in Download
  BY DEF Storing, Fetching, Upload, Download
<1>2. ctrl.idx \in Block /\ ctrl.ofs_int \in Offset /\ ctrl.ofs_int \in Nat
  BY Lines
<1>3. ram.data \in [Block \X Offset -> Word] /\ <<ctrl.idx, ctrl.ofs_int>> \in Block \X Offset
  BY <1>2 DEF Typed, TypeOK, CacheTypeOK
<1>4. \A b \in Block : \A o \in Offset :
        ram'.data[<<b, o>>] = IF b = ctrl.idx /\ o = ctrl.ofs_int THEN Answer(ans).data ELSE ram.data[<<b, o>>]
  BY <1>3
<1>5. ans /\ ~Answer(ans).err => Answer(ans).data = mem[At(ctrl.ofs_int)]
  <2>1. SUFFICES ASSUME ans, ~Answer(ans).err PROVE Answer(ans).data = mem[At(ctrl.ofs_int)]
    OBVIOUS
  <2>2. q \in Seq(Strobe) /\ q # << >> /\ Oldest = q[1]
    BY <2>1, Front DEF Edge, Typed
  <2>3. 1 \in 1 .. Len(q) /\ ctrl.ofs_int + 1 - 1 = ctrl.ofs_int
    BY <1>2, <2>2
  <2>4. q[1].a = At(ctrl.ofs_int) /\ q[1].rw = Storing /\ ~Storing
    BY <1>1, <2>3 DEF Queued, Storing, Upload, Download
  <2>5. ~Fails(Oldest)
    BY <2>1 DEF Answer
  <2> QED
    BY <2>1, <2>2, <2>4, <2>5 DEF Answer
<1>6. \A b \in Block : ram'.valid[b] /\ ~ram'.dirty[b] /\ ~(Fetching' /\ b = ctrl'.idx) =>
            \A o \in Offset : Same(b, o)'
  <2>1. \A b \in Block : \A o \in Offset : b # ctrl.idx => Same(b, o)' = Same(b, o)
    BY <1>4 DEF Same, Held, SameStatus
  <2> QED
    BY <1>1, <2>1 DEF Agreed, SameStatus
<1>7. ~ctrl'.bus_err => \A o \in Offset : Done(o)' => ram'.data[<<ctrl'.idx, o>>] = mem'[At(o)']
  <2> SUFFICES ASSUME ~ctrl'.bus_err, NEW o \in Offset, Done(o)'
               PROVE  ram'.data[<<ctrl.idx, o>>] = mem[At(o)]
    BY DEF At
  <2>1. ~ctrl.bus_err /\ (ans => ~Answer(ans).err)
    OBVIOUS
  <2>2. CASE o = ctrl.ofs_int
    <3>1. ~Done(o)
      BY <1>1, <1>2, <2>2 DEF Done, Download
    <3> QED
      BY <1>2, <1>4, <1>5, <2>1, <2>2, <3>1
  <2>3. CASE o # ctrl.ofs_int
    BY <1>1, <1>2, <1>4, <2>1, <2>3 DEF Agreed
  <2> QED
    BY <2>2, <2>3
<1>8. Agreed'
  BY <1>1, <1>6, <1>7 DEF Agreed
<1>9. \A a \in Addr : Cached(a)' = Cached(a) /\ (Cached(a) => a.i # ctrl.idx)
  BY <1>1 DEF Cached, SameStatus, Fetching
<1>10. \A a \in Addr : Cached(a) => ram'.data[<<a.i, a.o>>] = ram.data[<<a.i, a.o>>]
  BY <1>4, <1>9, Words
<1> QED
  BY <1>8, <1>9, <1>10, SameView

\* The offset moves on by the word that is answered, unless it was the last.
LEMMA MovesOn ==
    ASSUME Core, NEW r, NEW stb, NEW s, NEW ans, Edge(r, stb, s, ans),
           ctrl.state \in Download \cup Upload, ctrl'.state \in Download \cup Upload
    PROVE  /\ ctrl'.ofs_int = ctrl.ofs_int + Bit(ans) /\ ctrl.ofs_int \in Nat
           /\ ctrl'.bus_err = (ctrl.bus_err \/ (ans /\ Answer(ans).err))
<1>1. Keeps(r, ans) /\ ctrl.ofs_int \in Offset /\ ctrl.ofs_int \in Nat
  BY Registers, Lines DEF Core
<1>2. ~LastWord => (ctrl.ofs_int + 1) % BLOCK_WORDS = ctrl.ofs_int + 1
  BY <1>1, Counters DEF LastWord
<1>3. ans => ctrl.state \in {"S_READ_WAIT", "S_READ_BURST", "S_WRITE_RSP", "S_WRITE_BURST"}
  BY Writings DEF Download, Upload
<1>4. Answer(ans).err \in BOOLEAN /\ ctrl.bus_err \in BOOLEAN /\ ans \in BOOLEAN
  BY Ranges DEF Core, CtrlType
<1>5. CASE ans
  <2>1. ctrl'.ofs_int = ctrl.ofs_int + 1 /\ ctrl'.bus_err = (ctrl.bus_err \/ Answer(ans).err)
    BY <1>1, <1>2, <1>3, <1>5 DEF Keeps
  <2> QED
    BY <1>1, <1>4, <1>5, <2>1 DEF Bit
<1>6. CASE ~ans
  <2>1. ctrl'.ofs_int = ctrl.ofs_int /\ ctrl'.bus_err = ctrl.bus_err
    BY <1>1, <1>6 DEF Keeps
  <2> QED
    BY <1>1, <1>4, <1>6, <2>1 DEF Bit
<1> QED
  BY <1>4, <1>5, <1>6

\* Every word is sent from its place.
LEMMA SentKeeps ==
    ASSUME Core, Core', Sent, NEW r, NEW stb, NEW s, NEW ans, Edge(r, stb, s, ans)
    PROVE  Sent'
<1> USE DEF Core
<1>1. Goes(r, ans) /\ Keeps(r, ans)
  BY Registers
<1>2. CASE ctrl'.state \notin Upload
  BY <1>2 DEF Sent, Upload
<1>3. ASSUME ctrl'.state \in {"S_WRITE_START", "S_WRITE_WAIT"} PROVE Sent'
  <2>1. Len(q') = 0
    BY <1>3 DEF Queued, Open
  <2> QED
    BY <1>3, <2>1 DEF Sent
\* A state of an upload that another one of its states leads to.
<1>4. ASSUME ctrl'.state \in {"S_WRITE_REQ", "S_WRITE_RSP", "S_WRITE_BURST"}
      PROVE  /\ ctrl.state \in Upload /\ ctrl'.idx = ctrl.idx /\ ram' = ram
             /\ ctrl'.ofs_int = ctrl.ofs_int + Bit(ans) /\ ctrl.ofs_int \in Nat
             /\ \/ ctrl.state = "S_WRITE_START" /\ ctrl'.state = "S_WRITE_REQ" /\ ~ans
                \/ ctrl.state = "S_WRITE_REQ" /\ ctrl'.state = "S_WRITE_RSP" /\ ~ans
                \/ ctrl.state = "S_WRITE_RSP" /\ ctrl'.state = "S_WRITE_RSP" /\ ~ans
                \/ ctrl.state = "S_WRITE_WAIT" /\ ctrl'.state = "S_WRITE_BURST" /\ ~ans
                \/ ctrl.state = "S_WRITE_BURST" /\ ctrl'.state = "S_WRITE_BURST"
  <2>1. ctrl.state \in State
    BY Ranges DEF CtrlType
  <2>2. ans => ctrl.state \in {"S_BYPASS", "S_READ_WAIT", "S_READ_BURST", "S_WRITE_RSP", "S_WRITE_BURST"}
    BY Writings
  <2>3. /\ ctrl.state \in Upload
        /\ \/ ctrl.state = "S_WRITE_START" /\ ctrl'.state = "S_WRITE_REQ"
           \/ ctrl.state = "S_WRITE_REQ" /\ ctrl'.state = "S_WRITE_RSP"
           \/ ctrl.state = "S_WRITE_RSP" /\ ctrl'.state = "S_WRITE_RSP" /\ ~ans
           \/ ctrl.state = "S_WRITE_WAIT" /\ ctrl'.state = "S_WRITE_BURST"
           \/ ctrl.state = "S_WRITE_BURST" /\ ctrl'.state = "S_WRITE_BURST"
    BY <1>1, <1>4, <2>1 DEF Goes, State, Download, Upload
  <2>4. ctrl'.idx = ctrl.idx
    BY <1>1, <2>3 DEF Keeps
  <2>5. ram' = ram
    BY <2>3, LooksOnly
  <2>6. ctrl'.ofs_int = ctrl.ofs_int + Bit(ans) /\ ctrl.ofs_int \in Nat
    BY <1>4, <2>3, MovesOn DEF Upload
  <2> QED
    BY <2>2, <2>3, <2>4, <2>5, <2>6
\* The words of the queue, if the one that is sent is the right one.
<1>5. ASSUME ctrl'.state \in {"S_WRITE_REQ", "S_WRITE_RSP", "S_WRITE_BURST"},
             bus_stb => bus_ofs = ctrl.ofs_int + Len(q) /\ rd.data = ram.data[<<ctrl.idx, bus_ofs>>]
      PROVE  \A k \in 1 .. Len(q') : q'[k].v = ram'.data[<<ctrl'.idx, ctrl'.ofs_int + k - 1>>]
  <2>1. /\ ctrl.state \in Upload /\ ctrl'.idx = ctrl.idx /\ ram'.data = ram.data
        /\ ctrl'.ofs_int = ctrl.ofs_int + Bit(ans)
    BY <1>4, <1>5
  <2>2. \A k \in 1 .. Len(q') : q'[k].v = ram'.data[<<ctrl.idx, ctrl.ofs_int + Bit(ans) + k - 1>>]
    BY <1>5, <2>1, Carries
  <2> QED
    BY <2>1, <2>2
<1>6. ASSUME ctrl'.state = "S_WRITE_REQ" PROVE Sent'
  <2>1. Len(q') = 0
    BY <1>6 DEF Queued, Open
  <2>2. ctrl.state = "S_WRITE_START" /\ ctrl'.idx = ctrl.idx /\ ctrl'.ofs_int = ctrl.ofs_int /\ ram' = ram
    BY <1>4, <1>6 DEF Bit
  <2>3. rd'.data = ram.data[<<ctrl.idx, ctrl.ofs_int>>]
    BY <2>2, LooksOnly
  <2> QED
    BY <1>6, <2>1, <2>2, <2>3 DEF Sent
<1>7. ASSUME ctrl'.state = "S_WRITE_RSP" PROVE Sent'
  <2>1. ctrl.state \in {"S_WRITE_REQ", "S_WRITE_RSP"}
    BY <1>4, <1>7
  <2>2. bus_stb => bus_ofs = ctrl.ofs_int + Len(q) /\ rd.data = ram.data[<<ctrl.idx, bus_ofs>>]
    <3>1. SUFFICES ASSUME bus_stb
                   PROVE  bus_ofs = ctrl.ofs_int + Len(q) /\ rd.data = ram.data[<<ctrl.idx, bus_ofs>>]
      OBVIOUS
    <3>2. ctrl.state = "S_WRITE_REQ"
      BY <2>1, <3>1 DEF bus_stb
    <3>3. bus_ofs = ctrl.ofs_int /\ Len(q) = 0
      BY <3>2 DEF bus_ofs, Counted, Queued, Open
    <3>4. ctrl.ofs_int \in Nat
      BY Lines
    <3> QED
      BY <3>2, <3>3, <3>4 DEF Sent
  <2> QED
    BY <1>5, <1>7, <2>2 DEF Sent
<1>8. ASSUME ctrl'.state = "S_WRITE_BURST" PROVE Sent'
  <2>1. ctrl.state \in {"S_WRITE_WAIT", "S_WRITE_BURST"}
    BY <1>4, <1>8
  <2>2. bus_stb => bus_ofs = ctrl.ofs_int + Len(q) /\ rd.data = ram.data[<<ctrl.idx, bus_ofs>>]
    <3>1. SUFFICES ASSUME bus_stb
                   PROVE  bus_ofs = ctrl.ofs_int + Len(q) /\ rd.data = ram.data[<<ctrl.idx, bus_ofs>>]
      OBVIOUS
    <3>2. ctrl.state = "S_WRITE_BURST" /\ ctrl.ofs_buf < BLOCK_WORDS
      BY <2>1, <3>1 DEF bus_stb
    <3>3. bus_ofs = ctrl.ofs_buf /\ Len(q) = ctrl.ofs_buf - ctrl.ofs_int
      BY <3>2 DEF bus_ofs, Queued, Open
    <3>4. ctrl.ofs_int \in Nat /\ ctrl.ofs_buf \in Nat
      BY Lines
    <3> QED
      BY <3>2, <3>3, <3>4 DEF Sent
  <2>3. ctrl'.ofs_buf = ctrl.ofs_ext /\ ctrl'.idx = ctrl.idx /\ ram' = ram
    BY <1>1, <1>4, <1>8, <2>1 DEF Keeps
  <2>4. ctrl'.ofs_buf < BLOCK_WORDS => rd'.data = ram.data[<<ctrl.idx, ctrl'.ofs_buf>>]
    <3>1. ctrl.ofs_ext < BLOCK_WORDS => ctrl.ofs_ext \in Offset
      BY Lines, CachedAssumption DEF Offset
    <3> QED
      BY <2>1, <2>3, <3>1, LooksOnly
  <2> QED
    BY <1>5, <1>8, <2>2, <2>3, <2>4 DEF Sent
<1> QED
  BY <1>2, <1>3, <1>6, <1>7, <1>8 DEF Upload

-----------------------------------------------------------------------------
(* The steps that write the cache's memories.                              *)

\* The action of each state.
LEMMA Acts ==
    ASSUME NEW h, NEW s, NEW rsp, CacheClock(h, s, rsp)
    PROVE  /\ ctrl.state = "S_CHECK" => Check(h, s)
           /\ ctrl.state = "S_READ_DONE" => ReadDone(h, s)
           /\ ctrl.state = "S_WRITE_DONE" => WriteDone(h, s)
           /\ ctrl.state = "S_SYNC_NEXT" => SyncNext(h, s)
           /\ ctrl.state = "S_READ_WAIT" => ReadWait(h, s, rsp)
           /\ ctrl.state = "S_READ_BURST" => ReadBurst(h, s, rsp)
<1>1. /\ Idle(h, s) => ctrl.state = "S_IDLE"
      /\ Check(h, s) => ctrl.state = "S_CHECK"
      /\ Bypass(h, s, rsp) => ctrl.state = "S_BYPASS"
      /\ SyncStart(h, s) => ctrl.state = "S_SYNC_START"
      /\ SyncDelay(h, s) => ctrl.state = "S_SYNC_DELAY"
      /\ SyncCheck(h, s) => ctrl.state = "S_SYNC_CHECK"
      /\ SyncNext(h, s) => ctrl.state = "S_SYNC_NEXT"
      /\ ReadStart(h, s) => ctrl.state = "S_READ_START"
  BY DEF Idle, Check, Bypass, SyncStart, SyncDelay, SyncCheck, SyncNext, ReadStart
<1>2. /\ ReadWait(h, s, rsp) => ctrl.state = "S_READ_WAIT"
      /\ ReadBurst(h, s, rsp) => ctrl.state = "S_READ_BURST"
      /\ ReadDone(h, s) => ctrl.state = "S_READ_DONE"
      /\ WriteStart(h, s) => ctrl.state = "S_WRITE_START"
      /\ WriteReq(h, s) => ctrl.state = "S_WRITE_REQ"
      /\ WriteRsp(h, s, rsp) => ctrl.state = "S_WRITE_RSP"
      /\ WriteWait(h, s) => ctrl.state = "S_WRITE_WAIT"
      /\ WriteBurst(h, s, rsp) => ctrl.state = "S_WRITE_BURST"
      /\ WriteDone(h, s) => ctrl.state = "S_WRITE_DONE"
  BY DEF ReadWait, ReadBurst, ReadDone, WriteStart, WriteReq, WriteRsp, WriteWait, WriteBurst, WriteDone
<1> QED
  BY <1>1, <1>2 DEF CacheClock

\* A new status of a block.
LEMMA Marked ==
    ASSUME Typed, NEW a \in Addr, NEW vld \in BOOLEAN, NEW drt \in BOOLEAN, NEW d \in Word,
           Access(a, Mark(vld, drt), FALSE, d)
    PROVE  /\ ram'.data = ram.data /\ rd'.data = ram.data[<<a.i, a.o>>]
           /\ ram'.valid[a.i] = vld /\ ram'.dirty[a.i] = drt /\ ram'.tag[a.i] = a.t
           /\ \A b \in Block : b # a.i => /\ ram'.valid[b] = ram.valid[b] /\ ram'.dirty[b] = ram.dirty[b]
                                          /\ ram'.tag[b] = ram.tag[b]
<1> DEFINE w == Mark(vld, drt)
<1>1. CacheTypeOK(Word) /\ ram.valid \in [Block -> BOOLEAN] /\ ram.dirty \in [Block -> BOOLEAN]
      /\ ram.tag \in [Block -> Tags] /\ a.i \in Block
  BY Words DEF Typed, TypeOK, CacheTypeOK
<1>2. w \in [set : BOOLEAN, vld : BOOLEAN, drt : BOOLEAN] /\ w.set /\ w.vld = vld /\ w.drt = drt
  BY DEF Mark
<1> HIDE DEF w
<1>3. /\ ram'.valid = IF w.set THEN [ram.valid EXCEPT ![a.i] = w.vld] ELSE ram.valid
      /\ ram'.tag = IF w.set THEN [ram.tag EXCEPT ![a.i] = a.t] ELSE ram.tag
      /\ ram'.dirty = IF w.set \/ w.drt THEN [ram.dirty EXCEPT ![a.i] = w.drt] ELSE ram.dirty
      /\ ram'.data = IF FALSE THEN [ram.data EXCEPT ![<<a.i, a.o>>] = d] ELSE ram.data
      /\ rd' = [valid |-> ram.valid[a.i], dirty |-> ram.dirty[a.i],
                tag |-> ram.tag[a.i], data |-> ram.data[<<a.i, a.o>>]]
  BY <1>1, <1>2, Memories DEF w
<1>4. /\ ram'.valid = [ram.valid EXCEPT ![a.i] = vld] /\ ram'.tag = [ram.tag EXCEPT ![a.i] = a.t]
      /\ ram'.dirty = [ram.dirty EXCEPT ![a.i] = drt]
      /\ ram'.data = ram.data /\ rd'.data = ram.data[<<a.i, a.o>>]
  BY <1>2, <1>3
<1> QED
  BY <1>1, <1>4

\* The look-up ends with a store, or with a clean copy that is dropped.
Stores(r) == ~Bypasses(r) /\ In(r) /\ r.op = "st"
Drops(r) == Bypasses(r) /\ In(r) /\ ~(ram.valid[r.a.i] /\ ram.dirty[r.a.i])

\* The look-up: what it does to the memories and what it answers.
LEMMA CheckActs ==
    ASSUME Core, NEW r, NEW stb, NEW s, NEW ans, Edge(r, stb, s, ans), ctrl.state = "S_CHECK"
    PROVE  LET rsp == host_rsp(Drives(r, stb), Answer(ans))
           IN  /\ r = req /\ (rsp.ack <=> ~Bypasses(r) /\ In(r)) /\ ~rsp.err /\ rsp.data = rd.data
               /\ ram'.data = IF Stores(r) THEN [ram.data EXCEPT ![<<r.a.i, r.a.o>>] = r.v] ELSE ram.data
               /\ ctrl'.state = "S_BYPASS" /\ In(r) => Drops(r)
               /\ ~Stores(r) /\ ~Drops(r) => SameStatus
               /\ \A b \in Block : /\ ram'.valid[b] <=> ram.valid[b] /\ ~(Drops(r) /\ b = r.a.i)
                                   /\ ram'.tag[b] = ram.tag[b]
                                   /\ ram'.valid[b] /\ ~ram'.dirty[b] => ~ram.dirty[b] /\ ~(Stores(r) /\ b = r.a.i)
<1> DEFINE h == Drives(r, stb)
           rsp == host_rsp(h, Answer(ans))
           mark == IF Drops(r) THEN Mark(FALSE, FALSE) ELSE IF Stores(r) THEN Modify ELSE Read
<1> USE DEF Core
<1>1. r = req /\ ctrl.pnd_bp = Bypasses(r)
  BY Busy DEF Serving
<1>2. /\ (Hit(h) <=> In(r))
      /\ ~(Hit(h) /\ ~Bypasses(r)) => (Dirty <=> ram.valid[r.a.i] /\ ram.dirty[r.a.i])
  BY CheckLooksUp DEF In
<1>3. (rsp.ack <=> ~Bypasses(r) /\ In(r)) /\ ~rsp.err /\ rsp.data = rd.data
  BY <1>1, <1>2 DEF host_rsp
<1>4. /\ Drops(r) \in BOOLEAN /\ Stores(r) \in BOOLEAN /\ Bypasses(r) \in BOOLEAN
      /\ r.a \in Addr /\ r.v \in Word /\ r.a.i \in Block /\ r.a.t \in Tags
      /\ h.v = r.v /\ h.a = r.a /\ (h.rw <=> r.op = "st")
  BY Signals, Ranges DEF Drops, Stores, Bypasses, Drives
<1>5. Check(h, s)
  BY Signals, Acts
<1>6. Access(r.a, mark, Stores(r), r.v)
  <2>1. (~ctrl.pnd_bp /\ Hit(h) /\ h.rw /\ ~READ_ONLY) = Stores(r)
    BY <1>1, <1>2, <1>4, CachedAssumption DEF Stores
  <2>2. (ctrl.pnd_bp /\ Hit(h) /\ ~Dirty) = Drops(r)
    BY <1>1, <1>2, <1>4 DEF Drops
  <2> HIDE DEF h
  <2> QED
    BY <1>4, <1>5, <2>1, <2>2 DEF Check
<1>7. /\ mark \in [set : BOOLEAN, vld : BOOLEAN, drt : BOOLEAN]
      /\ mark.set = Drops(r) /\ mark.drt = (Stores(r) /\ ~Drops(r)) /\ (Drops(r) => ~mark.vld)
  BY <1>4 DEF Mark, Modify, Read
<1>8. ~(Stores(r) /\ Drops(r))
  BY DEF Stores, Drops
<1> HIDE DEF mark, h, rsp
<1>9. /\ ram'.valid = IF Drops(r) THEN [ram.valid EXCEPT ![r.a.i] = mark.vld] ELSE ram.valid
      /\ ram'.tag = IF Drops(r) THEN [ram.tag EXCEPT ![r.a.i] = r.a.t] ELSE ram.tag
      /\ ram'.dirty = IF Drops(r) \/ Stores(r) THEN [ram.dirty EXCEPT ![r.a.i] = Stores(r)] ELSE ram.dirty
      /\ ram'.data = IF Stores(r) THEN [ram.data EXCEPT ![<<r.a.i, r.a.o>>] = r.v] ELSE ram.data
      /\ ram' \in [valid : [Block -> BOOLEAN], dirty : [Block -> BOOLEAN],
                   tag : [Block -> Tags], data : [Block \X Offset -> Word]]
      /\ rd' \in [valid : BOOLEAN, dirty : BOOLEAN, tag : Tags, data : Word]
  <2> DEFINE we == Stores(r)
             a == r.a
             d == r.v
  <2>1. CacheTypeOK(Word) /\ Access(a, mark, we, d) /\ a \in Addr /\ d \in Word /\ we \in BOOLEAN
    BY <1>4, <1>6 DEF Typed, TypeOK
  <2> HIDE DEF we, a, d
  <2>2. /\ ram'.valid = IF mark.set THEN [ram.valid EXCEPT ![a.i] = mark.vld] ELSE ram.valid
        /\ ram'.tag = IF mark.set THEN [ram.tag EXCEPT ![a.i] = a.t] ELSE ram.tag
        /\ ram'.dirty = IF mark.set \/ mark.drt THEN [ram.dirty EXCEPT ![a.i] = mark.drt] ELSE ram.dirty
        /\ ram'.data = IF we THEN [ram.data EXCEPT ![<<a.i, a.o>>] = d] ELSE ram.data
        /\ rd' = [valid |-> ram.valid[a.i], dirty |-> ram.dirty[a.i],
                  tag |-> ram.tag[a.i], data |-> ram.data[<<a.i, a.o>>]]
        /\ ram' \in [valid : [Block -> BOOLEAN], dirty : [Block -> BOOLEAN],
                     tag : [Block -> Tags], data : [Block \X Offset -> Word]]
        /\ rd' \in [valid : BOOLEAN, dirty : BOOLEAN, tag : Tags, data : Word]
    BY <1>7, <2>1, Memories
  <2>3. mark.drt = Stores(r) /\ mark.set = Drops(r)
    BY <1>4, <1>7, <1>8
  <2> QED
    BY <1>4, <2>2, <2>3 DEF we, a, d
<1>10. ram.valid \in [Block -> BOOLEAN] /\ ram.dirty \in [Block -> BOOLEAN] /\ ram.tag \in [Block -> Tags]
  BY DEF Typed, TypeOK, CacheTypeOK
<1>11. ~Stores(r) /\ ~Drops(r) => SameStatus
  BY <1>9 DEF SameStatus
<1>12. \A b \in Block : /\ ram'.valid[b] <=> ram.valid[b] /\ ~(Drops(r) /\ b = r.a.i)
                        /\ ram'.tag[b] = ram.tag[b]
                        /\ ram'.valid[b] /\ ~ram'.dirty[b] => ~ram.dirty[b] /\ ~(Stores(r) /\ b = r.a.i)
  <2>1. Drops(r) => ram.tag[r.a.i] = r.a.t /\ ~mark.vld
    BY <1>7 DEF Drops, In
  <2>2. CASE Drops(r)
    BY <1>4, <1>8, <1>9, <1>10, <2>1, <2>2
  <2>3. CASE Stores(r) /\ ~Drops(r)
    BY <1>4, <1>9, <1>10, <2>3
  <2>4. CASE ~Stores(r) /\ ~Drops(r)
    BY <1>9, <2>4
  <2> QED
    BY <2>2, <2>3, <2>4
<1>13. ctrl'.state = "S_BYPASS" /\ In(r) => Drops(r)
  <2>1. ctrl'.state = AfterCheck(h)
    <3>1. Hold(h, s) \in CtrlType
      BY Defaults DEF Kept, h
    <3> QED
      BY <1>5, <3>1 DEF Check, CtrlType
  <2>2. AfterCheck(h) = "S_BYPASS" => ctrl.pnd_bp /\ ~(Hit(h) /\ Dirty)
    BY <1>1, <1>4 DEF AfterCheck
  <2> QED
    BY <1>1, <1>2, <2>1, <2>2 DEF Drops
<1> QED
  BY <1>1, <1>3, <1>9, <1>11, <1>12, <1>13 DEF rsp, h

-----------------------------------------------------------------------------
(* Every step keeps cache and memory in agreement and serves the host.     *)

\* States that neither move nor drop a word.
QuietStates == {"S_IDLE", "S_SYNC_START", "S_SYNC_DELAY", "S_SYNC_CHECK", "S_READ_START",
                "S_WRITE_START", "S_WRITE_REQ", "S_WRITE_WAIT"}

\* In these states, and while a transfer waits, the agreement stays as it is.
LEMMA QuietData ==
    ASSUME Core, Agreed, NEW r, NEW stb, NEW s, NEW ans, Edge(r, stb, s, ans),
           ctrl.state \in QuietStates \/ (~ans /\ ctrl.state \in {"S_BYPASS", "S_WRITE_RSP", "S_WRITE_BURST"})
    PROVE  Agreed' /\ View' = View /\ SameStatus
<1>1. Goes(r, ans) /\ Keeps(r, ans) /\ ctrl.ofs_int \in Nat /\ ctrl.idx \in Block
  BY Registers, Lines DEF Core
<1>2. SameStatus /\ ram'.data = ram.data
  BY LooksOnly DEF QuietStates
<1>3. ~ans /\ mem' = mem
  BY Writings DEF QuietStates
<1>4. Fetching' <=> Fetching
  BY <1>1, <1>3 DEF Goes, Fetching, Download, QuietStates
<1>5. Fetching => ctrl'.idx = ctrl.idx /\ ctrl'.tag = ctrl.tag /\ ctrl'.bus_err = ctrl.bus_err
  BY <1>1, <1>3 DEF Keeps, Fetching, Download, QuietStates
<1>6. Storing' => ctrl'.idx = ctrl.idx
                  /\ ((ctrl.state = "S_SYNC_CHECK" /\ ctrl'.ofs_int = 0)
                      \/ (Storing /\ ctrl.state \in Upload /\ ctrl'.ofs_int = ctrl.ofs_int))
  BY <1>1, <1>3 DEF Goes, Keeps, Storing, Upload, Download, QuietStates
<1>7. Fetching' => Fetching /\ ctrl.state \in Download /\ ctrl'.ofs_int = ctrl.ofs_int
  BY <1>1, <1>3 DEF Goes, Keeps, Fetching, Download, QuietStates
<1>8. ctrl'.state \notin {"S_READ_DONE", "S_WRITE_DONE"}
  BY <1>1, <1>3 DEF Goes, QuietStates
<1>9. \A o \in Offset : (Fetching' \/ Storing') /\ Done(o)' => (Fetching \/ Storing) /\ Done(o)
  <2>1. \A o \in Offset : ~(o < 0)
    BY CachedAssumption DEF Offset
  <2> QED
    BY <1>6, <1>7, <1>8, <2>1 DEF Done
<1>10. ctrl'.state = "S_SYNC_NEXT" =>
              /\ ctrl'.idx = ctrl.idx
              /\ ram.valid[ctrl.idx] /\ ~ctrl'.bus_err => \A o \in Offset : Same(ctrl.idx, o)
  <2>1. SUFFICES ASSUME ctrl'.state = "S_SYNC_NEXT"
                 PROVE  /\ ctrl'.idx = ctrl.idx
                        /\ ram.valid[ctrl.idx] => \A o \in Offset : Same(ctrl.idx, o)
    OBVIOUS
  <2>2. ctrl.state = "S_SYNC_CHECK" /\ ~Dirty
    BY <1>1, <1>3, <2>1 DEF Goes, QuietStates
  <2>3. ctrl'.idx = ctrl.idx
    BY <1>1, <2>2 DEF Keeps
  <2>4. ram.valid[ctrl.idx] => ~ram.dirty[ctrl.idx]
    BY <2>2 DEF Core, Latched, Dirty
  <2>5. ~Fetching
    BY <2>2 DEF Fetching, Download
  <2> QED
    BY <1>1, <2>3, <2>4, <2>5 DEF Agreed
<1> QED
  BY <1>2, <1>3, <1>4, <1>5, <1>6, <1>9, <1>10, Unmoved

\* The cycles of a transfer.
LEMMA TransferData ==
    ASSUME Core, Agreed, Sent, NEW r, NEW stb, NEW s, NEW ans, Edge(r, stb, s, ans),
           \/ ctrl.state \in {"S_READ_WAIT", "S_READ_BURST"}
           \/ ans /\ ctrl.state \in {"S_WRITE_RSP", "S_WRITE_BURST"}
    PROVE  Agreed' /\ View' = View /\ SameStatus
<1>1. Goes(r, ans) /\ Keeps(r, ans) /\ ctrl.ofs_int \in Offset /\ ctrl.ofs_int \in Nat
      /\ \A o \in Offset : o \in Nat
  BY Registers, Lines, Counters DEF Core
<1>2. ctrl.state \in Download \cup Upload /\ ctrl'.state \in Download \cup Upload \cup {"S_READ_DONE", "S_WRITE_DONE"}
      /\ ctrl'.idx = ctrl.idx /\ (ctrl'.state \in {"S_READ_DONE", "S_WRITE_DONE"} => ans /\ LastWord)
  BY <1>1 DEF Goes, Keeps, Download, Upload
<1>3. \A o \in Offset : Done(o)' => Done(o) \/ (ans /\ o = ctrl.ofs_int)
  <2>1. CASE ctrl'.state \in {"S_READ_DONE", "S_WRITE_DONE"}
    BY <1>1, <1>2, <2>1, CachedAssumption DEF Done, LastWord, Offset
  <2>2. CASE ctrl'.state \in Download \cup Upload
    <3>1. ctrl'.ofs_int = ctrl.ofs_int + Bit(ans)
      BY <1>2, <2>2, MovesOn
    <3>2. \A o \in Offset : o < ctrl.ofs_int + Bit(ans) => o < ctrl.ofs_int \/ (ans /\ o = ctrl.ofs_int)
      BY <1>1 DEF Bit
    <3> QED
      BY <2>2, <3>1, <3>2 DEF Done, Download, Upload
  <2> QED
    BY <1>2, <2>1, <2>2
<1>4. CASE ctrl.state \in {"S_READ_WAIT", "S_READ_BURST"}
  <2>1. CacheClock(Drives(r, stb), s, Answer(ans)) /\ Answer(ans).data \in Word /\ Answer(ans).err \in BOOLEAN
    BY Signals, Ranges DEF Core
  <2>2. Access(Line(ctrl.ofs_int), Read, TRUE, Answer(ans).data)
    BY <1>4, <2>1, Acts DEF ReadWait, ReadBurst
  <2>3. Line(ctrl.ofs_int) = At(ctrl.ofs_int) /\ Line(ctrl.ofs_int) \in Addr
    BY <1>1, Lines DEF Core
  <2>4. SameStatus /\ ram'.data = [ram.data EXCEPT ![<<ctrl.idx, ctrl.ofs_int>>] = Answer(ans).data]
    <3> DEFINE a == Line(ctrl.ofs_int)
               d == Answer(ans).data
    <3>1. a \in Addr /\ d \in Word /\ a.i = ctrl.idx /\ a.o = ctrl.ofs_int
      BY <2>1, <2>3 DEF At
    <3>4. Access(a, Read, TRUE, d)
      BY <2>2
    <3>2. Typed
      BY DEF Core
    <3> HIDE DEF a, d
    <3>3. SameStatus /\ ram'.data = [ram.data EXCEPT ![<<a.i, a.o>>] = d]
      BY <3>1, <3>2, <3>4, Fills
    <3> QED
      BY <3>1, <3>3 DEF d
  <2>5. mem' = mem
    BY <1>4, Writings DEF Upload
  <2>6. Fetching' /\ ctrl'.tag = ctrl.tag /\ ctrl'.bus_err = (ctrl.bus_err \/ (ans /\ Answer(ans).err))
    <3>1. ctrl.bus_err \in BOOLEAN /\ ans \in BOOLEAN
      BY Ranges DEF Core, CtrlType
    <3>2. Fetching' /\ ctrl'.tag = ctrl.tag
      BY <1>1, <1>4 DEF Goes, Keeps, Fetching, Download
    <3>3. ctrl'.bus_err = (ctrl.bus_err \/ (ans /\ Answer(ans).err))
      BY <1>1, <1>4, <2>1, <3>1 DEF Keeps, Download
    <3> QED
      BY <3>2, <3>3
  <2> QED
    BY <1>2, <1>3, <1>4, <2>4, <2>5, <2>6, Downloaded
<1>5. CASE ans /\ ctrl.state \in {"S_WRITE_RSP", "S_WRITE_BURST"}
  <2>1. SameStatus /\ ram'.data = ram.data
    BY <1>5, LooksOnly
  <2>2. Storing'
    BY <1>1, <1>5 DEF Goes, Storing, Upload
  <2> QED
    BY <1>2, <1>3, <1>5, <2>1, <2>2, Uploaded
<1> QED
  BY <1>4, <1>5

\* A block that is fetched replaces the one before, which was clean.
LEMMA ReadDoneData ==
    ASSUME Core, Agreed, NEW r, NEW stb, NEW s, NEW ans, Edge(r, stb, s, ans), ctrl.state = "S_READ_DONE"
    PROVE  /\ Agreed' /\ View' = View /\ r = req /\ rd'.data = ram.data[<<r.a.i, r.a.o>>]
           /\ ram'.data = ram.data /\ ram'.tag[r.a.i] = r.a.t
           /\ \A b \in Block : b # r.a.i => ram'.valid[b] = ram.valid[b] /\ ram'.tag[b] = ram.tag[b]
<1> USE DEF Core
<1>1. /\ Goes(r, ans) /\ Keeps(r, ans) /\ mem' = mem /\ CacheClock(Drives(r, stb), s, Answer(ans))
      /\ r.a \in Addr /\ r.v \in Word /\ Drives(r, stb).a = r.a /\ Drives(r, stb).v = r.v
      /\ ctrl.bus_err \in BOOLEAN
  BY Registers, Writings, Signals, Ranges DEF Upload, CtrlType
<1>2. Fetching /\ ~Bypasses(req) /\ ctrl.tag = req.a.t /\ ctrl.idx = req.a.i /\ r = req
  BY Busy DEF Fetching, Protocol, Serving, Download
<1>3. Access(r.a, Mark(~ctrl.bus_err, FALSE), FALSE, r.v)
  BY <1>1, Acts DEF ReadDone, Filled
<1>4. /\ ram'.data = ram.data /\ rd'.data = ram.data[<<r.a.i, r.a.o>>]
      /\ ram'.valid[r.a.i] = ~ctrl.bus_err /\ ram'.dirty[r.a.i] = FALSE /\ ram'.tag[r.a.i] = r.a.t
      /\ \A b \in Block : b # r.a.i => /\ ram'.valid[b] = ram.valid[b] /\ ram'.dirty[b] = ram.dirty[b]
                                       /\ ram'.tag[b] = ram.tag[b]
  <2> DEFINE vld == ~ctrl.bus_err
             drt == FALSE
  <2>1. vld \in BOOLEAN /\ drt \in BOOLEAN /\ Access(r.a, Mark(vld, drt), FALSE, r.v) /\ r.a \in Addr /\ r.v \in Word
    BY <1>1, <1>3
  <2> HIDE DEF vld, drt
  <2>2. /\ ram'.data = ram.data /\ rd'.data = ram.data[<<r.a.i, r.a.o>>]
        /\ ram'.valid[r.a.i] = vld /\ ram'.dirty[r.a.i] = drt /\ ram'.tag[r.a.i] = r.a.t
        /\ \A b \in Block : b # r.a.i => /\ ram'.valid[b] = ram.valid[b] /\ ram'.dirty[b] = ram.dirty[b]
                                         /\ ram'.tag[b] = ram.tag[b]
    BY <2>1, Marked
  <2> QED
    BY <2>2 DEF vld, drt
<1>5. ~Fetching' /\ ~Storing' /\ ctrl'.state # "S_SYNC_NEXT"
  BY <1>1 DEF Goes, Fetching, Storing, Upload, Download
<1>6. ~ctrl.bus_err => \A o \in Offset : ram.data[<<ctrl.idx, o>>] = mem[At(o)]
  BY <1>2 DEF Agreed, Done
<1>7. ASSUME NEW b \in Block, ram'.valid[b], ~ram'.dirty[b], NEW o \in Offset PROVE Same(b, o)'
  <2>1. CASE b = r.a.i
    <3>1. ~ctrl.bus_err /\ ram'.tag[b] = ctrl.tag /\ b = ctrl.idx
      BY <1>2, <1>4, <1>7, <2>1
    <3> QED
      BY <1>1, <1>4, <1>6, <3>1 DEF Same, Held, At
  <2>2. CASE b # r.a.i
    <3>1. Same(b, o)
      BY <1>2, <1>4, <1>7, <2>2 DEF Agreed
    <3> QED
      BY <1>1, <1>4, <2>2, <3>1 DEF Same, Held
  <2> QED
    BY <2>1, <2>2
<1>8. Agreed'
  BY <1>5, <1>7 DEF Agreed
<1>9. ASSUME NEW a \in Addr
      PROVE  (IF Cached(a)' THEN ram'.data[<<a.i, a.o>>] ELSE mem'[a])
             = (IF Cached(a) THEN ram.data[<<a.i, a.o>>] ELSE mem[a])
  <2>1. a.i \in Block /\ a.o \in Offset /\ a = [t |-> a.t, i |-> a.i, o |-> a.o]
    BY Words
  <2>2. CASE a.i = r.a.i
    <3>1. ~Cached(a)
      BY <1>2, <2>2 DEF Cached, Fetching
    <3>2. Cached(a)' => ~ctrl.bus_err /\ a.t = ctrl.tag
      BY <1>2, <1>4, <2>2 DEF Cached
    <3>3. a.t = ctrl.tag => At(a.o) = a
      BY <1>2, <2>1, <2>2 DEF At
    <3> QED
      BY <1>1, <1>2, <1>4, <1>6, <2>1, <2>2, <3>1, <3>2, <3>3
  <2>3. CASE a.i # r.a.i
    <3>1. Cached(a)' <=> Cached(a)
      BY <1>2, <1>4, <1>5, <2>1, <2>3 DEF Cached, Fetching
    <3> QED
      BY <1>1, <1>4, <3>1
  <2> QED
    BY <2>2, <2>3
<1> QED
  BY <1>2, <1>4, <1>8, <1>9, SameView

\* No block appears in the cache, none changes its address.
NoNewBlock == \A b \in Block : ram'.valid[b] => ram.valid[b] /\ ram'.tag[b] = ram.tag[b]

\* A block that is dropped by a fence is in the memory.
LEMMA SyncNextData ==
    ASSUME Core, Agreed, NEW r, NEW stb, NEW s, NEW ans, Edge(r, stb, s, ans), ctrl.state = "S_SYNC_NEXT"
    PROVE  Agreed' /\ View' = View /\ NoNewBlock
<1> USE DEF Core
<1> DEFINE i == ctrl.idx
           a == Line(ctrl.ofs_int)
           e == ctrl.bus_err
<1>1. /\ Goes(r, ans) /\ mem' = mem /\ CacheClock(Drives(r, stb), s, Answer(ans))
      /\ e \in BOOLEAN /\ rd.data \in Word
  BY Registers, Writings, Signals, Ranges DEF Upload, CtrlType
<1>2. a \in Addr /\ a.i = i /\ a.t = ctrl.tag /\ i \in Block
  BY Lines
<1>3. Access(a, Mark(e, e), FALSE, rd.data)
  BY <1>1, Acts DEF SyncNext
<1>4. /\ ram'.data = ram.data /\ ram'.valid[i] = e /\ ram'.dirty[i] = e /\ ram'.tag[i] = ctrl.tag
      /\ \A b \in Block : b # i => /\ ram'.valid[b] = ram.valid[b] /\ ram'.dirty[b] = ram.dirty[b]
                                   /\ ram'.tag[b] = ram.tag[b]
  <2> DEFINE d == rd.data
  <2>1. Typed /\ d \in Word /\ Access(a, Mark(e, e), FALSE, d)
    BY <1>1, <1>3
  <2> HIDE DEF a, e, d, i
  <2>2. /\ ram'.data = ram.data /\ ram'.valid[a.i] = e /\ ram'.dirty[a.i] = e /\ ram'.tag[a.i] = a.t
        /\ \A b \in Block : b # a.i => /\ ram'.valid[b] = ram.valid[b] /\ ram'.dirty[b] = ram.dirty[b]
                                       /\ ram'.tag[b] = ram.tag[b]
    BY <1>1, <1>2, <2>1, Marked
  <2> QED
    BY <1>2, <2>2
<1>5. e => ram.valid[i] /\ ram.dirty[i] /\ ctrl.tag = ram.tag[i]
  BY DEF Transferred
<1>6. ~e /\ ram.valid[i] => \A o \in Offset : Same(i, o)
  BY DEF Agreed
<1>7. ~Fetching /\ ~Fetching' /\ ~Storing' /\ ctrl'.state # "S_SYNC_NEXT"
  BY <1>1 DEF Goes, Fetching, Storing, Upload, Download
<1> HIDE DEF i, e, a
<1>8. ASSUME NEW b \in Block, ram'.valid[b], ~ram'.dirty[b], NEW o \in Offset PROVE Same(b, o)'
  <2>1. b # i
    BY <1>4, <1>8
  <2>2. Same(b, o)
    BY <1>4, <1>7, <1>8, <2>1 DEF Agreed
  <2> QED
    BY <1>1, <1>4, <2>1, <2>2 DEF Same, Held
<1>9. Agreed'
  BY <1>7, <1>8 DEF Agreed
<1>10. NoNewBlock
  BY <1>2, <1>4, <1>5 DEF NoNewBlock
<1>11. ASSUME NEW x \in Addr
       PROVE  (IF Cached(x)' THEN ram'.data[<<x.i, x.o>>] ELSE mem'[x])
              = (IF Cached(x) THEN ram.data[<<x.i, x.o>>] ELSE mem[x])
  <2>1. x.i \in Block /\ x.o \in Offset /\ x = [t |-> x.t, i |-> x.i, o |-> x.o]
    BY Words
  <2>2. /\ Cached(x)' <=> ram'.valid[x.i] /\ ram'.tag[x.i] = x.t
        /\ Cached(x) <=> ram.valid[x.i] /\ ram.tag[x.i] = x.t
    BY <1>7 DEF Cached, Fetching
  <2>3. CASE x.i = i /\ ~e
    <3>1. Cached(x) => ram.data[<<x.i, x.o>>] = mem[x]
      BY <1>6, <2>1, <2>2, <2>3 DEF Same, Held
    <3> QED
      BY <1>1, <1>4, <2>2, <2>3, <3>1
  <2>4. CASE x.i # i \/ e
    BY <1>1, <1>4, <1>5, <2>1, <2>2, <2>4
  <2> QED
    BY <2>3, <2>4
<1> QED
  BY <1>9, <1>10, <1>11, SameView

\* A modified block that is replaced can be written back.
LEMMA NoLoss ==
    ASSUME Core, Known, Writable, ctrl.state = "S_WRITE_DONE", ~ctrl.sync
    PROVE  ~ctrl.bus_err
<1> USE DEF Core
<1>1. SUFFICES ASSUME ctrl.bus_err PROVE FALSE
  OBVIOUS
<1>2. Storing /\ ~Fetching /\ Serving /\ ctrl.idx \in Block
  BY Lines DEF Storing, Fetching, Serving, Download
<1>3. PICK o \in Offset : Held(ctrl.idx, o) \in WriteErr
  BY <1>1, <1>2 DEF Transferred
<1> DEFINE a == Held(ctrl.idx, o)
<1>4. /\ ram.valid[ctrl.idx] /\ (Bypasses(req) \/ ram.tag[ctrl.idx] # req.a.t)
      /\ req.a.i = ctrl.idx /\ req \in prog /\ prog \in Programs
  BY <1>2 DEF Latched, Protocol, Typed, TypeOK
<1>5. a \in WriteErr /\ a.t = ram.tag[ctrl.idx] /\ a.i = ctrl.idx
  BY <1>2, <1>3, Words
<1>6. a.t \notin Uncached /\ \A k \in Offset : Held(ctrl.idx, k) \notin ReadErr
  BY <1>2, <1>4, <1>5 DEF Sound
<1> HIDE DEF a
<1>7. ~\E e \in ReadErr : e.t = a.t /\ e.i = a.i
  <2>1. SUFFICES ASSUME NEW e \in ReadErr, e.t = a.t, e.i = a.i PROVE FALSE
    OBVIOUS
  <2>2. e.o \in Offset /\ e = [t |-> e.t, i |-> e.i, o |-> e.o]
    BY Words, CachedAssumption
  <2>3. e = Held(ctrl.idx, e.o)
    BY <1>5, <2>1, <2>2 DEF Held
  <2> QED
    BY <1>6, <2>2, <2>3
<1>8. PICK x \in prog : x.a.i = ctrl.idx /\ x.a.t = ram.tag[ctrl.idx]
  BY <1>2, <1>4 DEF Known
<1>9. req.a.t = x.a.t /\ ~Bypasses(req)
  BY <1>4, <1>5, <1>6, <1>7, <1>8 DEF Writable
<1> QED
  BY <1>4, <1>8, <1>9

\* A block that is written back is in the memory.
LEMMA WriteDoneData ==
    ASSUME Core, Agreed, Known, Writable, NEW r, NEW stb, NEW s, NEW ans, Edge(r, stb, s, ans),
           ctrl.state = "S_WRITE_DONE"
    PROVE  Agreed' /\ View' = View /\ NoNewBlock
<1> USE DEF Core
<1> DEFINE i == ctrl.idx
           a == Line(ctrl.ofs_int)
<1>1. /\ Goes(r, ans) /\ Keeps(r, ans) /\ mem' = mem /\ CacheClock(Drives(r, stb), s, Answer(ans))
      /\ ctrl.bus_err \in BOOLEAN /\ ctrl.sync \in BOOLEAN /\ rd.data \in Word
  BY Registers, Writings, Signals, Ranges DEF Upload, CtrlType
<1>2. a \in Addr /\ a.i = i /\ a.t = ctrl.tag /\ i \in Block
  BY Lines
<1>3. Storing /\ ~Fetching /\ ram.valid[i] /\ ram.dirty[i] /\ ctrl.tag = ram.tag[i]
  BY DEF Storing, Fetching, Download, Latched
<1>4. ~ctrl.bus_err => \A o \in Offset : Same(i, o)
  BY <1>3 DEF Agreed, Transferred, Done
<1>5. ~Fetching' /\ ~Storing'
  BY <1>1 DEF Goes, Fetching, Storing, Upload, Download
<1>6. WriteDone(Drives(r, stb), s)
  BY <1>1, Acts
<1>7. CASE ctrl.sync
  <2>1. Look(a)
    BY <1>6, <1>7 DEF WriteDone, Look
  <2>2. SameStatus /\ ram' = ram
    <3> HIDE DEF a
    <3>1. /\ ram' = ram
          /\ ram' \in [valid : [Block -> BOOLEAN], dirty : [Block -> BOOLEAN],
                       tag : [Block -> Tags], data : [Block \X Offset -> Word]]
          /\ rd' \in [valid : BOOLEAN, dirty : BOOLEAN, tag : Tags, data : Word]
      BY <1>2, <2>1, Looks
    <3> QED
      BY <3>1 DEF SameStatus
  <2>3. ctrl'.idx = ctrl.idx /\ ctrl'.bus_err = ctrl.bus_err
    BY <1>1 DEF Keeps
  <2>4. Agreed' /\ View' = View
    BY <1>1, <1>3, <1>4, <1>5, <2>2, <2>3, Unmoved
  <2> QED
    BY <2>2, <2>4 DEF NoNewBlock
<1>8. CASE ~ctrl.sync
  <2>1. ~ctrl.bus_err
    BY <1>8, NoLoss
  <2>2. /\ ram'.data = ram.data /\ ram'.valid[i] /\ ram'.tag[i] = ram.tag[i]
        /\ \A b \in Block : b # i => /\ ram'.valid[b] = ram.valid[b] /\ ram'.dirty[b] = ram.dirty[b]
                                     /\ ram'.tag[b] = ram.tag[b]
    <3> DEFINE vld == ~ctrl.bus_err
               drt == FALSE
               d == rd.data
    <3>1. Typed /\ d \in Word /\ vld \in BOOLEAN /\ drt \in BOOLEAN
      BY <1>1
    <3>2. Access(a, Mark(vld, drt), FALSE, d)
      BY <1>6, <1>8 DEF WriteDone
    <3>3. vld
      BY <2>1
    <3> HIDE DEF a, vld, drt, d, i
    <3>4. /\ ram'.data = ram.data /\ ram'.valid[a.i] = vld /\ ram'.tag[a.i] = a.t
          /\ \A b \in Block : b # a.i => /\ ram'.valid[b] = ram.valid[b] /\ ram'.dirty[b] = ram.dirty[b]
                                         /\ ram'.tag[b] = ram.tag[b]
      BY <1>2, <3>1, <3>2, Marked
    <3> QED
      BY <1>2, <1>3, <3>3, <3>4
  <2> HIDE DEF i, a
  <2>3. ctrl'.state # "S_SYNC_NEXT"
    BY <1>1, <1>8, <2>1 DEF Goes
  <2>4. ASSUME NEW b \in Block, ram'.valid[b], ~ram'.dirty[b], NEW o \in Offset PROVE Same(b, o)'
    <3>1. Same(b, o)
      BY <1>3, <1>4, <2>1, <2>2, <2>4 DEF Agreed
    <3> QED
      BY <1>1, <2>2, <3>1 DEF Same, Held
  <2>5. Agreed'
    BY <1>5, <2>3, <2>4 DEF Agreed
  <2>6. NoNewBlock
    BY <1>3, <2>2 DEF NoNewBlock
  <2>7. \A x \in Addr : Cached(x)' <=> Cached(x)
    <3>1. \A x \in Addr : x.i \in Block
      BY Words
    <3> QED
      BY <1>3, <1>5, <2>2, <3>1 DEF Cached, Fetching
  <2>8. View' = View
    BY <1>1, <2>2, <2>7, SameView
  <2> QED
    BY <2>5, <2>6, <2>8
<1> QED
  BY <1>1, <1>7, <1>8

\* What the host is told of its access, and what the access does.
Serves(r, stb, ans) ==
    LET rsp == host_rsp(Drives(r, stb), Answer(ans))
    IN  /\ ~rsp.ack \/ rsp.err \/ r.op = "ld" => View' = View
        /\ rsp.ack /\ ~rsp.err /\ r.op # "ld" => View' = [View EXCEPT ![r.a] = r.v]
        /\ rsp.ack /\ ~rsp.err /\ r.op # "st" => rsp.data = View[r.a]

\* The look-up serves an access that hits.
LEMMA CheckData ==
    ASSUME Core, Core', Agreed, Heard, NEW r, NEW stb, NEW s, NEW ans, Edge(r, stb, s, ans),
           ctrl.state = "S_CHECK"
    PROVE  Agreed' /\ Serves(r, stb, ans) /\ NoNewBlock
<1> DEFINE rsp == host_rsp(Drives(r, stb), Answer(ans))
           g == r.a.i
<1>1. /\ r = req /\ (rsp.ack <=> ~Bypasses(r) /\ In(r)) /\ ~rsp.err /\ rsp.data = rd.data
      /\ ram'.data = IF Stores(r) THEN [ram.data EXCEPT ![<<g, r.a.o>>] = r.v] ELSE ram.data
  BY CheckActs
<1>2. \A b \in Block : /\ ram'.valid[b] <=> ram.valid[b] /\ ~(Drops(r) /\ b = g)
                       /\ ram'.tag[b] = ram.tag[b]
                       /\ ram'.valid[b] /\ ~ram'.dirty[b] => ~ram.dirty[b] /\ ~(Stores(r) /\ b = g)
  BY CheckActs
<1>3. /\ mem' = mem /\ Goes(r, ans) /\ ctrl'.idx = g /\ ctrl'.ofs_int = 0
      /\ r.a \in Addr /\ g \in Block /\ r.a.o \in Offset /\ r \in Request
  BY Writings, Registers, Signals, Words DEF Keeps, Upload, Core
<1>4. (waiting' => ~rsp.ack) /\ req' = r
  BY Around DEF Core
<1>5. ram.data \in [Block \X Offset -> Word] /\ mem \in [Addr -> Word]
  BY DEF Core, Typed, TypeOK, CacheTypeOK
<1> HIDE DEF rsp
<1>6. Fetching' => ~Stores(r) /\ ~Drops(r) /\ ~rsp.ack /\ ~(ram'.valid[g] /\ ram'.dirty[g])
  <2>1. SUFFICES ASSUME Fetching'
                 PROVE  ~Stores(r) /\ ~Drops(r) /\ ~rsp.ack /\ ~(ram'.valid[g] /\ ram'.dirty[g])
    OBVIOUS
  <2>2. waiting' /\ ~Bypasses(req') /\ ~(ram'.valid[ctrl'.idx] /\ ram'.dirty[ctrl'.idx])
    BY <2>1 DEF Core, Protocol, Serving, Latched, Bypasses
  <2> QED
    BY <1>1, <1>3, <1>4, <2>2 DEF Stores, Drops
<1>7. ~Fetching
  BY DEF Fetching, Download
<1>8. ctrl'.state \in {"S_IDLE", "S_BYPASS", "S_READ_START", "S_WRITE_START"}
  BY <1>3 DEF Goes
<1> HIDE DEF g
<1>9. ASSUME NEW b \in Block, ram'.valid[b], ~ram'.dirty[b], NEW o \in Offset PROVE Same(b, o)'
  <2>1. Same(b, o)
    BY <1>2, <1>7, <1>9 DEF Agreed
  <2>2. ~(Stores(r) /\ b = g)
    BY <1>2, <1>9
  <2>3. ram'.data[<<b, o>>] = ram.data[<<b, o>>]
    BY <1>1, <1>3, <1>5, <2>2
  <2> QED
    BY <1>2, <1>3, <2>1, <2>3 DEF Same, Held
<1>10. Agreed'
  <2>1. \A o \in Offset : ~Done(o)'
    BY <1>3, <1>8, CachedAssumption DEF Done, Offset
  <2> QED
    BY <1>8, <1>9, <2>1 DEF Agreed
<1>11. NoNewBlock
  BY <1>2 DEF NoNewBlock
\* The block that is dropped or replaced is in the memory.
<1>12. Drops(r) \/ Fetching' =>
          /\ \A o \in Offset : ram.valid[g] => Same(g, o)
          /\ ram'.data = ram.data
  <2>1. SUFFICES ASSUME Drops(r) \/ Fetching'
                 PROVE  (ram.valid[g] => ~ram.dirty[g]) /\ ~Stores(r)
    BY <1>1, <1>3, <1>7 DEF Agreed
  <2> QED
    BY <1>2, <1>3, <1>6, <2>1 DEF Drops, Stores, g
<1>13. ASSUME NEW a \in Addr
       PROVE  /\ Cached(a) <=> ram.valid[a.i] /\ ram.tag[a.i] = a.t
              /\ Cached(a)' <=> Cached(a) /\ ~(a.i = g /\ (Drops(r) \/ Fetching'))
  <2>1. a.i \in Block
    BY Words
  <2> QED
    BY <1>2, <1>3, <1>7, <2>1 DEF Cached, Fetching
<1>14. ~Stores(r) => View' = View
  <2>1. SUFFICES ASSUME ~Stores(r), NEW a \in Addr
                 PROVE  (IF Cached(a)' THEN ram'.data[<<a.i, a.o>>] ELSE mem'[a])
                        = (IF Cached(a) THEN ram.data[<<a.i, a.o>>] ELSE mem[a])
    BY SameView
  <2>2. ram'.data = ram.data
    BY <1>1, <2>1
  <2>3. Cached(a) /\ ~Cached(a)' => ram.data[<<a.i, a.o>>] = mem[a]
    <3>1. SUFFICES ASSUME Cached(a), ~Cached(a)' PROVE ram.data[<<a.i, a.o>>] = mem[a]
      OBVIOUS
    <3>2. a.i = g /\ ram.valid[g] /\ ram.tag[g] = a.t /\ (Drops(r) \/ Fetching')
      BY <1>13, <3>1
    <3>3. a.o \in Offset /\ a = Held(g, a.o)
      BY <3>2, Words DEF Held
    <3> QED
      BY <1>12, <3>2, <3>3 DEF Same
  <2> QED
    BY <1>3, <1>13, <2>2, <2>3
<1>15. Stores(r) => View' = [View EXCEPT ![r.a] = r.v]
  <2>1. SUFFICES ASSUME Stores(r), NEW a \in Addr
                 PROVE  (IF Cached(a)' THEN ram'.data[<<a.i, a.o>>] ELSE mem'[a])
                        = IF a = r.a THEN r.v
                          ELSE IF Cached(a) THEN ram.data[<<a.i, a.o>>] ELSE mem[a]
    BY <1>3, OneWord
  <2>2. Cached(a)' <=> Cached(a)
    BY <1>6, <1>13, <2>1 DEF Stores, Drops
  <2>3. Cached(r.a)
    BY <1>3, <1>13, <2>1 DEF Stores, In
  <2>4. ram'.data = [ram.data EXCEPT ![<<g, r.a.o>>] = r.v]
    BY <1>1, <2>1
  <2>5. /\ a.i \in Block /\ a.o \in Offset /\ a = [t |-> a.t, i |-> a.i, o |-> a.o]
        /\ r.a = [t |-> r.a.t, i |-> r.a.i, o |-> r.a.o]
    BY <1>3, Words
  <2>6. CASE a = r.a
    BY <1>3, <1>5, <2>2, <2>3, <2>4, <2>5, <2>6 DEF g
  <2>7. CASE a # r.a
    <3>1. Cached(a) => a.i # g \/ a.o # r.a.o
      BY <1>3, <1>13, <2>3, <2>5, <2>7 DEF g
    <3>2. Cached(a) => ram'.data[<<a.i, a.o>>] = ram.data[<<a.i, a.o>>]
      BY <1>3, <1>5, <2>4, <2>5, <3>1
    <3> QED
      BY <1>3, <2>2, <2>7, <3>2
  <2> QED
    BY <2>6, <2>7
<1>16. rsp.ack => (Stores(r) <=> r.op # "ld") /\ rd.data = View[r.a]
  <2>1. SUFFICES ASSUME rsp.ack PROVE (Stores(r) <=> r.op # "ld") /\ rd.data = View[r.a]
    OBVIOUS
  <2>2. ~Bypasses(r) /\ In(r) /\ r.op \in {"ld", "st", "swap"}
    BY <1>1, <1>3, <2>1 DEF Request
  <2>3. Stores(r) <=> r.op # "ld"
    BY <2>2 DEF Stores, Bypasses
  <2>4. rd.data = ram.data[<<r.a.i, r.a.o>>]
    BY <1>1, <2>2 DEF Heard
  <2>5. Cached(r.a)
    BY <1>3, <1>13, <2>2 DEF In
  <2> QED
    BY <1>3, <2>3, <2>4, <2>5 DEF View
<1>17. ~rsp.ack => ~Stores(r)
  BY <1>1 DEF Stores
<1> QED
  BY <1>1, <1>10, <1>11, <1>14, <1>15, <1>16, <1>17 DEF Serves, rsp

\* An access that passes the cache meets no copy of its word.
LEMMA BypassData ==
    ASSUME Core, Agreed, Heard, NEW r, NEW stb, NEW s, NEW ans, Edge(r, stb, s, ans),
           ctrl.state = "S_BYPASS"
    PROVE  Agreed' /\ Serves(r, stb, ans) /\ NoNewBlock
<1> USE DEF Core
<1> DEFINE w == Answer(ans)
           x == r.a
<1>1. ram' = ram /\ SameStatus /\ NoNewBlock
  BY LooksOnly DEF NoNewBlock
<1>2. host_rsp(Drives(r, stb), w) = w /\ w.ack = ans /\ ans \in BOOLEAN
  BY Ranges DEF host_rsp
<1>3. CASE ~ans
  <2>1. Agreed' /\ View' = View
    BY <1>3, QuietData
  <2> QED
    BY <1>1, <1>2, <1>3, <2>1 DEF Serves
<1>4. CASE ans
  <2>1. Goes(r, ans) /\ r = req /\ x \in Addr /\ r \in Request
    BY Registers, Busy, Signals DEF Serving
  <2>2. q \in Seq(Strobe) /\ q # << >> /\ Oldest = q[1]
    BY <1>4, Front DEF Edge, Typed
  <2>3. Len(q) # 0
    BY <2>2
  <2>4. ~ctrl.bp_req
    BY <2>3 DEF Queued, Open
  <2>5. q[1].a = x /\ q[1].rw = (r.op = "st") /\ q[1].amo = (r.op = "swap") /\ q[1].v = r.v /\ ~In(r)
    BY <2>1, <2>4 DEF Queued, Heard
  <2>6. r.op \in {"ld", "st", "swap"}
    BY <2>1 DEF Request
  <2>7. Writes(q[1]) <=> r.op # "ld"
    BY <2>5, <2>6 DEF Writes
  <2>8. mem' = IF r.op # "ld" /\ ~Fails(q[1]) THEN [mem EXCEPT ![x] = r.v] ELSE mem
    <3>1. mem' = IF ans /\ Writes(q[1]) /\ ~Fails(q[1]) THEN [mem EXCEPT ![q[1].a] = q[1].v] ELSE mem
      BY Clocked
    <3> QED
      BY <1>4, <2>5, <2>7, <3>1
  <2>9. (w.err <=> Fails(q[1])) /\ (r.op # "st" /\ ~w.err => w.data = mem[x])
    BY <1>4, <2>2, <2>5 DEF Answer
  <2>10. mem \in [Addr -> Word]
    BY DEF Typed, TypeOK
  <2>11. ctrl'.state = "S_IDLE" /\ ~Fetching /\ ~Fetching' /\ ~Storing'
    BY <1>4, <2>1 DEF Goes, Fetching, Storing, Upload, Download
  <2> HIDE DEF w, x
  <2>12. \A a \in Addr : a # x => mem'[a] = mem[a]
    BY <2>8, <2>10
  <2>13. \A a \in Addr : Cached(a)' = Cached(a) /\ (Cached(a) => a # x)
    BY <1>1, <2>5, <2>11 DEF Cached, Fetching, In, x
  <2>14. Agreed'
    <3>1. ASSUME NEW b \in Block, ram.valid[b], ~ram.dirty[b], NEW o \in Offset PROVE Same(b, o)'
      <4>1. Same(b, o)
        BY <2>11, <3>1 DEF Agreed
      <4>2. Held(b, o) # x
        BY <2>5, <3>1 DEF Held, In, x
      <4>3. Held(b, o) \in Addr
        BY DEF Held, Addr, Typed, TypeOK, CacheTypeOK
      <4> QED
        BY <1>1, <2>12, <4>1, <4>2, <4>3 DEF Same, Held
    <3> QED
      BY <1>1, <2>11, <3>1 DEF Agreed
  <2>15. w.err \/ r.op = "ld" => View' = View
    BY <1>1, <2>8, <2>9, <2>13, SameView
  <2>16. ~w.err /\ r.op # "ld" => View' = [View EXCEPT ![x] = r.v]
    <3>1. SUFFICES ASSUME ~w.err, r.op # "ld", NEW a \in Addr
                   PROVE  (IF Cached(a)' THEN ram'.data[<<a.i, a.o>>] ELSE mem'[a])
                          = IF a = x THEN r.v
                            ELSE IF Cached(a) THEN ram.data[<<a.i, a.o>>] ELSE mem[a]
      BY <2>1, OneWord
    <3>2. mem' = [mem EXCEPT ![x] = r.v]
      BY <2>8, <2>9, <3>1
    <3> QED
      BY <1>1, <2>1, <2>10, <2>13, <3>2
  <2>17. r.op # "st" /\ ~w.err => w.data = View[x]
    BY <2>1, <2>9, <2>13 DEF View
  <2> QED
    BY <1>1, <1>2, <1>4, <2>14, <2>15, <2>16, <2>17 DEF Serves, w, x
<1> QED
  BY <1>2, <1>3, <1>4

\* Every clock edge keeps cache and memory in agreement and serves the host.
LEMMA EdgeData ==
    ASSUME Core, Core', DataInv, Writable, NEW r, NEW stb, NEW s, NEW ans, Edge(r, stb, s, ans)
    PROVE  Agreed' /\ Serves(r, stb, ans) /\ (ctrl.state # "S_READ_DONE" => NoNewBlock)
<1> USE DEF DataInv
<1> DEFINE rsp == host_rsp(Drives(r, stb), Answer(ans))
<1>1. ctrl.state \in State /\ ans \in BOOLEAN
  BY Ranges DEF Core, CtrlType
<1>2. ans => ctrl.state \in {"S_BYPASS", "S_READ_WAIT", "S_READ_BURST", "S_WRITE_RSP", "S_WRITE_BURST"}
  BY Writings
<1>3. CASE ctrl.state = "S_CHECK"
  BY <1>3, CheckData
<1>4. CASE ctrl.state = "S_BYPASS"
  BY <1>4, BypassData
<1>5. CASE ctrl.state \notin {"S_CHECK", "S_BYPASS"}
  <2>1. ~rsp.ack \/ rsp.err
    <3>1. ctrl.state = "S_READ_DONE" => rsp.ack = ctrl.bus_err /\ rsp.err = ctrl.bus_err
      BY DEF host_rsp
    <3>2. ctrl.state = "S_WRITE_DONE" /\ ~ctrl.sync => rsp.ack = ctrl.bus_err /\ rsp.err = ctrl.bus_err
      BY DEF host_rsp
    <3>3. ctrl.state = "S_WRITE_DONE" /\ ctrl.sync => ~rsp.ack
      BY DEF host_rsp
    <3>4. ctrl.state \notin {"S_READ_DONE", "S_WRITE_DONE"} => ~rsp.ack
      BY <1>5, Unanswered
    <3> QED
      BY <3>1, <3>2, <3>3, <3>4
  <2>2. Agreed' /\ View' = View /\ (ctrl.state # "S_READ_DONE" => NoNewBlock)
    <3>1. CASE ctrl.state \in {"S_READ_WAIT", "S_READ_BURST"}
               \/ (ans /\ ctrl.state \in {"S_WRITE_RSP", "S_WRITE_BURST"})
      BY <3>1, TransferData DEF SameStatus, NoNewBlock
    <3>2. CASE ctrl.state = "S_READ_DONE"
      BY <3>2, ReadDoneData
    <3>3. CASE ctrl.state = "S_WRITE_DONE"
      BY <3>3, WriteDoneData
    <3>4. CASE ctrl.state = "S_SYNC_NEXT"
      BY <3>4, SyncNextData
    <3>5. CASE ctrl.state \in QuietStates \/ (~ans /\ ctrl.state \in {"S_WRITE_RSP", "S_WRITE_BURST"})
      BY <3>5, QuietData DEF SameStatus, NoNewBlock
    <3> QED
      BY <1>1, <1>5, <3>1, <3>2, <3>3, <3>4, <3>5 DEF State, Download, Upload, QuietStates
  <2> QED
    BY <2>1, <2>2 DEF Serves
<1> QED
  BY <1>3, <1>4, <1>5

\* The look-up reads the word of the access, a bypass carries its value.
LEMMA HeardKeeps ==
    ASSUME Core, Core', DataInv, Writable, NEW r, NEW stb, NEW s, NEW ans, Edge(r, stb, s, ans)
    PROVE  Heard'
<1> USE DEF Core, DataInv
<1>1. Goes(r, ans) /\ Keeps(r, ans) /\ ctrl.state \in State /\ req' = r
  BY Registers, Ranges, Around DEF CtrlType
<1>2. ctrl.state # "S_READ_DONE" => NoNewBlock
  BY EdgeData
<1>3. ASSUME ctrl'.state = "S_CHECK", ~Bypasses(r), In(r)'
      PROVE  rd'.data = ram'.data[<<r.a.i, r.a.o>>]
  <2>1. ctrl.state \in {"S_IDLE", "S_READ_DONE"} \/ (ctrl.state = "S_WRITE_DONE" /\ ~ctrl.sync)
    BY <1>1, <1>3, Writings DEF Goes, State, Download, Upload
  <2>2. CASE ctrl.state = "S_IDLE"
    BY <2>2, LooksOnly
  <2>3. CASE ctrl.state = "S_READ_DONE"
    BY <2>3, ReadDoneData
  <2>4. CASE ctrl.state = "S_WRITE_DONE" /\ ~ctrl.sync
    <3>1. Serving /\ Storing /\ r.a.i \in Block
      BY <2>4, Ranges DEF Serving, Storing
    <3>2. r = req /\ ctrl.idx = r.a.i
      BY <2>4, <3>1, Busy DEF Protocol
    <3>3. ram.tag[r.a.i] # r.a.t
      BY <1>3, <2>4, <3>1, <3>2 DEF Latched
    <3> QED
      BY <1>2, <1>3, <2>4, <3>1, <3>3 DEF NoNewBlock, In
  <2> QED
    BY <2>1, <2>2, <2>3, <2>4
<1>4. ASSUME ctrl'.state = "S_BYPASS"
      PROVE  ~In(r)' /\ (~ctrl'.bp_req => q'[1].v = r.v)
  <2>1. ctrl.state = "S_CHECK" \/ (ctrl.state = "S_BYPASS" /\ ~ans)
    BY <1>1, <1>4, Writings DEF Goes, State, Download, Upload
  <2>2. CASE ctrl.state = "S_CHECK"
    <3>1. ctrl'.bp_req
      BY <1>1, <2>2 DEF Keeps
    <3>2. In(r) => Drops(r)
      BY <1>4, <2>2, CheckActs
    <3>3. r.a.i \in Block
      BY Ranges
    <3>4. /\ ram'.valid[r.a.i] <=> ram.valid[r.a.i] /\ ~Drops(r)
          /\ ram'.tag[r.a.i] = ram.tag[r.a.i]
      BY <2>2, <3>3, CheckActs
    <3> QED
      BY <3>1, <3>2, <3>4 DEF In
  <2>3. CASE ctrl.state = "S_BYPASS" /\ ~ans
    <3>1. ram' = ram /\ r = req /\ ~In(r)
      BY <2>3, LooksOnly, Busy DEF Heard, Serving
    <3>2. q'[1].v = r.v
      <4> DEFINE b == bus_req(Drives(r, stb))
      <4>1. b.v = r.v /\ b.stb = ctrl.bp_req
        BY <2>3 DEF bus_req, Drives
      <4>2. /\ Len(q') = Len(q) - Bit(ans) + Bit(b.stb)
            /\ \A k \in 1 .. Len(q') : q'[k] = IF k <= Len(q) - Bit(ans) THEN q[k + Bit(ans)] ELSE b
        BY Clocked
      <4>3. Len(q) = (IF ctrl.bp_req THEN 0 ELSE 1) /\ Bit(ans) = 0
            /\ Bit(b.stb) = IF ctrl.bp_req THEN 1 ELSE 0
        BY <2>3, <4>1 DEF Queued, Open, Bit
      <4> HIDE DEF b
      <4>4. Len(q') = 1 /\ q'[1] = IF ctrl.bp_req THEN b ELSE q[1]
        BY <4>2, <4>3
      <4> QED
        BY <2>3, <3>1, <4>1, <4>4 DEF Heard
    <3> QED
      BY <3>1, <3>2 DEF In
  <2> QED
    BY <2>1, <2>2, <2>3
<1> QED
  BY <1>1, <1>3, <1>4 DEF Heard, Bypasses, In

\* Only blocks that the software asks for come into the cache.
LEMMA KnownKeeps ==
    ASSUME Core, Core', DataInv, Writable, NEW r, NEW stb, NEW s, NEW ans, Edge(r, stb, s, ans)
    PROVE  Known'
<1> USE DEF Core, DataInv
<1>1. r \in prog /\ prog' = prog
  BY Around
<1>2. CASE ctrl.state # "S_READ_DONE"
  <2>1. NoNewBlock
    BY <1>2, EdgeData
  <2> QED
    BY <1>1, <2>1 DEF NoNewBlock, Known
<1>3. CASE ctrl.state = "S_READ_DONE"
  <2>1. /\ ram'.tag[r.a.i] = r.a.t
        /\ \A b \in Block : b # r.a.i => ram'.valid[b] = ram.valid[b] /\ ram'.tag[b] = ram.tag[b]
    BY <1>3, ReadDoneData
  <2> QED
    BY <1>1, <2>1 DEF Known
<1> QED
  BY <1>2, <1>3

\* An empty cache agrees with any memory.
LEMMA InitData == Init => DataInv
<1> SUFFICES ASSUME Init PROVE DataInv
  OBVIOUS
<1>1. ctrl.state = "S_IDLE" /\ \A b \in Block : ~ram.valid[b]
  BY DEF Init, CacheInit
<1> QED
  BY <1>1 DEF DataInv, Agreed, Sent, Heard, Known, Fetching, Storing, Download, Upload

\* It stays in agreement with it.
LEMMA NextData == ASSUME Writable PROVE IInv /\ DataInv /\ [Next]_vars => DataInv'
<1> SUFFICES ASSUME IInv, DataInv, [Next]_vars PROVE DataInv'
  OBVIOUS
<1>1. CASE Next
  <2>1. Core /\ Core' /\ Typed
    BY NextIInv DEF IInv, Core
  <2>2. PICK r, stb, s, ans : Edge(r, stb, s, ans)
    BY <1>1, <2>1, StepIsEdge
  <2>3. Agreed'
    BY <2>1, <2>2, EdgeData
  <2>4. Sent'
    BY <2>1, <2>2, SentKeeps DEF DataInv
  <2>5. Heard' /\ Known'
    BY <2>1, <2>2, HeardKeeps, KnownKeeps
  <2> QED
    BY <2>3, <2>4, <2>5 DEF DataInv
<1>2. CASE UNCHANGED vars
  BY <1>2 DEF vars, cacheVars, DataInv, Agreed, Sent, Heard, Known, Fetching, Storing, Done, Same,
              Held, At, In
<1> QED
  BY <1>1, <1>2

-----------------------------------------------------------------------------
(* The memory the software sees.                                           *)

\* An answer is an access of an atomic memory.
LEMMA AnswerIsAtomic ==
    ASSUME Typed, NEW r, NEW stb, NEW s, NEW ans, Edge(r, stb, s, ans), Serves(r, stb, ans),
           host_rsp(Drives(r, stb), Answer(ans)).ack
    PROVE  Atomic!Next
<1> DEFINE rsp == host_rsp(Drives(r, stb), Answer(ans))
           h == "cpu"
<1>1. /\ out' = [host |-> h, req |-> r, res |-> Result(r, rsp)]
      /\ r \in UNION Programs /\ r.op \in {"ld", "st", "swap"} /\ r.a \in Addr /\ h \in {"cpu"}
  <2>1. r \in prog /\ prog \in Programs /\ r \in Request
    BY Signals DEF Typed, TypeOK
  <2> QED
    BY <2>1, Signals DEF Request
<1>2. /\ rsp.err \/ r.op = "ld" => View' = View
      /\ ~rsp.err /\ r.op # "ld" => View' = [View EXCEPT ![r.a] = r.v]
      /\ ~rsp.err /\ r.op # "st" => rsp.data = View[r.a]
  BY DEF Serves
<1> DEFINE link == [x \in {"cpu"} |-> "nolink"]
<1>3. Atomic!Broken(Granule(r.a)) = link
  BY DEF Atomic!Broken, Granule, Atomic!NoLink
<1> HIDE DEF rsp
<1>4. CASE rsp.err
  <2>1. Atomic!Fault(h, r)
    BY <1>1, <1>2, <1>4 DEF Atomic!Fault, Atomic!Returns, Result
  <2> QED
    BY <1>1, <2>1 DEF Atomic!Next
<1>5. CASE ~rsp.err /\ r.op = "ld"
  <2>1. Atomic!Load(h, r)
    BY <1>1, <1>2, <1>5 DEF Atomic!Load, Atomic!Returns, Result
  <2> QED
    BY <1>1, <2>1 DEF Atomic!Next
<1>6. CASE ~rsp.err /\ r.op = "st"
  <2>1. Atomic!Store(h, r)
    BY <1>1, <1>2, <1>3, <1>6 DEF Atomic!Store, Atomic!Returns, Result
  <2> QED
    BY <1>1, <2>1 DEF Atomic!Next
<1>7. CASE ~rsp.err /\ r.op = "swap"
  <2>1. Atomic!Rmw(r.op, View[r.a], r.v) = r.v
    BY <1>7 DEF Atomic!Rmw
  <2>2. Atomic!ReadModifyWrite(h, r)
    BY <1>1, <1>2, <1>3, <1>7, <2>1 DEF Atomic!ReadModifyWrite, Atomic!Returns, Result
  <2> QED
    BY <1>1, <2>2 DEF Atomic!Next
<1> QED
  BY <1>1, <1>4, <1>5, <1>6, <1>7

\* The software cannot tell the cache from a memory, whatever it fetches,
\* replaces or flushes.
THEOREM Implements == ASSUME Writable PROVE Spec => IsAtomic
<1>1. Init => Atomic!Init
  <2> SUFFICES ASSUME Init PROVE Atomic!Init
    OBVIOUS
  <2>1. ram.data \in [Block \X Offset -> Word] /\ mem \in [Addr -> Word] /\ out.res = 0
    BY InitIInv DEF Init, IInv, Core, Typed, TypeOK, CacheTypeOK
  <2>2. View \in [Addr -> Word]
    BY <2>1, Words DEF View
  <2> QED
    BY <2>1, <2>2 DEF Atomic!Init, Atomic!NoLink, Word
<1>2. ASSUME IInv, DataInv, [Next]_vars
      PROVE  [Atomic!Next]_<<View, [h \in {"cpu"} |-> "nolink"], out>>
  <2>1. CASE Next
    <3>1. Core /\ Core' /\ Typed
      BY <1>2, NextIInv DEF IInv, Core
    <3>2. PICK r, stb, s, ans : Edge(r, stb, s, ans)
      BY <2>1, <3>1, StepIsEdge
    <3>3. Serves(r, stb, ans)
      BY <1>2, <3>1, <3>2, EdgeData
    <3>4. CASE host_rsp(Drives(r, stb), Answer(ans)).ack
      BY <3>1, <3>2, <3>3, <3>4, AnswerIsAtomic
    <3>5. CASE ~host_rsp(Drives(r, stb), Answer(ans)).ack
      <4>1. View' = View /\ out' = out
        BY <3>1, <3>2, <3>3, <3>5, Signals DEF Serves
      <4> QED
        BY <4>1
    <3> QED
      BY <3>4, <3>5
  <2>2. CASE UNCHANGED vars
    BY <2>2 DEF vars, cacheVars, View, Cached
  <2> QED
    BY <1>2, <2>1, <2>2
<1> QED
  BY <1>1, <1>2, InitData, NextData, Inductive, PTL DEF Spec, IsAtomic, Atomic!Spec
=============================================================================
