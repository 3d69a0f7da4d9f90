------------------------------- MODULE Cache -------------------------------
(***************************************************************************)
(* rtl/core/astrarv32_cache.vhd and astrarv32_cache_ram.vhd: the direct-   *)
(* mapped write-back cache, once per core as data cache and once, with     *)
(* READ_ONLY, as instruction cache.  One action per controller state, its  *)
(* inputs in one clock cycle:                                              *)
(*   h : [stb, a, rw, amo, v]    the host's request, kept until answered   *)
(*   s : BOOLEAN                 the synchronisation request (fence)       *)
(*   r : [ack, err, data]        the bus response                          *)
(* An address is [t, i, o]: tag, block index, word offset.  A store writes *)
(* a whole word; byte lanes only split the data RAM.                       *)
(***************************************************************************)
EXTENDS Naturals

CONSTANTS Tags, Uncached,           \* tags; those at and above UC_BEGIN
          NUM_BLOCKS, BLOCK_WORDS,  \* both at least two
          READ_ONLY, BURSTS_EN      \* generics

VARIABLES ctrl,             \* control engine
          ram,              \* status, tag and data memories
          rd                \* their registered outputs

cacheVars == <<ctrl, ram, rd>>

Block  == 0 .. NUM_BLOCKS - 1
Offset == 0 .. BLOCK_WORDS - 1

Download == {"S_READ_START", "S_READ_WAIT", "S_READ_BURST"}
Upload   == {"S_WRITE_START", "S_WRITE_REQ", "S_WRITE_RSP", "S_WRITE_WAIT", "S_WRITE_BURST"}
State    == Download \cup Upload \cup
            {"S_IDLE", "S_CHECK", "S_BYPASS", "S_READ_DONE", "S_WRITE_DONE",
             "S_SYNC_START", "S_SYNC_DELAY", "S_SYNC_CHECK", "S_SYNC_NEXT"}

CacheTypeOK(Data) ==
    /\ ctrl \in [state : State, sync : BOOLEAN, bus_err : BOOLEAN, pnd_req : BOOLEAN,
                 pnd_syn : BOOLEAN, pnd_bp : BOOLEAN, bp_req : BOOLEAN, hit : BOOLEAN,
                 cln : BOOLEAN, tag : Tags, idx : Block, ofs_int : Offset,
                 ofs_ext : 0 .. 2 * BLOCK_WORDS - 1, ofs_buf : 0 .. 2 * BLOCK_WORDS - 1]
    /\ ram \in [valid : [Block -> BOOLEAN], dirty : [Block -> BOOLEAN],
                tag : [Block -> Tags], data : [Block \X Offset -> Data]]
    /\ rd \in [valid : BOOLEAN, dirty : BOOLEAN, tag : Tags, data : Data]

\* Reset clears the controller and the valid flags; t and d stand for the
\* unknown contents of the memories.
CacheInit(t, d) ==
    /\ ctrl = [state |-> "S_IDLE", sync |-> FALSE, bus_err |-> FALSE, pnd_req |-> FALSE,
               pnd_syn |-> FALSE, pnd_bp |-> FALSE, bp_req |-> FALSE, hit |-> FALSE,
               cln |-> FALSE, tag |-> t, idx |-> 0, ofs_int |-> 0, ofs_ext |-> 0, ofs_buf |-> 0]
    /\ ram \in [valid : {[b \in Block |-> FALSE]}, dirty : [Block -> IF READ_ONLY THEN {FALSE} ELSE BOOLEAN],
                tag : {[b \in Block |-> t]}, data : {[bo \in Block \X Offset |-> d]}]
    /\ rd = [valid |-> FALSE, dirty |-> FALSE, tag |-> t, data |-> d]

-----------------------------------------------------------------------------
(* Combinational outputs.                                                  *)

\* cache_i: the status of the block addressed in the cycle before.
Hit(h) == ctrl.hit \/ (rd.valid /\ rd.tag = h.a.t)
Dirty  == ~ctrl.cln /\ rd.dirty /\ rd.valid

Line(ofs) == [t |-> ctrl.tag, i |-> ctrl.idx, o |-> ofs % BLOCK_WORDS]

bus_stb == \/ ctrl.state \in {"S_READ_START", "S_WRITE_REQ"}
           \/ ctrl.state = "S_READ_BURST" /\ ctrl.ofs_ext < BLOCK_WORDS
           \/ ctrl.state = "S_WRITE_BURST" /\ ctrl.ofs_buf < BLOCK_WORDS

\* The upload burst sends the word read in the cycle before.
bus_ofs == IF ctrl.state = "S_WRITE_BURST" THEN ctrl.ofs_buf ELSE ctrl.ofs_ext

bus_lock == ctrl.state \in Download \cup Upload

bus_req(h) ==
    IF ctrl.state = "S_BYPASS" THEN [h EXCEPT !.stb = ctrl.bp_req]
    ELSE [stb |-> bus_stb, a |-> Line(bus_ofs), rw |-> ctrl.state \in Upload,
          amo |-> FALSE, v |-> rd.data]

host_rsp(h, r) ==
    CASE ctrl.state = "S_BYPASS"    -> r
      [] ctrl.state = "S_CHECK"     -> [ack |-> ~ctrl.pnd_bp /\ Hit(h), err |-> FALSE, data |-> rd.data]
      [] ctrl.state = "S_READ_DONE" -> [ack |-> ctrl.bus_err, err |-> ctrl.bus_err, data |-> rd.data]
      [] ctrl.state = "S_WRITE_DONE" /\ ~ctrl.sync ->
                                       [ack |-> ctrl.bus_err, err |-> ctrl.bus_err, data |-> rd.data]
      [] OTHER                      -> [ack |-> FALSE, err |-> FALSE, data |-> rd.data]

-----------------------------------------------------------------------------
(* The memories: one port, addressed with a in every cycle, read first.    *)

Read == [set |-> FALSE, vld |-> FALSE, drt |-> FALSE]       \* no status update
Mark(vld, drt) == [set |-> TRUE, vld |-> vld, drt |-> drt]  \* new status and tag
Modify == [Read EXCEPT !.drt = TRUE]                        \* a store hits

Status(a, w) == [ram EXCEPT !.valid[a.i] = w.vld, !.tag[a.i] = a.t, !.dirty[a.i] = w.drt]

\* The write-enables of the status flags, of the dirty flag, of the data.
Access(a, w, we, d) ==
    LET status == IF w.set THEN Status(a, w)
                  ELSE IF w.drt THEN [ram EXCEPT !.dirty[a.i] = TRUE]
                  ELSE ram
    IN  /\ ram' = IF we THEN [status EXCEPT !.data[<<a.i, a.o>>] = d] ELSE status
        /\ rd' = [valid |-> ram.valid[a.i], dirty |-> ram.dirty[a.i],
                  tag |-> ram.tag[a.i], data |-> ram.data[<<a.i, a.o>>]]

Look(a) == Access(a, Read, FALSE, rd.data)

-----------------------------------------------------------------------------
(* The control engine.                                                     *)

\* Fault: a fence is seen by an idle controller only.
HoldIdleSync(h, s) == [ctrl EXCEPT !.pnd_req = @ \/ h.stb, !.pnd_syn = @ \/ (s /\ ctrl.state = "S_IDLE"),
                       !.bp_req = FALSE, !.hit = FALSE, !.cln = FALSE, !.ofs_buf = ctrl.ofs_ext]
\* Fault: a request that meets a fence is not kept.
HoldNoRequest(h, s) == [ctrl EXCEPT !.pnd_req = FALSE, !.pnd_syn = @ \/ s,
                        !.bp_req = FALSE, !.hit = FALSE, !.cln = FALSE, !.ofs_buf = ctrl.ofs_ext]
\* Defaults of every state: requests are caught, one-cycle flags cleared.
Hold(h, s) == [ctrl EXCEPT !.pnd_req = @ \/ h.stb, !.pnd_syn = @ \/ s, !.bp_req = FALSE,
                           !.hit = FALSE, !.cln = FALSE, !.ofs_buf = ctrl.ofs_ext]

\* Fault: the error flag is not reset.
ToIdleKeepErr(c) == [c EXCEPT !.sync = FALSE]
\* An idle controller forgets the last transfer's error and synchronisation.
ToIdle(c) == [c EXCEPT !.bus_err = FALSE, !.sync = FALSE]

\* Fault: the host's requests come before a fence.
SyncWhenQuiet(h) == ctrl.pnd_syn /\ ~h.stb /\ ~ctrl.pnd_req
\* A fence comes before the host's request.
SyncFirst(h) == ctrl.pnd_syn

Idle(h, s) ==
    /\ ctrl.state = "S_IDLE"
    /\ LET c == ToIdle(Hold(h, s))
       IN  ctrl' = IF SyncFirst(h) THEN [c EXCEPT !.state = "S_SYNC_START", !.pnd_bp = FALSE]
                   ELSE IF h.stb \/ ctrl.pnd_req
                   THEN [c EXCEPT !.state = "S_CHECK", !.pnd_bp = h.a.t \in Uncached \/ h.amo]
                   ELSE [c EXCEPT !.pnd_bp = FALSE]
    /\ Look(h.a)

\* Fault: a bypass does not care for the cached copy.
AfterCheckNoFlush(h) == IF ctrl.pnd_bp THEN "S_BYPASS" ELSE IF Hit(h) THEN "S_IDLE"
                        ELSE IF Dirty THEN "S_WRITE_START" ELSE "S_READ_START"
\* A modified copy goes to memory before a bypass or a replacement.
AfterCheck(h) ==
    CASE ctrl.pnd_bp /\ Hit(h) /\ Dirty -> "S_WRITE_START"
      [] ctrl.pnd_bp /\ ~(Hit(h) /\ Dirty) -> "S_BYPASS"
      [] ~ctrl.pnd_bp /\ Hit(h) -> "S_IDLE"
      [] ~ctrl.pnd_bp /\ ~Hit(h) -> IF Dirty THEN "S_WRITE_START" ELSE "S_READ_START"

Check(h, s) ==
    /\ ctrl.state = "S_CHECK"
    /\ ctrl' = [Hold(h, s) EXCEPT !.state = AfterCheck(h), !.tag = h.a.t, !.idx = h.a.i,
                                  !.ofs_ext = 0, !.ofs_int = 0, !.pnd_req = FALSE, !.bp_req = TRUE]
    /\ LET store == ~ctrl.pnd_bp /\ Hit(h) /\ h.rw /\ ~READ_ONLY
           drop  == ctrl.pnd_bp /\ Hit(h) /\ ~Dirty
       IN  Access(h.a, IF drop THEN Mark(FALSE, FALSE) ELSE IF store THEN Modify ELSE Read,
                  store, h.v)

Bypass(h, s, r) ==
    /\ ctrl.state = "S_BYPASS"
    /\ ctrl' = [Hold(h, s) EXCEPT !.state = IF r.ack THEN "S_IDLE" ELSE @]
    /\ Look(h.a)

(* Synchronisation: all blocks are written back if dirty and invalidated.  *)

SyncStart(h, s) ==
    /\ ctrl.state = "S_SYNC_START"
    /\ ctrl' = [Hold(h, s) EXCEPT !.state = "S_SYNC_DELAY", !.pnd_syn = FALSE, !.sync = TRUE, !.idx = 0]
    /\ Look(h.a)

SyncDelay(h, s) ==
    /\ ctrl.state = "S_SYNC_DELAY"
    /\ ctrl' = [Hold(h, s) EXCEPT !.state = "S_SYNC_CHECK"]
    /\ Look(Line(ctrl.ofs_int))

SyncCheck(h, s) ==
    /\ ctrl.state = "S_SYNC_CHECK"
    /\ ctrl' = [Hold(h, s) EXCEPT !.state = IF Dirty THEN "S_WRITE_START" ELSE "S_SYNC_NEXT",
                                  !.ofs_ext = 0, !.ofs_int = 0, !.bus_err = FALSE]
    /\ Look(Line(ctrl.ofs_int))

\* Fault: the last block is skipped.
LastBlockEarly == ctrl.idx + 1 >= NUM_BLOCKS - 1
LastBlock == ctrl.idx = NUM_BLOCKS - 1

\* A block whose upload failed stays valid and dirty.
SyncNext(h, s) ==
    /\ ctrl.state = "S_SYNC_NEXT"
    /\ ctrl' = [Hold(h, s) EXCEPT !.state = IF LastBlock THEN "S_IDLE" ELSE "S_SYNC_DELAY",
                                  !.idx = (@ + 1) % NUM_BLOCKS]
    /\ Access(Line(ctrl.ofs_int), Mark(ctrl.bus_err, ctrl.bus_err), FALSE, rd.data)

(* Block transfers.                                                        *)

LastWord == ctrl.ofs_int = BLOCK_WORDS - 1

\* Fault: the offset does not wrap around.
NextIntNoWrap(c) == [c EXCEPT !.ofs_int = @ + 1]
NextInt(c) == [c EXCEPT !.ofs_int = (@ + 1) % BLOCK_WORDS]
NextExt(c) == [c EXCEPT !.ofs_ext = (@ + 1) % (2 * BLOCK_WORDS)]

\* An answered word: errors add up.
Taken(c, r) == [NextInt(c) EXCEPT !.bus_err = @ \/ r.err]

ReadStart(h, s) ==
    /\ ctrl.state = "S_READ_START"
    /\ ctrl' = [Hold(h, s) EXCEPT !.state = "S_READ_WAIT"]
    /\ Look(h.a)

\* The data memory is written in every cycle of the wait.
ReadWait(h, s, r) ==
    /\ ctrl.state = "S_READ_WAIT"
    /\ ctrl' = IF ~r.ack THEN Hold(h, s)
               ELSE [NextExt(Taken(Hold(h, s), r)) EXCEPT
                        !.state = IF BURSTS_EN THEN "S_READ_BURST"
                                  ELSE IF LastWord THEN "S_READ_DONE" ELSE "S_READ_START"]
    /\ Access(Line(ctrl.ofs_int), Read, TRUE, r.data)

ReadBurst(h, s, r) ==
    /\ ctrl.state = "S_READ_BURST"
    /\ LET c == IF bus_stb THEN NextExt(Hold(h, s)) ELSE Hold(h, s)
       IN  ctrl' = IF ~r.ack THEN c
                   ELSE [Taken(c, r) EXCEPT !.state = IF LastWord THEN "S_READ_DONE" ELSE @]
    /\ Access(Line(ctrl.ofs_int), Read, TRUE, r.data)

\* Fault: the downloaded block becomes valid in spite of a bus error.
FilledAlways == TRUE
Filled == ~ctrl.bus_err

ReadDone(h, s) ==
    /\ ctrl.state = "S_READ_DONE"
    /\ ctrl' = [Hold(h, s) EXCEPT !.state = IF ctrl.bus_err THEN "S_IDLE" ELSE "S_CHECK", !.hit = TRUE]
    /\ Access(h.a, Mark(Filled, FALSE), FALSE, h.v)

\* The tag of the block to be uploaded replaces the requested one.
WriteStart(h, s) ==
    /\ ctrl.state = "S_WRITE_START"
    /\ ctrl' = [Hold(h, s) EXCEPT !.state = "S_WRITE_REQ", !.tag = IF ctrl.ofs_int = 0 THEN rd.tag ELSE @]
    /\ Look(Line(ctrl.ofs_int))

WriteReq(h, s) ==
    /\ ctrl.state = "S_WRITE_REQ"
    /\ ctrl' = [Hold(h, s) EXCEPT !.state = "S_WRITE_RSP"]
    /\ Look(Line(ctrl.ofs_int))

WriteRsp(h, s, r) ==
    /\ ctrl.state = "S_WRITE_RSP"
    /\ ctrl' = IF ~r.ack THEN Hold(h, s)
               ELSE [NextExt(Taken(Hold(h, s), r)) EXCEPT
                        !.state = IF BURSTS_EN THEN "S_WRITE_WAIT"
                                  ELSE IF LastWord THEN "S_WRITE_DONE" ELSE "S_WRITE_START"]
    /\ Look(Line(ctrl.ofs_int))

WriteWait(h, s) ==
    /\ ctrl.state = "S_WRITE_WAIT"
    /\ ctrl' = [NextExt(Hold(h, s)) EXCEPT !.state = "S_WRITE_BURST"]
    /\ Look(Line(ctrl.ofs_ext))

WriteBurst(h, s, r) ==
    /\ ctrl.state = "S_WRITE_BURST"
    /\ LET c == IF bus_stb THEN NextExt(Hold(h, s)) ELSE Hold(h, s)
       IN  ctrl' = IF ~r.ack THEN c
                   ELSE [Taken(c, r) EXCEPT !.state = IF LastWord THEN "S_WRITE_DONE" ELSE @]
    /\ Look(Line(ctrl.ofs_ext))

\* After a failed upload the block is dropped and the host gets the error.
WriteDone(h, s) ==
    /\ ctrl.state = "S_WRITE_DONE"
    /\ ctrl' = [Hold(h, s) EXCEPT !.cln = TRUE, !.state = IF ctrl.sync THEN "S_SYNC_NEXT"
                                                          ELSE IF ctrl.bus_err THEN "S_IDLE" ELSE "S_CHECK"]
    /\ Access(Line(ctrl.ofs_int), IF ctrl.sync THEN Read ELSE Mark(~ctrl.bus_err, FALSE), FALSE, rd.data)

CacheClock(h, s, r) ==
    \/ Idle(h, s)        \/ Check(h, s)            \/ Bypass(h, s, r)
    \/ SyncStart(h, s)   \/ SyncDelay(h, s)        \/ SyncCheck(h, s)   \/ SyncNext(h, s)
    \/ ReadStart(h, s)   \/ ReadWait(h, s, r)      \/ ReadDone(h, s)
    \/ WriteStart(h, s)  \/ WriteReq(h, s)         \/ WriteRsp(h, s, r) \/ WriteDone(h, s)
    \/ BURSTS_EN /\ (ReadBurst(h, s, r) \/ WriteWait(h, s) \/ WriteBurst(h, s, r))
=============================================================================
