---------------------------- MODULE CachedMemory ----------------------------
(***************************************************************************)
(* A load/store unit, its data cache and the memory behind it (D$ in       *)
(* rtl/core/astrarv32_top.vhd).  One step is one clock edge: the host may  *)
(* send a strobe or a fence, the memory may answer the oldest strobe.      *)
(***************************************************************************)
EXTENDS Cache, Sequences

CONSTANTS Programs,         \* the software: sets of accesses [op, a, v]
          Size,             \* number of data values
          ReadErr, WriteErr          \* addresses that answer with a bus error

VARIABLES prog,             \* the software that runs
          req,              \* the access the host performs or performed last
          waiting,          \* it has no answer yet
          q,                \* strobes the memory has to answer, oldest first
          mem, out,         \* contents; ghost: last access and its result
          old               \* ghost: blocks valid since before the last fence

vars == <<cacheVars, prog, req, waiting, q, mem, out, old>>

Word == 0 .. Size - 1
Addr == [t : Tags, i : Block, o : Offset]
Request == [op : {"ld", "st", "swap"}, a : Addr, v : Word]

ASSUME CachedAssumption == /\ NUM_BLOCKS \in Nat /\ NUM_BLOCKS >= 2
                           /\ BLOCK_WORDS \in Nat /\ BLOCK_WORDS >= 2
                           /\ Size \in Nat \ {0} /\ Tags # {}
                           /\ READ_ONLY = FALSE /\ BURSTS_EN \in BOOLEAN
                           /\ \A p \in Programs : p \subseteq Request /\ p # {}
                           /\ ReadErr \subseteq Addr /\ WriteErr \subseteq Addr

\* What the software sees at an address: the cached word, unless the block is
\* just being replaced, or the memory's.
Cached(a) == /\ ram.valid[a.i] /\ ram.tag[a.i] = a.t
             /\ ~(ctrl.state \in Download \cup {"S_READ_DONE"} /\ ctrl.idx = a.i)
View == [a \in Addr |-> IF Cached(a) THEN ram.data[<<a.i, a.o>>] ELSE mem[a]]

Granule(a) == "any"         \* no reservations here
Atomic == INSTANCE AtomicMemory WITH Host <- {"cpu"}, Request <- UNION Programs, mem <- View,
             link <- [h \in {"cpu"} |-> "nolink"]

\* Cache registers keep their ranges; the host is idle, waits or synchronises.
TypeOK == /\ CacheTypeOK(Word)
          /\ prog \in Programs /\ req \in prog /\ waiting \in BOOLEAN
          /\ mem \in [Addr -> Word]
          /\ Len(q) <= BLOCK_WORDS
          /\ old \subseteq Block

Init == /\ CacheInit(CHOOSE t \in Tags : TRUE, 0)
        /\ prog \in Programs
        /\ req = CHOOSE r \in prog : TRUE
        /\ waiting = FALSE
        /\ q = << >>
        /\ mem = [a \in Addr |-> 0]
        /\ out = [host |-> "cpu", req |-> [req EXCEPT !.op = "none"], res |-> 0]
        /\ old = {}

-----------------------------------------------------------------------------

Drives(r, stb) == [stb |-> stb, a |-> r.a, rw |-> r.op = "st", amo |-> r.op = "swap", v |-> r.v]

(* The memory: an access to a faulty address has no effect and reads zero; *)
(* the read-modify-write controller makes an atomic operation one access.  *)
Oldest == Head(q)
Writes(b) == b.rw \/ b.amo
Fails(b) == b.a \in (IF Writes(b) THEN WriteErr ELSE ReadErr)
Answer(ans) == [ack |-> ans, err |-> ans /\ Fails(Oldest),
                data |-> IF ans /\ ~Oldest.rw /\ ~Fails(Oldest) THEN mem[Oldest.a] ELSE 0]

MemClock(b, ans) ==
    LET rest == IF ans THEN Tail(q) ELSE q
    IN  /\ q' = IF b.stb THEN Append(rest, b) ELSE rest
        /\ mem' = IF ans /\ Writes(Oldest) /\ ~Fails(Oldest)
                  THEN [mem EXCEPT ![Oldest.a] = Oldest.v] ELSE mem

Result(r, rsp) == IF rsp.err THEN Atomic!BusError ELSE IF r.op = "st" THEN 0 ELSE rsp.data

\* r and stb are the host's request, s its fence.
Cycle(r, stb, s, ans) ==
    LET h   == Drives(r, stb)
        rsp == host_rsp(h, Answer(ans))
    IN  /\ CacheClock(h, s, Answer(ans))
        /\ MemClock(bus_req(h), ans)
        /\ req' = r /\ UNCHANGED prog
        /\ waiting' = ((waiting \/ stb) /\ ~rsp.ack)
        /\ out' = IF rsp.ack THEN [host |-> "cpu", req |-> r, res |-> Result(r, rsp)] ELSE out
        /\ old' = (IF s THEN Block ELSE old) \cap {b \in Block : ram'.valid[b]}

\* The software has the processor wait for the answer of an access.  A data
\* fence is executed when none is under way.
Begin(ans)    == ~waiting /\ \E r \in prog : Cycle(r, TRUE, FALSE, ans)
Fence(ans)    == ~waiting /\ Cycle(req, FALSE, TRUE, ans)
Proceed(ans)  == Cycle(req, FALSE, FALSE, ans)

Step(ans) == Begin(ans) \/ Fence(ans) \/ Proceed(ans)

Next == \E ans \in {FALSE, q # << >>} : Step(ans)

Spec == Init /\ [][Next]_vars

\* The clock runs and the memory answers.
FairSpec == Spec /\ WF_vars(Next) /\ WF_vars(q # << >> /\ Step(TRUE))

-----------------------------------------------------------------------------
\* The software cannot tell the cache from a memory: evictions, refills,
\* fences and the bypass of atomic operations change no word it sees.
IsAtomic == Atomic!Spec

\* When no fence is pending or under way, every block that was valid before
\* the last one is gone, except for blocks whose write-back failed: these are
\* still dirty.
FenceFlushes ==
    (ctrl.state = "S_IDLE" /\ ~ctrl.pnd_syn) =>
        \A b \in old : ram.dirty[b] /\ \E a \in WriteErr : a.i = b /\ a.t = ram.tag[b]

\* An access that goes past the cache fails with its own word.  Any other one
\* fails with any word of its block: the block is not kept.
Bypasses(r) == r.a.t \in Uncached \/ r.op = "swap"
Faulty(r) == IF Bypasses(r) THEN r.a \in (IF r.op = "ld" THEN ReadErr ELSE WriteErr)
             ELSE \E a \in ReadErr : a.t = r.a.t /\ a.i = r.a.i

\* No program makes the cache replace a block that cannot be written back: such
\* a word is not cached, or its block is the only one its programs have there.
Writable ==
    \A a \in WriteErr :
        \/ a.t \in Uncached
        \/ \E e \in ReadErr : e.t = a.t /\ e.i = a.i
        \/ \A p \in Programs : \A x, y \in p :
              x.a.i = a.i /\ y.a.i = a.i => x.a.t = y.a.t /\ ~Bypasses(x)

\* The bus error of an access is reported, every time.
ErrorsReported == out.req.op # "none" /\ Faulty(out.req) => out.res = Atomic!BusError

\* A bus error is reported only if the memory has one for the block of the
\* access or for the block that is written back to make room for it; the error
\* of another block's write-back during a fence is not.
ErrorsAreOwn ==
    out.res = Atomic!BusError =>
        \/ \E a \in ReadErr : a.t = out.req.a.t /\ a.i = out.req.a.i
        \/ \E a \in WriteErr : a.i = out.req.a.i

\* Every access is answered, fences notwithstanding.
Answered == waiting ~> ~waiting

\* Every fence is carried out.
FenceServed == ctrl.pnd_syn ~> (ctrl.state = "S_IDLE" /\ ctrl.sync)

\* A bus error is told to the access it belongs to, and to no other.
ErrorsExact == TypeOK /\ ErrorsReported /\ ErrorsAreOwn

\* Nobody waits for ever, neither for an access nor for a fence.
Served == Answered /\ FenceServed
=============================================================================
