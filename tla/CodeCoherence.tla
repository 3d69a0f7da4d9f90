--------------------------- MODULE CodeCoherence ---------------------------
(***************************************************************************)
(* One core's data and instruction caches, the switch between them (data   *)
(* first) and the memory, in rtl/core/astrarv32_top.vhd.  The software     *)
(* stores code, executes fence.i and fetches it.  fence.i pulses both      *)
(* caches' sync inputs for a cycle and restarts the instruction fetch; the *)
(* processor does not wait for the caches.  One step is one clock edge.    *)
(***************************************************************************)
EXTENDS Naturals, Sequences

CONSTANTS NUM_BLOCKS, BLOCK_WORDS, BURSTS_EN

VARIABLES d_ctrl, d_ram, d_rd,              \* data cache
          i_ctrl, i_ram, i_rd,              \* instruction cache
          state, lock, sel_q, pend,         \* bus switch
          q, mem,           \* memory: strobes to be answered, contents
          lsu, ifu,         \* [wait, a, rw], [wait, a, fresh] data, fetch access
          phase,            \* progress of the software
          age,              \* cycles since fence.i, up to RestartDelay
          want, got         \* ghosts: the words stored before fence.i, the
                            \* last word fetched after it

dVars == <<d_ctrl, d_ram, d_rd>>
iVars == <<i_ctrl, i_ram, i_rd>>
swVars == <<state, lock, sel_q, pend>>
vars == <<dVars, iVars, swVars, q, mem, lsu, ifu, phase, age, want, got>>

Tags == {0}
Uncached == {}
D == INSTANCE Cache WITH READ_ONLY <- FALSE, ctrl <- d_ctrl, ram <- d_ram, rd <- d_rd
I == INSTANCE Cache WITH READ_ONLY <- TRUE,  ctrl <- i_ctrl, ram <- i_ram, rd <- i_rd
sw == INSTANCE BusSwitch WITH ROUND_ROBIN_EN <- FALSE

\* A fetch of the new instruction stream starts two cycles after the restart
\* at the earliest (astrarv32_cpu_frontend.vhd, fetch_fsm).
RestartDelay == 2

Word == {0, 1}              \* old and new code
Addr == [t : Tags, i : 0 .. NUM_BLOCKS - 1, o : 0 .. BLOCK_WORDS - 1]
\* The code under test, which software stores and fetches: a word per block.
Code == {[t |-> 0, i |-> b, o |-> BLOCK_WORDS - 1] : b \in 0 .. NUM_BLOCKS - 1}
AnAddr == CHOOSE a \in Code : TRUE

\* The words as the data side sees them.
Stored == [a \in Addr |-> IF d_ram.valid[a.i] THEN d_ram.data[<<a.i, a.o>>] ELSE mem[a]]

NoFetch == [a |-> AnAddr, v |-> 2]
Phase == {"run", "fenced"}

\* Both caches, their switch and the code under test keep their ranges.
TypeOK == /\ D!CacheTypeOK(Word) /\ I!CacheTypeOK(Word) /\ sw!SwitchTypeOK
          /\ mem \in [Addr -> Word] /\ want \in [Addr -> Word]
          /\ Len(q) <= BLOCK_WORDS
          /\ lsu \in [wait : BOOLEAN, a : Code, rw : BOOLEAN]
          /\ ifu \in [wait : BOOLEAN, a : Code, fresh : BOOLEAN]
          /\ phase \in Phase /\ age \in 0 .. RestartDelay
          /\ got \in [a : Code, v : Word] \cup {NoFetch}

Init == /\ D!CacheInit(0, 0) /\ d_ram.dirty = [b \in D!Block |-> FALSE]
        /\ I!CacheInit(0, 0) /\ sw!SwitchInit
        /\ q = << >>
        /\ mem = [a \in Addr |-> 0] /\ want = [a \in Addr |-> 0]
        /\ lsu = [wait |-> FALSE, a |-> AnAddr, rw |-> FALSE]
        /\ ifu = [wait |-> FALSE, a |-> AnAddr, fresh |-> FALSE]
        /\ phase = "run" /\ age = 0
        /\ got = NoFetch

-----------------------------------------------------------------------------
\* The memory serves the switch.
Answer(ans) == [ack |-> ans, err |-> FALSE,
                data |-> IF ans /\ ~Head(q).rw THEN mem[Head(q).a] ELSE 0]
MemClock(b, ans) ==
    LET rest == IF ans THEN Tail(q) ELSE q
    IN  /\ q' = IF b.stb THEN Append(rest, b) ELSE rest
        /\ mem' = IF ans /\ Head(q).rw THEN [mem EXCEPT ![Head(q).a] = Head(q).v] ELSE mem

\* One clock edge: data access ls and strobe, fetch fa and strobe, fence and
\* fence.i signals, whether the memory answers.
Cycle(ls, lstb, fa, fstb, fence, fencei, ans) ==
    LET dh   == [stb |-> lstb, a |-> ls.a, rw |-> ls.rw, amo |-> FALSE, v |-> 1]
        ih   == [stb |-> fstb, a |-> fa, rw |-> FALSE, amo |-> FALSE, v |-> 0]
        dbus == D!bus_req(dh)
        ibus == I!bus_req(ih)
        stb  == [p \in sw!Port |-> IF p = "A" THEN dbus.stb ELSE ibus.stb]
        lck  == [p \in sw!Port |-> IF p = "A" THEN D!bus_lock ELSE I!bus_lock]
        x    == [(IF sw!sel(stb) = "A" THEN dbus ELSE ibus) EXCEPT !.stb = sw!x_stb(stb)]
        rsp  == [p \in sw!Port |-> [Answer(ans) EXCEPT !.ack = sw!AckTo(p, ans)]]
        drsp == D!host_rsp(dh, rsp["A"])
        irsp == I!host_rsp(ih, rsp["B"])
        fresh == IF fstb THEN phase = "fenced" /\ age = RestartDelay ELSE ifu.fresh
    IN  /\ D!CacheClock(dh, fence \/ fencei, rsp["A"])
        /\ I!CacheClock(ih, fencei, rsp["B"])
        /\ sw!SwitchClock(stb, lck, ans)
        /\ MemClock(x, ans)
        /\ lsu' = [ls EXCEPT !.wait = (lsu.wait \/ lstb) /\ ~drsp.ack]
        /\ ifu' = [wait |-> (ifu.wait \/ fstb) /\ ~irsp.ack, a |-> fa, fresh |-> fresh]
        /\ got' = IF irsp.ack /\ fresh THEN [a |-> fa, v |-> irsp.data] ELSE got

Aging == age' = IF phase = "fenced" /\ age < RestartDelay THEN age + 1 ELSE age

\* The data side: nothing, a store, load or fence of the program, or its fence.i.
\* The processor executes in order: a fence comes when no access is under way.
NoData(fa, fstb, ans) ==
    /\ Cycle(lsu, FALSE, fa, fstb, FALSE, FALSE, ans)
    /\ UNCHANGED <<phase, want>>
LoadStore(fa, fstb, ans) ==
    /\ phase = "run" /\ ~lsu.wait
    /\ \E a \in Code, rw \in BOOLEAN :
          Cycle([wait |-> FALSE, a |-> a, rw |-> rw], TRUE, fa, fstb, FALSE, FALSE, ans)
    /\ UNCHANGED <<phase, want>>
Fence(fa, fstb, ans) ==
    /\ phase = "run" /\ ~lsu.wait
    /\ Cycle(lsu, FALSE, fa, fstb, TRUE, FALSE, ans)
    /\ UNCHANGED <<phase, want>>
FenceI(fa, fstb, ans) ==
    /\ phase = "run" /\ ~lsu.wait
    /\ Cycle(lsu, FALSE, fa, fstb, FALSE, TRUE, ans)
    /\ phase' = "fenced" /\ want' = Stored

Data(fa, fstb, ans) ==
    NoData(fa, fstb, ans) \/ LoadStore(fa, fstb, ans) \/ Fence(fa, fstb, ans) \/ FenceI(fa, fstb, ans)

\* The fetch side runs ahead of the execution and requests word after word.
Next == /\ Aging
        /\ \E ans \in {FALSE, q # << >>} :
              \/ Data(ifu.a, FALSE, ans)
              \/ ~ifu.wait /\ \E fa \in Code : Data(fa, TRUE, ans)

Spec == Init /\ [][Next]_vars

-----------------------------------------------------------------------------
\* An instruction fetched after fence.i is the one stored before it: the data
\* cache has written it back when the instruction cache reads the memory.
FetchCurrent == got # NoFetch => got.v = want[got.a]
=============================================================================
