------------------------------ MODULE PrimFifo ------------------------------
(***************************************************************************)
(* rtl/core/astrarv32_prim.vhd, entity astrarv32_prim_fifo: the FIFO the   *)
(* UART, SPI, SDI, TWI, TWD, SLINK, NEOLED, TRNG and DMA modules buffer    *)
(* their data in.  One step is one rising clock edge with arbitrary        *)
(* inputs: nothing is assumed about the users.                             *)
(*                                                                         *)
(* DEPTH is 2**AWIDTH.  A pointer has one bit more than an index; its      *)
(* upper half (p >= DEPTH) is the wrap bit.                                *)
(***************************************************************************)
EXTENDS Naturals, Sequences

CONSTANTS DEPTH,      \* 2**AWIDTH entries
          Data        \* values of an entry

ASSUME DepthAssumption == DEPTH \in Nat \ {0}

VARIABLES w_pnt, r_pnt,   \* write and read pointer registers
          fifo,           \* the RAM
          avail,          \* registered "not empty" (used if DEPTH > 1)
          rdata           \* the RAM's output register (used if DEPTH > 1)

vars == <<w_pnt, r_pnt, fifo, avail, rdata>>

Index   == 0 .. DEPTH - 1
Pointer == 0 .. 2 * DEPTH - 1

Wrapped(p) == p >= DEPTH                        \* pnt(AWIDTH)
Slot(p) == IF Wrapped(p) THEN p - DEPTH ELSE p \* pnt(AWIDTH-1 downto 0)
Inc(p) == IF p = 2 * DEPTH - 1 THEN 0 ELSE p + 1

Match == Slot(r_pnt) = Slot(w_pnt)
Full  == Wrapped(r_pnt) # Wrapped(w_pnt) /\ Match
Empty == Wrapped(r_pnt) = Wrapped(w_pnt) /\ Match

\* The ports; a single-entry FIFO has neither the status nor the RAM register.
free_o == ~Full
avail_o == IF DEPTH = 1 THEN ~Empty ELSE avail
rdata_o == IF DEPTH = 1 THEN fifo[0] ELSE rdata

Init == /\ w_pnt = 0 /\ r_pnt = 0
        /\ fifo \in [Index -> Data]
        /\ avail = FALSE
        /\ rdata \in Data

\* Fault: the write pointer is not held when the FIFO is full.
WriteNextUngated(clear, we) == w_pnt' = IF clear THEN 0 ELSE IF we THEN Inc(w_pnt) ELSE w_pnt

WriteNext(clear, we) == w_pnt' = IF clear THEN 0 ELSE IF we /\ ~Full THEN Inc(w_pnt) ELSE w_pnt
ReadNext(clear, re)  == r_pnt' = IF clear THEN 0 ELSE IF re /\ ~Empty THEN Inc(r_pnt) ELSE r_pnt

\* "[important] 'avail' is synchronized to the read port"
StatusNext == avail' = ~Empty

\* Fault: the RAM write enable is not gated by "full".
MemoryNextUngated(we, d) ==
    /\ fifo' = IF we THEN [fifo EXCEPT ![Slot(w_pnt)] = d] ELSE fifo
    /\ rdata' = fifo[Slot(r_pnt)]

\* Fault: the RAM is read at the pointer's next value.
MemoryNextReadAhead(we, d) ==
    /\ fifo' = IF we /\ ~Full THEN [fifo EXCEPT ![Slot(w_pnt)] = d] ELSE fifo
    /\ rdata' = fifo[Slot(r_pnt')]

\* Simple dual-port RAM: a read in the cycle of a write returns the old word.
MemoryNext(we, d) ==
    /\ fifo' = IF we /\ ~Full THEN [fifo EXCEPT ![Slot(w_pnt)] = d] ELSE fifo
    /\ rdata' = fifo[Slot(r_pnt)]

Clock(clear, we, d, re) ==
    /\ WriteNext(clear, we)
    /\ ReadNext(clear, re)
    /\ StatusNext
    /\ MemoryNext(we, d)

Next == \E clear, we, re \in BOOLEAN, d \in Data : Clock(clear, we, d, re)

Spec == Init /\ [][Next]_vars

-----------------------------------------------------------------------------
\* Pointers, RAM and registered outputs keep their ranges.
TypeOK == /\ w_pnt \in Pointer /\ r_pnt \in Pointer
          /\ fifo \in [Index -> Data]
          /\ avail \in BOOLEAN
          /\ rdata \in Data

\* Number of entries the pointers delimit.
Level == IF w_pnt >= r_pnt THEN w_pnt - r_pnt ELSE w_pnt + 2 * DEPTH - r_pnt

\* Whatever the users do, the pointers never drift more than DEPTH apart, so
\* the status flags (which see only equality and the wrap bit) are exact.
LevelBound == /\ Level <= DEPTH
              /\ Full <=> Level = DEPTH
              /\ Empty <=> Level = 0

\* The stored entries, oldest first.
Entries == [i \in 1 .. Level |->
              fifo[Slot(IF r_pnt + (i - 1) < 2 * DEPTH THEN r_pnt + (i - 1)
                                                       ELSE r_pnt + (i - 1) - 2 * DEPTH)]]

\* The pointer/RAM/flag implementation is the bounded queue.
Queue == INSTANCE BoundedQueue WITH Capacity <- DEPTH, q <- Entries
ImplementsQueue == Queue!Spec

\* The read port seen by a consumer.  (1) After a cycle that removed nothing,
\* a set avail_o means there is an oldest entry and rdata_o shows it, although
\* both come from registers that lag the pointers by a cycle.  (2) After a
\* cycle that popped, rdata_o of a multi-entry FIFO shows the popped entry.
\* (3) avail_o lags by at most that cycle: entries that were already stored
\* are announced.
ReadPortStep ==
    /\ (r_pnt' = r_pnt /\ Level' >= Level /\ avail_o')
         => (Level' > 0 /\ rdata_o' = Entries'[1])
    /\ (DEPTH > 1 /\ Level > 0 /\ r_pnt' = Inc(r_pnt))
         => rdata_o' = Entries[1]
    /\ (Level > 0 /\ r_pnt' = r_pnt /\ Level' >= Level) => avail_o'

ReadPort == [][ReadPortStep]_vars
=============================================================================
