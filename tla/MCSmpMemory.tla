---------------------------- MODULE MCSmpMemory ----------------------------
(* Programs for model checking: one word x that everybody uses, a word y   *)
(* in its block, and a faulty word z in another one.                      *)
EXTENDS SmpMemory

G(a) == IF a \in {"x", "y"} THEN "block0" ELSE "block1"
R(o, a, v) == [op |-> o, a |-> a, v |-> v]

\* Both cores increment atomically while the DMA stores.
Counter == [h \in Host |->
    CASE h = "core0" -> {R("add", "x", 2)}
      [] h = "core1" -> {R("add", "x", 2), R("ld", "x", 0), R("add", "z", 2)}
      [] h = "dma"   -> {R("st", "x", 2)}]

\* Every operation, on every word and a positive and a negative operand.
Operations == [h \in Host |->
    IF h = "core0" THEN {R(o, "x", v) : o \in AmoOp, v \in {1, 2}} ELSE {}]

\* Reservations against the other core's and an atomic operation on the block.
Reservations == [h \in Host |->
    CASE h = "core0" -> {R("lr", "x", 0), R("sc", "x", 1)}
      [] h = "core1" -> {R("lr", "x", 0), R("sc", "x", 0), R("swap", "y", 0)}
      [] h = "dma"   -> {}]

\* A reservation against stores of the DMA, which looks like core 0.
DmaStores == [h \in Host |->
    CASE h = "core0" -> {}
      [] h = "core1" -> {R("lr", "x", 0), R("sc", "x", 1)}
      [] h = "dma"   -> {R("st", "y", 0)}]

AllPrograms == {Counter, Operations, Reservations, DmaStores}
=============================================================================
