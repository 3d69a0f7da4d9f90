--------------------------- MODULE MCCachedMemory ---------------------------
(* Programs for model checking.  Block 0 is used by two tags, block 1 by   *)
(* one; tag 2 is uncached, tag 3 has faulty words.                         *)
EXTENDS CachedMemory

At(t, i, o) == [t |-> t, i |-> i, o |-> o]
R(o, a, v) == [op |-> o, a |-> a, v |-> v]

\* Both words of a block, a block that replaces it, and a neighbour.
DataProgram ==
    {R("st", At(0, 0, 1), v) : v \in Word} \cup
    {R("ld", At(0, 0, 1), 0), R("ld", At(0, 0, 0), 0), R("st", At(1, 0, 0), 1),
     R("st", At(0, 1, 1), 1)}

\* Atomic and uncached accesses next to cached ones.
BypassProgram ==
    {R("st", At(0, 0, 1), 1), R("ld", At(0, 0, 1), 0), R("swap", At(0, 0, 1), 0),
     R("ld", At(1, 0, 0), 0), R("st", At(2, 0, 0), 1), R("ld", At(2, 0, 0), 0)}

\* Loads that fail in either word, a store that cannot be written back.
ErrorProgram ==
    {R("ld", At(0, 0, 0), 0), R("ld", At(3, 0, 1), 0), R("ld", At(3, 0, 0), 0),
     R("st", At(3, 1, 1), 1), R("ld", At(3, 1, 1), 0), R("st", At(0, 0, 0), 1)}

AllPrograms == {DataProgram, BypassProgram, ErrorProgram}
LoadError == {At(3, 0, 1)}
UploadError == {At(3, 1, 1)}

ASSUME NothingIsLost == Writable
=============================================================================
