---------------------------- MODULE AtomicMemory ----------------------------
(***************************************************************************)
(* What the processor promises its bus masters about memory: every access  *)
(* takes effect in one indivisible step, an atomic operation included, and *)
(* a store-conditional succeeds only if the block its core reserved has    *)
(* not been written since (RISC-V A extension; docs/datasheet/soc.adoc,    *)
(* Atomic Memory Access).                                                  *)
(***************************************************************************)
EXTENDS Integers

CONSTANTS Host, Addr, Size, \* masters, addresses, number of data values
          Request,          \* the accesses a master may perform
          Granule(_)        \* block of an address

VARIABLES mem,              \* contents
          link,             \* block each master has reserved, NoLink if none
          out               \* the last access and its result

NoLink == "nolink"
Failed == 1                 \* results of a store-conditional
Passed == 0
BusError == -1              \* result of an access that ends with a bus error
NoRequest == [op |-> "none", a |-> "none", v |-> 0]

Signed(x) == IF 2 * x >= Size THEN x - Size ELSE x

\* The function of each atomic operation.
Rmw(op, old, v) ==
    CASE op = "swap" -> v
      [] op = "add"  -> (old + v) % Size
      [] op = "min"  -> IF Signed(old) <= Signed(v) THEN old ELSE v
      [] op = "max"  -> IF Signed(old) >= Signed(v) THEN old ELSE v
      [] op = "minu" -> IF old <= v THEN old ELSE v
      [] op = "maxu" -> IF old >= v THEN old ELSE v

Init == /\ mem \in [Addr -> 0 .. Size - 1]
        /\ link = [h \in Host |-> NoLink]
        /\ out.res = 0

\* Block g is written: every reservation of it is gone.
Broken(g) == [h \in Host |-> IF link[h] = g THEN NoLink ELSE link[h]]

Returns(h, r, val) == out' = [host |-> h, req |-> r, res |-> val]

Load(h, r) ==
    /\ r.op = "ld"
    /\ Returns(h, r, mem[r.a])
    /\ UNCHANGED <<mem, link>>

Store(h, r) ==
    /\ r.op = "st"
    /\ mem' = [mem EXCEPT ![r.a] = r.v]
    /\ link' = Broken(Granule(r.a))
    /\ Returns(h, r, 0)

ReadModifyWrite(h, r) ==
    /\ r.op \in {"swap", "add", "min", "max", "minu", "maxu"}
    /\ mem' = [mem EXCEPT ![r.a] = Rmw(r.op, @, r.v)]
    /\ link' = Broken(Granule(r.a))
    /\ Returns(h, r, mem[r.a])

LoadReserved(h, r) ==
    /\ r.op = "lr"
    /\ link' = [link EXCEPT ![h] = Granule(r.a)]
    /\ Returns(h, r, mem[r.a])
    /\ UNCHANGED mem

\* It may fail for any reason.
StoreConditional(h, r) ==
    /\ r.op = "sc"
    /\ \/ /\ link[h] = Granule(r.a)
          /\ mem' = [mem EXCEPT ![r.a] = r.v]
          /\ link' = [Broken(Granule(r.a)) EXCEPT ![h] = NoLink]
          /\ Returns(h, r, Passed)
       \/ /\ link' = [link EXCEPT ![h] = NoLink]
          /\ Returns(h, r, Failed)
          /\ UNCHANGED mem

\* A bus error: no effect on memory.
Fault(h, r) ==
    /\ Returns(h, r, BusError)
    /\ link' \in {link, [link EXCEPT ![h] = NoLink]}
    /\ UNCHANGED mem

Next == \E h \in Host, r \in Request :
            \/ Load(h, r)
            \/ Store(h, r)
            \/ ReadModifyWrite(h, r)
            \/ LoadReserved(h, r)
            \/ StoreConditional(h, r)
            \/ Fault(h, r)

Spec == Init /\ [][Next]_<<mem, link, out>>
=============================================================================
