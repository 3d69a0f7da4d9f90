---------------------------- MODULE SwitchedBus ----------------------------
(***************************************************************************)
(* The bus switch between two hosts and a device, as it is used three      *)
(* times in rtl/core/astrarv32_top.vhd: D-cache over I-cache, core 0 with  *)
(* core 1 (round robin), CPUs over DMA.  One step is one clock edge.       *)
(*                                                                         *)
(* The hosts are the processor's bus masters reduced to their handshake:   *)
(* the load/store unit, the caches, the instruction fetch and the DMA send *)
(* a one-cycle strobe and wait for the acknowledge of a single access      *)
(* (fetch, load/store, DMA), or hold the lock signal over several strobes  *)
(* (cache block transfers) or over one (atomic read-modify-write).  After  *)
(* a lock release a host is silent for at least one cycle.                 *)
(***************************************************************************)
EXTENDS Naturals, BusSwitch

CONSTANT BlockLen           \* elements of a locked block transfer

ASSUME SwitchAssumption == /\ BlockLen \in Nat \ {0}
                           /\ ROUND_ROBIN_EN \in BOOLEAN

VARIABLES host,             \* handshake state of each host
          left,             \* elements of its transfer not strobed yet
          outst,            \* strobes the host has no acknowledge for yet
          x_out             \* strobes of each host the device has to answer

vars == <<switchVars, host, left, outst, x_out>>

HostState == {"idle",       \* nothing to do
              "armed",      \* lock raised (LSU: a cycle ahead of the strobe)
              "single",     \* waiting for the answer of an unlocked access
              "locked",     \* first strobe of a locked transfer sent
              "stream",     \* locked transfer with at least one answer
              "release"}    \* lock just dropped: silent for this cycle

\* Arbiter and hosts keep their ranges; no transfer has more strobes
\* outstanding than it has sent.
TypeOK == /\ SwitchTypeOK
          /\ host \in [Port -> HostState]
          /\ left \in [Port -> 0 .. BlockLen]
          /\ outst \in [Port -> 0 .. BlockLen]
          /\ x_out \in [Port -> 0 .. BlockLen]

Init == /\ SwitchInit
        /\ host = [p \in Port |-> "idle"]
        /\ left = [p \in Port |-> 0]
        /\ outst = [p \in Port |-> 0]
        /\ x_out = [p \in Port |-> 0]

-----------------------------------------------------------------------------
(* One host in one cycle: m.stb and m.lck are the signals it drives, m.st, *)
(* m.left and m.out its next state, elements left and unanswered strobes;  *)
(* a says whether an acknowledge is routed to it.                          *)

HostMove == [stb : BOOLEAN, lck : BOOLEAN, st : HostState,
             left : 0 .. BlockLen, out : 0 .. BlockLen]

Begin(p, m) ==
    /\ host[p] = "idle"
    /\ \/ ~m.stb /\ ~m.lck /\ m.st \in {"idle", "armed"} /\ m.left = 0 /\ m.out = 0
       \/ m.stb /\ ~m.lck /\ m.st = "single" /\ m.left = 0 /\ m.out = 1
       \/ m.stb /\ m.lck /\ m.st = "locked" /\ m.left = BlockLen - 1 /\ m.out = 1

\* astrarv32_cpu_lsu.vhd: the lock precedes the strobe; a misaligned or
\* protected access sends none and the trap drops the lock.
Armed(p, m) ==
    /\ host[p] = "armed" /\ m.lck /\ m.left = 0
    /\ \/ m.stb /\ m.st = "locked" /\ m.out = 1
       \/ ~m.stb /\ m.st \in {"armed", "idle"} /\ m.out = 0

WaitSingle(p, m, a) ==
    /\ host[p] = "single" /\ ~m.stb /\ ~m.lck /\ m.left = 0
    /\ m.st = IF a THEN "idle" ELSE "single"
    /\ m.out = IF a THEN outst[p] - 1 ELSE outst[p]

\* Only the first answer shows that the bus is granted.
WaitLocked(p, m, a) ==
    /\ host[p] = "locked" /\ ~m.stb /\ m.lck /\ m.left = left[p]
    /\ IF a THEN m.st = (IF left[p] = 0 THEN "release" ELSE "stream") /\ m.out = outst[p] - 1
            ELSE m.st = "locked" /\ m.out = outst[p]

\* Further elements, pipelined (bursts) or one by one; the lock is dropped
\* in the cycle after the last answer.
Stream(p, m, a) ==
    /\ host[p] = "stream" /\ m.lck
    /\ m.stb => left[p] > 0
    /\ m.left = left[p] - (IF m.stb THEN 1 ELSE 0)
    /\ m.out = outst[p] + (IF m.stb THEN 1 ELSE 0) - (IF a THEN 1 ELSE 0)
    /\ m.st = IF m.left = 0 /\ m.out = 0 THEN "release" ELSE "stream"

Release(p, m) ==
    /\ host[p] = "release" /\ ~m.stb /\ ~m.lck
    /\ m.st = "idle" /\ m.left = left[p] /\ m.out = outst[p]

HostClock(p, m, a) ==
    \/ Begin(p, m)
    \/ Armed(p, m)
    \/ WaitSingle(p, m, a)
    \/ WaitLocked(p, m, a)
    \/ Stream(p, m, a)
    \/ Release(p, m)

\* The device answers a strobe in a later cycle.
Answering == {p \in Port : x_out[p] > 0}

\* One clock edge: the hosts' moves mA and mB, and the port d whose strobe the
\* device answers ("none" if it answers none).
Cycle(mA, mB, d) ==
    LET m   == [p \in Port |-> IF p = "A" THEN mA ELSE mB]
        stb == [p \in Port |-> m[p].stb]
        lck == [p \in Port |-> m[p].lck]
    IN  /\ SwitchClock(stb, lck, d # "none")
        /\ host' = [p \in Port |-> m[p].st]
        /\ left' = [p \in Port |-> m[p].left]
        /\ outst' = [p \in Port |-> m[p].out]
        /\ x_out' = [p \in Port |-> x_out[p] + (IF x_stb(stb) /\ sel(stb) = p THEN 1 ELSE 0)
                                             - (IF d = p THEN 1 ELSE 0)]

Step(d) == \E mA \in HostMove : /\ HostClock("A", mA, AckTo("A", d # "none"))
                                /\ \E mB \in HostMove :
                                      /\ HostClock("B", mB, AckTo("B", d # "none"))
                                      /\ Cycle(mA, mB, d)

Next == \E d \in Answering \cup {"none"} : Step(d)

Spec == Init /\ [][Next]_vars

-----------------------------------------------------------------------------
(* Safety.                                                                 *)

\* Every strobe a host waits for is held exactly once: caught in the arbiter,
\* or at the device.  Nothing is lost while the other port is served, nothing
\* is sent twice.
Caught(p) == IF pend[p] /\ state # Busy(p) THEN 1 ELSE 0
NoLostRequest == \A p \in Port : outst[p] = x_out[p] + Caught(p)

\* While the device owes an answer to a host, the registered select points to
\* that host: no host takes another one's acknowledge.
ResponseRouting == \A p \in Port : x_out[p] > 0 => state = Busy(p) /\ sel_q = p

\* Once a locked transfer has its first answer the bus is its own until the
\* lock is dropped, even between two elements with nothing in flight.
LockExclusive == \A p \in Port : host[p] = "stream" => state = Busy(p) /\ lock[p]

\* The inductive invariant: what the arbiter knows of each host.
HostView(p) ==
    /\ host[p] \in {"idle", "armed"} => outst[p] = 0 /\ left[p] = 0
    /\ host[p] \in {"single", "locked"} => outst[p] = 1
    /\ host[p] = "single" => left[p] = 0
    /\ host[p] = "locked" => left[p] < BlockLen
    /\ host[p] = "stream" => outst[p] + left[p] \in 1 .. BlockLen - 1
    /\ host[p] = "release" => outst[p] = 0 /\ left[p] = 0
Served(p) ==
    state = Busy(p) => /\ sel_q = p
                       /\ host[p] \in {"single", "locked", "stream", "release"}
                       /\ lock[p] <=> host[p] # "single"
NotServed(p) ==
    state # Busy(p) => /\ x_out[p] = 0
                       /\ host[p] \in {"idle", "armed", "single", "locked"}
                       /\ pend[p] <=> host[p] \in {"single", "locked"}
IInv == /\ TypeOK
        /\ NoLostRequest
        /\ \A p \in Port : HostView(p) /\ Served(p) /\ NotServed(p)

(* Liveness.  The clock runs, the device answers, and a block transfer goes *)
(* on to its last element: the cache controllers never pause for ever.      *)
StreamStep(p) == Next /\ host[p] = "stream" /\ left'[p] < left[p]
AnswerStep    == \E d \in Answering : Step(d)

Fairness == /\ WF_vars(Next)
            /\ WF_vars(AnswerStep)
            /\ \A p \in Port : WF_vars(StreamStep(p))

FairSpec == Spec /\ Fairness

\* Fair and lockable scheduling: no host waits for ever, whatever the other
\* one keeps requesting.
NoStarvation == \A p \in Port : (outst[p] > 0) ~> (outst[p] = 0)
=============================================================================
