----------------------------- MODULE SystemBus -----------------------------
(***************************************************************************)
(* The gateway between the processor's bus masters and the address         *)
(* sections, with the XBUS bridge on port X (rtl/core/astrarv32_top.vhd).  *)
(* One step is one clock edge.                                             *)
(*                                                                         *)
(* The masters appear as one host: the bus switches in front of the        *)
(* gateway let one through at a time, but the next master's strobe may     *)
(* follow in the very cycle after an answer.  It sends single accesses and *)
(* locked transfers of up to BurstLen elements.                            *)
(***************************************************************************)
EXTENDS BusGateway, Xbus

CONSTANTS BurstLen,         \* elements of a locked transfer
          MaxPause,         \* cycles a locked transfer pauses between strobes
          MemLatency,       \* slowest answer of an internal memory or device,
                            \* counted from the transfer's previous answer
          LateAnswers       \* may an external device miss its window?

VARIABLES host,             \* "idle", "single", "locked", "release"
          tgt,              \* section of the host's transfer
          left, outst,      \* strobes to send, responses to come
          age,              \* cycles since its last response
          devq,             \* strobes each section has to answer ...
          stale,            \* ... and strobes of transfers that are over
          got               \* what the host received in the last cycle

vars == <<keeper, xbusVars, host, tgt, left, outst, age, devq, stale, got>>

X == "xbus"                 \* the external bus
Mem == "mem"                \* an internal memory: always answers
Hole == "hole"              \* internal section with nothing at the address
Slow == "slow"              \* section that takes its time, without a timeout
Sections == {X, Mem, Hole, Slow}

\* Windows for model checking: one is extended to a power of two, one is disabled.
Tmo == [p \in Port |-> CASE p = X -> 3 [] p = Slow -> 0 [] OTHER -> 4]

MaxAge == CntSize           \* bound of the age counter
MaxStale == 2               \* bound of the stale strobes: more are forgotten

ASSUME SystemAssumption == /\ Port \subseteq Sections /\ Port # {}
                           /\ BurstLen \in Nat \ {0} /\ MaxPause \in Nat /\ MemLatency \in Nat \ {0}
                           /\ LateAnswers \in BOOLEAN

\* The internal memories are faster than their window (int_bus_tmo_c), pauses
\* of the block transfers included; the slow section has none.
ASSUME WindowAssumption ==
    /\ Mem \in Port /\ PORT_TMO[Mem] > 0 => MaxPause + 2 <= Window(Mem) /\ MemLatency <= Window(Mem)
    /\ Slow \in Port => PORT_TMO[Slow] = 0

\* Monitor, bridge, host and device keep their ranges.
TypeOK == /\ KeeperTypeOK /\ XbusTypeOK
          /\ host \in {"idle", "single", "locked", "release"}
          /\ tgt \in Port \cup {NoPort}
          /\ left \in 0 .. BurstLen /\ outst \in 0 .. BurstLen
          /\ age \in 0 .. MaxAge
          /\ devq \in [Port -> 0 .. BurstLen]
          /\ stale \in [Port -> 0 .. MaxStale]
          /\ got \in {"nothing", "own", "foreign", "error"}

Init == /\ KeeperInit /\ XbusInit
        /\ host = "idle" /\ tgt = NoPort /\ left = 0 /\ outst = 0 /\ age = 0
        /\ devq = [p \in Port |-> 0] /\ stale = [p \in Port |-> 0]
        /\ got = "nothing"

-----------------------------------------------------------------------------
(* The host: m.stb, m.lck and m.to are the signals it drives in the cycle, *)
(* a is the acknowledge it receives.                                       *)

HostMove == [stb : BOOLEAN, lck : BOOLEAN, to : Port \cup {NoPort}]

Start(m) ==
    /\ host = "idle"
    /\ tgt' = m.to /\ outst' = IF m.stb THEN 1 ELSE 0
    /\ left' = IF m.stb /\ m.lck THEN BurstLen - 1 ELSE 0
    /\ m.lck => m.stb
    /\ host' = IF ~m.stb THEN "idle" ELSE IF m.lck THEN "locked" ELSE "single"

WaitSingle(m, a) ==
    /\ host = "single" /\ ~m.stb /\ ~m.lck /\ m.to = tgt
    /\ outst' = IF a THEN 0 ELSE 1
    /\ host' = IF a THEN "idle" ELSE "single"
    /\ UNCHANGED <<tgt, left>>

\* An element may be answered with an error in the cycle of its strobe;
\* the block transfers count that answer, the atomic accesses wait on.
Transfer(m, a) ==
    /\ host = "locked" /\ m.lck /\ m.to = tgt
    /\ m.stb => left > 0
    /\ outst = 0 /\ age >= MaxPause => m.stb
    /\ left' = left - (IF m.stb THEN 1 ELSE 0)
    /\ LET sent == outst + (IF m.stb THEN 1 ELSE 0)
       IN  \/ ~a /\ outst' = sent
           \/ a /\ outst > 0 /\ outst' = sent - 1
           \/ a /\ outst = 0 /\ outst' \in {0, sent}
    /\ host' = IF left' = 0 /\ outst' = 0 THEN "release" ELSE "locked"
    /\ UNCHANGED tgt

Release(m) ==
    /\ host = "release" /\ ~m.stb /\ ~m.lck
    /\ host' = "idle"
    /\ UNCHANGED <<tgt, left, outst>>

HostClock(m, a) == Start(m) \/ WaitSingle(m, a) \/ Transfer(m, a) \/ Release(m)

-----------------------------------------------------------------------------
(* The sections.  An internal memory answers within MemLatency cycles; a   *)
(* hole never does.  The other devices answer when they like or never.     *)

MayAnswer(p) ==
    /\ devq[p] + stale[p] > 0
    /\ p # Hole
    /\ p = X /\ ~LateAnswers /\ PORT_TMO[p] > 0 => cnt < Window(p)
MustAnswer(p) == p = Mem /\ devq[p] + stale[p] > 0 /\ age + 1 >= MemLatency

\* The answers are given in the order of the strobes.  A device whose
\* external cycle ends forgets what it was asked (Wishbone), one that is
\* never late gives up an access with its window.
DeviceClock(m, ans, over, open) ==
    LET kept == {p \in Port : p # Hole /\ (p = X => open)}
        old  == [p \in Port |-> stale[p] - (IF p \in ans /\ stale[p] > 0 THEN 1 ELSE 0)]
        new  == [p \in Port |-> devq[p] - (IF p \in ans /\ stale[p] = 0 THEN 1 ELSE 0)
                                         + (IF m.stb /\ m.to = p THEN 1 ELSE 0)]
    IN  /\ devq' = [p \in Port |-> IF p \in kept /\ ~over THEN new[p] ELSE 0]
        /\ stale' = [p \in Port |-> IF p \notin kept THEN 0
                                    ELSE IF ~over THEN old[p]
                                    ELSE IF p = X /\ ~LateAnswers THEN 0
                                    ELSE IF old[p] + new[p] > MaxStale THEN MaxStale
                                    ELSE old[p] + new[p]]

\* One clock edge: the host's move m and the set of sections that answer.
Cycle(m, ans) ==
    LET xstb == m.stb /\ m.to = X
        ack  == (\E p \in ans : p # X) \/ xbus_rsp(X \in ans)
        a    == rsp_ack(ack)
        over == host' \in {"idle", "release"}
    IN  /\ KeeperClock(m.stb, m.lck, m.to, ack)
        /\ XbusClock(xstb, m.lck, term_o, X \in ans)
        /\ HostClock(m, a)
        /\ age' = IF over \/ a \/ host = "idle" THEN 0 ELSE IF age < MaxAge THEN age + 1 ELSE age
        /\ DeviceClock(m, ans, over, xbus_cyc_o(xstb))
        /\ got' = IF ~a THEN "nothing"
                  ELSE IF bus_err THEN "error"
                  ELSE IF \E p \in ans : stale[p] > 0 THEN "foreign" ELSE "own"

Next == \E m \in HostMove, ans \in SUBSET {p \in Port : MayAnswer(p)} :
            /\ \A p \in Port : MustAnswer(p) => p \in ans
            /\ Cycle(m, ans)

Spec == Init /\ [][Next]_vars

-----------------------------------------------------------------------------
(* Safety.                                                                 *)

\* Every access is completed within the window of its section: the keeper
\* never loses track of an access the host still waits for.
BoundedResponse ==
    outst > 0 => \/ tgt = NoPort /\ age <= 1
                 \/ tgt # NoPort /\ PORT_TMO[tgt] > 0 /\ age <= Window(tgt) + 1
                 \/ tgt # NoPort /\ PORT_TMO[tgt] = 0

\* No response of a transfer that is already over is taken as the answer of
\* the next one.
OwnAnswers == got # "foreign"

\* A section that answers in time, or whose timeout is disabled, is never
\* reported as a bus error, however long the transfer is.
NoFalseTimeout ==
    tgt = Mem \/ (tgt \in Port /\ PORT_TMO[tgt] = 0) => got # "error"

\* The external cycle is closed when the transfer is over.
CycleClosed == (host = "idle" /\ state = "S_IDLE") => ~pending

\* An access is over in bounded time, and only one that is late is cut off.
TimeoutExact == BoundedResponse /\ NoFalseTimeout

\* What the host takes belongs to its transfer, and nothing of a transfer is
\* left open behind it.
TransfersApart == TypeOK /\ OwnAnswers /\ CycleClosed
=============================================================================
