-------------------------- MODULE SystemBusProofs --------------------------
(***************************************************************************)
(* The safety of SystemBus for every set of sections, every window, burst  *)
(* length, pause and memory latency, as long as the external devices keep  *)
(* their window.                                                           *)
(***************************************************************************)
EXTENDS SystemBus, WellFoundedInduction, TLAPS

\* A section whose accesses never end with an error of the monitor.
InTime(p) == p = Mem \/ (p \in Port /\ PORT_TMO[p] = 0)
\* Cycles after the last answer in which an access of the memory is open.
MemAge == IF MaxPause + 2 <= MemLatency THEN MemLatency - 1 ELSE MaxPause + 1

\* The monitor and the host agree on the transfer: what one of them waits for
\* the other has not given up.
Agreed ==
    /\ host = "idle" => state = "S_IDLE" /\ left = 0 /\ outst = 0
    /\ host # "idle" => state \in {"S_BUSY", "S_ERROR"} /\ sel = tgt
    /\ host = "single" => ~lock /\ left = 0 /\ outst = 1
    /\ host = "locked" => lock /\ (left # 0 \/ outst # 0)
    /\ host = "release" => lock /\ left = 0 /\ outst = 0

\* Nothing of an earlier transfer is left in a section, and nothing of this
\* one in another section.
Cleared ==
    /\ \A p \in Port : stale[p] = 0
    /\ \A p \in Port : p # tgt \/ host \in {"idle", "release"} => devq[p] = 0
    /\ \A p \in Port : devq[p] + left <= BurstLen
    /\ left + outst <= BurstLen
    /\ \A p \in {Mem, Slow} \cap Port : p = tgt => devq[p] = outst

\* The bridge is open only for a transfer of the external bus, and knows
\* whether it is a locked one.
Bridged == pending => /\ host # "idle" /\ tgt = X
                      /\ locked = (host \in {"locked", "release"})

\* The monitor counts the cycles that the host waits.
Counted ==
    /\ state = "S_BUSY" /\ tgt = NoPort => age = 0 /\ host # "release"
    /\ state = "S_ERROR" /\ tgt = NoPort => age <= 1
    /\ state = "S_BUSY" /\ tgt \in Port /\ PORT_TMO[tgt] > 0 => cnt = age /\ age <= Window(tgt)
    /\ state = "S_ERROR" /\ tgt \in Port => age <= Window(tgt) + 1
    /\ state = "S_BUSY" /\ host = "release" => cnt = 0
    /\ state = "S_BUSY" /\ tgt = Mem => age <= IF outst = 0 THEN MaxPause ELSE MemAge
    /\ state = "S_ERROR" => ~InTime(tgt)
    /\ got = "error" => ~InTime(tgt)

\* The inductive invariant.
IInv == TypeOK /\ OwnAnswers /\ Agreed /\ Cleared /\ Bridged /\ Counted
-----------------------------------------------------------------------------
(* The windows.                                                            *)

\* Of a set of numbers that is not empty, one is the least.
LEMMA Least == ASSUME NEW S \in SUBSET Nat, S # {}
               PROVE  \E m \in S : \A k \in S : ~(k < m)
<1> DEFINE R == {ss \in Nat \X Nat : ss[1] < ss[2]}
<1>1. IsWellFoundedOn(R, Nat)
  BY NatLessThanWellFounded DEF OpToRel
<1> HIDE DEF R
<1>2. PICK m \in S : \A k \in S : ~(<<k, m>> \in R)
  BY <1>1, WFMin
<1> QED
  BY <1>2 DEF R

\* The powers of two of the loop in index_size_f are positive, and the last
\* one is greater than every VHDL natural.
LEMMA Powers == /\ \A k \in 0 .. 31 : 2^k \in Nat \ {0}
                /\ \A n \in VhdlNatural : n \in Nat /\ 2^31 >= n
<1>1. ASSUME NEW n \in VhdlNatural PROVE n \in Nat /\ 2^31 >= n
  BY SMT DEF VhdlNatural
<1>2. ASSUME NEW k \in 0 .. 31 PROVE 2^k \in Nat \ {0}
  <2>1. CASE k \in 0 .. 7
    <3>1. k = 0 \/ k = 1 \/ k = 2 \/ k = 3 \/ k = 4 \/ k = 5 \/ k = 6 \/ k = 7
      BY <2>1, SMT
    <3>2. /\ 2^0 \in Nat \ {0} /\ 2^1 \in Nat \ {0} /\ 2^2 \in Nat \ {0} /\ 2^3 \in Nat \ {0}
          /\ 2^4 \in Nat \ {0} /\ 2^5 \in Nat \ {0} /\ 2^6 \in Nat \ {0} /\ 2^7 \in Nat \ {0}
      BY SMT
    <3> QED
      BY <3>1, <3>2, Zenon
  <2>2. CASE k \in 8 .. 15
    <3>1. k = 8 \/ k = 9 \/ k = 10 \/ k = 11 \/ k = 12 \/ k = 13 \/ k = 14 \/ k = 15
      BY <2>2, SMT
    <3>2. /\ 2^8 \in Nat \ {0} /\ 2^9 \in Nat \ {0} /\ 2^10 \in Nat \ {0} /\ 2^11 \in Nat \ {0}
          /\ 2^12 \in Nat \ {0} /\ 2^13 \in Nat \ {0} /\ 2^14 \in Nat \ {0} /\ 2^15 \in Nat \ {0}
      BY SMT
    <3> QED
      BY <3>1, <3>2, Zenon
  <2>3. CASE k \in 16 .. 23
    <3>1. k = 16 \/ k = 17 \/ k = 18 \/ k = 19 \/ k = 20 \/ k = 21 \/ k = 22 \/ k = 23
      BY <2>3, SMT
    <3>2. /\ 2^16 \in Nat \ {0} /\ 2^17 \in Nat \ {0} /\ 2^18 \in Nat \ {0} /\ 2^19 \in Nat \ {0}
          /\ 2^20 \in Nat \ {0} /\ 2^21 \in Nat \ {0} /\ 2^22 \in Nat \ {0} /\ 2^23 \in Nat \ {0}
      BY SMT
    <3> QED
      BY <3>1, <3>2, Zenon
  <2>4. CASE k \in 24 .. 31
    <3>1. k = 24 \/ k = 25 \/ k = 26 \/ k = 27 \/ k = 28 \/ k = 29 \/ k = 30 \/ k = 31
      BY <2>4, SMT
    <3>2. /\ 2^24 \in Nat \ {0} /\ 2^25 \in Nat \ {0} /\ 2^26 \in Nat \ {0} /\ 2^27 \in Nat \ {0}
          /\ 2^28 \in Nat \ {0} /\ 2^29 \in Nat \ {0} /\ 2^30 \in Nat \ {0} /\ 2^31 \in Nat \ {0}
      BY SMT
    <3> QED
      BY <3>1, <3>2, Zenon
  <2> QED
    BY <2>1, <2>2, <2>3, <2>4, SMT
<1> QED
  BY <1>1, <1>2

\* A section's window is a positive number of cycles.
LEMMA Windows == \A p \in Port : Window(p) \in Nat \ {0}
<1> SUFFICES ASSUME NEW p \in Port PROVE Window(p) \in Nat \ {0}
  OBVIOUS
<1> DEFINE n == PORT_TMO[p]
           S == {i \in 0 .. 31 : 2^i >= n}
<1>1. n \in Nat /\ 2^31 >= n
  BY GatewayAssumption, Powers
<1>2. 31 \in S
  BY <1>1
<1>3. PICK i \in S : \A k \in S : ~(k < i)
  <2>1. \A i \in S : i \in Nat
    OBVIOUS
  <2> HIDE DEF S
  <2> QED
    BY <1>2, <2>1, Least
<1>4. \A j \in 0 .. i - 1 : 2^j < n
  BY <1>1, <1>3, Powers
<1>5. index_size_f(n) \in 0 .. 31
  BY <1>3, <1>4 DEF index_size_f
<1> QED
  BY <1>5, Powers DEF Window

\* The counter does not wrap within any section's window.
LEMMA CounterSize == /\ CntSize \in Nat
                     /\ \A p \in Port : 2 * Window(p) <= CntSize
<1>1. \E p \in Port : \A q \in Port : Window(q) <= Window(p)
  BY Windows, SystemAssumption DEF Sections
<1>2. PICK p \in Port : /\ \A q \in Port : Window(q) <= Window(p)
                         /\ CntSize = 2 * Window(p)
  BY <1>1 DEF CntSize
<1> QED
  BY <1>2, Windows

\* The monitor's test of one bit of the counter: the window is over when the
\* counter reaches it.
LEMMA Fires == ASSUME NEW w \in Nat \ {0}, NEW c \in 0 .. w
               PROVE  ((c \div w) % 2 = 1) <=> c = w
<1>1. CASE c = w
  <2>1. w \div w = 1
    OBVIOUS
  <2> QED
    BY <1>1, <2>1
<1>2. CASE c < w
  <2>1. c \div w = 0
    BY <1>2
  <2> QED
    BY <1>2, <2>1
<1> QED
  BY <1>1, <1>2

-----------------------------------------------------------------------------
(* One clock edge.                                                         *)

\* The invariant holds after the reset.
LEMMA InitInv == Init => IInv
<1> SUFFICES ASSUME Init PROVE IInv
  OBVIOUS
<1> USE DEF Init, KeeperInit, XbusInit
<1>1. 0 \in 0 .. CntSize - 1 /\ 0 \in 0 .. MaxAge
  BY CounterSize, Windows, SystemAssumption DEF MaxAge
<1>2. TypeOK
  <2>1. devq \in [Port -> 0 .. BurstLen] /\ stale \in [Port -> 0 .. MaxStale]
    BY SystemAssumption DEF MaxStale
  <2> QED
    BY <1>1, <2>1, SystemAssumption DEF TypeOK, KeeperTypeOK, XbusTypeOK
<1>3. Agreed /\ OwnAnswers /\ Bridged
  BY DEF Agreed, OwnAnswers, Bridged
<1>4. Cleared
  BY SystemAssumption DEF Cleared
<1>5. Counted
  BY DEF Counted
<1> QED
  BY <1>2, <1>3, <1>4, <1>5 DEF IInv

\* A cycle of the system, with the host's signals m and the answering sections.
Edge(m, ans) ==
    /\ m \in HostMove /\ ans \in SUBSET {p \in Port : MayAnswer(p)}
    /\ \A p \in Port : MustAnswer(p) => p \in ans
    /\ Cycle(m, ans)
Ack(ans) == (\E p \in ans : p # X) \/ xbus_rsp(X \in ans)

\* Only the section that the host waits for answers.
LEMMA Answers == ASSUME IInv, NEW m, NEW ans, Edge(m, ans), NEW p \in ans
                 PROVE  /\ p \in Port /\ p = tgt /\ p # Hole /\ devq[p] > 0
                        /\ host \in {"single", "locked"}
<1>1. p \in Port /\ p # Hole /\ devq[p] + stale[p] > 0
  BY DEF Edge, MayAnswer
<1>2. devq[p] > 0
  BY <1>1 DEF IInv, Cleared, TypeOK
<1> QED
  BY <1>1, <1>2 DEF IInv, Cleared, TypeOK

\* A window that is over has no answer in its last cycle, is not that of an
\* internal memory, and the transfer is still going on.
LEMMA TooLate == ASSUME IInv, ~LateAnswers, NEW m, NEW ans, Edge(m, ans),
                        state = "S_BUSY", tmo_fire
                 PROVE  /\ ~Ack(ans) /\ ~InTime(tgt)
                        /\ host \in {"single", "locked"}
<1> USE DEF IInv
<1>1. sel = tgt /\ host # "idle"
  BY DEF Agreed
<1>2. tgt \in Port \cup {NoPort} /\ NoPort \notin Port
  BY GatewayAssumption DEF TypeOK
<1>3. CASE tgt = NoPort
  <2>1. ans = {}
    BY <1>2, <1>3, Answers
  <2>2. host # "release"
    BY <1>3 DEF Counted
  <2> QED
    BY <1>1, <1>2, <1>3, <2>1, <2>2 DEF Ack, xbus_rsp, InTime, Mem, NoPort, TypeOK
<1>4. CASE tgt \in Port
  <2>1. PORT_TMO[tgt] > 0 /\ (cnt \div Window(tgt)) % 2 = 1
    BY <1>1, <1>4 DEF tmo_fire
  <2>2. cnt = age /\ cnt \in 0 .. Window(tgt) /\ Window(tgt) \in Nat \ {0}
    BY <1>4, <2>1, Windows DEF Counted, TypeOK, KeeperTypeOK
  <2>3. cnt = Window(tgt)
    BY <2>1, <2>2, Fires
  <2>4. host # "release"
    BY <2>2, <2>3 DEF Counted
  <2>5. tgt # Mem
    <3> SUFFICES ASSUME tgt = Mem PROVE FALSE
      OBVIOUS
    <3>1. age <= IF outst = 0 THEN MaxPause ELSE MemAge
      BY DEF Counted
    <3>2. MaxPause + 2 <= Window(Mem) /\ MemLatency <= Window(Mem)
      BY <1>4, <2>1, WindowAssumption
    <3> QED
      BY <3>1, <3>2, <2>2, <2>3, SystemAssumption DEF MemAge
  <2>6. ~InTime(tgt)
    BY <2>1, <2>5, GatewayAssumption DEF InTime
  <2>7. ASSUME NEW p \in ans PROVE FALSE
    <3>1. p = tgt /\ p # Hole
      BY <2>7, Answers
    <3>2. p # X
      BY <2>1, <2>2, <2>3, <3>1 DEF Edge, MayAnswer
    <3>3. p # Slow
      BY <1>4, <2>1, <3>1, WindowAssumption
    <3> QED
      BY <1>4, <2>5, <3>1, <3>2, <3>3, SystemAssumption DEF Sections
  <2> QED
    BY <1>1, <2>4, <2>6, <2>7 DEF Ack, xbus_rsp, TypeOK
<1> QED
  BY <1>2, <1>3, <1>4

\* What the monitor does in a cycle, in terms of the acknowledge a that the
\* host receives.
LEMMA Keeper == ASSUME IInv, ~LateAnswers, NEW m, NEW ans, Edge(m, ans)
  PROVE LET a == rsp_ack(Ack(ans)) IN
    \/ /\ host = "idle" /\ state = "S_IDLE" /\ ~a
       /\ state' = (IF m.stb THEN "S_BUSY" ELSE "S_IDLE")
       /\ lock' = m.lck /\ sel' = m.to /\ cnt' = 0
    \/ /\ host \in {"single", "locked"} /\ state = "S_BUSY" /\ ~a /\ ~InTime(tgt)
       /\ state' = "S_ERROR" /\ lock' = lock /\ sel' = sel /\ cnt' = (cnt + 1) % CntSize
       /\ tmo_fire
    \/ /\ host # "idle" /\ state = "S_BUSY" /\ (a <=> Ack(ans))
       /\ state' = (IF Finished(m.lck, a) THEN "S_IDLE" ELSE "S_BUSY")
       /\ lock' = lock /\ sel' = sel
       /\ cnt' = (IF a THEN 0 ELSE (cnt + 1) % CntSize)
       /\ ~tmo_fire
    \/ /\ host # "idle" /\ state = "S_ERROR" /\ a
       /\ state' = (IF lock /\ m.lck THEN "S_ERROR" ELSE "S_IDLE")
       /\ lock' = lock /\ sel' = sel /\ cnt' = cnt
<1> DEFINE a == rsp_ack(Ack(ans))
<1>1. KeeperClock(m.stb, m.lck, m.to, Ack(ans))
  BY DEF Edge, Cycle, Ack
<1>2. CASE Accept(m.stb, m.lck, m.to)
  BY <1>2 DEF Accept, IInv, Agreed, TypeOK, rsp_ack, bus_err
<1>3. CASE Timeout(Ack(ans))
  <2>1. ~Ack(ans) /\ ~InTime(tgt) /\ host \in {"single", "locked"}
    BY <1>3, TooLate DEF Timeout
  <2> QED
    BY <1>3, <2>1 DEF Timeout, Count, rsp_ack, bus_err
<1>4. CASE Monitor(m.lck, Ack(ans))
  BY <1>4 DEF Monitor, Count, Finished, IInv, Agreed, rsp_ack, bus_err
<1>5. CASE Reject(m.lck)
  BY <1>5 DEF Reject, IInv, Agreed, rsp_ack, bus_err
<1> QED
  BY <1>1, <1>2, <1>3, <1>4, <1>5 DEF KeeperClock

\* The host's side of a cycle: one of its four moves, in terms of a.
LEMMA Host == ASSUME IInv, NEW m, NEW ans, Edge(m, ans)
  PROVE LET a == rsp_ack(Ack(ans)) IN
    /\ m.stb \in BOOLEAN /\ m.lck \in BOOLEAN /\ m.to \in Port \cup {NoPort}
    /\ Start(m) \/ WaitSingle(m, a) \/ Transfer(m, a) \/ Release(m)
    /\ a \in BOOLEAN
    /\ age' = IF host' \in {"idle", "release"} \/ a \/ host = "idle" THEN 0
              ELSE IF age < MaxAge THEN age + 1 ELSE age
    /\ got' = IF ~a THEN "nothing" ELSE IF bus_err THEN "error" ELSE "own"
<1> DEFINE a == rsp_ack(Ack(ans))
<1>1. \A p \in ans : ~(stale[p] > 0)
  <2>1. \A p \in ans : p \in Port
    BY Answers
  <2>2. \A p \in Port : stale[p] = 0
    BY DEF IInv, Cleared
  <2>3. ~(0 > 0)
    OBVIOUS
  <2> QED
    BY <2>1, <2>2, <2>3, Zenon
<1>2. a \in BOOLEAN
  BY DEF rsp_ack, Ack, xbus_rsp, bus_err
<1>3. m \in HostMove /\ HostClock(m, a)
  BY DEF Edge, Cycle, Ack
<1>4. got' = IF ~a THEN "nothing" ELSE IF bus_err THEN "error" ELSE "own"
  BY <1>1 DEF Edge, Cycle, Ack
<1>5. age' = IF host' \in {"idle", "release"} \/ a \/ host = "idle" THEN 0
             ELSE IF age < MaxAge THEN age + 1 ELSE age
  BY DEF Edge, Cycle, Ack
<1> QED
  BY <1>2, <1>3, <1>4, <1>5 DEF HostClock, HostMove

\* Monitor and host go on agreeing.
LEMMA AgreedStep == ASSUME IInv, ~LateAnswers, NEW m, NEW ans, Edge(m, ans)
                    PROVE  Agreed'
<1> DEFINE a == rsp_ack(Ack(ans))
<1>0. Start(m) \/ WaitSingle(m, a) \/ Transfer(m, a) \/ Release(m)
  BY Host
<1> HIDE DEF a
<1>1. CASE Start(m)
  <2>1. host = "idle" /\ host' = (IF ~m.stb THEN "idle" ELSE IF m.lck THEN "locked" ELSE "single")
    BY <1>1 DEF Start
  <2>2. /\ tgt' = m.to /\ outst' = (IF m.stb THEN 1 ELSE 0)
        /\ ~(m.stb /\ m.lck) => left' = 0
        /\ m.stb \in BOOLEAN /\ m.lck \in BOOLEAN
    BY <1>1, Host DEF Start
  <2>3. /\ state' = (IF m.stb THEN "S_BUSY" ELSE "S_IDLE")
        /\ lock' = m.lck /\ sel' = m.to
    BY <2>1, Keeper
  <2> QED
    BY <2>1, <2>2, <2>3 DEF Agreed
<1>2. CASE WaitSingle(m, a)
  BY <1>2, Keeper, Host DEF WaitSingle, Finished, Agreed, IInv, a
<1>3. CASE Transfer(m, a)
  <2>3. host = "locked" /\ m.lck /\ tgt' = tgt /\ sel = tgt /\ lock
    BY <1>3 DEF Transfer, IInv, Agreed
  <2>4. host' = IF left' = 0 /\ outst' = 0 THEN "release" ELSE "locked"
    BY <1>3 DEF Transfer
  <2>5. lock' = lock /\ sel' = sel /\ state' \in {"S_BUSY", "S_ERROR"}
    BY <2>3, Keeper DEF Finished
  <2>6. host' = "locked" => left' # 0 \/ outst' # 0
    BY <2>4
  <2> QED
    BY <2>3, <2>4, <2>5, <2>6 DEF Agreed
<1>4. CASE Release(m)
  BY <1>4, Keeper, Host DEF Release, Finished, Agreed, IInv
<1> QED
  BY <1>0, <1>1, <1>2, <1>3, <1>4

\* The bridge goes on following the transfer.
LEMMA BridgedStep == ASSUME IInv, ~LateAnswers, NEW m, NEW ans, Edge(m, ans)
                     PROVE  Bridged' /\ XbusTypeOK'
<1> DEFINE a == rsp_ack(Ack(ans))
           xstb == m.stb /\ m.to = X
<1> USE DEF IInv
<1>1. pending \in BOOLEAN /\ locked \in BOOLEAN
  BY DEF TypeOK, XbusTypeOK
<1>2. CASE Open(xstb, m.lck)
  <2>1. pending' = xstb /\ locked' = (xstb /\ m.lck)
    BY <1>2 DEF Open
  <2>2. xstb => /\ host' # "idle" /\ tgt' = X
                /\ m.lck = (host' \in {"locked", "release"})
    BY Host DEF Start, WaitSingle, Transfer, Release
  <2> QED
    BY <2>1, <2>2, Host DEF Bridged, XbusTypeOK
<1>3. CASE Close(m.lck, term_o, X \in ans)
  <2>1. /\ pending' = (~term_o /\ IF locked THEN m.lck ELSE X \notin ans)
        /\ locked' = locked /\ pending
    BY <1>3 DEF Close
  <2>2. host # "idle" /\ tgt = X /\ locked = (host \in {"locked", "release"})
    BY <2>1 DEF Bridged
  <2>3. CASE WaitSingle(m, a)
    <3>1. a => term_o \/ X \in ans
      BY <2>2, Answers, Keeper DEF term_o, Ack, xbus_rsp, rsp_ack, bus_err
    <3> QED
      BY <2>1, <2>2, <2>3, <3>1, Host DEF WaitSingle, Bridged, XbusTypeOK
  <2>4. CASE Transfer(m, a)
    BY <1>1, <2>1, <2>2, <2>4 DEF Transfer, Bridged, XbusTypeOK
  <2>5. CASE Release(m)
    BY <1>1, <2>1, <2>2, <2>5 DEF Release, Bridged, XbusTypeOK
  <2> QED
    BY <2>2, <2>3, <2>4, <2>5, Host DEF Start
<1>4. XbusClock(xstb, m.lck, term_o, X \in ans)
  BY DEF Edge, Cycle
<1> QED
  BY <1>2, <1>3, <1>4 DEF XbusClock

\* Strobes of the cycle: what the host sends goes to its section.
LEMMA Strobe == ASSUME IInv, NEW m, NEW ans, Edge(m, ans)
                PROVE  /\ m.stb => m.to = tgt'
                       /\ host # "idle" => tgt' = tgt
                       /\ host \in {"single", "release"} => ~m.stb
  BY Host DEF Start, WaitSingle, Transfer, Release, IInv, TypeOK

\* The section's open requests after the cycle.
New(m, ans) == [p \in Port |-> devq[p] - (IF p \in ans THEN 1 ELSE 0)
                                       + (IF m.stb /\ m.to = p THEN 1 ELSE 0)]

\* The sections' queues: nothing is stale, and only a section that keeps its
\* requests while the transfer goes on has some.
LEMMA Device == ASSUME IInv, ~LateAnswers, NEW m, NEW ans, Edge(m, ans)
  PROVE /\ \E kept \in SUBSET Port :
             /\ devq' = [p \in Port |-> IF p \in kept /\ host' \notin {"idle", "release"}
                                        THEN New(m, ans)[p] ELSE 0]
             /\ stale' = [p \in Port |-> IF p \notin kept \/ host' \notin {"idle", "release"} \/ p = X
                                         THEN 0
                                         ELSE IF New(m, ans)[p] > MaxStale THEN MaxStale
                                         ELSE New(m, ans)[p]]
             /\ \A p \in {Mem, Slow} \cap Port : p \in kept
             /\ Hole \notin kept
<1> DEFINE open == xbus_cyc_o(m.stb /\ m.to = X)
           kept == {p \in Port : p # Hole /\ (p = X => open)}
           over == host' \in {"idle", "release"}
           old  == [p \in Port |-> stale[p] - (IF p \in ans /\ stale[p] > 0 THEN 1 ELSE 0)]
           new  == [p \in Port |-> devq[p] - (IF p \in ans /\ stale[p] = 0 THEN 1 ELSE 0)
                                         + (IF m.stb /\ m.to = p THEN 1 ELSE 0)]
<1>1. \A p \in Port : stale[p] = 0
  BY DEF IInv, Cleared
<1>2. \A p \in Port : old[p] = 0
  <2>1. ~(0 > 0) /\ 0 - 0 = 0
    OBVIOUS
  <2> QED
    BY <1>1, <2>1
<1>3. new = New(m, ans)
  BY <1>1 DEF New
<1>4. \A p \in Port : New(m, ans)[p] \in Int
  BY DEF New, IInv, TypeOK
<1>5. /\ devq' = [p \in Port |-> IF p \in kept /\ ~over THEN new[p] ELSE 0]
      /\ stale' = [p \in Port |-> IF p \notin kept THEN 0
                                  ELSE IF ~over THEN old[p]
                                  ELSE IF p = X /\ ~LateAnswers THEN 0
                                  ELSE IF old[p] + new[p] > MaxStale THEN MaxStale
                                  ELSE old[p] + new[p]]
  BY DEF Edge, Cycle, DeviceClock
<1>6. kept \in SUBSET Port /\ Hole \notin kept /\ \A p \in {Mem, Slow} \cap Port : p \in kept
  BY DEF Mem, Slow, Hole, X
<1> HIDE DEF kept, old, new
<1>7. \A p \in Port : old[p] + new[p] = New(m, ans)[p]
  <2>1. \A x \in Int : 0 + x = x
    OBVIOUS
  <2> QED
    BY <1>2, <1>3, <1>4, <2>1, Zenon
<1>8. stale' = [p \in Port |-> IF p \notin kept \/ ~over \/ p = X THEN 0
                               ELSE IF New(m, ans)[p] > MaxStale THEN MaxStale
                               ELSE New(m, ans)[p]]
  BY <1>2, <1>5, <1>7
<1> QED
  BY <1>3, <1>5, <1>6, <1>8

\* What the host receives and sends, and what its section has to answer:
\* the same for a section of the processor.
LEMMA Requests == ASSUME IInv, ~LateAnswers, NEW m, NEW ans, Edge(m, ans),
                         NEW p \in Port
  PROVE /\ New(m, ans)[p] \in Nat
        /\ New(m, ans)[p] + left' <= BurstLen /\ left' + outst' <= BurstLen
        /\ left' \in 0 .. BurstLen /\ outst' \in 0 .. BurstLen
        /\ p # tgt' => New(m, ans)[p] = 0
        /\ p \in {Mem, Slow} /\ p = tgt' => New(m, ans)[p] = outst'
<1> DEFINE a == rsp_ack(Ack(ans))
           N == New(m, ans)[p]
           stb == IF m.stb THEN 1 ELSE 0
           answer == IF p \in ans THEN 1 ELSE 0
           Good(l, o) == /\ N \in Nat /\ l \in Nat /\ o \in Nat
                         /\ N + l <= BurstLen /\ l + o <= BurstLen
                         /\ p # tgt' => N = 0
                         /\ p \in {Mem, Slow} /\ p = tgt' => N = o
<1>1. N = devq[p] - answer + (IF m.stb /\ m.to = p THEN 1 ELSE 0)
  BY DEF New
<1>2. /\ devq[p] \in Nat /\ left \in Nat /\ outst \in Nat /\ BurstLen \in Nat \ {0}
      /\ devq[p] + left <= BurstLen /\ left + outst <= BurstLen
      /\ p # tgt \/ host \in {"idle", "release"} => devq[p] = 0
      /\ p \in {Mem, Slow} /\ p = tgt => devq[p] = outst
  BY SystemAssumption DEF IInv, TypeOK, Cleared
<1>3. p \in ans => p = tgt /\ devq[p] > 0 /\ host \in {"single", "locked"}
  BY Answers
<1>4. /\ m.stb \in BOOLEAN
      /\ m.stb => m.to = tgt'
      /\ host # "idle" => tgt' = tgt
      /\ host \in {"single", "release"} => ~m.stb
      /\ Start(m) \/ WaitSingle(m, a) \/ Transfer(m, a) \/ Release(m)
  BY Strobe, Host
<1>5. p \in {Mem, Slow} /\ p = tgt /\ host \in {"single", "locked"} => (a <=> p \in ans)
  <2> SUFFICES ASSUME p \in {Mem, Slow}, p = tgt, host \in {"single", "locked"}
               PROVE  a <=> p \in ans
    OBVIOUS
  <2>1. InTime(tgt) /\ p # X
    BY WindowAssumption DEF InTime, Mem, Slow, X
  <2>2. state = "S_BUSY"
    BY <2>1 DEF IInv, Agreed, Counted
  <2>3. \A q \in ans : q = p
    BY Answers
  <2> QED
    BY <2>1, <2>2, <2>3 DEF rsp_ack, bus_err, Ack, xbus_rsp
<1> SUFFICES \E l, o \in Nat : Good(l, o) /\ left' = l /\ outst' = o
  <2>1. \A l, o \in Nat : l + o <= BurstLen => l \in 0 .. BurstLen /\ o \in 0 .. BurstLen
    BY <1>2
  <2> QED
    BY <2>1
<1> HIDE DEF N, a
<1>6. CASE Start(m)
  <2>1. /\ host = "idle" /\ tgt' = m.to /\ outst' = stb
        /\ left' = IF m.stb /\ m.lck THEN BurstLen - 1 ELSE 0
    BY <1>6 DEF Start
  <2>2. Good(IF m.stb /\ m.lck THEN BurstLen - 1 ELSE 0, stb)
    <3>1. N = IF m.stb /\ m.to = p THEN 1 ELSE 0
      BY <1>1, <1>2, <1>3, <2>1
    <3>2. N = IF p = tgt' THEN stb ELSE 0
      BY <1>4, <2>1, <3>1
    <3> QED
      BY <1>2, <1>4, <3>2
  <2>3. stb \in Nat /\ (IF m.stb /\ m.lck THEN BurstLen - 1 ELSE 0) \in Nat
    BY <1>2
  <2> HIDE DEF stb, Good
  <2> QED
    BY <2>1, <2>2, <2>3
<1>7. CASE WaitSingle(m, a)
  <2>1. /\ host = "single" /\ left' = left /\ outst' = (IF a THEN 0 ELSE 1)
    BY <1>7 DEF WaitSingle
  <2>2. left = 0 /\ outst = 1
    BY <2>1 DEF IInv, Agreed
  <2>3. Good(0, IF a THEN 0 ELSE 1)
    BY <1>1, <1>2, <1>3, <1>4, <1>5, <2>1, <2>2
  <2> QED
    BY <2>1, <2>2, <2>3
<1>8. CASE Transfer(m, a)
  <2>1. /\ host = "locked" /\ m.to = tgt /\ left' = left - stb
        /\ m.stb => left > 0
        /\ \/ ~a /\ outst' = outst + stb
           \/ a /\ outst > 0 /\ outst' = (outst + stb) - 1
           \/ a /\ outst = 0 /\ outst' \in {0, outst + stb}
    <3>1. host = "locked" /\ m.to = tgt /\ left' = left - stb /\ (m.stb => left > 0)
      BY <1>8 DEF Transfer
    <3>2. \/ ~a /\ outst' = outst + stb
          \/ a /\ outst > 0 /\ outst' = (outst + stb) - 1
          \/ a /\ outst = 0 /\ outst' \in {0, outst + stb}
      BY <1>8, Zenon DEF Transfer
    <3> QED
      BY <3>1, <3>2
  <2>2. left - stb \in Nat /\ N \in Nat /\ N + (left - stb) <= BurstLen
    BY <1>1, <1>2, <1>3, <1>4, <2>1
  <2>3. p # tgt' => N = 0
    BY <1>1, <1>2, <1>3, <1>4, <2>1
  <2>4. CASE ~a
    <3>1. Good(left - stb, outst + stb)
      BY <1>1, <1>2, <1>3, <1>4, <1>5, <2>1, <2>2, <2>3, <2>4
    <3> QED
      BY <1>2, <2>1, <2>2, <2>4, <3>1
  <2>5. CASE a /\ outst > 0
    <3>1. Good(left - stb, (outst + stb) - 1)
      BY <1>1, <1>2, <1>3, <1>4, <1>5, <2>1, <2>2, <2>3, <2>5
    <3>2. outst' = (outst + stb) - 1 /\ outst + stb - 1 \in Nat
      BY <1>2, <2>1, <2>5
    <3> QED
      BY <2>1, <2>2, <3>1, <3>2
  <2>6. CASE a /\ outst = 0
    <3>1. outst' \in {0, stb}
      BY <1>2, <2>1, <2>6
    <3>2. Good(left - stb, 0) /\ Good(left - stb, stb)
      BY <1>1, <1>2, <1>3, <1>4, <1>5, <2>1, <2>2, <2>3, <2>6
    <3> QED
      BY <2>1, <2>2, <3>1, <3>2
  <2> QED
    BY <1>2, <2>4, <2>5, <2>6
<1>9. CASE Release(m)
  <2>1. host = "release" /\ left' = left /\ outst' = outst
    BY <1>9 DEF Release
  <2>2. left = 0 /\ outst = 0
    BY <2>1 DEF IInv, Agreed
  <2>3. Good(0, 0)
    <3>1. N = 0
      BY <1>1, <1>2, <1>3, <1>4, <2>1
    <3> QED
      BY <1>2, <3>1
  <2> QED
    BY <2>1, <2>2, <2>3
<1> QED
  BY <1>4, <1>6, <1>7, <1>8, <1>9

\* Nothing stays in the sections when a transfer is over.
LEMMA ClearedStep == ASSUME IInv, ~LateAnswers, NEW m, NEW ans, Edge(m, ans)
                     PROVE  /\ Cleared'
                            /\ devq' \in [Port -> 0 .. BurstLen]
                            /\ stale' \in [Port -> 0 .. MaxStale]
                            /\ left' \in 0 .. BurstLen /\ outst' \in 0 .. BurstLen
<1> DEFINE N == New(m, ans)
           over == host' \in {"idle", "release"}
<1>1. PICK kept \in SUBSET Port :
             /\ devq' = [p \in Port |-> IF p \in kept /\ ~over THEN N[p] ELSE 0]
             /\ stale' = [p \in Port |-> IF p \notin kept \/ ~over \/ p = X THEN 0
                                         ELSE IF N[p] > MaxStale THEN MaxStale ELSE N[p]]
             /\ \A p \in {Mem, Slow} \cap Port : p \in kept
             /\ Hole \notin kept
  BY Device
<1>2. \A p \in Port : /\ N[p] \in Nat
                      /\ N[p] + left' <= BurstLen /\ left' + outst' <= BurstLen
                      /\ p # tgt' => N[p] = 0
                      /\ p \in {Mem, Slow} /\ p = tgt' => N[p] = outst'
  BY Requests
<1>3. left' \in 0 .. BurstLen /\ outst' \in 0 .. BurstLen
  BY Requests, SystemAssumption
<1> HIDE DEF N
<1>4. over => left' = 0 /\ outst' = 0
  BY AgreedStep DEF Agreed
<1>5. \A p \in Port : p \in {X, Mem, Hole, Slow}
  BY SystemAssumption DEF Sections
<1>6. \A p \in Port : over /\ p \in kept /\ p # X => N[p] = 0
  BY <1>1, <1>2, <1>4, <1>5
<1>7. \A p \in Port : stale'[p] = 0
  BY <1>1, <1>6 DEF MaxStale
<1>8. \A p \in Port : devq'[p] = N[p] \/ devq'[p] = 0
  BY <1>1
<1>9. \A x, l \in Nat : x + l <= BurstLen => x \in 0 .. BurstLen /\ 0 + l <= BurstLen
  BY SystemAssumption
<1>10. \A p \in Port : devq'[p] + left' <= BurstLen
  <2> SUFFICES ASSUME NEW p \in Port PROVE devq'[p] + left' <= BurstLen
    OBVIOUS
  <2>1. left' \in Nat
    BY <1>3, SystemAssumption
  <2>2. N[p] + left' <= BurstLen /\ 0 + left' <= BurstLen
    BY <1>2, <1>9, <2>1, Zenon
  <2> QED
    BY <1>8, <2>2, Zenon
<1>11. \A p \in Port : p # tgt' \/ over => devq'[p] = 0
  BY <1>1, <1>2
<1>12. \A p \in {Mem, Slow} \cap Port : p = tgt' => devq'[p] = outst'
  <2> SUFFICES ASSUME NEW p \in {Mem, Slow} \cap Port, p = tgt'
               PROVE  devq'[p] = outst'
    OBVIOUS
  <2>1. N[p] = outst'
    BY <1>2
  <2> QED
    BY <1>1, <1>4, <2>1
<1>13. left' + outst' <= BurstLen
  BY <1>2, SystemAssumption
<1>14. devq' \in [Port -> 0 .. BurstLen]
  <2>1. \A p \in Port : N[p] \in 0 .. BurstLen
    BY <1>2, <1>3, <1>9
  <2>2. 0 \in 0 .. BurstLen
    BY SystemAssumption
  <2> QED
    BY <1>1, <2>1, <2>2
<1>15. stale' \in [Port -> 0 .. MaxStale]
  <2>1. stale' = [p \in Port |-> 0]
    BY <1>1, <1>7
  <2>2. 0 \in 0 .. MaxStale
    BY DEF MaxStale
  <2> QED
    BY <2>1, <2>2
<1> QED
  BY <1>3, <1>7, <1>10, <1>11, <1>12, <1>13, <1>14, <1>15 DEF Cleared

\* A host without an answer goes on waiting.
LEMMA Waits == ASSUME IInv, NEW m, NEW ans, Edge(m, ans),
                      ~rsp_ack(Ack(ans)), host \in {"single", "locked"}
               PROVE  /\ host' = host /\ tgt' = tgt
                      /\ outst # 0 => outst' # 0
                      /\ outst = 0 /\ outst' = 0 => age < MaxPause
<1> DEFINE a == rsp_ack(Ack(ans))
<1>1. outst \in Nat /\ left \in Nat /\ age \in Nat /\ MaxPause \in Nat
  BY CounterSize, SystemAssumption DEF IInv, TypeOK, MaxAge
<1>2. WaitSingle(m, a) \/ Transfer(m, a)
  BY Host DEF Start, Release
<1> HIDE DEF a
<1>3. CASE WaitSingle(m, a)
  BY <1>3 DEF WaitSingle, IInv, Agreed, a
<1>4. CASE Transfer(m, a)
  <2>1. /\ host = "locked" /\ tgt' = tgt
        /\ host' = IF left' = 0 /\ outst' = 0 THEN "release" ELSE "locked"
        /\ left' = left - (IF m.stb THEN 1 ELSE 0)
        /\ outst = 0 /\ age >= MaxPause => m.stb
    BY <1>4 DEF Transfer
  <2>2. outst' = outst + (IF m.stb THEN 1 ELSE 0)
    BY <1>4 DEF Transfer, a
  <2>3. outst' = 0 => outst = 0 /\ ~m.stb
    BY <1>1, <2>2
  <2>4. left' = 0 /\ ~m.stb => left = 0
    BY <1>1, <2>1
  <2>5. left # 0 \/ outst # 0
    BY <2>1 DEF IInv, Agreed
  <2> QED
    BY <1>1, <2>1, <2>3, <2>4, <2>5
<1> QED
  BY <1>2, <1>3, <1>4

\* The host's age and the monitor's counter advance together.
LEMMA Ages == ASSUME IInv, NEW m, NEW ans, Edge(m, ans)
  PROVE /\ age \in Nat /\ cnt \in Nat /\ MaxAge \in Nat
        /\ age' = 0 \/ age' = age + 1 \/ age' = age
        /\ rsp_ack(Ack(ans)) \/ host = "idle" => age' = 0
        /\ cnt + 1 < CntSize => (cnt + 1) % CntSize = cnt + 1
        /\ age' \in 0 .. MaxAge
        /\ (cnt + 1) % CntSize \in 0 .. CntSize - 1
<1>1. CntSize \in Nat \ {0}
  BY CounterSize, Windows, SystemAssumption
<1>2. age \in 0 .. MaxAge /\ cnt \in 0 .. CntSize - 1
  BY DEF IInv, TypeOK, KeeperTypeOK
<1>3. age' = IF host' \in {"idle", "release"} \/ rsp_ack(Ack(ans)) \/ host = "idle" THEN 0
             ELSE IF age < MaxAge THEN age + 1 ELSE age
  BY Host
<1>4. age + 1 \in 0 .. MaxAge \/ ~(age < MaxAge)
  BY <1>1, <1>2 DEF MaxAge
<1>5. 0 \in 0 .. MaxAge
  BY <1>1 DEF MaxAge
<1>6. age' \in 0 .. MaxAge
  BY <1>2, <1>3, <1>4, <1>5
<1>7. \A c \in 0 .. CntSize - 1 : /\ c + 1 < CntSize => (c + 1) % CntSize = c + 1
                                  /\ (c + 1) % CntSize \in 0 .. CntSize - 1
  BY <1>1
<1> QED
  BY <1>1, <1>2, <1>3, <1>6, <1>7 DEF MaxAge

\* The window goes on being counted, and only a section that is late is cut off.
LEMMA CountedStep == ASSUME IInv, ~LateAnswers, NEW m, NEW ans, Edge(m, ans)
                     PROVE  Counted'
<1> DEFINE a == rsp_ack(Ack(ans))
<1>1. /\ MaxPause \in Nat /\ MemLatency \in Nat \ {0}
      /\ age \in Nat /\ cnt \in Nat /\ CntSize \in Nat
      /\ \A p \in Port : Window(p) \in Nat \ {0} /\ 2 * Window(p) <= CntSize
      /\ tgt \in Port \cup {NoPort} /\ NoPort \notin Port /\ NoPort # Mem
  BY Ages, Windows, CounterSize, SystemAssumption, GatewayAssumption DEF IInv, TypeOK, NoPort, Mem
<1>2. host # "idle" => sel = tgt /\ tgt' = tgt
  BY Strobe DEF IInv, Agreed
<1>3. (got' = "error" => state = "S_ERROR") /\ (state = "S_ERROR" => ~InTime(tgt) /\ host # "idle")
  BY Host DEF bus_err, IInv, Counted, Agreed
<1>4. got' = "error" => ~InTime(tgt)'
  BY <1>2, <1>3 DEF InTime
<1> HIDE DEF a
<1>5. CASE host = "idle"
  <2>1. age' = 0 /\ cnt' = 0 /\ state' \in {"S_BUSY", "S_IDLE"}
    BY <1>5, Ages, Keeper
  <2>2. host' # "release"
    BY <1>5, Host DEF Start, WaitSingle, Transfer, Release
  <2>3. 0 <= MaxPause /\ 0 <= MemAge /\ \A p \in Port : 0 <= Window(p)
    BY <1>1 DEF MemAge
  <2> QED
    BY <1>4, <2>1, <2>2, <2>3 DEF Counted
<1>6. CASE host # "idle" /\ state = "S_BUSY" /\ tmo_fire
  <2>1. /\ state' = "S_ERROR" /\ ~a /\ ~InTime(tgt)
    BY <1>6, Keeper DEF a
  <2>2. tgt = NoPort => age = 0
    BY <1>6 DEF IInv, Counted
  <2>3. tgt \in Port => age <= Window(tgt)
    BY <1>2, <1>6 DEF IInv, Counted, tmo_fire
  <2>4. tgt = NoPort => age' = 0 \/ age' = 1
    BY <2>2, Ages
  <2>5. tgt \in Port => age' \in Nat /\ age' <= Window(tgt) + 1
    <3> SUFFICES ASSUME tgt \in Port PROVE age' \in Nat /\ age' <= Window(tgt) + 1
      OBVIOUS
    <3>1. \A n \in {0, age, age + 1} : n \in Nat /\ n <= Window(tgt) + 1
      BY <1>1, <2>3
    <3> QED
      BY <3>1, Ages
  <2>6. ~InTime(tgt)'
    BY <1>2, <1>6, <2>1 DEF InTime
  <2>7. tgt' = NoPort => age' <= 1
    BY <1>2, <1>6, <2>4
  <2>8. tgt' \in Port => age' <= Window(tgt') + 1
    BY <1>2, <1>6, <2>5
  <2> QED
    BY <2>1, <2>6, <2>7, <2>8, <1>4 DEF Counted
<1>7. CASE host # "idle" /\ state = "S_BUSY" /\ ~tmo_fire
  <2>1. /\ state' \in {"S_BUSY", "S_IDLE"} /\ (a <=> Ack(ans))
        /\ cnt' = (IF a THEN 0 ELSE (cnt + 1) % CntSize)
    BY <1>7, Keeper DEF a
  <2>2. tgt \in Port
    BY <1>1, <1>2, <1>7 DEF tmo_fire
  <2>3. CASE a
    <3>1. age' = 0 /\ cnt' = 0
      BY <2>1, <2>3, Ages DEF a
    <3>2. 0 <= MaxPause /\ 0 <= MemAge /\ \A p \in Port : 0 <= Window(p)
      BY <1>1 DEF MemAge
    <3>3. /\ tgt' = tgt /\ tgt \in Port /\ tgt # NoPort
          /\ state' # "S_ERROR"
      BY <1>1, <1>2, <1>7, <2>1, <2>2
    <3> QED
      BY <1>4, <2>1, <3>1, <3>2, <3>3 DEF Counted
  <2>4. CASE ~a /\ host = "release"
    <3>1. state' = "S_IDLE"
      BY <1>7, <2>4, Keeper, Host DEF Start, WaitSingle, Transfer, Release, Finished, IInv, Agreed, a
    <3> QED
      BY <3>1, <1>4 DEF Counted
  <2>5. CASE ~a /\ host \in {"single", "locked"}
    <3>1. /\ host' = host /\ tgt' = tgt
          /\ outst # 0 => outst' # 0
          /\ outst = 0 /\ outst' = 0 => age < MaxPause
      BY <2>5, Waits DEF a
    <3>2. ASSUME PORT_TMO[tgt] > 0
          PROVE  cnt' = age' /\ age' <= Window(tgt)
      <4>1. cnt = age /\ cnt <= Window(tgt)
        BY <1>7, <2>2, <3>2 DEF IInv, Counted
      <4>2. ~((cnt \div Window(tgt)) % 2 = 1)
        BY <1>2, <1>7, <2>2, <3>2 DEF tmo_fire
      <4>3. cnt # Window(tgt)
        BY <1>1, <2>2, <4>2, Fires
      <4>4. cnt + 1 <= Window(tgt) /\ cnt + 1 < CntSize /\ cnt < MaxAge
        BY <1>1, <2>2, <4>1, <4>3 DEF MaxAge
      <4>5. cnt' = cnt + 1
        BY <2>1, <2>5, <4>4, Ages
      <4>6. age' = age + 1
        BY <2>5, <3>1, <4>1, <4>4, Host DEF a
      <4> QED
        BY <4>1, <4>4, <4>5, <4>6
    <3>3. ASSUME tgt = Mem
          PROVE  age' <= IF outst' = 0 THEN MaxPause ELSE MemAge
      <4>1. age <= IF outst = 0 THEN MaxPause ELSE MemAge
        BY <1>7, <3>3 DEF IInv, Counted
      <4>2. CASE outst = 0
        <5>1. \A n \in {0, age, age + 1} : /\ n <= MemAge
                                           /\ age < MaxPause => n <= MaxPause
          BY <1>1, <4>1, <4>2 DEF MemAge
        <5> QED
          BY <3>1, <4>2, <5>1, Ages
      <4>3. CASE outst # 0
        <5>1. devq[tgt] = outst /\ outst \in Nat /\ stale[tgt] = 0
          BY <2>2, <3>3 DEF IInv, TypeOK, Cleared
        <5>2. tgt \notin ans
          BY <2>1, <2>5, <3>3 DEF Ack, Mem, X
        <5>3. devq[tgt] + stale[tgt] > 0
          BY <4>3, <5>1
        <5>4. ~(age + 1 >= MemLatency)
          BY <2>2, <3>3, <5>2, <5>3 DEF Edge, MustAnswer
        <5>5. \A n \in {0, age, age + 1} : n <= MemAge
          BY <1>1, <5>4 DEF MemAge
        <5> QED
          BY <3>1, <4>3, <5>5, Ages
      <4> QED
        BY <4>2, <4>3
    <3>4. state' = "S_BUSY" /\ tgt' \in Port /\ PORT_TMO[tgt'] > 0
             => cnt' = age' /\ age' <= Window(tgt')
      BY <3>1, <3>2
    <3>5. tgt' = Mem => age' <= IF outst' = 0 THEN MaxPause ELSE MemAge
      BY <3>1, <3>3
    <3> QED
      BY <1>1, <1>4, <2>1, <2>2, <2>5, <3>1, <3>4, <3>5 DEF Counted
  <2> QED
    BY <1>7, <2>3, <2>4, <2>5 DEF IInv, TypeOK
<1>8. CASE host # "idle" /\ state = "S_ERROR"
  <2>1. age' = 0 /\ ~InTime(tgt) /\ state' \in {"S_ERROR", "S_IDLE"}
    BY <1>3, <1>8, Keeper, Ages
  <2>2. ~InTime(tgt)'
    BY <1>2, <1>8, <2>1 DEF InTime
  <2>3. 0 <= 1 /\ \A p \in Port : 0 <= Window(p) + 1
    BY <1>1
  <2> QED
    BY <1>4, <2>1, <2>2, <2>3 DEF Counted
<1> QED
  BY <1>5, <1>6, <1>7, <1>8 DEF IInv, Agreed

\* What the host receives is its own.
LEMMA OwnStep == ASSUME IInv, ~LateAnswers, NEW m, NEW ans, Edge(m, ans)
                 PROVE  TypeOK' /\ OwnAnswers'
<1>1. got' \in {"nothing", "own", "error"}
  BY Host
<1>2. KeeperTypeOK'
  <2>1. 0 \in 0 .. CntSize - 1
    BY CounterSize, Windows, SystemAssumption
  <2>2. cnt \in 0 .. CntSize - 1 /\ lock \in BOOLEAN /\ sel \in Port \cup {NoPort}
    BY DEF IInv, TypeOK, KeeperTypeOK
  <2>3. cnt' \in 0 .. CntSize - 1
    BY <2>1, <2>2, Keeper, Ages
  <2>4. state' \in {"S_IDLE", "S_BUSY", "S_ERROR"}
    BY Keeper
  <2>5. lock' \in BOOLEAN /\ sel' \in Port \cup {NoPort}
    BY <2>2, Keeper, Host
  <2> QED
    BY <2>3, <2>4, <2>5 DEF KeeperTypeOK
<1>3. host' \in {"idle", "single", "locked", "release"} /\ tgt' \in Port \cup {NoPort}
  BY Host DEF Start, WaitSingle, Transfer, Release, IInv, TypeOK
<1> QED
  BY <1>1, <1>2, <1>3, BridgedStep, ClearedStep, Ages DEF TypeOK, OwnAnswers

-----------------------------------------------------------------------------
(* The theorems.                                                           *)

\* The invariant is inductive: every clock edge preserves it.
LEMMA StepInv == ASSUME IInv, ~LateAnswers, [Next]_vars PROVE IInv'
<1>1. CASE Next
  <2>1. PICK m, ans : Edge(m, ans)
    BY <1>1 DEF Next, Edge
  <2> QED
    BY <2>1, AgreedStep, ClearedStep, BridgedStep, CountedStep, OwnStep DEF IInv
<1>2. CASE UNCHANGED vars
  BY <1>2 DEF vars, keeper, xbusVars, IInv, TypeOK, KeeperTypeOK, XbusTypeOK, OwnAnswers,
              Agreed, Cleared, Bridged, Counted, InTime, MemAge
<1> QED
  BY <1>1, <1>2

\* The inductive invariant holds in every state, whatever the windows, the
\* sections, the length of the bursts and their pauses are.
THEOREM Inductive == ASSUME ~LateAnswers PROVE Spec => []IInv
<1> QED
  BY InitInv, StepInv, PTL DEF Spec

\* Every response the host takes belongs to its own transfer, and the external
\* cycle is closed behind it.
THEOREM Apart == ASSUME ~LateAnswers PROVE Spec => []TransfersApart
<1>1. IInv => TransfersApart
  BY DEF IInv, TransfersApart, CycleClosed, Bridged
<1> QED
  BY <1>1, Inductive, PTL

\* Every access is over within its window, and no section that answers in time
\* (or has no window) is reported as a bus error.
THEOREM Exact == ASSUME ~LateAnswers PROVE Spec => []TimeoutExact
<1>1. ASSUME IInv PROVE BoundedResponse
  <2> SUFFICES ASSUME outst > 0, ~(tgt # NoPort /\ PORT_TMO[tgt] = 0)
               PROVE  \/ tgt = NoPort /\ age <= 1
                      \/ tgt # NoPort /\ PORT_TMO[tgt] > 0 /\ age <= Window(tgt) + 1
    BY DEF BoundedResponse
  <2>1. host \in {"single", "locked"} /\ state \in {"S_BUSY", "S_ERROR"}
    <3>1. ~(0 > 0)
      OBVIOUS
    <3> QED
      BY <1>1, <3>1 DEF IInv, Agreed, TypeOK
  <2>2. tgt \in Port \cup {NoPort} /\ age \in Nat
    BY <1>1, CounterSize DEF IInv, TypeOK, MaxAge
  <2>3. CASE tgt = NoPort
    BY <1>1, <2>1, <2>3 DEF IInv, Counted
  <2>4. CASE tgt \in Port
    <3>1. PORT_TMO[tgt] > 0 /\ Window(tgt) \in Nat
      BY <2>4, Windows, Powers, GatewayAssumption
    <3>2. age <= Window(tgt) + 1
      BY <1>1, <2>1, <2>2, <2>4, <3>1 DEF IInv, Counted
    <3> QED
      BY <2>4, <3>1, <3>2, GatewayAssumption
  <2> QED
    BY <2>2, <2>3, <2>4
<1>2. IInv => NoFalseTimeout
  BY DEF IInv, Counted, NoFalseTimeout, InTime
<1> QED
  BY <1>1, <1>2, Inductive, PTL DEF TimeoutExact
=============================================================================
