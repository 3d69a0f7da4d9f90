------------------------- MODULE SwitchedBusProofs -------------------------
(***************************************************************************)
(* Proofs about SwitchedBus, for both arbitration schemes and blocks of    *)
(* any length: type correctness, that no request is lost or doubled, that  *)
(* responses are routed to their requester and that a lock excludes the    *)
(* other port.                                                             *)
(***************************************************************************)
EXTENDS SwitchedBus, TLAPS

\* The reset state satisfies the invariant.
LEMMA InitIInv == Init => IInv
<1> SUFFICES ASSUME Init PROVE IInv
  OBVIOUS
<1>1. TypeOK
  BY SwitchAssumption DEF Init, SwitchInit, TypeOK, SwitchTypeOK, HostState, Port, Idle
<1>2. NoLostRequest
  BY DEF Init, SwitchInit, NoLostRequest, Caught
<1>3. \A p \in Port : HostView(p) /\ Served(p) /\ NotServed(p)
  BY DEF Init, SwitchInit, HostView, Served, NotServed, Idle, Busy
<1> QED BY <1>1, <1>2, <1>3 DEF IInv

\* Port by port, what the clock edge does: the form the step proofs use.
LEMMA StepIInv == IInv /\ [Next]_vars => IInv'
<1> SUFFICES ASSUME IInv, [Next]_vars PROVE IInv'
  OBVIOUS
<1> USE SwitchAssumption
<1>1. CASE UNCHANGED vars
  BY <1>1 DEF vars, switchVars, IInv, TypeOK, SwitchTypeOK, NoLostRequest, Caught, HostView, Served, NotServed
<1>2. CASE Next
  <2>1. PICK d \in Answering \cup {"none"}, mA \in HostMove, mB \in HostMove :
            /\ HostClock("A", mA, AckTo("A", d # "none"))
            /\ HostClock("B", mB, AckTo("B", d # "none"))
            /\ Cycle(mA, mB, d)
    BY <1>2 DEF Next, Step
  <2> DEFINE m   == [p \in Port |-> IF p = "A" THEN mA ELSE mB]
             stb == [p \in Port |-> m[p].stb]
             lck == [p \in Port |-> m[p].lck]
             ack == d # "none"
             to(p) == IF x_stb(stb) /\ sel(stb) = p THEN 1 ELSE 0
             from(p) == IF d = p THEN 1 ELSE 0
  <2>2. /\ SwitchClock(stb, lck, ack)
        /\ \A p \in Port : /\ HostClock(p, m[p], AckTo(p, ack))
                           /\ m[p] \in HostMove
                           /\ stb[p] = m[p].stb /\ lck[p] = m[p].lck
                           /\ host'[p] = m[p].st
                           /\ left'[p] = m[p].left
                           /\ outst'[p] = m[p].out
                           /\ x_out'[p] = x_out[p] + to(p) - from(p)
    BY <2>1 DEF Cycle, Port
  <2> HIDE DEF m, stb, lck, ack, to, from
  <2>3. /\ TypeOK /\ NoLostRequest
        /\ \A p \in Port : HostView(p) /\ Served(p) /\ NotServed(p)
    BY DEF IInv
  \* An acknowledge reaches exactly the host whose strobe is answered.
  <2>4. \A p \in Port : /\ AckTo(p, ack) <=> d = p
                        /\ d = p => state = Busy(p) /\ x_out[p] > 0
    BY <2>3 DEF AckTo, ack, Answering, TypeOK, SwitchTypeOK, NotServed, Served, Port
  <2>5. \A p \in Port : pend'[p] = IF state = Busy(p) THEN FALSE ELSE pend[p] \/ stb[p]
    BY <2>2, Zenon DEF SwitchClock, NoRequest, Grant, Serve, Latch
  <2>6. \A p \in Port : p = "A" \/ p = "B"
    BY DEF Port
  <2> DEFINE Local(p) == /\ outst[p] = x_out[p] + Caught(p)
                         /\ HostView(p) /\ Served(p) /\ NotServed(p)
  <2>7. \A p \in Port : /\ d # p => HostClock(p, m[p], FALSE)
                        /\ d = p => HostClock(p, m[p], TRUE)
    <3>1. \A p \in Port : AckTo(p, ack) = (d = p)
      BY <2>4 DEF AckTo
    <3>2. \A p \in Port : HostClock(p, m[p], d = p)
      BY <2>2, <3>1
    <3> QED BY <3>2
  \* A host that is not served may strobe and then waits for one answer.
  <2>8. ASSUME NEW p \in Port, state # Busy(p)
        PROVE  /\ d # p /\ x_out[p] = 0
               /\ host'[p] \in {"idle", "armed", "single", "locked"}
               /\ HostView(p)'
               /\ host'[p] \in {"single", "locked"} <=> (stb[p] \/ pend[p])
               /\ host'[p] = "locked" => lck[p]
               /\ host'[p] = "single" => ~lck[p]
               /\ outst'[p] = IF stb[p] \/ pend[p] THEN 1 ELSE 0
               /\ pend'[p] <=> (stb[p] \/ pend[p])
    <3>1. /\ x_out[p] = 0 /\ d # p /\ host[p] \in {"idle", "armed", "single", "locked"}
          /\ (pend[p] <=> host[p] \in {"single", "locked"})
      BY <2>3, <2>4, <2>8 DEF NotServed
    <3>2. pend'[p] <=> (stb[p] \/ pend[p])
      BY <2>5, <2>8, Zenon
    <3>3. /\ stb[p] = m[p].stb /\ lck[p] = m[p].lck
          /\ HostClock(p, m[p], FALSE) /\ m[p] \in HostMove
          /\ host'[p] = m[p].st /\ left'[p] = m[p].left /\ outst'[p] = m[p].out
      BY <2>2, <2>7, <3>1
    <3>4. /\ host'[p] \in {"idle", "armed", "single", "locked"}
          /\ HostView(p)'
          /\ host'[p] \in {"single", "locked"} <=> (stb[p] \/ pend[p])
          /\ host'[p] = "locked" => lck[p]
          /\ host'[p] = "single" => ~lck[p]
      <4>1. CASE host[p] = "idle"
        BY <4>1, <3>1, <3>3 DEF HostClock, Begin, Armed, WaitSingle, WaitLocked, Stream, Release, HostView, HostMove
      <4>2. CASE host[p] = "armed"
        BY <4>2, <3>1, <3>3 DEF HostClock, Begin, Armed, WaitSingle, WaitLocked, Stream, Release, HostView, HostMove
      <4>3. CASE host[p] \in {"single", "locked"}
        BY <4>3, <2>3, <3>1, <3>3 DEF HostClock, Begin, Armed, WaitSingle, WaitLocked, Stream, Release, HostView, HostMove
      <4> QED BY <3>1, <4>1, <4>2, <4>3
    <3>5. outst'[p] = IF stb[p] \/ pend[p] THEN 1 ELSE 0
      BY <3>4 DEF HostView
    <3> QED BY <3>1, <3>2, <3>4, <3>5
  <2>9. ASSUME NEW p \in Port, state # Busy(p), state' # Busy(p), to(p) = 0 PROVE Local(p)'
    <3>1. x_out'[p] = 0
      BY <2>2, <2>8, <2>9 DEF from
    <3> QED BY <2>8, <2>9, <3>1 DEF Caught, Served, NotServed
  <2>10. ASSUME NoRequest(stb, lck), NEW p \in Port PROVE Local(p)'
    BY <2>10, <2>9 DEF NoRequest, Wants, Wins, to, x_stb, Idle, Busy
  <2>11. ASSUME NEW q \in Port, Grant(q, stb, lck), NEW p \in Port PROVE Local(p)'
    <3>1. state = Idle /\ state' = Busy(q) /\ lock' = lck /\ (stb[q] \/ pend[q])
      BY <2>11 DEF Grant, Wins, Wants
    <3>2. sel(stb) = q /\ x_stb(stb) /\ sel_q' = q
      BY <2>11, <2>6 DEF Grant, sel, x_stb, Wins, Wants, Other, Idle, Busy, Prio
    <3>3. state # Busy(p)
      BY <3>1 DEF Idle, Busy
    <3>4. CASE p = q
      <4>1. /\ state' = Busy(p) /\ sel_q' = p /\ lock'[p] = lck[p]
            /\ x_out'[p] = 1 /\ outst'[p] = 1
            /\ host'[p] \in {"single", "locked"}
        BY <2>2, <2>8, <3>1, <3>2, <3>3, <3>4 DEF to, from
      <4> QED BY <2>8, <3>3, <4>1 DEF Caught, Served, NotServed
    <3>5. CASE p # q
      BY <2>9, <3>1, <3>2, <3>3, <3>5, <2>6 DEF to, Busy
    <3> QED BY <3>4, <3>5
  <2>12. ASSUME NEW q \in Port, Serve(q, stb, lck, ack), NEW p \in Port PROVE Local(p)'
    <3>1. /\ state = Busy(q) /\ sel_q' = q /\ lock' = lock
          /\ state' = IF Done(q, lck, ack) THEN Idle ELSE Busy(q)
          /\ to(q) = (IF stb[q] THEN 1 ELSE 0)
          /\ p # q => to(p) = 0
      BY <2>12, <2>6 DEF Serve, sel, x_stb, to, Idle, Busy
    <3>2. CASE p # q
      BY <2>9, <3>1, <3>2, <2>6 DEF Idle, Busy
    <3>3. CASE p = q
      <4>1. /\ state = Busy(p) /\ lock'[p] = lock[p]
            /\ ~pend'[p] /\ d \in {p, "none"} /\ (ack <=> d = p)
        <5>1. state = Busy(p) /\ lock'[p] = lock[p] /\ ~pend'[p]
          BY <2>5, <3>1, <3>3
        <5>2. d \in Port => d = p
          BY <2>4, <2>6, <5>1 DEF Busy
        <5>3. d \in {p, "none"}
          BY <2>1, <5>2 DEF Answering
        <5> QED BY <5>1, <5>3 DEF ack, Port
      <4>2. /\ outst[p] = x_out[p] /\ HostView(p)
            /\ host[p] \in {"single", "locked", "stream", "release"}
            /\ lock[p] <=> host[p] # "single"
            /\ x_out[p] \in 0 .. BlockLen /\ left[p] \in 0 .. BlockLen
        BY <2>3, <4>1 DEF NoLostRequest, Caught, Served, TypeOK
      <4>3. /\ stb[p] = m[p].stb /\ lck[p] = m[p].lck /\ m[p] \in HostMove
            /\ host'[p] = m[p].st /\ left'[p] = m[p].left /\ outst'[p] = m[p].out
            /\ x_out'[p] = outst[p] + (IF stb[p] THEN 1 ELSE 0) - (IF d = p THEN 1 ELSE 0)
        BY <2>2, <3>1, <3>3, <4>2 DEF from
      <4>4. HostClock(p, m[p], d = p)
        BY <2>7
      <4> DEFINE Kept == /\ outst'[p] = x_out'[p]
                         /\ HostView(p)'
                         /\ host'[p] \in {"single", "locked", "stream", "release"}
                         /\ host'[p] = "single" <=> host[p] = "single"
                 Ended == /\ outst'[p] = 0 /\ x_out'[p] = 0
                          /\ host'[p] = "idle" /\ left'[p] = 0
      <4>5. /\ Done(q, lck, ack) /\ Ended => Local(p)'
            /\ ~Done(q, lck, ack) /\ Kept => Local(p)'
        <5>1. Caught(p)' = 0
          BY <4>1 DEF Caught
        <5>2. ASSUME Done(q, lck, ack), Ended PROVE Local(p)'
          <6>1. state' = Idle /\ state' # Busy(p)
            BY <3>1, <5>2 DEF Idle, Busy
          <6>2. HostView(p)'
            BY <5>2 DEF HostView
          <6>3. NotServed(p)' /\ Served(p)'
            BY <4>1, <5>2, <6>1 DEF NotServed, Served
          <6> QED BY <5>1, <5>2, <6>2, <6>3
        <5>3. ASSUME ~Done(q, lck, ack), Kept PROVE Local(p)'
          <6>1. state' = Busy(p)
            BY <3>1, <3>3, <5>3
          <6>2. Served(p)' /\ NotServed(p)'
            <7>1. lock'[p] <=> host'[p] # "single"
              BY <4>1, <4>2, <5>3, Zenon
            <7> QED BY <3>1, <3>3, <5>3, <6>1, <7>1, Zenon DEF Served, NotServed
          <6>3. outst'[p] \in Nat
            BY <4>3 DEF HostMove
          <6> QED BY <5>1, <5>3, <6>2, <6>3
        <5> QED BY <5>2, <5>3
      <4>6. CASE host[p] = "single"
        <5>1. d = p => Ended
          BY <4>2, <4>3, <4>4, <4>6 DEF HostClock, Begin, Armed, WaitSingle, WaitLocked, Stream, Release, HostView
        <5>2. d # p => Kept
          BY <4>2, <4>3, <4>4, <4>6 DEF HostClock, Begin, Armed, WaitSingle, WaitLocked, Stream, Release, HostView
        <5>3. Done(q, lck, ack) <=> d = p
          BY <3>3, <4>1, <4>2, <4>6, Zenon DEF Done
        <5> QED BY <5>1, <5>2, <5>3, <4>1, <4>5
      <4>7. CASE host[p] \in {"locked", "stream"}
        <5>1. CASE host[p] = "locked"
          <6>1. WaitLocked(p, m[p], d = p)
            BY <4>4, <5>1 DEF HostClock, Begin, Armed, WaitSingle, WaitLocked, Stream, Release
          <6>2. lck[p] /\ Kept
            BY <6>1, <4>2, <4>3, <5>1 DEF WaitLocked, HostView, HostMove
          <6>3. ~Done(q, lck, ack)
            BY <3>3, <4>2, <5>1, <6>2 DEF Done
          <6> QED BY <6>2, <6>3, <4>5
        <5>2. CASE host[p] = "stream"
          <6>1. Stream(p, m[p], d = p)
            BY <4>4, <5>2 DEF HostClock, Begin, Armed, WaitSingle, WaitLocked, Stream, Release
          <6>2. lck[p] /\ Kept
            BY <6>1, <4>2, <4>3, <5>2 DEF Stream, HostView, HostMove
          <6>3. ~Done(q, lck, ack)
            BY <3>3, <4>2, <5>2, <6>2 DEF Done
          <6> QED BY <6>2, <6>3, <4>5
        <5> QED BY <4>7, <5>1, <5>2
      <4>8. CASE host[p] = "release"
        <5>1. d # p
          BY <2>4, <4>2, <4>8 DEF HostView
        <5>2. ~lck[p] /\ Ended
          BY <4>2, <4>3, <4>4, <4>8, <5>1 DEF HostClock, Begin, Armed, WaitSingle, WaitLocked, Stream, Release, HostView
        <5>3. Done(q, lck, ack)
          BY <3>3, <4>2, <4>8, <5>2 DEF Done
        <5> QED BY <5>2, <5>3, <4>5
      <4> QED BY <4>2, <4>6, <4>7, <4>8
    <3> QED BY <3>2, <3>3
  <2>13. \A p \in Port : Local(p)'
    BY <2>2, <2>10, <2>11, <2>12 DEF SwitchClock
  <2>14. TypeOK'
    <3>1. SwitchTypeOK'
      <4>1. /\ \A p \in Port : stb[p] \in BOOLEAN
            /\ lck \in [Port -> BOOLEAN]
        BY <2>2 DEF lck, HostMove
      <4>2. pend' \in [Port -> BOOLEAN]
        <5>1. Latch(stb)
          BY <2>2 DEF SwitchClock, NoRequest, Grant, Serve
        <5>2. pend \in [Port -> BOOLEAN]
          BY <2>3 DEF TypeOK, SwitchTypeOK
        <5> QED BY <4>1, <5>1, <5>2 DEF Latch
      <4>3. lock' \in [Port -> BOOLEAN] /\ sel_q' \in Port
        BY <2>2, <2>3, <4>1 DEF SwitchClock, NoRequest, Grant, Serve, sel, TypeOK, SwitchTypeOK, Port
      <4>4. state' \in {Idle} \cup {Busy(p) : p \in Port}
        BY <2>2, <2>3 DEF SwitchClock, NoRequest, Grant, Serve
      <4> QED BY <4>2, <4>3, <4>4 DEF SwitchTypeOK
    <3>2. /\ host' \in [Port -> HostState]
          /\ left' \in [Port -> 0 .. BlockLen]
          /\ outst' \in [Port -> 0 .. BlockLen]
      BY <2>1, <2>2 DEF Cycle, HostMove
    <3>3. \A p \in Port : outst'[p] = x_out'[p] + Caught(p)'
      BY <2>13
    <3>4. \A p \in Port : outst'[p] \in 0 .. BlockLen
      BY <3>2
    <3>5. \A p \in Port : to(p) \in 0 .. 1 /\ from(p) \in 0 .. 1 /\ (from(p) = 1 => x_out[p] > 0)
      BY <2>4 DEF to, from
    <3>6. \A p \in Port : x_out'[p] \in Nat
      BY <2>2, <2>3, <3>5 DEF TypeOK
    <3>7. \A p \in Port : Caught(p)' \in 0 .. 1
      BY DEF Caught
    <3>8. \A p \in Port : x_out'[p] \in 0 .. BlockLen
      BY <3>3, <3>4, <3>6, <3>7
    <3>9. x_out' = [p \in Port |-> x_out'[p]]
      BY <2>1 DEF Cycle
    <3> QED BY <3>1, <3>2, <3>8, <3>9 DEF TypeOK
  <2> QED BY <2>13, <2>14 DEF IInv, NoLostRequest
<1> QED BY <1>1, <1>2

\* The invariant holds in every state.
LEMMA IInvHolds == Spec => []IInv
BY InitIInv, StepIInv, PTL DEF Spec

\* The signals and counters keep their ranges; no host has more strobes
\* unanswered than one block transfer sends.
THEOREM TypeCorrect == Spec => []TypeOK
<1>1. IInv => TypeOK
  BY DEF IInv
<1> QED BY <1>1, IInvHolds, PTL

\* No strobe is lost or sent twice, under either arbitration scheme and
\* whatever the hosts interleave (arbiter_sync and arbiter_fsm).
THEOREM RequestsKept == Spec => []NoLostRequest
<1>1. IInv => NoLostRequest
  BY DEF IInv
<1> QED BY <1>1, IInvHolds, PTL

\* An acknowledge is always routed to the host whose strobe it answers.
THEOREM ResponsesRouted == Spec => []ResponseRouting
<1>1. IInv => ResponseRouting
  BY DEF IInv, TypeOK, ResponseRouting, Served, NotServed
<1> QED BY <1>1, IInvHolds, PTL

\* From its first answer to the lock release the bus belongs to the locked
\* transfer: what atomic accesses and block transfers rely on.
THEOREM LockHolds == Spec => []LockExclusive
<1>1. IInv => LockExclusive
  BY DEF IInv, LockExclusive, Served, NotServed
<1> QED BY <1>1, IInvHolds, PTL
=============================================================================
