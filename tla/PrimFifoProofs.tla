--------------------------- MODULE PrimFifoProofs ---------------------------
(***************************************************************************)
(* Proofs about PrimFifo for every DEPTH and every Data: type correctness, *)
(* the level bound, and that the pointer implementation is the bounded     *)
(* queue of BoundedQueue.                                                  *)
(***************************************************************************)
EXTENDS PrimFifo, SequenceTheorems, TLAPS

IInv == TypeOK /\ Level <= DEPTH

\* The reset state satisfies the invariant.
LEMMA InitIInv == Init => IInv
<1> SUFFICES ASSUME Init PROVE IInv
  OBVIOUS
<1>1. w_pnt \in Pointer /\ r_pnt \in Pointer /\ Level <= DEPTH
  BY DepthAssumption DEF Init, Pointer, Level
<1>2. avail \in BOOLEAN
  BY Zenon DEF Init
<1> QED BY <1>1, <1>2 DEF Init, IInv, TypeOK

\* The pointers stay in range and at most DEPTH apart.
LEMMA StepIInv == IInv /\ [Next]_vars => IInv'
<1> SUFFICES ASSUME IInv, [Next]_vars PROVE IInv'
  OBVIOUS
<1> USE DepthAssumption
<1>1. CASE UNCHANGED vars
  BY <1>1 DEF vars, IInv, TypeOK, Level
<1>2. ASSUME NEW clear \in BOOLEAN, NEW we \in BOOLEAN, NEW re \in BOOLEAN, NEW d \in Data,
             Clock(clear, we, d, re)
      PROVE  IInv'
  <2>1. w_pnt' \in Pointer /\ r_pnt' \in Pointer /\ Level' <= DEPTH
    BY <1>2 DEF Clock, WriteNext, ReadNext, Inc, IInv, TypeOK, Pointer, Level,
                Full, Empty, Match, Slot, Wrapped
  <2>2. Slot(w_pnt) \in Index /\ Slot(r_pnt) \in Index
    BY DEF Slot, Wrapped, Index, IInv, TypeOK, Pointer
  <2>3. fifo' \in [Index -> Data] /\ rdata' \in Data
    BY <1>2, <2>2 DEF Clock, MemoryNext, IInv, TypeOK
  <2>4. avail' \in BOOLEAN
    BY <1>2 DEF Clock, StatusNext, Empty
  <2> QED BY <2>1, <2>3, <2>4 DEF IInv, TypeOK
<1> QED BY <1>1, <1>2 DEF Next

\* Type correctness of the FIFO for every depth.
THEOREM TypeCorrect == Spec => []TypeOK
<1>1. IInv => TypeOK
  BY DEF IInv
<1> QED BY InitIInv, StepIInv, <1>1, PTL DEF Spec

\* The status flags are exact: full and empty mean what they say.
LEMMA LevelFacts == IInv => LevelBound
  BY DepthAssumption DEF IInv, TypeOK, Pointer, LevelBound, Level, Full, Empty, Match, Slot, Wrapped

\* For every depth the pointers are at most DEPTH apart, and full and empty
\* mean what they say, whatever the users write and read.
THEOREM LevelExact == Spec => []LevelBound
  BY InitIInv, StepIInv, LevelFacts, PTL DEF Spec

-----------------------------------------------------------------------------
\* Position of the i-th stored entry in the RAM.
Place(i) == Slot(IF r_pnt + (i - 1) < 2 * DEPTH THEN r_pnt + (i - 1)
                                                ELSE r_pnt + (i - 1) - 2 * DEPTH)

\* The entries form a sequence as long as the pointers say.
LEMMA EntriesSeq == IInv => /\ Level \in Nat
                            /\ \A i \in 1 .. Level : Place(i) \in Index
                            /\ Entries = [i \in 1 .. Level |-> fifo[Place(i)]]
                            /\ Entries \in Seq(Data)
                            /\ Len(Entries) = Level
<1> SUFFICES ASSUME IInv
             PROVE  /\ Level \in Nat
                    /\ \A i \in 1 .. Level : Place(i) \in Index
                    /\ Entries = [i \in 1 .. Level |-> fifo[Place(i)]]
                    /\ Entries \in Seq(Data)
                    /\ Len(Entries) = Level
  OBVIOUS
<1>1. Level \in Nat
  BY DepthAssumption DEF IInv, TypeOK, Pointer, Level
<1>2. \A i \in 1 .. Level : Place(i) \in Index
  BY DepthAssumption, <1>1 DEF IInv, TypeOK, Pointer, Index, Place, Slot, Wrapped
<1>3. Entries = [i \in 1 .. Level |-> fifo[Place(i)]]
  BY DEF Entries, Place
<1>4. \A i \in 1 .. Level : fifo[Place(i)] \in Data
  BY <1>2 DEF IInv, TypeOK
<1> QED BY <1>1, <1>2, <1>3, <1>4

\* A cycle that neither clears nor moves a pointer leaves the entries alone,
\* one that pushes appends the written word behind the youngest entry, one
\* that pops drops the oldest; the RAM word a push overwrites is no entry.
LEMMA StepRefines == IInv /\ [Next]_vars => [Queue!Next]_Entries
<1> SUFFICES ASSUME IInv, [Next]_vars PROVE [Queue!Next]_Entries
  OBVIOUS
<1> USE DepthAssumption
<1>0. IInv'
  BY StepIInv
<1>1. CASE UNCHANGED vars
  BY <1>1 DEF vars, Entries, Level
<1>2. ASSUME NEW clear \in BOOLEAN, NEW we \in BOOLEAN, NEW re \in BOOLEAN, NEW d \in Data,
             Clock(clear, we, d, re)
      PROVE  [Queue!Next]_Entries
  <2> DEFINE push == we /\ ~Full
             pop  == re /\ ~Empty
  <2>1. CASE clear
    <3>1. Level' = 0
      BY <1>2, <2>1 DEF Clock, WriteNext, ReadNext, Level
    <3>2. Entries' = <<>>
      BY <3>1 DEF Entries
    <3> QED BY <3>2 DEF Queue!Next, Queue!Clear
  <2>2. CASE ~clear
    <3>1. Level' = Level + (IF push THEN 1 ELSE 0) - (IF pop THEN 1 ELSE 0)
      BY <1>2, <2>2 DEF Clock, WriteNext, ReadNext, Inc, IInv, TypeOK, Pointer, Level,
                        Full, Empty, Match, Slot, Wrapped
    <3>2. (push => Level < DEPTH) /\ (pop => Level > 0)
      BY DEF IInv, TypeOK, Pointer, Level, Full, Empty, Match, Slot, Wrapped
    <3>3. \A i \in 1 .. Level : push => Place(i) # Slot(w_pnt)
      BY <3>2 DEF Place, IInv, TypeOK, Pointer, Level, Slot, Wrapped
    <3>4. push => Slot(w_pnt) = Place(Level + 1)
      BY <3>2 DEF Place, IInv, TypeOK, Pointer, Level, Slot, Wrapped
    <3>5. \A i \in 1 .. Level' : Place(i)' = Place(IF pop THEN i + 1 ELSE i)
      BY <1>2, <2>2, <3>1, <3>2
         DEF Clock, ReadNext, Inc, Place, IInv, TypeOK, Pointer, Level, Slot, Wrapped
    <3>6. \A i \in 1 .. Level : fifo'[Place(i)] = fifo[Place(i)]
      BY <1>2, <3>3, EntriesSeq DEF Clock, MemoryNext, IInv, TypeOK
    <3>7. push => fifo'[Place(Level + 1)] = d
      <4>1. Slot(w_pnt) \in Index
        BY DEF Slot, Wrapped, Index, IInv, TypeOK, Pointer
      <4> QED BY <4>1, <1>2, <3>4 DEF Clock, MemoryNext, IInv, TypeOK
    <3> DEFINE at(i) == IF pop THEN i + 1 ELSE i
    <3>8. \A i \in 1 .. Level' : Entries'[i] = IF at(i) <= Level THEN Entries[at(i)] ELSE d
      <4> SUFFICES ASSUME NEW i \in 1 .. Level'
                   PROVE  Entries'[i] = IF at(i) <= Level THEN Entries[at(i)] ELSE d
        OBVIOUS
      <4>1. Entries'[i] = fifo'[Place(i)']
        BY DEF Entries, Place
      <4>2. Level \in Nat /\ Level' \in Nat
        BY <3>1, <3>2, EntriesSeq
      <4>3. CASE at(i) <= Level
        <5>1. at(i) \in 1 .. Level
          BY <4>2, <4>3
        <5> QED BY <5>1, <4>1, <4>3, <3>5, <3>6, EntriesSeq
      <4>4. CASE ~(at(i) <= Level)
        <5>1. at(i) = Level + 1 /\ push
          BY <4>2, <4>4, <3>1
        <5> QED BY <5>1, <4>1, <4>4, <3>5, <3>7
      <4> QED BY <4>3, <4>4
    <3>9. Entries' = [i \in 1 .. Level' |-> Entries'[i]]
      BY DEF Entries
    <3> DEFINE s == Entries
               n == Level
               t == Entries'
    <3>10. /\ s \in Seq(Data) /\ Len(s) = n /\ n \in Nat
           /\ s # <<>> <=> n > 0
      BY EntriesSeq
    <3>11. \A x \in Seq(Data) : /\ Append(x, d) \in Seq(Data)
                               /\ Len(Append(x, d)) = Len(x) + 1
                               /\ \A i \in 1 .. Len(x) : Append(x, d)[i] = x[i]
                               /\ Append(x, d)[Len(x) + 1] = d
      BY AppendProperties
    <3> HIDE DEF push, pop, s, n, t
    <3>12. CASE push /\ pop
      <4>1. t = [i \in 1 .. n |-> IF i + 1 <= n THEN s[i + 1] ELSE d]
        BY <3>12, <3>1, <3>8, <3>9, <3>10 DEF n, s, t
      <4>2. t = Append(Tail(s), d)
        <5>1. t \in Seq(Data) /\ Len(t) = n
          BY <4>1, <3>10
        <5>2. Tail(s) \in Seq(Data) /\ Len(Tail(s)) = n - 1
              /\ \A i \in 1 .. n - 1 : Tail(s)[i] = s[i + 1]
          BY <3>10, <3>2, <3>12, HeadTailProperties DEF n
        <5>3. n > 0
          BY <3>2, <3>12 DEF n
        <5>4. \A i \in 1 .. n : Append(Tail(s), d)[i] = t[i]
          BY <4>1, <5>2, <5>3, <3>11, <3>10
        <5> QED BY <5>1, <5>2, <5>3, <5>4, <3>11, <3>10, SeqEqual
      <4> QED BY <4>2, <3>2, <3>10, <3>12 DEF Queue!Next, Queue!PushPop, s, n, t
    <3>13. CASE push /\ ~pop
      <4>1. t = [i \in 1 .. n + 1 |-> IF i <= n THEN s[i] ELSE d]
        BY <3>13, <3>1, <3>8, <3>9, <3>10 DEF n, s, t
      <4>2. t = Append(s, d)
        <5>1. t \in Seq(Data) /\ Len(t) = n + 1
          BY <4>1, <3>10
        <5>2. \A i \in 1 .. n + 1 : Append(s, d)[i] = t[i]
          BY <3>11, <4>1, <3>10
        <5> QED BY <5>1, <5>2, <3>11, <3>10, SeqEqual
      <4> QED BY <4>2, <3>2, <3>10, <3>13 DEF Queue!Next, Queue!Push, s, n, t
    <3>14. CASE ~push /\ pop
      <4>1. t = [i \in 1 .. n - 1 |-> s[i + 1]]
        BY <3>14, <3>1, <3>8, <3>9, <3>10 DEF n, s, t
      <4>2. t = Tail(s)
        <5>1. t \in Seq(Data) /\ Len(t) = n - 1
          BY <4>1, <3>10, <3>2, <3>14 DEF n
        <5> QED BY <4>1, <5>1, <3>10, <3>2, <3>14, HeadTailProperties, SeqEqual DEF n
      <4> QED BY <4>2, <3>2, <3>10, <3>14 DEF Queue!Next, Queue!Pop, s, n, t
    <3>15. CASE ~push /\ ~pop
      <4>1. t = [i \in 1 .. n |-> s[i]]
        BY <3>15, <3>1, <3>8, <3>9, <3>10 DEF n, s, t
      <4>2. t = s
        BY <4>1, <3>10
      <4> QED BY <4>2 DEF s, t
    <3> QED BY <3>12, <3>13, <3>14, <3>15
  <2> QED BY <2>1, <2>2
<1> QED BY <1>1, <1>2 DEF Next

\* The FIFO implements the bounded queue for every depth: what a unit reads
\* out of it is what was written, in order, nothing lost while not full.
THEOREM FifoImplementsQueue == Spec => ImplementsQueue
<1>1. Init => Queue!Init
  BY DepthAssumption DEF Init, Queue!Init, Entries, Level
<1> QED BY InitIInv, StepIInv, StepRefines, <1>1, PTL DEF Spec, ImplementsQueue, Queue!Spec

\* What the pointers say about the queue, in one formula.
QueueView == /\ r_pnt \in Pointer /\ w_pnt \in Pointer
             /\ Level \in 0 .. DEPTH
             /\ (Empty <=> Level = 0) /\ (Full <=> Level = DEPTH)
             /\ Level > 0 => Entries[1] = fifo[Slot(r_pnt)]

\* The registered outputs show the entries of the queue.
LEMMA ViewFacts == IInv => QueueView
<1> SUFFICES ASSUME IInv PROVE QueueView
  OBVIOUS
<1> USE DepthAssumption
<1>1. /\ r_pnt \in Pointer /\ w_pnt \in Pointer
      /\ Level \in 0 .. DEPTH
  BY DEF IInv, TypeOK, Pointer, Level
<1>2. Level > 0 => Entries[1] = fifo[Slot(r_pnt)]
  BY <1>1 DEF Entries, Pointer
<1> QED BY <1>1, <1>2, LevelFacts DEF QueueView, LevelBound

\* The lagging status flag and the RAM's output register tell a consumer the
\* truth about the queue for every depth.
LEMMA StepReadPort == IInv /\ [Next]_vars => [ReadPortStep]_vars
<1> SUFFICES ASSUME IInv, NEW clear \in BOOLEAN, NEW we \in BOOLEAN, NEW re \in BOOLEAN,
                    NEW d \in Data, Clock(clear, we, d, re)
             PROVE  ReadPortStep
  BY DEF Next
<1> USE DepthAssumption
<1>1. QueueView /\ QueueView'
  <2>1. IInv'
    BY StepIInv DEF Next
  <2> QED BY <2>1, ViewFacts, PTL
<1>2. (avail' <=> ~Empty) /\ rdata' = fifo[Slot(r_pnt)]
  BY Zenon DEF Clock, StatusNext, MemoryNext
<1>3. ASSUME Level > 0, r_pnt' = r_pnt, Level' >= Level
      PROVE  Entries'[1] = fifo[Slot(r_pnt)]
  <2>1. Level \in 0 .. DEPTH /\ Level' \in 0 .. DEPTH
    BY <1>1 DEF QueueView
  <2>2. Slot(r_pnt) \in Index /\ Slot(w_pnt) \in Index
    BY <1>1 DEF QueueView, Pointer, Slot, Wrapped, Index
  <2>3. we /\ ~Full => Slot(w_pnt) # Slot(r_pnt)
    BY <1>1, <1>3 DEF QueueView, Level, Pointer, Slot, Wrapped
  <2>4. fifo'[Slot(r_pnt)] = fifo[Slot(r_pnt)]
    BY <2>2, <2>3 DEF Clock, MemoryNext, IInv, TypeOK
  <2>5. Level' > 0
    BY <2>1, <1>3
  <2>6. Slot(r_pnt)' = Slot(r_pnt)
    BY <1>3 DEF Slot, Wrapped
  <2> QED BY <1>1, <2>4, <2>5, <2>6 DEF QueueView
<1>4. ~Empty <=> Level > 0
  BY <1>1 DEF QueueView
<1>5. CASE DEPTH = 1
  <2>1. (avail_o' <=> ~Empty') /\ rdata_o' = fifo'[0]
    BY <1>5, Zenon DEF avail_o, rdata_o
  <2>2. Slot(r_pnt)' = 0
    BY <1>1, <1>5 DEF QueueView, Pointer, Slot, Wrapped
  <2>3. Level \in Nat /\ Level' \in Nat
    BY <1>1 DEF QueueView
  <2>4. (Level' > 0 => Entries'[1] = fifo'[0]) /\ (Empty' <=> Level' = 0)
    BY <1>1, <2>2, Zenon DEF QueueView
  <2>5. ~(DEPTH > 1) /\ (Level' # 0 => Level' > 0) /\ (Level > 0 /\ Level' >= Level => Level' # 0)
    BY <1>5, <2>3
  <2> QED BY <2>1, <2>4, <2>5, Zenon DEF ReadPortStep
<1>6. CASE DEPTH # 1
  <2>1. (avail_o' <=> ~Empty) /\ rdata_o' = fifo[Slot(r_pnt)]
    BY <1>2, <1>6, Zenon DEF avail_o, rdata_o
  <2>2. Level > 0 => Entries[1] = fifo[Slot(r_pnt)]
    BY <1>1 DEF QueueView
  <2>3. Level > 0 /\ Level' >= Level => Level' > 0
    BY <1>1 DEF QueueView
  <2> QED BY <1>3, <1>4, <2>1, <2>2, <2>3, Zenon DEF ReadPortStep
<1> QED BY <1>5, <1>6

\* For every depth, whatever the read port offers is the oldest entry or the
\* one just removed, although status and data lag the pointers by a cycle.
THEOREM ReadPortHonest == Spec => ReadPort
  BY InitIInv, StepIInv, StepReadPort, PTL DEF Spec, ReadPort
=============================================================================
