-------------------------- MODULE DualTimerProofs --------------------------
(***************************************************************************)
(* Proofs about the timer in DualCore, for every period and size of a half *)
(* word, in all five programs: although the timer has two halves, it is    *)
(* compared and read as one number.                                        *)
(*                                                                         *)
(* Orders says in which order the text of a core has the accesses of the   *)
(* CLINT driver, and that what is read is read to the end before it is     *)
(* used; Fresh, Unset, Sleeps and NotYet that the time is set before all   *)
(* else, and that the words of a launch reach a compare register no alarm  *)
(* is set in; Sound relates the comparison, made in two clocks, to the     *)
(* alarms announced, Compared how far a compare time is written, and       *)
(* Reading how far the time is read.                                       *)
(***************************************************************************)
EXTENDS DualCoreProofs

-----------------------------------------------------------------------------
\* A number is its upper and its lower half.
LEMMA Halves ==
  ASSUME NEW t \in Nat
  PROVE  High(t) \in Nat /\ Low(t) \in 0 .. Half - 1 /\ t = High(t) * Half + Low(t)
  BY ClintAssumption DEF High, Low

\* A lower half counted up by one at most.
LEMMA CountedUp ==
  ASSUME NEW n \in 0 .. Half
  PROVE  /\ High(n) = IF n = Half THEN 1 ELSE 0
         /\ Low(n) = IF n = Half THEN 0 ELSE n
  BY ClintAssumption DEF High, Low

\* The halves of a number, the higher upper half first.
LEMMA UpperFirst ==
  ASSUME NEW a \in Nat, NEW b \in Nat, NEW x \in Nat, x <= Half, a > b
  PROVE  a * Half >= b * Half + x
<1>1. Half \in Nat BY ClintAssumption
<1>2. PICK d \in Nat : a = b + 1 + d BY Z3
<1>3. a * Half = b * Half + Half + d * Half BY <1>1, <1>2
<1>4. d * Half >= 0 BY <1>1
<1>5. a * Half \in Int /\ b * Half \in Int /\ d * Half \in Int BY <1>1
<1> QED BY <1>1, <1>3, <1>4, <1>5

\* The registers of the CLINT hold numbers: half words in the lower halves.
Numbers ==
  /\ mtime = [lo |-> mtime.lo, hi |-> mtime.hi, carry |-> mtime.carry]
  /\ mtime.lo \in 0 .. Half - 1 /\ mtime.hi \in Nat /\ mtime.carry \in {0, 1}
  /\ \A h \in Hart : mtimecmp[h].lo \in 0 .. Half - 1 /\ mtimecmp[h].hi \in Nat

\* The time is a number.
LEMMA TimeNat == Numbers => Time \in Nat
<1> SUFFICES ASSUME Numbers PROVE Time \in Nat OBVIOUS
<1> DEFINE n == mtime.hi + mtime.carry
<1>1. n \in Nat /\ mtime.lo \in Nat /\ Half \in Nat BY ClintAssumption DEF Numbers
<1>2. Time = n * Half + mtime.lo BY DEF Time
<1> HIDE DEF n
<1> QED BY <1>1, <1>2

\* A clock without a write of the time: the upper half takes the carry, and the
\* time does not go back.
LEMMA ClockOn ==
  ASSUME Numbers, NEW w, Clock(w), w.reg # "mtime"
  PROVE  /\ mtime' = [lo |-> mtime'.lo, hi |-> mtime'.hi, carry |-> mtime'.carry]
         /\ mtime'.lo \in 0 .. Half - 1 /\ mtime'.hi \in Nat /\ mtime'.carry \in {0, 1}
         /\ mtime'.hi = mtime.hi + mtime.carry
         /\ Time \in Nat /\ Time' \in Nat /\ Time <= Time'
<1> DEFINE run == program = "clock" \/ (program = "rte" /\ launch.rc = 0)
           inc == IF run /\ Time < MaxTime THEN 1 ELSE 0
           n == mtime.lo + inc
           h == mtime.hi + mtime.carry
<1>1. inc \in {0, 1} OBVIOUS
<1>2. mtime' = [lo |-> Low(n), carry |-> High(n), hi |-> h]
  BY DEF Clock, ClintClock, counter_core
<1> HIDE DEF inc
<1>3. n \in 0 .. Half /\ n \in Nat /\ Half \in Nat \ {0, 1} /\ n >= mtime.lo /\ h \in Nat /\ mtime.lo \in Nat
  BY <1>1, ClintAssumption DEF Numbers
<1>4. /\ High(n) = IF n = Half THEN 1 ELSE 0
      /\ Low(n) = IF n = Half THEN 0 ELSE n
  BY <1>3, CountedUp
<1>5. mtime'.lo = Low(n) /\ mtime'.carry = High(n) /\ mtime'.hi = h BY <1>2
<1>6. Time = h * Half + mtime.lo BY DEF Time
<1>7. Time' = (h + High(n)) * Half + Low(n) BY <1>5 DEF Time
<1> HIDE DEF n, h
<1>8. Time' = h * Half + n
  <2>1. CASE n = Half
    <3>1. Time' = (h + 1) * Half + 0 BY <1>4, <1>7, <2>1
    <3>2. (h + 1) * Half = h * Half + Half BY <1>3
    <3> QED BY <1>3, <2>1, <3>1, <3>2
  <2>2. CASE n # Half
    <3>1. High(n) = 0 /\ Low(n) = n BY <1>4, <2>2
    <3>2. h + 0 = h BY <1>3
    <3> QED BY <1>7, <3>1, <3>2
  <2> QED BY <2>1, <2>2
<1>9. h * Half \in Nat BY <1>3
<1>10. Low(n) \in 0 .. Half - 1 /\ High(n) \in {0, 1} BY <1>3, <1>4
<1>11. h = mtime.hi + mtime.carry BY DEF h
<1>12. Time \in Nat /\ Time' \in Nat /\ Time <= Time' BY <1>3, <1>6, <1>8, <1>9
<1> QED BY <1>2, <1>3, <1>5, <1>10, <1>11, <1>12

\* What a comparison says in the clock after it: the time then was at least
\* the upper half compared now with the lower half compared then.
Due(c) == mtime.hi > mtimecmp[c].hi \/ (mtime.hi = mtimecmp[c].hi /\ cmp_lo_ge[c])

\* It says so in the next clock.
LEMMA DueThen ==
  ASSUME Numbers, NEW w, Clock(w), NEW c \in Core, mtime'.hi = mtime.hi + mtime.carry,
         mtimecmp'[c].hi \in Nat, Due(c)'
  PROVE  Time >= mtimecmp'[c].hi * Half + mtimecmp[c].lo
<1> DEFINE n == mtime.hi + mtime.carry
           h == mtimecmp'[c].hi
           x == mtimecmp[c].lo
<1>1. Core = Hart BY DEF Core, Hart
<1>2. n \in Nat /\ mtime.lo \in Nat /\ Half \in Nat /\ x \in Nat /\ x <= Half /\ h \in Nat
  BY <1>1, ClintAssumption DEF Numbers
<1>3. Time = n * Half + mtime.lo BY DEF Time
<1>4. cmp_lo_ge'[c] = (mtime.lo >= x) BY <1>1 DEF Clock, ClintClock, irq_gen
<1>5. n > h \/ (n = h /\ mtime.lo >= x) BY <1>4 DEF Due
<1> HIDE DEF n, h, x
<1>6. n * Half \in Int /\ h * Half \in Int BY <1>2
<1>7. ASSUME n > h PROVE Time >= h * Half + x
  <2>1. n * Half >= h * Half + x BY <1>2, <1>7, UpperFirst
  <2> QED BY <1>2, <1>3, <1>6, <2>1
<1>8. ASSUME n = h, mtime.lo >= x PROVE Time >= h * Half + x BY <1>2, <1>3, <1>6, <1>8
<1>9. Time >= h * Half + x BY <1>5, <1>7, <1>8
<1> QED BY <1>9 DEF h, x

\* The request for a timer interrupt is the comparison of the clock before.
LEMMA DueNow ==
  ASSUME NEW w, Clock(w), NEW c \in Core
  PROVE  mti'[c] <=> Due(c)
  BY DEF Clock, ClintClock, irq_gen, Core, Hart, Due

-----------------------------------------------------------------------------
\* The operations that set the time, and what a program does until then.
TimeOps == {"time_lo0", "time_hi", "time_lo"}
Presets == TimeOps \cup {"rte_setup", "available", "target0", "target_unix"}
\* The operations that end a text; those within a read of the time, or that
\* write over what was read; and those after which its result is in use.
Ends == {"on", "mret", "main_entry"}
ReadOps == {"get_hi", "get_lo", "get_hi2", "cmp_get_hi"}
UseOps == {"target_next", "mret"}

\* A text with operation o after p and before r.
Cut(p, o, r) == p \o Cons(o, r)

\* The time will be read before it is used.
Awaits(s) == \E p, r \in Text : s = Cut(p, "get_hi2", r) /\ Range(p) \cap UseOps = {}

\* Each step of a routine but the first comes after the step before.
Follows(o, y) ==
  /\ y = "cmp_lo1" => o = "cmp_begin"
  /\ y = "cmp_hi" => o = "cmp_lo1"
  /\ y = "cmp_lo" => o = "cmp_hi"
  /\ y = "cmp_get_hi" => o = "cmp_get_lo"
  /\ y = "get_lo" => o = "get_hi"
  /\ y = "get_hi2" => o = "get_lo"

\* Operation o may come before s; in an ordered text all of them may.
Fits(o, s) ==
  /\ s # <<>> => Follows(o, Head(s))
  /\ o \in Ends => s = <<>>
  /\ o \notin Presets => Range(s) \cap TimeOps = {}
  /\ o \in ReadOps => Awaits(Cons(o, s))
Ordered(s) == \A p, r \in Text : \A o \in Operation : s = Cut(p, o, r) => Fits(o, r)

\* What is said above of operations is.
LEMMA TimerOps ==
  /\ "get_hi2" \in Operation /\ Presets \subseteq Operation /\ ReadOps \subseteq Operation /\ Ends \subseteq Operation
  /\ {"cmp_begin", "cmp_lo1", "cmp_hi", "cmp_lo", "cmp_get_lo", "target_next", "target_add", "target_never"} \subseteq Operation
  /\ TimeOps \subseteq Presets
  BY DEF Presets, TimeOps, ReadOps, Ends, Operation, AccessOps, Internal

\* Equal texts have the same first operation and the same others.
LEMMA ConsEqual ==
  ASSUME NEW o \in Operation, NEW s \in Text, NEW x \in Operation, NEW t \in Text, Cons(o, s) = Cons(x, t)
  PROVE  o = x /\ s = t
<1>1. Head(Cons(o, s)) = o /\ Tail(Cons(o, s)) = s BY ConsFacts
<1>2. Head(Cons(x, t)) = x /\ Tail(Cons(x, t)) = t BY ConsFacts
<1> DEFINE u == Cons(o, s)
<1>3. u = Cons(x, t) OBVIOUS
<1> HIDE DEF u
<1>4. Head(u) = x /\ Tail(u) = t BY <1>2, <1>3
<1>5. Head(u) = o /\ Tail(u) = s BY <1>1 DEF u
<1> QED BY <1>4, <1>5

\* A cut through a text is at its first operation, or one through the others.
LEMMA CutCons ==
  ASSUME NEW o \in Operation, NEW s \in Text, NEW p \in Text, NEW x \in Operation, NEW r \in Text,
         Cons(o, s) = Cut(p, x, r)
  PROVE  \/ p = <<>> /\ o = x /\ s = r
         \/ p # <<>> /\ Head(p) = o /\ Tail(p) \in Text /\ s = Cut(Tail(p), x, r)
<1> DEFINE u == Cons(x, r)
<1>1. u \in Text BY ConsFacts
<1>2. Cons(o, s) = p \o u BY DEF Cut
<1>3. CASE p = <<>>
  <2>1. u = Cons(o, s)
    <3> HIDE DEF u
    <3> QED BY <1>1, <1>2, <1>3, JoinFacts
  <2>2. o = x /\ s = r BY <2>1, ConsEqual
  <2> QED BY <1>3, <2>2
<1>4. CASE p # <<>>
  <2> HIDE DEF u
  <2>1. PICK h \in Operation, t \in Text : h = Head(p) /\ t = Tail(p) /\ p = Cons(h, t) BY <1>4, HeadTail
  <2>2. \A y \in Operation : Cons(y, t) \o u = Cons(y, t \o u) BY <1>1, <2>1, JoinFacts
  <2>3. Cons(h, t) \o u = Cons(h, t \o u) BY <2>1, <2>2, Zenon
  <2> DEFINE v == t \o u
  <2>4. v \in Text BY <1>1, JoinFacts
  <2>5. Cons(o, s) = Cons(h, v) BY <1>2, <2>1, <2>3
  <2> HIDE DEF v
  <2>6. o = h /\ s = v BY <2>4, <2>5, ConsEqual
  <2>7. s = Cut(t, x, r) BY <2>6 DEF v, u, Cut
  <2> QED BY <1>4, <2>1, <2>6, <2>7
<1> QED BY <1>3, <1>4

\* Cuts of a longer text.
LEMMA CutMore ==
  ASSUME NEW o \in Operation, NEW p \in Text, NEW x \in Operation, NEW r \in Text
  PROVE  /\ Cut(p, x, r) \in Text /\ x \in Range(Cut(p, x, r))
         /\ Cons(o, Cut(p, x, r)) = Cut(Cons(o, p), x, r)
         /\ Cons(x, r) = Cut(<<>>, x, r)
<1> DEFINE u == Cons(x, r)
<1>1. u \in Text /\ x \in Range(u) BY ConsFacts
<1> HIDE DEF u
<1>2. p \o u \in Text /\ x \in Range(p \o u) BY <1>1, JoinFacts
<1>3. Cons(o, p) \o u = Cons(o, p \o u) BY <1>1, JoinFacts
<1>4. <<>> \o u = u BY <1>1, JoinFacts
<1>5. Cut(p, x, r) = p \o u BY DEF Cut, u
<1>6. Cut(Cons(o, p), x, r) = Cons(o, p) \o u BY DEF Cut, u
<1>7. Cut(<<>>, x, r) = <<>> \o u BY DEF Cut, u
<1>8. Cons(x, r) = u BY DEF u
<1> QED BY <1>2, <1>3, <1>4, <1>5, <1>6, <1>7, <1>8

\* A cut stays one when more is to be done after it.
LEMMA CutJoin ==
  ASSUME NEW p \in Text, NEW x \in Operation, NEW r \in Text, NEW t \in Text
  PROVE  Cut(p, x, r) \o t = Cut(p, x, r \o t)
<1> DEFINE u == Cons(x, r)
<1>1. u \in Text BY ConsFacts
<1>2. u \o t = Cons(x, r \o t) BY JoinFacts
<1> HIDE DEF u
<1>3. (p \o u) \o t = p \o (u \o t) BY <1>1, JoinThree
<1>4. Cut(p, x, r) = p \o u BY DEF Cut, u
<1>5. Cut(p, x, r) \o t = p \o (u \o t) BY <1>3, <1>4
<1> QED BY <1>2, <1>5 DEF Cut

\* An awaited read, by the first operation.
LEMMA AwaitsCons ==
  ASSUME NEW o \in Operation, NEW s \in Text
  PROVE  /\ o = "get_hi2" => Awaits(Cons(o, s))
         /\ o \notin UseOps /\ Awaits(s) => Awaits(Cons(o, s))
         /\ o # "get_hi2" /\ Awaits(Cons(o, s)) => o \notin UseOps /\ Awaits(s)
<1> DEFINE g == "get_hi2"
<1>1. g \in Operation BY TimerOps
<1>2. \A t : Awaits(t) <=> \E p, r \in Text : t = Cut(p, g, r) /\ Range(p) \cap UseOps = {} BY DEF Awaits
<1>3. o = "get_hi2" <=> o = g OBVIOUS
<1> HIDE DEF g
<1>4. ASSUME o = g PROVE Awaits(Cons(o, s))
  <2>1. <<>> \in Text /\ Range(<<>>) = {} BY EmptyFacts
  <2>2. Cons(o, s) = Cut(<<>>, g, s) BY <1>4, CutMore
  <2> QED BY <1>2, <2>1, <2>2
<1>5. ASSUME o \notin UseOps, Awaits(s) PROVE Awaits(Cons(o, s))
  <2>1. PICK p \in Text, r \in Text : s = Cut(p, g, r) /\ Range(p) \cap UseOps = {} BY <1>2, <1>5
  <2>2. Cons(o, p) \in Text /\ Range(Cons(o, p)) = {o} \cup Range(p) BY ConsFacts
  <2>3. Cons(o, s) = Cut(Cons(o, p), g, r) BY <1>1, <2>1, CutMore
  <2>4. Range(Cons(o, p)) \cap UseOps = {} BY <1>5, <2>1, <2>2
  <2> QED BY <1>2, <2>2, <2>3, <2>4
<1>6. ASSUME o # g, Awaits(Cons(o, s)) PROVE o \notin UseOps /\ Awaits(s)
  <2>1. PICK p \in Text, r \in Text : Cons(o, s) = Cut(p, g, r) /\ Range(p) \cap UseOps = {} BY <1>2, <1>6
  <2>2. p # <<>> /\ Head(p) = o /\ Tail(p) \in Text /\ s = Cut(Tail(p), g, r)
    BY <1>1, <1>6, <2>1, CutCons
  <2>3. Range(p) = {o} \cup Range(Tail(p)) BY <2>2, HeadTail
  <2>4. o \notin UseOps /\ Range(Tail(p)) \cap UseOps = {} BY <2>1, <2>3
  <2> QED BY <1>2, <2>2, <2>4
<1> QED BY <1>3, <1>4, <1>5, <1>6

\* Nothing is awaited of an empty text, and an awaited read stays awaited when
\* more is to be done after it.
LEMMA AwaitsMore ==
  /\ ~Awaits(<<>>)
  /\ \A s, t \in Text : Awaits(s) => Awaits(s \o t)
<1> DEFINE g == "get_hi2"
<1>1. g \in Operation BY TimerOps
<1>2. \A t : Awaits(t) <=> \E p, r \in Text : t = Cut(p, g, r) /\ Range(p) \cap UseOps = {} BY DEF Awaits
<1> HIDE DEF g
<1>3. ASSUME Awaits(<<>>) PROVE FALSE
  <2>1. PICK p \in Text, r \in Text : <<>> = Cut(p, g, r) BY <1>2, <1>3
  <2>2. g \in Range(Cut(p, g, r)) BY <1>1, CutMore
  <2> QED BY <2>1, <2>2, EmptyFacts
<1>4. ASSUME NEW s \in Text, NEW t \in Text, Awaits(s) PROVE Awaits(s \o t)
  <2>1. PICK p \in Text, r \in Text : s = Cut(p, g, r) /\ Range(p) \cap UseOps = {} BY <1>2, <1>4
  <2>4. p \in Text /\ r \in Text BY <2>1
  <2>5. Cut(p, g, r) \o t = Cut(p, g, r \o t) BY <1>1, <2>4, CutJoin, Zenon
  <2>2. s \o t = Cut(p, g, r \o t) BY <2>1, <2>5, Zenon
  <2>3. r \o t \in Text BY JoinFacts
  <2> QED BY <1>2, <2>1, <2>2, <2>3
<1> QED BY <1>3, <1>4

\* An ordered text, by its first operation.
LEMMA OrderedCons ==
  ASSUME NEW o \in Operation, NEW s \in Text
  PROVE  Ordered(Cons(o, s)) <=> Fits(o, s) /\ Ordered(s)
<1>1. ASSUME Ordered(Cons(o, s)) PROVE Fits(o, s)
  <2>1. <<>> \in Text BY EmptyFacts
  <2>2. Cons(o, s) = Cut(<<>>, o, s) BY CutMore
  <2> QED BY <1>1, <2>1, <2>2 DEF Ordered
<1>2. ASSUME Ordered(Cons(o, s)) PROVE Ordered(s)
  <2>1. SUFFICES ASSUME NEW p \in Text, NEW r \in Text, NEW x \in Operation, s = Cut(p, x, r)
                 PROVE  Fits(x, r)
    BY DEF Ordered
  <2>2. Cons(o, p) \in Text BY ConsFacts
  <2>3. Cons(o, s) = Cut(Cons(o, p), x, r) BY <2>1, CutMore
  <2> QED BY <1>2, <2>2, <2>3 DEF Ordered
<1>3. ASSUME Fits(o, s), Ordered(s) PROVE Ordered(Cons(o, s))
  <2>1. SUFFICES ASSUME NEW p \in Text, NEW r \in Text, NEW x \in Operation, Cons(o, s) = Cut(p, x, r)
                 PROVE  Fits(x, r)
    BY DEF Ordered
  <2>2. \/ o = x /\ s = r
        \/ Tail(p) \in Text /\ s = Cut(Tail(p), x, r)
    BY <2>1, CutCons
  <2>3. CASE o = x /\ s = r BY <1>3, <2>3
  <2>4. CASE Tail(p) \in Text /\ s = Cut(Tail(p), x, r) BY <1>3, <2>4 DEF Ordered
  <2> QED BY <2>2, <2>3, <2>4
<1> QED BY <1>1, <1>2, <1>3

\* An empty text is ordered.
LEMMA OrderedEmpty == Ordered(<<>>)
<1>1. SUFFICES ASSUME NEW p \in Text, NEW r \in Text, NEW x \in Operation, <<>> = Cut(p, x, r) PROVE FALSE
  BY DEF Ordered
<1>2. x \in Range(Cut(p, x, r)) BY CutMore
<1> QED BY <1>1, <1>2, EmptyFacts

\* One text and then the other.
Then(p, s) == p \o s

\* A cut through two texts is one through the first or one through the second.
LEMMA CutTwo ==
  ASSUME NEW p \in Text, NEW s \in Text, NEW q \in Text, NEW x \in Operation, NEW r \in Text,
         Then(p, s) = Cut(q, x, r)
  PROVE  \/ \E u \in Text : p = Cut(q, x, u) /\ r = Then(u, s)
         \/ \E u \in Text : s = Cut(u, x, r)
<1> DEFINE c == Cons(x, r)
           m == Len(p)
           n == Len(q)
           t == Then(p, s)
<1>1. c \in Text /\ Len(c) = Len(r) + 1 /\ Head(c) = x /\ Tail(c) = r /\ c # <<>> BY ConsFacts
<1>2. m \in Nat /\ n \in Nat /\ Len(s) \in Nat /\ Len(r) \in Nat BY LenProperties DEF Text
<1>3. c[1] = x BY <1>1 DEF Text
<1>4. \A i \in 1 .. Len(r) : r[i] = c[i + 1] BY <1>1, <1>2, HeadTailProperties DEF Text
<1>5. t = q \o c BY DEF Cut
<1> HIDE DEF c
<1>6. /\ Len(t) = m + Len(s)
      /\ \A i \in 1 .. m + Len(s) : t[i] = IF i <= m THEN p[i] ELSE s[i - m]
  <2>1. /\ Len(p \o s) = m + Len(s)
        /\ \A i \in 1 .. m + Len(s) : (p \o s)[i] = IF i <= m THEN p[i] ELSE s[i - m]
    BY ConcatProperties DEF Text
  <2> QED BY <2>1 DEF Then
<1>7. /\ Len(t) = n + Len(c)
      /\ \A i \in 1 .. n + Len(c) : t[i] = IF i <= n THEN q[i] ELSE c[i - n]
  <2>1. /\ Len(q \o c) = n + Len(c)
        /\ \A i \in 1 .. n + Len(c) : (q \o c)[i] = IF i <= n THEN q[i] ELSE c[i - n]
    BY <1>1, ConcatProperties DEF Text
  <2> HIDE DEF t
  <2> QED BY <1>5, <2>1
<1> HIDE DEF m, n, t
<1>13. m + Len(s) = n + Len(c) BY <1>6, <1>7
<1>8. m + Len(s) = n + 1 + Len(r) BY <1>1, <1>2, <1>13
<1>9. \A i \in 1 .. m + Len(s) : IF i <= m THEN t[i] = p[i] ELSE t[i] = s[i - m] BY <1>6
<1>10. \A i \in 1 .. m + Len(s) : IF i <= n THEN t[i] = q[i] ELSE t[i] = c[i - n] BY <1>1, <1>2, <1>7, <1>8
<1>11. ASSUME n < m PROVE \E u \in Text : p = Cut(q, x, u) /\ r = Then(u, s)
  <2> DEFINE k == m - n - 1
             u == [i \in 1 .. k |-> p[n + 1 + i]]
  <2>1. k \in Nat /\ k <= Len(r) /\ m = n + 1 + k BY <1>2, <1>8, <1>11
  <2>2. \A i \in 1 .. m : p[i] \in Operation BY DEF Text, m
  <2>3. u \in Text /\ Len(u) = k
    <3>1. \A i \in 1 .. k : p[n + 1 + i] \in Operation BY <1>2, <2>1, <2>2
    <3> HIDE DEF k
    <3> QED BY <2>1, <3>1 DEF Text
  <2>4. \A i \in 1 .. k : u[i] = p[n + 1 + i] OBVIOUS
  <2> HIDE DEF k, u
  <2>5. r = u \o s
    <3>4. /\ u \o s \in Text /\ Len(u \o s) = Len(u) + Len(s)
          /\ \A i \in 1 .. Len(u) + Len(s) : (u \o s)[i] = IF i <= Len(u) THEN u[i] ELSE s[i - Len(u)]
      BY <2>3, ConcatProperties DEF Text
    <3>1. /\ u \o s \in Text /\ Len(u \o s) = k + Len(s)
          /\ \A i \in 1 .. k + Len(s) : (u \o s)[i] = IF i <= k THEN u[i] ELSE s[i - k]
      BY <2>3, <3>4
    <3>2. Len(r) = k + Len(s)
      <4> DEFINE a == Len(r)
                 b == Len(s)
      <4>1. a \in Int /\ b \in Int /\ m \in Int /\ n \in Int /\ m + b = n + 1 + a /\ k \in Int /\ m = n + 1 + k
        BY <1>2, <1>8, <2>1
      <4> HIDE DEF a, b
      <4>2. a = k + b BY <4>1
      <4> QED BY <4>2 DEF a, b
    <3>3. ASSUME NEW i \in 1 .. Len(r) PROVE r[i] = IF i <= k THEN u[i] ELSE s[i - k]
      <4> DEFINE j == n + 1 + i
      <4>1. j \in 1 .. m + Len(s) /\ ~(j <= n) /\ j - n = i + 1 BY <1>2, <1>8
      <4>6. (i <= k <=> j <= m) /\ j - m = i - k BY <1>2, <2>1
      <4>7. i <= k => i \in 1 .. k /\ u[i] = p[j] BY <2>1, <2>4
      <4> HIDE DEF j
      <4>2. t[j] = c[j - n] BY <1>10, <4>1
      <4>3. r[i] = t[j] BY <1>4, <4>1, <4>2
      <4>4. CASE i <= k
        <5>1. j <= m BY <4>4, <4>6
        <5>2. t[j] = p[j] BY <1>9, <4>1, <5>1
        <5> QED BY <4>3, <4>4, <4>7, <5>2
      <4>5. CASE ~(i <= k)
        <5>1. ~(j <= m) BY <4>5, <4>6
        <5>2. t[j] = s[j - m] BY <1>9, <4>1, <5>1
        <5> QED BY <4>3, <4>5, <4>6, <5>2
      <4> QED BY <4>4, <4>5
    <3>5. \A i \in 1 .. Len(r) : r[i] = (u \o s)[i] BY <3>1, <3>2, <3>3
    <3> QED BY <3>1, <3>2, <3>5, SeqEqual DEF Text
  <2>6. p = Cut(q, x, u)
    <3> DEFINE d == Cons(x, u)
               v == q \o d
    <3>1. d \in Text /\ Len(d) = k + 1 /\ Head(d) = x /\ Tail(d) = u /\ d # <<>> BY <2>3, ConsFacts
    <3>2. d[1] = x BY <3>1 DEF Text
    <3> HIDE DEF d
    <3>8. \A i \in 1 .. Len(d) - 1 : Tail(d)[i] = d[i + 1] BY <3>1, HeadTailProperties DEF Text
    <3>9. Len(d) - 1 = k BY <2>1, <3>1
    <3>3. \A i \in 1 .. k : u[i] = d[i + 1] BY <3>1, <3>8, <3>9
    <3>4. /\ v \in Text /\ Len(v) = n + Len(d)
          /\ \A i \in 1 .. n + Len(d) : v[i] = IF i <= n THEN q[i] ELSE d[i - n]
      BY <3>1, ConcatProperties DEF Text, n
    <3>5. Len(v) = m BY <1>2, <2>1, <3>1, <3>4
    <3> HIDE DEF v
    <3>6. ASSUME NEW i \in 1 .. m PROVE p[i] = v[i]
      <4>1. i \in 1 .. m + Len(s) /\ i \in 1 .. n + Len(d) BY <1>2, <2>1, <3>1
      <4>2. t[i] = p[i] BY <1>9, <4>1
      <4>3. CASE i <= n
        <5>1. t[i] = q[i] BY <1>10, <4>1, <4>3
        <5>2. v[i] = q[i] BY <3>4, <4>1, <4>3
        <5> QED BY <4>2, <5>1, <5>2
      <4>4. CASE i = n + 1
        <5>1. ~(i <= n) /\ i - n = 1 BY <1>2, <4>4
        <5>2. t[i] = c[1] BY <1>10, <4>1, <5>1
        <5>3. v[i] = d[1] BY <3>4, <4>1, <5>1
        <5> QED BY <1>3, <3>2, <4>2, <5>2, <5>3
      <4>5. CASE i > n + 1
        <5> DEFINE j == i - n - 1
        <5>1. j \in 1 .. k /\ i = n + 1 + j /\ ~(i <= n) /\ i - n = j + 1 BY <1>2, <2>1, <4>5
        <5> HIDE DEF j
        <5>2. v[i] = d[j + 1] BY <3>4, <4>1, <5>1
        <5>3. v[i] = u[j] BY <3>3, <5>1, <5>2
        <5>4. u[j] = p[n + 1 + j] BY <2>4, <5>1
        <5> QED BY <5>1, <5>3, <5>4
      <4>6. i <= n \/ i = n + 1 \/ i > n + 1 BY <1>2
      <4> QED BY <4>3, <4>4, <4>5, <4>6
    <3>7. p = v
      <4>1. Len(p) = Len(v) BY <3>5 DEF m
      <4>2. \A i \in 1 .. Len(p) : p[i] = v[i] BY <3>6 DEF m
      <4> QED BY <3>4, <4>1, <4>2, SeqEqual DEF Text
    <3> QED BY <3>7 DEF Cut, d, v
  <2>7. r = Then(u, s) BY <2>5 DEF Then
  <2> QED BY <2>3, <2>6, <2>7
<1>12. ASSUME m <= n PROVE \E u \in Text : s = Cut(u, x, r)
  <2> DEFINE k == n - m
             u == [i \in 1 .. k |-> q[m + i]]
  <2>1. k \in Nat /\ n = m + k /\ Len(s) = k + 1 + Len(r) BY <1>2, <1>8, <1>12
  <2>2. \A i \in 1 .. n : q[i] \in Operation BY DEF Text, n
  <2>3. u \in Text /\ Len(u) = k
    <3>1. \A i \in 1 .. k : q[m + i] \in Operation BY <1>2, <2>1, <2>2
    <3> HIDE DEF k
    <3> QED BY <2>1, <3>1 DEF Text
  <2>4. \A i \in 1 .. k : u[i] = q[m + i] OBVIOUS
  <2> HIDE DEF k, u
  <2> DEFINE v == u \o c
  <2>5. /\ v \in Text /\ Len(v) = k + Len(c)
        /\ \A i \in 1 .. k + Len(c) : v[i] = IF i <= k THEN u[i] ELSE c[i - k]
    BY <1>1, <2>3, ConcatProperties DEF Text
  <2> HIDE DEF v
  <2>6. ASSUME NEW i \in 1 .. Len(s) PROVE s[i] = v[i]
    <3> DEFINE j == m + i
    <3>1. j \in 1 .. m + Len(s) /\ ~(j <= m) /\ j - m = i /\ i \in 1 .. k + Len(c) BY <1>1, <1>2, <2>1
    <3>5. (j <= n <=> i <= k) /\ j - n = i - k BY <1>2, <2>1
    <3>6. i <= k => i \in 1 .. k /\ u[i] = q[j] BY <2>1, <2>4
    <3> HIDE DEF j
    <3>2. t[j] = s[i]
      <4>1. t[j] = s[j - m] BY <1>9, <3>1
      <4> QED BY <3>1, <4>1
    <3>3. CASE i <= k
      <4>1. j <= n BY <3>3, <3>5
      <4>2. t[j] = q[j] BY <1>10, <3>1, <4>1
      <4> QED BY <2>5, <3>1, <3>2, <3>3, <3>6, <4>2
    <3>4. CASE ~(i <= k)
      <4>1. ~(j <= n) BY <3>4, <3>5
      <4>2. t[j] = c[j - n] BY <1>10, <3>1, <4>1
      <4>3. v[i] = c[i - k] BY <2>5, <3>1, <3>4
      <4> QED BY <3>2, <3>5, <4>2, <4>3
    <3> QED BY <3>3, <3>4
  <2>7. Len(s) = Len(v) BY <1>1, <1>2, <2>1, <2>5
  <2>8. s = v BY <2>5, <2>6, <2>7, SeqEqual DEF Text
  <2> QED BY <2>3, <2>8 DEF Cut, v, c
<1> QED BY <1>2, <1>11, <1>12

-----------------------------------------------------------------------------
\* The operations a routine does not begin with; a text that begins a routine.
Inner == {"cmp_lo1", "cmp_hi", "cmp_lo", "cmp_get_hi", "get_lo", "get_hi2"}
Starts(s) == s # <<>> => Head(s) \notin Inner
\* The operations that may come anywhere.
Lone == Operation \ (TimeOps \cup Ends \cup ReadOps \cup Inner)
\* Texts that may come after any of them.
Fair(s) == s \in Text /\ Ordered(s) /\ Starts(s) /\ Range(s) \cap TimeOps = {}

\* Texts of such operations are texts.
LEMMA LoneTexts ==
  /\ Lone \subseteq Operation /\ Seq(Lone) \subseteq Text /\ Seq(Presets) \subseteq Text
  /\ Lone \cap (TimeOps \cup Ends \cup ReadOps \cup Inner) = {} /\ Presets \cap (Ends \cup ReadOps \cup Inner) = {}
  /\ \A s \in Seq(Lone) : Range(s) \subseteq Lone
  /\ \A s \in Seq(Presets) : Range(s) \subseteq Presets
<1>1. Lone \subseteq Operation BY DEF Lone
<1>2. Presets \subseteq Operation BY TimerOps
<1>3. Seq(Lone) \subseteq Text /\ Seq(Presets) \subseteq Text BY <1>1, <1>2, SeqMonotonic DEF Text
<1>4. Lone \cap (TimeOps \cup Ends \cup ReadOps \cup Inner) = {} BY DEF Lone
<1>5. Presets \cap (Ends \cup ReadOps \cup Inner) = {} BY DEF Presets, TimeOps, Ends, ReadOps, Inner
<1>6. \A s \in Seq(Lone) : Range(s) \subseteq Lone BY DEF Range
<1>7. \A s \in Seq(Presets) : Range(s) \subseteq Presets BY DEF Range
<1> QED BY <1>1, <1>3, <1>4, <1>5, <1>6, <1>7

\* What follows no routine's operation may follow anything.
LEMMA FollowsAny ==
  ASSUME NEW o, NEW y, y \notin Inner
  PROVE  Follows(o, y)
  BY DEF Follows, Inner

\* The first operation of two texts.
LEMMA HeadTwo ==
  ASSUME NEW p \in Text, NEW s \in Text
  PROVE  /\ p = <<>> => p \o s = s
         /\ p # <<>> => p \o s # <<>> /\ Head(p \o s) = Head(p) /\ Head(p) \in Range(p)
<1>1. p = <<>> => p \o s = s BY JoinFacts
<1>2. ASSUME p # <<>> PROVE p \o s # <<>> /\ Head(p \o s) = Head(p) /\ Head(p) \in Range(p)
  <2>1. PICK h \in Operation, t \in Text : h = Head(p) /\ p = Cons(h, t) /\ Range(p) = {h} \cup Range(t)
    BY <1>2, HeadTail
  <2>2. Cons(h, t) \o s = Cons(h, t \o s) BY JoinFacts
  <2> DEFINE v == t \o s
  <2>3. v \in Text BY JoinFacts
  <2>4. p \o s = Cons(h, v) BY <2>1, <2>2
  <2> HIDE DEF v
  <2>5. Cons(h, v) # <<>> /\ Head(Cons(h, v)) = h BY <2>3, ConsFacts
  <2> QED BY <2>1, <2>4, <2>5
<1> QED BY <1>1, <1>2

\* Operations that may come anywhere, and before the time is set those of that
\* phase, keep a text ordered.
LEMMA LoneJoin ==
  ASSUME NEW p \in Text, NEW s \in Text, Ordered(s), Starts(s),
         \/ p \in Seq(Lone) /\ Range(s) \cap TimeOps = {}
         \/ p \in Seq(Presets)
  PROVE  Ordered(p \o s) /\ Starts(p \o s)
<1>1. Range(p) \cap (Ends \cup ReadOps \cup Inner) = {} BY LoneTexts
<1>2. \A u \in Text : Range(u) \subseteq Range(p) => Starts(u \o s)
  <2> SUFFICES ASSUME NEW u \in Text, Range(u) \subseteq Range(p) PROVE Starts(u \o s) OBVIOUS
  <2>1. CASE u = <<>> BY <2>1, HeadTwo
  <2>2. CASE u # <<>>
    <3>1. u \o s # <<>> /\ Head(u \o s) = Head(u) /\ Head(u) \in Range(u) BY <2>2, HeadTwo
    <3> QED BY <1>1, <3>1 DEF Starts
  <2> QED BY <2>1, <2>2
<1>3. Starts(p \o s) BY <1>2
<1>4. ASSUME NEW q \in Text, NEW r \in Text, NEW x \in Operation, p \o s = Cut(q, x, r)
      PROVE  Fits(x, r)
  <2>1. CASE \E u \in Text : p = Cut(q, x, u) /\ r = Then(u, s)
    <3>1. PICK u \in Text : p = Cut(q, x, u) /\ r = u \o s BY <2>1 DEF Then
    <3>2. x \in Range(p) /\ Range(u) \subseteq Range(p)
      <4>1. Range(Cut(q, x, u)) = Range(q) \cup Range(Cons(x, u))
        <5>1. Cons(x, u) \in Text BY ConsFacts
        <5> QED BY <5>1, JoinFacts DEF Cut
      <4>2. Range(Cons(x, u)) = {x} \cup Range(u) BY ConsFacts
      <4> QED BY <3>1, <4>1, <4>2
    <3>3. Starts(r) BY <1>2, <3>1, <3>2
    <3>4. r # <<>> => Follows(x, Head(r)) BY <3>3, FollowsAny DEF Starts
    <3>5. x \notin Ends /\ x \notin ReadOps BY <1>1, <3>2
    <3>6. x \notin Presets => Range(r) \cap TimeOps = {}
      <4>1. Range(r) = Range(u) \cup Range(s) BY <3>1, JoinFacts
      <4>2. CASE p \in Seq(Lone) /\ Range(s) \cap TimeOps = {}
        <5>1. Range(p) \cap TimeOps = {} BY <4>2, LoneTexts
        <5> QED BY <3>2, <4>1, <4>2, <5>1
      <4>3. CASE p \in Seq(Presets) BY <3>2, <4>3, LoneTexts
      <4> QED BY <4>2, <4>3
    <3> QED BY <3>4, <3>5, <3>6 DEF Fits
  <2>2. CASE \E u \in Text : s = Cut(u, x, r) BY <2>2 DEF Ordered
  <2>3. Then(p, s) = Cut(q, x, r) BY <1>4 DEF Then
  <2>4. \/ \E u \in Text : p = Cut(q, x, u) /\ r = Then(u, s)
        \/ \E u \in Text : s = Cut(u, x, r)
    BY <2>3, CutTwo
  <2> QED BY <2>1, <2>2, <2>4
<1>5. Ordered(p \o s) BY <1>4 DEF Ordered
<1> QED BY <1>3, <1>5

\* So they leave a text fair.
LEMMA FairJoin ==
  ASSUME NEW p \in Seq(Lone), NEW s, Fair(s)
  PROVE  Fair(p \o s)
<1>1. p \in Text /\ Range(p) \cap TimeOps = {} BY LoneTexts
<1>2. s \in Text /\ Ordered(s) /\ Starts(s) /\ Range(s) \cap TimeOps = {} BY DEF Fair
<1>3. Ordered(p \o s) /\ Starts(p \o s) BY <1>1, <1>2, LoneJoin
<1>4. p \o s \in Text /\ Range(p \o s) = Range(p) \cup Range(s) BY <1>1, <1>2, JoinFacts
<1> QED BY <1>1, <1>2, <1>3, <1>4 DEF Fair

\* A fair text after an operation that fits.
LEMMA FairCons ==
  ASSUME NEW o \in Operation, o \notin TimeOps, NEW s \in Text, Ordered(s), Range(s) \cap TimeOps = {}, Fits(o, s)
  PROVE  /\ Cons(o, s) \in Text /\ Ordered(Cons(o, s)) /\ Range(Cons(o, s)) \cap TimeOps = {}
         /\ o \notin Inner => Fair(Cons(o, s))
<1>1. Cons(o, s) \in Text /\ Head(Cons(o, s)) = o /\ Range(Cons(o, s)) = {o} \cup Range(s) BY ConsFacts
<1>2. Ordered(Cons(o, s)) BY OrderedCons
<1>3. Range(Cons(o, s)) \cap TimeOps = {} BY <1>1
<1>4. o \notin Inner => Starts(Cons(o, s)) BY <1>1 DEF Starts
<1> QED BY <1>1, <1>2, <1>3, <1>4 DEF Fair

\* The end of a text.
LEMMA FairEnd ==
  /\ Fair(<<>>)
  /\ \A o \in Ends : Fair(<<o>>)
  /\ Fair(<<"exit">>)
<1>1. Fair(<<>>)
  <2>1. <<>> \in Text /\ Range(<<>>) = {} BY EmptyFacts
  <2> QED BY <2>1, OrderedEmpty DEF Fair, Starts
<1>2. ASSUME NEW o \in Operation, o \in Ends \cup {"exit"} PROVE Fair(<<o>>)
  <2>1. <<o>> = Cons(o, <<>>) BY Literal1
  <2>2. Fits(o, <<>>)
    <3>1. Range(<<>>) = {} BY EmptyFacts
    <3>2. o \notin ReadOps BY <1>2 DEF Ends, ReadOps
    <3> QED BY <3>1, <3>2 DEF Fits
  <2>3. o \notin TimeOps /\ o \notin Inner BY <1>2 DEF Ends, TimeOps, Inner
  <2>4. <<>> \in Text /\ Ordered(<<>>) /\ Range(<<>>) \cap TimeOps = {} BY <1>1 DEF Fair
  <2>5. Fair(Cons(o, <<>>)) BY <2>2, <2>3, <2>4, FairCons
  <2> QED BY <2>1, <2>5
<1>3. Ends \subseteq Operation BY TimerOps
<1>4. "exit" \in Operation BY DEF Operation, Internal
<1> QED BY <1>1, <1>2, <1>3, <1>4

\* A read of the time before a fair text.
LEMMA FairGet ==
  ASSUME NEW s, Fair(s)
  PROVE  Fair(astrarv32_clint_time_get \o s) /\ Awaits(astrarv32_clint_time_get \o s)
<1> DEFINE s1 == Cons("get_hi2", s)
           s2 == Cons("get_lo", s1)
           s3 == Cons("get_hi", s2)
<1>1. {"get_hi", "get_lo", "get_hi2"} \subseteq Operation BY TimerOps DEF ReadOps
<1>2. s \in Text /\ Ordered(s) /\ Starts(s) /\ Range(s) \cap TimeOps = {} BY DEF Fair
<1>3. s1 \in Text /\ Ordered(s1) /\ Range(s1) \cap TimeOps = {} /\ Awaits(s1) /\ Head(s1) = "get_hi2"
  <2>1. s # <<>> => Follows("get_hi2", Head(s)) BY <1>2, FollowsAny DEF Starts
  <2>2. Awaits(s1) BY <1>1, <1>2, AwaitsCons
  <2>3. "get_hi2" \notin Ends /\ "get_hi2" \notin TimeOps BY DEF Ends, TimeOps
  <2>4. Fits("get_hi2", s) BY <1>2, <2>1, <2>2, <2>3 DEF Fits
  <2> QED BY <1>1, <1>2, <2>2, <2>3, <2>4, FairCons, ConsFacts
<1> HIDE DEF s1
<1>4. s2 \in Text /\ Ordered(s2) /\ Range(s2) \cap TimeOps = {} /\ Awaits(s2) /\ Head(s2) = "get_lo"
  <2>1. s1 # <<>> => Follows("get_lo", Head(s1)) BY <1>3 DEF Follows
  <2>2. "get_lo" \notin Ends /\ "get_lo" \notin TimeOps /\ "get_lo" \notin UseOps BY DEF Ends, TimeOps, UseOps
  <2>3. Awaits(s2) BY <1>1, <1>3, <2>2, AwaitsCons
  <2>4. Fits("get_lo", s1) BY <1>3, <2>1, <2>2, <2>3 DEF Fits
  <2> QED BY <1>1, <1>3, <2>2, <2>3, <2>4, FairCons, ConsFacts
<1> HIDE DEF s2
<1>5. Fair(s3) /\ Awaits(s3)
  <2>1. s2 # <<>> => Follows("get_hi", Head(s2)) BY <1>4 DEF Follows
  <2>2. "get_hi" \notin Ends /\ "get_hi" \notin TimeOps /\ "get_hi" \notin UseOps /\ "get_hi" \notin Inner
    BY DEF Ends, TimeOps, UseOps, Inner
  <2>3. Awaits(s3) BY <1>1, <1>4, <2>2, AwaitsCons
  <2>4. Fits("get_hi", s2) BY <1>4, <2>1, <2>2, <2>3 DEF Fits
  <2> QED BY <1>1, <1>4, <2>2, <2>3, <2>4, FairCons
<1>6. astrarv32_clint_time_get \o s = s3
  <2>4. "get_hi" \in Operation /\ "get_lo" \in Operation /\ "get_hi2" \in Operation BY <1>1
  <2>5. \A x \in Text : <<"get_hi", "get_lo", "get_hi2">> \o x = Cons("get_hi", <<"get_lo", "get_hi2">> \o x)
    BY <2>4, Literal3
  <2>1. astrarv32_clint_time_get \o s = Cons("get_hi", <<"get_lo", "get_hi2">> \o s)
    BY <1>2, <2>5 DEF astrarv32_clint_time_get
  <2>2. <<"get_lo", "get_hi2">> \o s = Cons("get_lo", <<"get_hi2">> \o s) BY <1>1, <1>2, Literal2
  <2>3. <<"get_hi2">> \o s = s1 BY <1>1, <1>2, Literal1 DEF s1
  <2> QED BY <2>1, <2>2, <2>3 DEF s2
<1> QED BY <1>5, <1>6

\* Joining texts, the first and then the others.
LEMMA ThenFacts ==
  ASSUME NEW a \in Text, NEW b \in Text
  PROVE  /\ Then(a, b) \in Text
         /\ \A c \in Text : Then(Then(a, b), c) = Then(a, Then(b, c))
<1>1. a \o b \in Text BY JoinFacts
<1>2. ASSUME NEW c \in Text PROVE (a \o b) \o c = a \o (b \o c) BY JoinThree
<1>3. ASSUME NEW c \in Text PROVE Then(Then(a, b), c) = Then(a, Then(b, c)) BY <1>2 DEF Then
<1> QED BY <1>1, <1>3 DEF Then

\* A text joined from six and from ten others, written from the first one on.
LEMMA ThenSix ==
  ASSUME NEW a \in Text, NEW b \in Text, NEW c \in Text, NEW d \in Text, NEW e \in Text, NEW f \in Text
  PROVE  /\ Then(Then(Then(a, b), c), d) = Then(a, Then(b, Then(c, d)))
         /\ Then(Then(Then(Then(a, b), c), d), e) = Then(a, Then(b, Then(c, Then(d, e))))
         /\ Then(Then(Then(Then(Then(a, b), c), d), e), f) = Then(a, Then(b, Then(c, Then(d, Then(e, f)))))
<1>1. Then(a, b) \in Text /\ Then(Then(a, b), c) \in Text /\ Then(Then(Then(a, b), c), d) \in Text BY ThenFacts
<1>2. Then(e, f) \in Text /\ Then(d, e) \in Text /\ Then(d, Then(e, f)) \in Text /\ Then(c, d) \in Text
      /\ Then(c, Then(d, e)) \in Text /\ Then(c, Then(d, Then(e, f))) \in Text
  BY ThenFacts
<1>3. Then(Then(Then(a, b), c), d) = Then(a, Then(b, Then(c, d)))
  <2>1. Then(Then(Then(a, b), c), d) = Then(Then(a, b), Then(c, d)) BY <1>1, ThenFacts
  <2>2. Then(Then(a, b), Then(c, d)) = Then(a, Then(b, Then(c, d))) BY <1>2, ThenFacts
  <2> QED BY <2>1, <2>2
<1>4. Then(Then(Then(Then(a, b), c), d), e) = Then(a, Then(b, Then(c, Then(d, e))))
  <2>1. Then(Then(Then(Then(a, b), c), d), e) = Then(Then(Then(a, b), c), Then(d, e)) BY <1>1, ThenFacts
  <2>2. Then(Then(Then(a, b), c), Then(d, e)) = Then(Then(a, b), Then(c, Then(d, e))) BY <1>1, <1>2, ThenFacts
  <2>3. Then(Then(a, b), Then(c, Then(d, e))) = Then(a, Then(b, Then(c, Then(d, e)))) BY <1>2, ThenFacts
  <2> QED BY <2>1, <2>2, <2>3
<1>5. Then(Then(Then(Then(Then(a, b), c), d), e), f) = Then(a, Then(b, Then(c, Then(d, Then(e, f)))))
  <2>1. Then(Then(Then(Then(Then(a, b), c), d), e), f) = Then(Then(Then(Then(a, b), c), d), Then(e, f)) BY <1>1, ThenFacts
  <2>2. Then(Then(Then(Then(a, b), c), d), Then(e, f)) = Then(Then(Then(a, b), c), Then(d, Then(e, f)))
    BY <1>1, <1>2, ThenFacts
  <2>3. Then(Then(Then(a, b), c), Then(d, Then(e, f))) = Then(Then(a, b), Then(c, Then(d, Then(e, f))))
    BY <1>1, <1>2, ThenFacts
  <2>4. Then(Then(a, b), Then(c, Then(d, Then(e, f)))) = Then(a, Then(b, Then(c, Then(d, Then(e, f))))) BY <1>2, ThenFacts
  <2> QED BY <2>1, <2>2, <2>3, <2>4
<1> QED BY <1>3, <1>4, <1>5

\* What may come anywhere before a fair text; two operations, the second an end.
LEMMA FairThen ==
  ASSUME NEW p \in Seq(Lone), NEW s, Fair(s)
  PROVE  Fair(Then(p, s)) /\ Then(p, s) \in Text
<1>1. Fair(p \o s) BY FairJoin
<1> QED BY <1>1 DEF Then, Fair

\* The same of one operation.
LEMMA LoneCons ==
  ASSUME NEW o \in Lone, NEW s, Fair(s)
  PROVE  Fair(Cons(o, s)) /\ Cons(o, s) \in Text
<1>1. <<o>> \in Seq(Lone) OBVIOUS
<1>2. Fair(<<o>> \o s) BY <1>1, FairJoin
<1> QED BY <1>2 DEF Cons, Fair

\* The operations that may come anywhere.
LEMMA LoneOps ==
  /\ {"lock_swap", "lock_lr", "lock_sc", "unlock_lr", "unlock_sc", "unlock_swap", "char", "rte_setup", "exit", "eret",
      "target0", "target_next", "target_add", "target_never", "target_unix", "available"} \subseteq Lone
  /\ {"install_MTI", "mie_MTI", "install_MSI", "mie_MSI", "install_ecall", "ecall", "mask_MTI", "mask_MSI",
      "msi_other", "msi_clr", "msi_self", "cmp_begin", "cmp_get_lo"} \subseteq Lone
  /\ {"launch", "boot_stack", "boot_entry", "msi_launch", "boot_poll", "wake_sp", "wake_entry", "wake_ack"} \subseteq Lone
<1>1. {"lock_swap", "lock_lr", "lock_sc", "unlock_lr", "unlock_sc", "unlock_swap", "char", "rte_setup", "exit", "eret",
      "target0", "target_next", "target_add", "target_never", "target_unix", "available"} \subseteq Operation
  BY DEF Operation, AccessOps, Internal
<1>2. {"install_MTI", "mie_MTI", "install_MSI", "mie_MSI", "install_ecall", "ecall", "mask_MTI", "mask_MSI",
      "msi_other", "msi_clr", "msi_self", "cmp_begin", "cmp_get_lo"} \subseteq Operation
  BY DEF Operation, AccessOps, Internal
<1>3. {"launch", "boot_stack", "boot_entry", "msi_launch", "boot_poll", "wake_sp", "wake_entry", "wake_ack"} \subseteq Operation
  BY DEF Operation, AccessOps, Internal
<1>4. TimeOps \cup Ends \cup ReadOps \cup Inner
        = {"time_lo0", "time_hi", "time_lo", "on", "mret", "main_entry", "get_hi", "get_lo", "get_hi2", "cmp_get_hi",
           "cmp_lo1", "cmp_hi", "cmp_lo"}
  BY DEF TimeOps, Ends, ReadOps, Inner
<1>5. ASSUME NEW o, o \in Operation,
             o \notin {"time_lo0", "time_hi", "time_lo", "on", "mret", "main_entry", "get_hi", "get_lo", "get_hi2",
                       "cmp_get_hi", "cmp_lo1", "cmp_hi", "cmp_lo"}
      PROVE  o \in Lone
  BY <1>4, <1>5 DEF Lone
<1> QED BY <1>1, <1>2, <1>3, <1>5

\* A message, with and without its lock; a launch.
LEMMA LonePieces ==
  /\ printf \in Seq(Lone) /\ Locked(printf) \in Seq(Lone)
  /\ __astrarv32_smp_boot \in Seq(Lone) /\ astrarv32_smp_launch \in Seq(Lone)
<1>1. printf \in Seq(Lone) BY LoneOps DEF printf
<1>2. spin_lock \in Seq(Lone) /\ spin_unlock \in Seq(Lone) BY LoneOps DEF spin_lock, spin_unlock
<1>3. Locked(printf) \in Seq(Lone) BY <1>1, <1>2 DEF Locked
<1>4. __astrarv32_smp_boot \in Seq(Lone) BY LoneOps DEF __astrarv32_smp_boot
<1>5. astrarv32_smp_launch \in Seq(Lone)
  <2>1. <<"launch">> \in Seq(Lone) BY LoneOps
  <2> QED BY <1>4, <2>1 DEF astrarv32_smp_launch
<1> QED BY <1>1, <1>3, <1>4, <1>5

\* The compare time is set before a fair text.
LEMMA FairCompare ==
  ASSUME NEW s, Fair(s)
  PROVE  Fair(Then(astrarv32_clint_mtimecmp_set, s)) /\ Then(astrarv32_clint_mtimecmp_set, s) \in Text
<1> DEFINE s1 == Cons("cmp_lo", s)
           s2 == Cons("cmp_hi", s1)
           s3 == Cons("cmp_lo1", s2)
           s4 == Cons("cmp_begin", s3)
<1>1. "cmp_begin" \in Operation /\ "cmp_lo1" \in Operation /\ "cmp_hi" \in Operation /\ "cmp_lo" \in Operation BY TimerOps
<1>2. s \in Text /\ Ordered(s) /\ Starts(s) /\ Range(s) \cap TimeOps = {} BY DEF Fair
<1>3. \A o \in {"cmp_begin", "cmp_lo1", "cmp_hi", "cmp_lo"} : o \notin Ends /\ o \notin TimeOps /\ o \notin ReadOps
  BY DEF Ends, TimeOps, ReadOps
<1>4. s1 \in Text /\ Ordered(s1) /\ Range(s1) \cap TimeOps = {} /\ Head(s1) = "cmp_lo"
  <2>1. s # <<>> => Follows("cmp_lo", Head(s)) BY <1>2, FollowsAny DEF Starts
  <2>2. Fits("cmp_lo", s) BY <1>2, <1>3, <2>1 DEF Fits
  <2> QED BY <1>1, <1>2, <1>3, <2>2, FairCons, ConsFacts
<1> HIDE DEF s1
<1>5. s2 \in Text /\ Ordered(s2) /\ Range(s2) \cap TimeOps = {} /\ Head(s2) = "cmp_hi"
  <2>1. s1 # <<>> => Follows("cmp_hi", Head(s1)) BY <1>4 DEF Follows
  <2>2. Fits("cmp_hi", s1) BY <1>3, <1>4, <2>1 DEF Fits
  <2> QED BY <1>1, <1>3, <1>4, <2>2, FairCons, ConsFacts
<1> HIDE DEF s2
<1>6. s3 \in Text /\ Ordered(s3) /\ Range(s3) \cap TimeOps = {} /\ Head(s3) = "cmp_lo1"
  <2>1. s2 # <<>> => Follows("cmp_lo1", Head(s2)) BY <1>5 DEF Follows
  <2>2. Fits("cmp_lo1", s2) BY <1>3, <1>5, <2>1 DEF Fits
  <2> QED BY <1>1, <1>3, <1>5, <2>2, FairCons, ConsFacts
<1> HIDE DEF s3
<1>7. Fair(s4)
  <2>1. s3 # <<>> => Follows("cmp_begin", Head(s3)) BY <1>6 DEF Follows
  <2>2. Fits("cmp_begin", s3) BY <1>3, <1>6, <2>1 DEF Fits
  <2>3. "cmp_begin" \notin Inner BY DEF Inner
  <2> QED BY <1>1, <1>3, <1>6, <2>2, <2>3, FairCons
<1>8. Then(astrarv32_clint_mtimecmp_set, s) = s4
  <2> DEFINE t == <<"cmp_lo1", "cmp_hi", "cmp_lo">>
  <2>8. astrarv32_clint_mtimecmp_set = Cons("cmp_begin", t)
    <3>1. "cmp_begin" \in Operation /\ "cmp_lo1" \in Operation /\ "cmp_hi" \in Operation /\ "cmp_lo" \in Operation
      BY <1>1
    <3>2. astrarv32_clint_mtimecmp_set \in Text
          /\ astrarv32_clint_mtimecmp_set = Cons("cmp_begin", <<"cmp_lo1", "cmp_hi", "cmp_lo">>)
      BY <3>1, Literal4 DEF astrarv32_clint_mtimecmp_set
    <3> QED BY <3>2
  <2>9. t \in Text BY <1>1, Literal3
  <2>2. \A x \in Text : <<"cmp_lo1", "cmp_hi", "cmp_lo">> \o x = Cons("cmp_lo1", <<"cmp_hi", "cmp_lo">> \o x)
    BY <1>1, Literal3
  <2>3. \A x \in Text : <<"cmp_hi", "cmp_lo">> \o x = Cons("cmp_hi", <<"cmp_lo">> \o x) BY <1>1, Literal2
  <2>4. <<"cmp_lo">> \o s = s1 BY <1>1, <1>2, Literal1 DEF s1
  <2>5. <<"cmp_hi", "cmp_lo">> \o s = s2 BY <1>2, <2>3, <2>4 DEF s2
  <2>6. t \o s = s3 BY <1>2, <2>2, <2>5 DEF s3
  <2> HIDE DEF t
  <2>10. Cons("cmp_begin", t) \o s = Cons("cmp_begin", t \o s) BY <1>1, <1>2, <2>9, JoinFacts
  <2>7. astrarv32_clint_mtimecmp_set \o s = s4 BY <2>6, <2>8, <2>10
  <2> QED BY <2>7 DEF Then
<1> QED BY <1>7, <1>8 DEF Fair

\* The same of a read of the time, which is then awaited.
LEMMA FairRead ==
  ASSUME NEW s, Fair(s)
  PROVE  /\ Fair(Then(astrarv32_clint_time_get, s)) /\ Then(astrarv32_clint_time_get, s) \in Text
         /\ Awaits(Then(astrarv32_clint_time_get, s))
<1>1. Fair(astrarv32_clint_time_get \o s) /\ Awaits(astrarv32_clint_time_get \o s) BY FairGet
<1> QED BY <1>1 DEF Then, Fair

\* An awaited read stays awaited with more before it, unless it is in use there.
LEMMA AwaitsThen ==
  ASSUME NEW p \in Text, NEW s \in Text, Awaits(s), Range(p) \cap UseOps = {}
  PROVE  Awaits(Then(p, s))
<1> DEFINE g == "get_hi2"
<1>1. g \in Operation BY TimerOps
<1>2. \A t : Awaits(t) <=> \E q, r \in Text : t = Cut(q, g, r) /\ Range(q) \cap UseOps = {} BY DEF Awaits
<1> HIDE DEF g
<1>3. PICK q \in Text, r \in Text : s = Cut(q, g, r) /\ Range(q) \cap UseOps = {} BY <1>2
<1> DEFINE u == Cons(g, r)
<1>4. u \in Text BY <1>1, ConsFacts
<1>5. Then(p, Then(q, u)) = Then(Then(p, q), u) /\ Then(p, q) \in Text BY <1>4, ThenFacts
<1>6. Then(q, u) = s /\ Then(Then(p, q), u) = Cut(Then(p, q), g, r) BY <1>3 DEF Then, Cut
<1>7. Range(Then(p, q)) = Range(p) \cup Range(q) BY JoinFacts DEF Then
<1>8. Range(Then(p, q)) \cap UseOps = {} BY <1>3, <1>7
<1> HIDE DEF u
<1> QED BY <1>2, <1>5, <1>6, <1>8

\* The handlers are fair texts, and the one of an environment call has only
\* operations that may come anywhere.
LEMMA FairHandlers ==
  /\ \A n \in {"panic MTI", "panic MSI", "panic ecall", "trap_handler_mtmi", "trap_handler_mswi", "trap_handler_ecall",
               "mti_irq_handler", "msi_irq_handler"} : Fair(Handler(n))
  /\ \A n \in {"panic ecall", "trap_handler_ecall"} : Handler(n) \in Seq(Lone)
<1> DEFINE e == <<"mret">>
           L == Locked(printf)
           w == printf
           g == astrarv32_clint_time_get
           b == astrarv32_clint_mtimecmp_set
<1>1. Fair(e) BY FairEnd DEF Ends
<1>2. L \in Seq(Lone) /\ L \in Text /\ w \in Seq(Lone) /\ w \in Text BY LonePieces, LoneTexts
<1>3. "mret" \in Operation BY TimerOps DEF Ends
<1>4. ASSUME NEW o \in Lone PROVE Fair(<<o, "mret">>)
  <2>1. o \in Operation BY LoneTexts
  <2>2. <<o, "mret">> = Cons(o, <<"mret">>) BY <1>3, <2>1, Literal2
  <2>3. Fair(Cons(o, e)) BY <1>1, LoneCons
  <2> QED BY <2>2, <2>3
<1>5. {"mask_MTI", "mask_MSI", "msi_clr", "msi_other", "msi_self", "target_next", "target_add", "eret",
       "cmp_get_lo"} \subseteq Lone
  BY LoneOps
<1>6. Fair(Handler("panic MTI")) /\ Fair(Handler("panic MSI"))
  <2>1. Fair(<<"mask_MTI", "mret">>) /\ Fair(<<"mask_MSI", "mret">>) BY <1>4, <1>5
  <2>2. Fair(w \o <<"mask_MTI", "mret">>) BY <1>2, <2>1, FairJoin
  <2>3. Fair(w \o <<"mask_MSI", "mret">>) BY <1>2, <2>1, FairJoin
  <2> QED BY <2>2, <2>3 DEF Handler
<1>7. Handler("panic ecall") \in Seq(Lone) /\ Handler("trap_handler_ecall") \in Seq(Lone)
  <2>1. <<"eret">> \in Seq(Lone) BY <1>5
  <2>2. w \o <<"eret">> \in Seq(Lone) /\ L \o <<"eret">> \in Seq(Lone)
    <3> HIDE DEF w, L
    <3> QED BY <1>2, <2>1
  <2> QED BY <2>2 DEF Handler, trap_handler_ecall
<1>8. ASSUME NEW p \in Seq(Lone) PROVE Fair(p)
  <2>1. p \in Text /\ p \o <<>> = p BY LoneTexts, JoinFacts
  <2>2. Fair(p \o <<>>) BY FairEnd, FairJoin
  <2> QED BY <2>1, <2>2
<1>9. Fair(Handler("trap_handler_mswi")) /\ Fair(Handler("msi_irq_handler"))
  <2>1. Fair(<<"msi_clr", "mret">>) BY <1>4, <1>5
  <2>2. Fair(L \o <<"msi_clr", "mret">>) BY <1>2, <2>1, FairJoin
  <2> QED BY <2>1, <2>2 DEF Handler, trap_handler_mswi, msi_irq_handler
<1>10. g \in Text /\ b \in Text
  <2>1. g \in Seq(ClosedWork) /\ b \in Seq(ClosedWork) BY RoutineText
  <2> QED BY <2>1, WorkSeqs
<1>11. Fair(Handler("trap_handler_mtmi"))
  <2> DEFINE t == <<"target_next">>
             f == <<"msi_other", "mret">>
  <2>1. Fair(f) /\ f \in Text
    <3>1. Fair(<<"msi_other", "mret">>) BY <1>4, <1>5
    <3> QED BY <3>1 DEF Fair
  <2>2. t \in Seq(Lone) /\ t \in Text
    <3>1. t \in Seq(Lone) BY <1>5
    <3> QED BY <3>1, LoneTexts
  <2>3. Handler("trap_handler_mtmi") = Then(Then(Then(Then(L, g), t), b), f) BY DEF Handler, trap_handler_mtmi, Then
  <2> HIDE DEF L, g, t, b, f
  <2>4. Then(Then(Then(Then(L, g), t), b), f) = Then(L, Then(g, Then(t, Then(b, f)))) BY <1>2, <1>10, <2>1, <2>2, ThenSix
  <2>5. Fair(Then(b, f)) BY <2>1, FairCompare DEF b
  <2>6. Fair(Then(t, Then(b, f))) BY <2>2, <2>5, FairThen
  <2>7. Fair(Then(g, Then(t, Then(b, f)))) BY <2>6, FairRead DEF g
  <2>8. Fair(Then(L, Then(g, Then(t, Then(b, f))))) BY <1>2, <2>7, FairThen
  <2> QED BY <2>3, <2>4, <2>8
<1>12. Fair(Handler("mti_irq_handler"))
  <2> DEFINE a == astrarv32_clint_mtimecmp_get
             t == <<"target_add">>
             m == <<"msi_self">>
             r == Then(t, Then(b, Then(m, Then(g, e))))
  <2>1. t \in Seq(Lone) /\ t \in Text /\ m \in Seq(Lone) /\ m \in Text
    <3>1. t \in Seq(Lone) /\ m \in Seq(Lone) BY <1>5
    <3> QED BY <3>1, LoneTexts
  <2>2. a \in Text
    <3>1. a \in Seq(ClosedWork) BY RoutineText
    <3> QED BY <3>1, WorkSeqs
  <2>3. e \in Text BY <1>1 DEF Fair
  <2>4. Handler("mti_irq_handler") = Then(Then(Then(Then(Then(a, t), b), m), g), e) BY DEF Handler, mti_irq_handler, Then
  <2>5. Then(Then(Then(Then(Then(a, t), b), m), g), e) = Then(a, r)
    <3> HIDE DEF a, t, b, m, g, e
    <3> QED BY <1>10, <2>1, <2>2, <2>3, ThenSix
  <2>6. Range(t) \cap UseOps = {} /\ Range(m) \cap UseOps = {} /\ Range(b) \cap UseOps = {}
    <3>1. DOMAIN t = {1} /\ DOMAIN m = {1} OBVIOUS
    <3>2. Range(t) = {"target_add"} /\ Range(m) = {"msi_self"} BY <3>1 DEF Range
    <3>3. b \in Seq({"cmp_begin", "cmp_lo1", "cmp_hi", "cmp_lo"}) BY DEF astrarv32_clint_mtimecmp_set
    <3> HIDE DEF b
    <3>4. Range(b) \subseteq {"cmp_begin", "cmp_lo1", "cmp_hi", "cmp_lo"} BY <3>3 DEF Range
    <3> QED BY <3>2, <3>4 DEF UseOps
  <2>7. Fair(Then(g, e)) /\ Awaits(Then(g, e)) /\ Then(g, e) \in Text
    <3> HIDE DEF e
    <3> QED BY <1>1, FairRead DEF g
  <2> HIDE DEF t, m, e
  <2>8. Fair(Then(m, Then(g, e))) /\ Awaits(Then(m, Then(g, e))) /\ Then(m, Then(g, e)) \in Text
    <3> HIDE DEF g
    <3> QED BY <2>1, <2>6, <2>7, FairThen, AwaitsThen
  <2> DEFINE u == Then(m, Then(g, e))
  <2>9. Fair(u) /\ Awaits(u) /\ u \in Text BY <2>8
  <2>10. r = Then(t, Then(b, u)) OBVIOUS
  <2> HIDE DEF u
  <2>11. Fair(Then(b, u)) /\ Then(b, u) \in Text BY <2>9, FairCompare DEF b
  <2>12. Awaits(Then(b, u)) BY <1>10, <2>6, <2>9, AwaitsThen
  <2>13. Fair(r) /\ Awaits(r) /\ r \in Text
    <3>1. Fair(Then(t, Then(b, u))) /\ Awaits(Then(t, Then(b, u))) /\ Then(t, Then(b, u)) \in Text
      <4> HIDE DEF b
      <4> QED BY <2>1, <2>6, <2>11, <2>12, FairThen, AwaitsThen
    <3> HIDE DEF r
    <3> QED BY <2>10, <3>1
  <2> HIDE DEF r
  <2> DEFINE c1 == Cons("cmp_get_hi", r)
  <2>14. "cmp_get_hi" \in Operation /\ "cmp_get_lo" \in Operation BY TimerOps DEF ReadOps
  <2>15. c1 \in Text /\ Ordered(c1) /\ Range(c1) \cap TimeOps = {} /\ Head(c1) = "cmp_get_hi"
    <3>1. "cmp_get_hi" \notin Ends /\ "cmp_get_hi" \notin TimeOps /\ "cmp_get_hi" \notin UseOps BY DEF Ends, TimeOps, UseOps
    <3>2. Awaits(c1) BY <2>13, <2>14, <3>1, AwaitsCons
    <3>3. r # <<>> => Follows("cmp_get_hi", Head(r)) BY <2>13, FollowsAny DEF Fair, Starts
    <3>4. Ordered(r) /\ Range(r) \cap TimeOps = {} BY <2>13 DEF Fair
    <3>5. Fits("cmp_get_hi", r) BY <3>1, <3>2, <3>3, <3>4 DEF Fits
    <3> QED BY <2>13, <2>14, <3>1, <3>4, <3>5, FairCons, ConsFacts
  <2> HIDE DEF c1
  <2>16. Fair(Cons("cmp_get_lo", c1))
    <3>1. "cmp_get_lo" \notin Ends /\ "cmp_get_lo" \notin TimeOps /\ "cmp_get_lo" \notin ReadOps /\ "cmp_get_lo" \notin Inner
      BY DEF Ends, TimeOps, ReadOps, Inner
    <3>2. c1 # <<>> => Follows("cmp_get_lo", Head(c1)) BY <2>15 DEF Follows
    <3>3. Fits("cmp_get_lo", c1) BY <2>15, <3>1, <3>2 DEF Fits
    <3> QED BY <2>14, <2>15, <3>1, <3>3, FairCons
  <2>17. Then(a, r) = Cons("cmp_get_lo", c1)
    <3>1. <<"cmp_get_lo", "cmp_get_hi">> \o r = Cons("cmp_get_lo", <<"cmp_get_hi">> \o r) BY <2>13, <2>14, Literal2
    <3>2. <<"cmp_get_hi">> \o r = c1 BY <2>13, <2>14, Literal1 DEF c1
    <3> QED BY <3>1, <3>2 DEF Then, astrarv32_clint_mtimecmp_get
  <2> QED BY <2>4, <2>5, <2>16, <2>17
<1> QED BY <1>6, <1>7, <1>8, <1>9, <1>11, <1>12

\* So is what installs the handlers, and the application of the program rte.
LEMMA FairApp == Fair(app_main)
<1> DEFINE L == Locked(printf)
           y == <<"rte_setup">>
           t == <<"target0">>
           b == astrarv32_clint_mtimecmp_set
           i == Installing1
<1>1. L \in Seq(Lone) /\ L \in Text BY LonePieces, LoneTexts
<1>2. y \in Seq(Lone) /\ t \in Seq(Lone) /\ y \in Text /\ t \in Text
  <2>1. y \in Seq(Lone) /\ t \in Seq(Lone) BY LoneOps
  <2> QED BY <2>1, LoneTexts
<1>3. b \in Text
  <2>1. b \in Seq(ClosedWork) BY RoutineText
  <2> QED BY <2>1, WorkSeqs
<1>4. Fair(i)
  <2>1. {"install_MTI", "mie_MTI", "install_MSI", "mie_MSI", "install_ecall", "ecall"} \subseteq Lone BY LoneOps
  <2>2. Fair(<<"on">>) BY FairEnd DEF Ends
  <2>3. Fair(Cons("ecall", <<"on">>)) BY <2>1, <2>2, LoneCons
  <2>4. Fair(<<"ecall", "on">>) BY <2>3, InstallText
  <2>5. Fair(Cons("install_ecall", <<"ecall", "on">>)) BY <2>1, <2>4, LoneCons
  <2>6. Fair(Installing3) BY <2>5, InstallText
  <2>7. Fair(Cons("mie_MSI", Installing3)) BY <2>1, <2>6, LoneCons
  <2>8. Fair(Cons("install_MSI", Cons("mie_MSI", Installing3))) BY <2>1, <2>7, LoneCons
  <2>9. Fair(Installing2) BY <2>8, InstallText DEF Cons
  <2>10. Fair(Cons("mie_MTI", Installing2)) BY <2>1, <2>9, LoneCons
  <2>11. Fair(Cons("install_MTI", Cons("mie_MTI", Installing2))) BY <2>1, <2>10, LoneCons
  <2> QED BY <2>11, InstallText DEF Cons
<1>5. i \in Text BY <1>4 DEF Fair
<1>6. app_main = Then(Then(Then(Then(y, L), t), b), i) BY DEF app_main, Installing1, Then
<1> HIDE DEF L, y, t, b, i
<1>7. Then(Then(Then(Then(y, L), t), b), i) = Then(y, Then(L, Then(t, Then(b, i)))) BY <1>1, <1>2, <1>3, <1>5, ThenSix
<1>8. Fair(Then(b, i)) BY <1>4, FairCompare DEF b
<1>9. Fair(Then(t, Then(b, i))) BY <1>2, <1>8, FairThen
<1>10. Fair(Then(L, Then(t, Then(b, i)))) BY <1>1, <1>9, FairThen
<1>11. Fair(Then(y, Then(L, Then(t, Then(b, i))))) BY <1>2, <1>10, FairThen
<1> QED BY <1>6, <1>7, <1>11

\* A text that sets the time and then is fair.
LEMMA PresetsThen ==
  ASSUME NEW p \in Seq(Presets), NEW q \in Seq(Presets), NEW s, Fair(s)
  PROVE  Ordered(Then(p, Then(q, s))) /\ Starts(Then(p, Then(q, s)))
<1>1. p \in Text /\ q \in Text BY LoneTexts
<1>2. s \in Text /\ Ordered(s) /\ Starts(s) BY DEF Fair
<1>3. Ordered(q \o s) /\ Starts(q \o s) /\ q \o s \in Text BY <1>1, <1>2, LoneJoin, JoinFacts
<1> DEFINE t == q \o s
<1>4. Ordered(t) /\ Starts(t) /\ t \in Text BY <1>3
<1> HIDE DEF t
<1>5. Ordered(p \o t) /\ Starts(p \o t) BY <1>1, <1>4, LoneJoin
<1> QED BY <1>5 DEF Then, t

\* What keeps a fair text fair, and what makes an ordered one of it.
Onto(p) == p \in Text /\ \A s \in Text : Fair(s) => Fair(Then(p, s))
Into(p) == p \in Text /\ \A s \in Text : Fair(s) => Ordered(Then(p, s))

\* The second after the first makes an ordered text of a fair one as well.
LEMMA IntoThen ==
  ASSUME NEW p, Into(p), NEW q, Onto(q)
  PROVE  Into(Then(p, q))
<1>1. p \in Text /\ q \in Text /\ Then(p, q) \in Text BY ThenFacts DEF Into, Onto
<1>2. ASSUME NEW s \in Text, Fair(s) PROVE Ordered(Then(Then(p, q), s))
  <2> DEFINE t == Then(q, s)
  <2>1. Fair(t) BY <1>2 DEF Onto
  <2>2. t \in Text BY <1>1, ThenFacts
  <2>3. Then(Then(p, q), s) = Then(p, t) BY <1>1, ThenFacts
  <2> HIDE DEF t
  <2>4. Ordered(Then(p, t)) BY <2>1, <2>2 DEF Into
  <2> QED BY <2>3, <2>4
<1> QED BY <1>1, <1>2 DEF Into

\* The programs of core 0 that use the timer are ordered.
LEMMA OrderedMain ==
  ASSUME program \in {"rte", "clock"}
  PROVE  Ordered(main)
<1> DEFINE b == astrarv32_clint_time_set
           c == astrarv32_clint_time_get
           e == astrarv32_clint_mtimecmp_set
<1>1. b \in Seq(Presets) BY DEF astrarv32_clint_time_set, Presets, TimeOps
<1>2. b \in Text BY <1>1, LoneTexts
<1>3. c \in Text /\ e \in Text
  <2>1. c \in Seq(ClosedWork) /\ e \in Seq(ClosedWork) BY RoutineText
  <2> QED BY <2>1, WorkSeqs
<1>4. ASSUME program = "rte" PROVE Ordered(main)
  <2> DEFINE a == <<"rte_setup", "available", "target0">>
             l == astrarv32_smp_launch
             p == app_main
  <2>1. main = Then(Then(Then(a, b), l), p) BY <1>4 DEF main, main_rte, Then
  <2>2. a \in Seq(Presets) BY DEF Presets
  <2>3. l \in Seq(Lone) BY LonePieces
  <2>4. Fair(p) BY FairApp
  <2> HIDE DEF a, b, l, p
  <2>5. a \in Text /\ l \in Text BY <2>2, <2>3, LoneTexts
  <2>6. p \in Text BY <2>4 DEF Fair
  <2>7. Then(Then(Then(a, b), l), p) = Then(a, Then(b, Then(l, p))) BY <1>2, <2>5, <2>6, ThenSix
  <2>8. Fair(Then(l, p)) BY <2>3, <2>4, FairThen
  <2>9. Ordered(Then(a, Then(b, Then(l, p)))) BY <1>1, <2>2, <2>8, PresetsThen
  <2> QED BY <2>1, <2>7, <2>9
<1>5. ASSUME program = "clock" PROVE Ordered(main)
  <2> DEFINE a == <<"rte_setup", "available", "target_unix">>
             d == <<"target_never">>
             f == <<"install_MTI", "install_MSI">>
             h == <<"target_next">>
             j == <<"mie_MTI", "mie_MSI", "on">>
  <2>1. main = Then(Then(Then(Then(Then(Then(Then(Then(Then(a, b), c), d), e), f), c), h), e), j)
    BY <1>5 DEF main, main_clint, Then
  <2>2. a \in Seq(Presets) BY DEF Presets
  <2>3. d \in Seq(Lone) /\ f \in Seq(Lone) /\ h \in Seq(Lone) BY LoneOps
  <2>4. Fair(j)
    <3>1. {"mie_MTI", "mie_MSI"} \subseteq Lone /\ "on" \in Operation BY LoneOps, TimerOps DEF Ends
    <3>2. Fair(<<"on">>) BY FairEnd DEF Ends
    <3>3. Fair(Cons("mie_MSI", <<"on">>)) BY <3>1, <3>2, LoneCons
    <3>4. "mie_MSI" \in Operation /\ "mie_MTI" \in Operation BY <3>1, LoneTexts
    <3>5. <<"mie_MSI", "on">> = Cons("mie_MSI", <<"on">>) BY <3>1, <3>4, Literal2
    <3>6. Fair(Cons("mie_MTI", <<"mie_MSI", "on">>)) BY <3>1, <3>3, <3>5, LoneCons
    <3>7. <<"mie_MTI", "mie_MSI", "on">> = Cons("mie_MTI", <<"mie_MSI", "on">>) BY <3>1, <3>4, Literal3
    <3> QED BY <3>6, <3>7
  <2> HIDE DEF a, b, c, d, e, f, h, j
  <2>5. a \in Text /\ d \in Text /\ f \in Text /\ h \in Text BY <2>2, <2>3, LoneTexts
  <2>6. j \in Text BY <2>4 DEF Fair
  <2>7. Into(Then(a, b))
    <3>1. ASSUME NEW s \in Text, Fair(s) PROVE Ordered(Then(Then(a, b), s))
      <4>1. Ordered(Then(a, Then(b, s))) BY <1>1, <2>2, <3>1, PresetsThen
      <4>2. Then(Then(a, b), s) = Then(a, Then(b, s)) BY <1>2, <2>5, ThenFacts
      <4> QED BY <4>1, <4>2
    <3>2. Then(a, b) \in Text BY <1>2, <2>5, ThenFacts
    <3> QED BY <3>1, <3>2 DEF Into
  <2>8. Onto(c) /\ Onto(e)
    <3>1. Onto(c) BY <1>3, FairRead DEF Onto, c
    <3>2. Onto(e) BY <1>3, FairCompare DEF Onto, e
    <3> QED BY <3>1, <3>2
  <2>9. Onto(d) /\ Onto(f) /\ Onto(h) BY <2>3, <2>5, FairThen DEF Onto
  <2> DEFINE x2 == Then(Then(a, b), c)
             x3 == Then(x2, d)
             x4 == Then(x3, e)
             x5 == Then(x4, f)
             x6 == Then(x5, c)
             x7 == Then(x6, h)
             x8 == Then(x7, e)
  <2> HIDE DEF x2, x3, x4, x5, x6, x7, x8
  <2>10. Into(x2) BY <2>7, <2>8, IntoThen DEF x2
  <2>11. Into(x3) BY <2>9, <2>10, IntoThen DEF x3
  <2>12. Into(x4) BY <2>8, <2>11, IntoThen DEF x4
  <2>13. Into(x5) BY <2>9, <2>12, IntoThen DEF x5
  <2>14. Into(x6) BY <2>8, <2>13, IntoThen DEF x6
  <2>15. Into(x7) BY <2>9, <2>14, IntoThen DEF x7
  <2>16. Into(x8) BY <2>8, <2>15, IntoThen DEF x8
  <2>17. Ordered(Then(x8, j)) BY <2>4, <2>6, <2>16 DEF Into
  <2> QED BY <2>1, <2>17 DEF x2, x3, x4, x5, x6, x7, x8
<1> QED BY <1>4, <1>5

\* The start-up code of core 1 is fair.
LEMMA FairWakeup == Fair(__crt0_smp_wakeup)
<1> DEFINE p == <<"wake_sp", "wake_entry", "wake_ack">>
           e == <<"main_entry">>
<1>1. p \in Seq(Lone) BY LoneOps
<1>2. Fair(e) BY FairEnd DEF Ends
<1>3. Fair(p \o e) BY <1>1, <1>2, FairJoin
<1>4. p \o e = __crt0_smp_wakeup
  <2> DEFINE t == <<"wake_entry", "wake_ack", "main_entry">>
  <2>1. "wake_sp" \in Operation /\ "wake_entry" \in Operation /\ "wake_ack" \in Operation /\ "main_entry" \in Operation
    BY LaunchOperations
  <2>2. e \in Text /\ e = Cons("main_entry", <<>>) BY <2>1, Literal1
  <2>3. \A x \in Text : p \o x = Cons("wake_sp", <<"wake_entry", "wake_ack">> \o x) BY <2>1, Literal3
  <2>4. \A x \in Text : <<"wake_entry", "wake_ack">> \o x = Cons("wake_entry", <<"wake_ack">> \o x) BY <2>1, Literal2
  <2>5. \A x \in Text : <<"wake_ack">> \o x = Cons("wake_ack", x) BY <2>1, Literal1
  <2>6. __crt0_smp_wakeup \in Text /\ __crt0_smp_wakeup = Cons("wake_sp", t) BY <2>1, Literal4 DEF __crt0_smp_wakeup
  <2>7. t \in Text /\ t = Cons("wake_entry", <<"wake_ack", "main_entry">>) BY <2>1, Literal3
  <2>8. <<"wake_ack", "main_entry">> = Cons("wake_ack", e) BY <2>1, Literal2
  <2> HIDE DEF e, t, p
  <2>9. p \o e = Cons("wake_sp", <<"wake_entry", "wake_ack">> \o e) BY <2>2, <2>3
  <2>10. <<"wake_entry", "wake_ack">> \o e = Cons("wake_entry", Cons("wake_ack", e)) BY <2>2, <2>4, <2>5
  <2> QED BY <2>6, <2>7, <2>8, <2>9, <2>10
<1> QED BY <1>3, <1>4

\* What an operation that is done again, and the handler of an environment call,
\* put before the others.
Repeats == SectionOps \cup {"boot_stack", "boot_entry", "msi_launch", "boot_poll", "eret"}
Repeated == Lone \ (Presets \cup {"cmp_begin", "cmp_get_lo"})
\* How a step leads core c on in an ordered text.
Turned(c) ==
  \/ Busy(c) /\ code'[c] = Rest(c)
  \/ Busy(c) /\ Op(c) \in Lone /\ code'[c] = code[c]
  \/ Busy(c) /\ Op(c) \in Repeated /\ \E q \in Seq(Repeats) : code'[c] = Then(q, Rest(c))
  \/ At(c, "get_hi2") /\ code'[c] = Then(astrarv32_clint_time_get, Rest(c)) /\ bus.data # loc[c].t
  \/ code'[c] = <<"exit">> /\ ~hart[c].on
  \/ Fair(code'[c]) /\ "launch" \notin Range(code'[c]) /\ ~Awaits(code[c])

\* Such operations may come anywhere, and are none of a read of the time.
LEMMA RepeatOps ==
  /\ Repeats \subseteq Lone /\ Repeats \cap UseOps = {} /\ "launch" \notin Repeats
  /\ \A q \in Seq(Repeats) : /\ q \in Seq(Lone) /\ q \in Text
                             /\ Range(q) \cap UseOps = {} /\ "launch" \notin Range(q) /\ Range(q) \cap TimeOps = {}
<1>1. Repeats \subseteq Lone
  <2>1. Repeats \subseteq Operation BY Kinds, LaunchOperations DEF Repeats, Operation, Internal
  <2>2. Repeats \cap (TimeOps \cup Ends \cup ReadOps \cup Inner) = {}
    BY DEF Repeats, SectionOps, TimeOps, Ends, ReadOps, Inner
  <2> QED BY <2>1, <2>2 DEF Lone
<1>2. Repeats \cap UseOps = {} BY DEF Repeats, SectionOps, UseOps
<1>3. "launch" \notin Repeats BY DEF Repeats, SectionOps
<1>4. ASSUME NEW q \in Seq(Repeats)
      PROVE  q \in Seq(Lone) /\ q \in Text /\ Range(q) \subseteq Repeats
  <2>1. Seq(Repeats) \subseteq Seq(Lone) BY <1>1, SeqMonotonic
  <2>2. Range(q) \subseteq Repeats BY DEF Range
  <2> QED BY <2>1, <2>2, LoneTexts
<1>5. Lone \cap TimeOps = {} BY DEF Lone
<1>6. ASSUME NEW q \in Seq(Repeats)
      PROVE  Range(q) \cap UseOps = {} /\ "launch" \notin Range(q) /\ Range(q) \cap TimeOps = {}
  BY <1>1, <1>2, <1>3, <1>4, <1>5
<1> QED BY <1>1, <1>2, <1>3, <1>4, <1>6

\* The next operation of an ordered text.
LEMMA OrderedNow ==
  ASSUME NEW c \in Core, code[c] \in Text, Ordered(code[c]), Busy(c)
  PROVE  /\ Op(c) \in Operation /\ Rest(c) \in Text /\ code[c] = Cons(Op(c), Rest(c))
         /\ Range(code[c]) = {Op(c)} \cup Range(Rest(c))
         /\ Fits(Op(c), Rest(c)) /\ Ordered(Rest(c))
         /\ Op(c) \in ReadOps => Awaits(code[c])
         /\ Op(c) \in UseOps => ~Awaits(code[c])
<1>1. /\ Op(c) \in Operation /\ Rest(c) \in Text /\ code[c] = Cons(Op(c), Rest(c))
      /\ Range(code[c]) = {Op(c)} \cup Range(Rest(c))
  BY HeadTail DEF Busy, Op, Rest
<1> DEFINE o == Op(c)
           s == Rest(c)
<1>2. o \in Operation /\ s \in Text /\ code[c] = Cons(o, s) BY <1>1
<1> HIDE DEF o, s
<1>3. Fits(o, s) /\ Ordered(s) BY <1>2, OrderedCons
<1>4. o \in ReadOps => Awaits(code[c]) BY <1>2, <1>3 DEF Fits
<1>5. o \in UseOps => ~Awaits(code[c])
  <2>1. o \in UseOps => o # "get_hi2" BY DEF UseOps
  <2> QED BY <1>2, <2>1, AwaitsCons
<1> QED BY <1>1, <1>3, <1>4, <1>5 DEF o, s

\* What goes on after a routine's operation, or may be next after any.
LEMMA RestStarts ==
  ASSUME NEW c \in Core, code[c] \in Text, Ordered(code[c]), Busy(c),
         Op(c) \notin {"cmp_begin", "cmp_lo1", "cmp_hi", "cmp_get_lo", "get_hi", "get_lo"}
  PROVE  Starts(Rest(c))
<1>1. Fits(Op(c), Rest(c)) BY OrderedNow
<1>2. Rest(c) # <<>> => Follows(Op(c), Head(Rest(c))) BY <1>1 DEF Fits
<1>3. \A y \in Inner : ~Follows(Op(c), y) BY DEF Follows, Inner
<1> QED BY <1>2, <1>3 DEF Starts

\* How a core goes on: its text stays ordered, each step of a routine is next
\* after the step before, and a read that is awaited is made.
LEMMA TurnedNext ==
  ASSUME NEW c \in Core, code[c] \in Text, Ordered(code[c]), Turned(c)
  PROVE  /\ code'[c] \in Text /\ Ordered(code'[c])
         /\ code'[c] # <<>> /\ Head(code'[c]) \in Inner =>
               \/ Busy(c) /\ code'[c] = Rest(c) /\ Follows(Op(c), Head(code'[c]))
               \/ Busy(c) /\ code'[c] = code[c] /\ Op(c) \in Lone
         /\ Range(code'[c]) \cap TimeOps # {} => Busy(c) /\ Op(c) \in Presets /\ Range(code[c]) \cap TimeOps # {}
         /\ "launch" \in Range(code'[c]) => "launch" \in Range(code[c])
         /\ Awaits(code[c]) => \/ Awaits(code'[c]) \/ (At(c, "get_hi2") /\ code'[c] = Rest(c))
                               \/ code'[c] = <<"exit">> /\ ~hart[c].on
         /\ At(c, "get_hi2") /\ code'[c] # Rest(c) /\ bus.data = loc[c].t =>
               code'[c] = <<"exit">> /\ ~hart[c].on
<1> DEFINE s == code'[c]
           Good == /\ s \in Text /\ Ordered(s)
                   /\ s # <<>> /\ Head(s) \in Inner =>
                        \/ Busy(c) /\ s = Rest(c) /\ Follows(Op(c), Head(s))
                        \/ Busy(c) /\ s = code[c] /\ Op(c) \in Lone
                   /\ Range(s) \cap TimeOps # {} => Busy(c) /\ Op(c) \in Presets /\ Range(code[c]) \cap TimeOps # {}
                   /\ "launch" \in Range(s) => "launch" \in Range(code[c])
                   /\ Awaits(code[c]) => \/ Awaits(s) \/ (At(c, "get_hi2") /\ s = Rest(c))
                                         \/ s = <<"exit">> /\ ~hart[c].on
                   /\ At(c, "get_hi2") /\ s # Rest(c) /\ bus.data = loc[c].t => s = <<"exit">> /\ ~hart[c].on
<1>1. Busy(c) => /\ Op(c) \in Operation /\ Rest(c) \in Text /\ code[c] = Cons(Op(c), Rest(c))
                 /\ Range(code[c]) = {Op(c)} \cup Range(Rest(c)) /\ Fits(Op(c), Rest(c)) /\ Ordered(Rest(c))
                 /\ (Op(c) \in UseOps => ~Awaits(code[c])) /\ (Op(c) \in ReadOps => Awaits(code[c]))
  BY OrderedNow
<1>2. Busy(c) => (Op(c) \notin Presets => Range(Rest(c)) \cap TimeOps = {}) BY <1>1 DEF Fits
<1>3. Busy(c) /\ Op(c) # "get_hi2" /\ Awaits(code[c]) => Awaits(Rest(c)) /\ Op(c) \notin UseOps BY <1>1, AwaitsCons
<1>4. "get_hi2" \notin Lone /\ "get_hi2" \in ReadOps /\ "get_hi2" \notin Presets BY DEF Lone, ReadOps, Presets, TimeOps
<1> HIDE DEF s
<1>5. ASSUME Busy(c), s = Rest(c) PROVE Good
  <2>1. s # <<>> => Follows(Op(c), Head(s)) BY <1>1, <1>5 DEF Fits
  <2> QED BY <1>1, <1>2, <1>3, <1>5, <2>1 DEF At
<1>6. ASSUME Busy(c), Op(c) \in Lone, s = code[c] PROVE Good
  <2>1. Op(c) \notin TimeOps BY <1>6 DEF Lone
  <2> QED BY <1>1, <1>2, <1>4, <1>6, <2>1 DEF At
<1>7. ASSUME Busy(c), Op(c) \in Repeated, NEW q \in Seq(Repeats), s = Then(q, Rest(c)) PROVE Good
  <2>1. /\ q \in Seq(Lone) /\ q \in Text /\ Range(q) \cap UseOps = {} /\ "launch" \notin Range(q)
        /\ Range(q) \cap TimeOps = {}
    BY RepeatOps
  <2>2. Op(c) \in Lone /\ Op(c) \notin Presets /\ Op(c) \notin {"cmp_begin", "cmp_get_lo"} BY <1>7 DEF Repeated
  <2>3. Op(c) \notin Inner /\ Op(c) \notin ReadOps BY <2>2, LoneTexts
  <2>4. Op(c) \notin {"cmp_begin", "cmp_lo1", "cmp_hi", "cmp_get_lo", "get_hi", "get_lo"} BY <2>2, <2>3 DEF Inner, ReadOps
  <2>5. Starts(Rest(c)) BY <1>7, <2>4, RestStarts
  <2>6. Fair(Rest(c)) BY <1>1, <1>2, <1>7, <2>2, <2>5 DEF Fair
  <2>7. Fair(s) BY <1>7, <2>1, <2>6, FairThen
  <2>8. s \in Text /\ Ordered(s) /\ Starts(s) /\ Range(s) \cap TimeOps = {} BY <2>7 DEF Fair
  <2>9. Range(s) = Range(q) \cup Range(Rest(c)) BY <1>1, <1>7, <2>1, JoinFacts DEF Then
  <2>10. Awaits(code[c]) => Awaits(s)
    <3>1. Op(c) # "get_hi2" BY <1>4, <2>3
    <3>2. Awaits(code[c]) => Awaits(Rest(c)) BY <1>3, <1>7, <3>1
    <3> QED BY <1>1, <1>7, <2>1, <3>2, AwaitsThen
  <2>11. ~At(c, "get_hi2") BY <1>4, <2>3 DEF At
  <2>12. ~(s # <<>> /\ Head(s) \in Inner) BY <2>8 DEF Starts
  <2>13. "launch" \in Range(s) => "launch" \in Range(code[c]) BY <1>1, <1>7, <2>1, <2>9
  <2> QED BY <2>8, <2>10, <2>11, <2>12, <2>13
<1>8. ASSUME At(c, "get_hi2"), s = Then(astrarv32_clint_time_get, Rest(c)), bus.data # loc[c].t PROVE Good
  <2>1. Busy(c) /\ Op(c) = "get_hi2" BY <1>8 DEF At
  <2>2. Starts(Rest(c)) BY <2>1, RestStarts
  <2>3. Fair(Rest(c)) BY <1>1, <1>2, <1>4, <2>1, <2>2 DEF Fair
  <2>4. Fair(s) /\ Awaits(s) BY <1>8, <2>3, FairRead
  <2>5. s \in Text /\ Ordered(s) /\ Starts(s) /\ Range(s) \cap TimeOps = {} BY <2>4 DEF Fair
  <2>6. "launch" \notin Range(astrarv32_clint_time_get)
    <3>1. astrarv32_clint_time_get \in Seq(ReadOps) BY DEF astrarv32_clint_time_get, ReadOps
    <3>2. Range(astrarv32_clint_time_get) \subseteq ReadOps BY <3>1 DEF Range
    <3> QED BY <3>2 DEF ReadOps
  <2>7. Range(s) = Range(astrarv32_clint_time_get) \cup Range(Rest(c))
    <3>1. astrarv32_clint_time_get \in Text BY RoutineText, WorkSeqs
    <3> QED BY <1>1, <1>8, <2>1, <3>1, JoinFacts DEF Then
  <2> QED BY <1>1, <1>8, <2>1, <2>4, <2>5, <2>6, <2>7 DEF Starts
<1>9. ASSUME s = <<"exit">>, ~hart[c].on PROVE Good
  <2>1. Fair(s) BY <1>9, FairEnd
  <2>2. s \in Text /\ Ordered(s) /\ Starts(s) /\ Range(s) \cap TimeOps = {} BY <2>1 DEF Fair
  <2>3. Range(s) = {"exit"}
    <3>1. DOMAIN <<"exit">> = {1} OBVIOUS
    <3> QED BY <1>9, <3>1 DEF Range
  <2> QED BY <1>9, <2>2, <2>3 DEF Starts
<1>10. ASSUME Fair(s), "launch" \notin Range(s), ~Awaits(code[c]) PROVE Good
  <2>1. s \in Text /\ Ordered(s) /\ Starts(s) /\ Range(s) \cap TimeOps = {} BY <1>10 DEF Fair
  <2>2. ~At(c, "get_hi2") BY <1>1, <1>4, <1>10 DEF At
  <2> QED BY <1>10, <2>1, <2>2 DEF Starts
<1>11. Good
  <2>1. \/ Busy(c) /\ s = Rest(c)
        \/ Busy(c) /\ Op(c) \in Lone /\ s = code[c]
        \/ Busy(c) /\ Op(c) \in Repeated /\ \E q \in Seq(Repeats) : s = Then(q, Rest(c))
        \/ At(c, "get_hi2") /\ s = Then(astrarv32_clint_time_get, Rest(c)) /\ bus.data # loc[c].t
        \/ s = <<"exit">> /\ ~hart[c].on
        \/ Fair(s) /\ "launch" \notin Range(s) /\ ~Awaits(code[c])
    BY DEF Turned, s
  <2> HIDE DEF Good
  <2> QED BY <1>5, <1>6, <1>7, <1>8, <1>9, <1>10, <2>1
<1> QED BY <1>11 DEF s

\* The programs that use the timer.
Timed == program \in {"rte", "clock"}
\* The operations whose answer does not just lead on.
Retries == {"lock_ld", "lock_swap", "check_lr", "run_check", "run_wait", "lock_lr", "lock_sc", "unlock_sc",
            "get_hi2", "boot_poll"}

\* Core 0 polls in a launch; core 1 never does.
LEMMA PollNow ==
  ASSUME LaunchInv, NEW c \in Core, At(c, "boot_poll")
  PROVE  c = 0 /\ During(code[0]) /\ ~hart[0].on
<1>1. Types /\ Launcher BY DEF LaunchInv
<1>2. Busy(c) /\ Op(c) = "boot_poll" BY DEF At
<1>3. c = 0
  <2>1. ASSUME c # 0 PROVE FALSE
    <3>1. c = 1 BY <2>1 DEF Core
    <3>2. Op(1) \notin LaunchOps BY <1>2, <3>1, OneNeverLaunches
    <3> QED BY <1>2, <3>1, <3>2 DEF LaunchOps
  <2> QED BY <2>1
<1>4. During(code[0])
  <2>1. code[0] # <<>> /\ Head(code[0]) = "boot_poll" BY <1>2, <1>3 DEF Op, Busy
  <2>2. ~(code[0] \in Seq(Work) \/ Before(code[0])) BY <2>1, CalmText DEF InLaunch
  <2>3. code[0] \in Seq(QuietWork) \/ code[0] \in Seq(ClosedWork) => code[0] \in Seq(Work) BY WorkSeqs
  <2> QED BY <1>1, <2>2, <2>3 DEF Launcher
<1> QED BY <1>1, <1>3, <1>4, LaunchIsClosed

\* Operations put before the others are, or are repeated.
LEMMA RepeatKinds ==
  /\ <<"lock_sc">> \in Seq(Repeats) /\ <<"lock_lr">> \in Seq(Repeats) /\ <<"unlock_lr", "unlock_sc">> \in Seq(Repeats)
  /\ __astrarv32_smp_boot \in Seq(Repeats)
  /\ {"lock_lr", "lock_sc", "unlock_sc", "boot_poll"} \subseteq Repeated
  /\ {"lock_ld", "lock_swap", "check_lr", "run_check", "run_wait", "lock_lr", "boot_poll"} \subseteq Lone
<1>1. {"lock_sc", "lock_lr", "unlock_lr", "unlock_sc", "boot_stack", "boot_entry", "msi_launch", "boot_poll"} \subseteq Repeats
  BY DEF Repeats, SectionOps
<1>2. <<"lock_sc">> \in Seq(Repeats) /\ <<"lock_lr">> \in Seq(Repeats) BY <1>1
<1>3. <<"unlock_lr", "unlock_sc">> \in Seq(Repeats) BY <1>1
<1>4. __astrarv32_smp_boot \in Seq(Repeats) BY <1>1 DEF __astrarv32_smp_boot
<1>5. {"lock_lr", "lock_sc", "unlock_sc", "boot_poll"} \subseteq Lone BY <1>1, RepeatOps
<1>6. {"lock_lr", "lock_sc", "unlock_sc", "boot_poll"} \cap (Presets \cup {"cmp_begin", "cmp_get_lo"}) = {}
  BY DEF Presets, TimeOps
<1>7. {"lock_ld", "lock_swap", "check_lr", "run_check", "run_wait"} \subseteq Lone
  <2>1. {"lock_ld", "lock_swap", "check_lr", "run_check", "run_wait"} \subseteq Operation BY DEF Operation, AccessOps
  <2>2. {"lock_ld", "lock_swap", "check_lr", "run_check", "run_wait"} \cap (TimeOps \cup Ends \cup ReadOps \cup Inner) = {}
    BY DEF TimeOps, Ends, ReadOps, Inner
  <2> QED BY <2>1, <2>2 DEF Lone
<1> QED BY <1>2, <1>3, <1>4, <1>5, <1>6, <1>7 DEF Repeated

\* An answer leads on, lets the operation be done again, or gives up the launch.
LEMMA AnswerTurned ==
  ASSUME LaunchInv, Timed, NEW c \in Core, Answer(c)
  PROVE  /\ Turned(c) /\ code'[1 - c] = code[1 - c] /\ bus.id = c /\ bus' = Idle
         /\ Busy(c) /\ Op(c) \in AccessOps
         /\ Op(c) \notin Retries => code'[c] = Rest(c)
         /\ UNCHANGED <<program, hart>>
<1>1. Clints /\ Types /\ Results /\ Launcher BY DEF LaunchInv
<1>2. /\ Busy(c) /\ Op(c) \in AccessOps /\ bus.id = c /\ bus' = Idle /\ UNCHANGED <<program, hart>>
      /\ Op(c) \notin {"lock_sc", "unlock_sc"} => response([data |-> bus.data]).data = bus.data
  BY <1>1, AnswerFrame
<1>3. code \in [Core -> Text] BY <1>1 DEF Types
<1>4. code[c] \in Text /\ Rest(c) \in Text /\ code'[1 - c] = code[1 - c] BY AnswerMoves
<1> DEFINE data == response([data |-> bus.data]).data
<1>5. /\ Op(c) # "boot_poll" => code' = Continue(c, data)
      /\ Op(c) = "boot_poll" => Polled(data)
  BY DEF Answer
<1>6. Op(c) = "get_hi2" => data = bus.data BY <1>2
<1> HIDE DEF data
<1>7. ASSUME NEW t PROVE [code EXCEPT ![c] = t][c] = t BY <1>3
<1>8. Done(c)[c] = Rest(c) BY <1>7 DEF Done
<1>9. ASSUME NEW q PROVE Again(c, q)[c] = Then(q, Rest(c))
  <2> DEFINE t == q \o Rest(c)
  <2>1. Again(c, q) = [code EXCEPT ![c] = t] BY DEF Again
  <2> HIDE DEF t
  <2>2. Again(c, q)[c] = t BY <1>7, <2>1
  <2> QED BY <2>2 DEF t, Then
<1>10. Op(c) \notin Retries => code'[c] = Rest(c)
  <2>1. Op(c) \notin Retries => code' = Done(c) BY <1>5 DEF Continue, Retries
  <2> QED BY <1>8, <2>1
<1>11. ASSUME code'[c] = Rest(c) PROVE Turned(c) BY <1>2, <1>11 DEF Turned
<1>12. ASSUME Op(c) \in Lone, code'[c] = code[c] PROVE Turned(c) BY <1>2, <1>12 DEF Turned
<1>13. ASSUME Op(c) \in Repeated, NEW q \in Seq(Repeats), code' = Again(c, q) PROVE Turned(c)
  <2>1. code'[c] = Then(q, Rest(c)) BY <1>9, <1>13
  <2> QED BY <1>2, <1>13, <2>1 DEF Turned
<1>14. ASSUME Op(c) \in {"lock_ld", "lock_swap", "check_lr", "run_check", "run_wait"} PROVE Turned(c)
  <2>1. code' = code \/ code' = Done(c) BY <1>5, <1>14 DEF Continue
  <2>2. code'[c] = code[c] \/ code'[c] = Rest(c) BY <1>8, <2>1
  <2> QED BY <1>11, <1>12, <1>14, <2>2, RepeatKinds
<1>15. ASSUME Op(c) \in {"lock_lr", "lock_sc", "unlock_sc"} PROVE Turned(c)
  <2>1. \/ code' = Done(c) \/ (code' = code /\ Op(c) = "lock_lr") \/ code' = Again(c, <<"lock_sc">>)
        \/ code' = Again(c, <<"lock_lr">>) \/ code' = Again(c, <<"unlock_lr", "unlock_sc">>)
    BY <1>5, <1>15 DEF Continue
  <2>2. CASE code' = Done(c)
    <3>1. code'[c] = Rest(c) BY <1>8, <2>2
    <3> QED BY <1>11, <3>1
  <2>3. CASE code' = code /\ Op(c) = "lock_lr" BY <1>12, <2>3, RepeatKinds
  <2>4. Op(c) \in Repeated BY <1>15, RepeatKinds
  <2> QED BY <1>13, <2>1, <2>2, <2>3, <2>4, RepeatKinds
<1>16. ASSUME Op(c) = "get_hi2" PROVE Turned(c)
  <2>1. code' = IF data = loc[c].t THEN Done(c) ELSE Again(c, astrarv32_clint_time_get) BY <1>5, <1>16 DEF Continue
  <2>2. CASE data = loc[c].t
    <3>1. code'[c] = Rest(c) BY <1>8, <2>1, <2>2
    <3> QED BY <1>11, <3>1
  <2>3. CASE data # loc[c].t
    <3>1. code' = Again(c, astrarv32_clint_time_get) BY <2>1, <2>3
    <3>2. Again(c, astrarv32_clint_time_get)[c] = Then(astrarv32_clint_time_get, Rest(c)) BY <1>9
    <3>3. bus.data # loc[c].t BY <1>6, <1>16, <2>3
    <3> QED BY <1>2, <1>16, <3>1, <3>2, <3>3 DEF Turned, At
  <2> QED BY <2>2, <2>3
<1>17. ASSUME Op(c) = "boot_poll" PROVE Turned(c)
  <2>1. c = 0 /\ ~hart[0].on BY <1>2, <1>17, PollNow DEF At
  <2>2. \/ code' = code \/ code' = Again(0, __astrarv32_smp_boot) \/ code' = Done(0)
        \/ code' = [code EXCEPT ![0] = <<"exit">>]
    <3>1. program # "retry" BY DEF Timed
    <3> QED BY <1>5, <1>17, <3>1 DEF Polled
  <2>3. CASE code' = code BY <1>12, <1>17, <2>3, RepeatKinds
  <2>4. CASE code' = Again(0, __astrarv32_smp_boot) BY <1>13, <1>17, <2>1, <2>4, RepeatKinds
  <2>5. CASE code' = Done(0)
    <3>1. code'[c] = Rest(c) BY <1>8, <2>1, <2>5
    <3> QED BY <1>11, <3>1
  <2>6. CASE code' = [code EXCEPT ![0] = <<"exit">>]
    <3>1. code'[c] = <<"exit">> BY <1>7, <2>1, <2>6
    <3> QED BY <2>1, <3>1 DEF Turned
  <2> QED BY <2>2, <2>3, <2>4, <2>5, <2>6
<1>18. Turned(c) BY <1>10, <1>11, <1>14, <1>15, <1>16, <1>17 DEF Retries
<1> QED BY <1>2, <1>4, <1>10, <1>18

\* The handler of an environment call.
LEMMA EcallText ==
  ASSUME Types
  PROVE  Handler(lut.ecall) \in Seq(Repeats) /\ "ecall" \in Repeated
<1>1. lut.ecall \in {"panic ecall", "trap_handler_ecall"} BY DEF Types, panic, handler
<1>2. {"lock_lr", "lock_swap", "unlock_lr", "unlock_sc", "unlock_swap", "char", "eret"} \subseteq Repeats
  BY DEF Repeats, SectionOps
<1>3. printf \in Seq(Repeats) /\ <<"eret">> \in Seq(Repeats) BY <1>2 DEF printf
<1>4. spin_lock \in Seq(Repeats) /\ spin_unlock \in Seq(Repeats) BY <1>2 DEF spin_lock, spin_unlock
<1>5. Locked(printf) \in Seq(Repeats)
  <2>1. spin_lock \o printf \in Seq(Repeats) BY <1>3, <1>4, JoinKinds
  <2>2. (spin_lock \o printf) \o spin_unlock \in Seq(Repeats) BY <1>4, <2>1, JoinKinds
  <2> QED BY <2>2 DEF Locked
<1>6. printf \o <<"eret">> \in Seq(Repeats) BY <1>3, JoinKinds
<1>7. Locked(printf) \o <<"eret">> \in Seq(Repeats) BY <1>3, <1>5, JoinKinds
<1>8. Handler("panic ecall") = printf \o <<"eret">> BY DEF Handler
<1>9. Handler("trap_handler_ecall") = Locked(printf) \o <<"eret">> BY DEF Handler, trap_handler_ecall
<1>10. Handler(lut.ecall) \in Seq(Repeats) BY <1>1, <1>6, <1>7, <1>8, <1>9
<1>11. "ecall" \in Repeated
  <2>1. "ecall" \in Lone BY LoneOps
  <2> QED BY <2>1 DEF Repeated, Presets, TimeOps
<1> QED BY <1>10, <1>11

\* A step inside a core leads on, calls a handler, or ends the start-up code.
LEMMA InsideTurned ==
  ASSUME LaunchInv, Timed, NEW c \in Core, Inside(c), Ordered(code[c]), hart[c].on => code[c] = <<>>
  PROVE  /\ Turned(c) /\ code'[1 - c] = code[1 - c] /\ bus.id # c /\ bus' = bus /\ program' = program
         /\ Busy(c) /\ Op(c) \in Internal
         /\ Op(c) \notin {"available", "ecall", "main_entry"} => code'[c] = Rest(c)
<1>1. Types BY DEF LaunchInv
<1>2. /\ bus.id # c /\ Busy(c) /\ Op(c) \in Internal /\ code[c] \in Text /\ Rest(c) \in Text
      /\ bus' = bus /\ program' = program /\ code'[1 - c] = code[1 - c]
      /\ Op(c) = "main_entry" => c = 1 /\ Awake /\ boot.entry \in {crt0_entry, main_core1}
      /\ \/ Op(c) = "available" /\ code'[c] = <<"exit">>
         \/ Op(c) = "ecall" /\ code'[c] = Handler(lut.ecall) \o Rest(c)
         \/ Op(c) = "main_entry" /\ boot.entry = main_core1 /\ code'[c] = entry_point
         \/ Op(c) # "ecall" /\ (Op(c) = "main_entry" => boot.entry # main_core1) /\ code'[c] = Rest(c)
  BY InsideMoves
<1>3. ~hart[c].on BY <1>2 DEF Busy
<1>4. ASSUME Op(c) = "available", code'[c] = <<"exit">> PROVE Turned(c) BY <1>3, <1>4 DEF Turned
<1>5. ASSUME Op(c) = "ecall", code'[c] = Handler(lut.ecall) \o Rest(c) PROVE Turned(c)
  <2> DEFINE q == Handler(lut.ecall)
  <2>1. q \in Seq(Repeats) /\ Op(c) \in Repeated BY <1>1, <1>5, EcallText
  <2>2. code'[c] = Then(q, Rest(c)) BY <1>5 DEF Then
  <2> HIDE DEF q
  <2> QED BY <1>2, <2>1, <2>2 DEF Turned
<1>6. ASSUME Op(c) = "main_entry", boot.entry = main_core1, code'[c] = entry_point PROVE Turned(c)
  <2>1. c = 1 /\ Awake BY <1>2, <1>6
  <2>2. Rest(c) = <<>> BY <1>6, <2>1, AwakeText
  <2>3. CASE program = "clock"
    <3>1. entry_point = <<>> BY <2>3, EntryPoints
    <3> QED BY <1>2, <1>6, <2>2, <3>1 DEF Turned
  <2>4. CASE program = "rte"
    <3>1. entry_point = app_main BY <2>4, EntryPoints
    <3>2. Fair(code'[c]) BY <1>6, <3>1, FairApp
    <3>3. "launch" \notin Range(code'[c])
      <4>1. app_main \in Seq(QuietWork) BY AppText
      <4>2. Range(app_main) \subseteq QuietWork BY <4>1 DEF Range
      <4>3. "launch" \notin QuietWork BY DEF QuietWork, Work, LaunchOps
      <4> QED BY <1>6, <3>1, <4>2, <4>3
    <3>4. ~Awaits(code[c])
      <4>1. code[c] = Cons(Op(c), Rest(c)) /\ Op(c) \in Operation BY <1>2, OrderedNow
      <4>2. Awaits(code[c]) => Awaits(Rest(c)) BY <1>2, <1>6, <4>1, AwaitsCons
      <4> QED BY <2>2, <4>2, AwaitsMore
    <3> QED BY <3>2, <3>3, <3>4 DEF Turned
  <2> QED BY <2>3, <2>4 DEF Timed
<1>7. ASSUME code'[c] = Rest(c) PROVE Turned(c) BY <1>2, <1>7 DEF Turned
<1>8. Turned(c) BY <1>2, <1>4, <1>5, <1>6, <1>7
<1>9. Op(c) \notin {"available", "ecall", "main_entry"} => code'[c] = Rest(c) BY <1>2
<1> QED BY <1>2, <1>8, <1>9

\* A trap leads to a handler, or to the start-up code.
LEMMA TrapTurned ==
  ASSUME LaunchInv, NEW c \in Core, Trap(c), hart[c].on => code[c] = <<>>
  PROVE  /\ Turned(c) /\ code'[1 - c] = code[1 - c] /\ bus.id # c /\ bus' = bus /\ program' = program
         /\ ~Busy(c) /\ ~hart'[c].on
<1>1. Clints /\ Types /\ Results BY DEF LaunchInv
<1>2. /\ bus.id # c /\ hart[c].on /\ ~hart'[c].on
      /\ UNCHANGED <<program, bus, lut>>
      /\ code'[1 - c] = code[1 - c]
      /\ hart[c].mtvec = "wakeup" => code'[c] = __crt0_smp_wakeup
      /\ hart[c].mtvec # "wakeup" => \E i \in {"MTI", "MSI"} : code'[c] = Handler(lut[i]) \o code[c]
  BY <1>1, TrapFrame
<1>3. code[c] = <<>> BY <1>2
<1>4. ~Awaits(code[c]) BY <1>3, AwaitsMore
<1>5. Fair(code'[c]) /\ "launch" \notin Range(code'[c])
  <2>1. CASE hart[c].mtvec = "wakeup"
    <3>1. Fair(code'[c]) BY <1>2, <2>1, FairWakeup
    <3>2. Range(__crt0_smp_wakeup) \subseteq WakeOps
      <4>1. __crt0_smp_wakeup \in Seq(WakeOps) BY WakeupText
      <4> QED BY <4>1 DEF Range
    <3> QED BY <1>2, <2>1, <3>1, <3>2 DEF WakeOps
  <2>2. CASE hart[c].mtvec # "wakeup"
    <3>1. PICK i \in {"MTI", "MSI"} : code'[c] = Handler(lut[i]) \o code[c] BY <1>2, <2>2
    <3> DEFINE s == Handler(lut[i])
    <3>2. s \in Seq(Work) BY <1>1, LutNames
    <3>3. Fair(s)
      <4>1. /\ lut.MTI \in {"panic MTI", "trap_handler_mtmi", "mti_irq_handler"}
            /\ lut.MSI \in {"panic MSI", "trap_handler_mswi", "msi_irq_handler"}
        BY <1>1 DEF Types, panic, handler
      <4>2. lut["MTI"] = lut.MTI /\ lut["MSI"] = lut.MSI OBVIOUS
      <4> QED BY <4>1, <4>2, FairHandlers
    <3> HIDE DEF s
    <3>4. s \in Text /\ s \o <<>> = s BY <3>2, WorkSeqs, JoinFacts
    <3>5. code'[c] = s BY <1>3, <3>1, <3>4 DEF s
    <3>6. Range(s) \subseteq Work BY <3>2 DEF Range
    <3>7. "launch" \notin Work BY DEF Work, LaunchOps
    <3> QED BY <3>3, <3>5, <3>6, <3>7
  <2> QED BY <2>1, <2>2
<1>6. Turned(c) BY <1>4, <1>5 DEF Turned
<1> QED BY <1>2, <1>3, <1>6 DEF Busy

-----------------------------------------------------------------------------
\* The compare times and the beginnings of reads are numbers.
Shape == alarm \in [Core -> SUBSET Nat] /\ began \in [Core -> Nat]

\* One core's entry of a table is changed.
LEMMA EntryExcept ==
  ASSUME NEW f, DOMAIN f = Core, NEW c \in Core, NEW v, NEW g, g = [f EXCEPT ![c] = v]
  PROVE  g[c] = v /\ g[1 - c] = f[1 - c] /\ DOMAIN g = Core
<1>1. 1 - c \in Core /\ 1 - c # c BY OtherCore
<1> QED BY <1>1

\* A core starts an access: the beginning of a read is noted.
LEMMA StrobeStep ==
  ASSUME LaunchInv, Shape, NEW c \in Core, Strobe(c)
  PROVE  /\ bus.id = 2 /\ bus' = [id |-> c, data |-> Read(Access(c, Op(c)))] /\ Busy(c) /\ Op(c) \in AccessOps
         /\ Clock(Write(c, Op(c))) /\ UNCHANGED <<program, code, hart, loc, alarm, launch, boot>>
         /\ began'[c] = IF Op(c) = "get_hi" THEN Time ELSE began[c]
         /\ began'[1 - c] = began[1 - c] /\ DOMAIN began' = Core
<1>1. Clints /\ Types /\ Results BY DEF LaunchInv
<1>2. /\ bus.id = 2 /\ bus' = [id |-> c, data |-> Read(Access(c, Op(c)))] /\ Busy(c) /\ Op(c) \in AccessOps
      /\ Clock(Write(c, Op(c))) /\ UNCHANGED <<program, code, hart, launch, boot>>
  BY <1>1, StrobeFrame
<1>3. UNCHANGED <<loc, alarm>> /\ began' = IF Op(c) = "get_hi" THEN [began EXCEPT ![c] = Time] ELSE began
  BY DEF Strobe
<1>4. DOMAIN began = Core BY DEF Shape
<1>5. /\ began'[c] = IF Op(c) = "get_hi" THEN Time ELSE began[c]
      /\ began'[1 - c] = began[1 - c] /\ DOMAIN began' = Core
  <2>1. CASE Op(c) = "get_hi"
    <3> DEFINE t == Time
    <3>1. began' = [began EXCEPT ![c] = t] BY <1>3, <2>1
    <3> HIDE DEF t
    <3>2. began'[c] = t /\ began'[1 - c] = began[1 - c] /\ DOMAIN began' = Core BY <1>4, <3>1, EntryExcept
    <3> QED BY <2>1, <3>2 DEF t
  <2>2. CASE Op(c) # "get_hi" BY <1>3, <1>4, <2>2
  <2> QED BY <2>1, <2>2
<1> QED BY <1>2, <1>3, <1>5

\* A core gets an answer: the local variables, and the compare time once both
\* halves are written.
LEMMA AnswerStep ==
  ASSUME LaunchInv, Shape, Slots, NEW c \in Core, Answer(c)
  PROVE  /\ Clock(NoWrite) /\ UNCHANGED <<program, hart, began>> /\ mtimecmp' = mtimecmp /\ mswi' = mswi
         /\ Slots' /\ loc'[1 - c] = loc[1 - c] /\ loc'[c].target = loc[c].target
         /\ loc'[c].time = CASE Op(c) = "get_lo" -> loc[c].t * Half + bus.data
                             [] Op(c) = "cmp_get_hi" -> bus.data * Half + loc[c].u
                             [] OTHER -> loc[c].time
         /\ loc'[c].t = IF Op(c) \in {"get_hi", "arg_beg"} THEN bus.data ELSE loc[c].t
         /\ Op(c) = "cmp_get_lo" => loc'[c].u = bus.data
         /\ Op(c) \notin {"cmp_get_lo", "arg_end", "sum"} => loc'[c].u = loc[c].u
         /\ alarm'[c] = IF Op(c) = "cmp_lo" THEN {loc[c].target} ELSE alarm[c]
         /\ alarm'[1 - c] = alarm[1 - c] /\ DOMAIN alarm' = Core
<1>1. Clints /\ Types /\ Results BY DEF LaunchInv
<1>2. /\ mtimecmp' = mtimecmp /\ mswi' = mswi /\ UNCHANGED <<program, hart>>
      /\ Op(c) \notin {"lock_sc", "unlock_sc"} => response([data |-> bus.data]).data = bus.data
  BY <1>1, AnswerFrame
<1> DEFINE data == response([data |-> bus.data]).data
<1>3. /\ Locals(c, data) /\ UNCHANGED <<began>> /\ Clock(NoWrite)
      /\ alarm' = IF Op(c) = "cmp_lo" THEN [alarm EXCEPT ![c] = {loc[c].target}] ELSE alarm
  BY DEF Answer
<1>4. Op(c) \in {"get_hi", "get_lo", "cmp_get_lo", "cmp_get_hi", "arg_beg", "arg_end", "sum"} => data = bus.data BY <1>2
<1> HIDE DEF data
<1>5. DOMAIN alarm = Core BY DEF Shape
<1>6. /\ alarm'[c] = IF Op(c) = "cmp_lo" THEN {loc[c].target} ELSE alarm[c]
      /\ alarm'[1 - c] = alarm[1 - c] /\ DOMAIN alarm' = Core
  <2>1. CASE Op(c) = "cmp_lo"
    <3> DEFINE t == {loc[c].target}
    <3>1. alarm' = [alarm EXCEPT ![c] = t] BY <1>3, <2>1
    <3> HIDE DEF t
    <3>2. alarm'[c] = t /\ alarm'[1 - c] = alarm[1 - c] /\ DOMAIN alarm' = Core BY <1>5, <3>1, EntryExcept
    <3> QED BY <2>1, <3>2 DEF t
  <2>2. CASE Op(c) # "cmp_lo" BY <1>3, <1>5, <2>2
  <2> QED BY <2>1, <2>2
<1> DEFINE Set(f, d) == /\ Slots' /\ loc'[c][f] = d /\ loc'[1 - c] = loc[1 - c]
                        /\ \A g \in {"t", "u", "time", "target"} : g # f => loc'[c][g] = loc[c][g]
<1>7. ASSUME NEW f \in {"t", "u", "time", "target"}, NEW d, loc' = [loc EXCEPT ![c][f] = d] PROVE Set(f, d)
  BY <1>7, SlotExcept
<1>8. /\ Op(c) = "get_hi" => Set("t", bus.data)
      /\ Op(c) = "get_lo" => Set("time", loc[c].t * Half + bus.data)
      /\ Op(c) = "cmp_get_lo" => Set("u", bus.data)
      /\ Op(c) = "cmp_get_hi" => Set("time", bus.data * Half + loc[c].u)
      /\ Op(c) = "arg_beg" => Set("t", bus.data)
      /\ Op(c) = "arg_end" => Set("u", bus.data)
      /\ Op(c) = "sum" => \E d : Set("u", d)
      /\ Op(c) \notin {"get_hi", "get_lo", "cmp_get_lo", "cmp_get_hi", "arg_beg", "arg_end", "sum"} => loc' = loc
  <2> HIDE DEF Set
  <2>1. Op(c) = "get_hi" => Set("t", bus.data)
    <3>1. Op(c) = "get_hi" => loc' = [loc EXCEPT ![c]["t"] = data] BY <1>3 DEF Locals
    <3> QED BY <1>4, <1>7, <3>1
  <2>2. Op(c) = "get_lo" => Set("time", loc[c].t * Half + bus.data)
    <3> DEFINE v == loc[c].t * Half + data
    <3>1. Op(c) = "get_lo" => loc' = [loc EXCEPT ![c]["time"] = v] BY <1>3 DEF Locals
    <3> HIDE DEF v
    <3>2. Op(c) = "get_lo" => Set("time", v) BY <1>7, <3>1
    <3> QED BY <1>4, <3>2 DEF v
  <2>3. Op(c) = "cmp_get_lo" => Set("u", bus.data)
    <3>1. Op(c) = "cmp_get_lo" => loc' = [loc EXCEPT ![c]["u"] = data] BY <1>3 DEF Locals
    <3> QED BY <1>4, <1>7, <3>1
  <2>4. Op(c) = "cmp_get_hi" => Set("time", bus.data * Half + loc[c].u)
    <3> DEFINE v == data * Half + loc[c].u
    <3>1. Op(c) = "cmp_get_hi" => loc' = [loc EXCEPT ![c]["time"] = v] BY <1>3 DEF Locals
    <3> HIDE DEF v
    <3>2. Op(c) = "cmp_get_hi" => Set("time", v) BY <1>7, <3>1
    <3> QED BY <1>4, <3>2 DEF v
  <2>5. Op(c) = "arg_beg" => Set("t", bus.data)
    <3>1. Op(c) = "arg_beg" => loc' = [loc EXCEPT ![c]["t"] = data] BY <1>3 DEF Locals
    <3> QED BY <1>4, <1>7, <3>1
  <2>6. Op(c) = "arg_end" => Set("u", bus.data)
    <3>1. Op(c) = "arg_end" => loc' = [loc EXCEPT ![c]["u"] = data] BY <1>3 DEF Locals
    <3> QED BY <1>4, <1>7, <3>1
  <2>7. Op(c) = "sum" => \E d : Set("u", d)
    <3> DEFINE v == count_primes(0, NUM_MAX \div 2) + data
    <3>1. Op(c) = "sum" => loc' = [loc EXCEPT ![c]["u"] = v] BY <1>3 DEF Locals
    <3> HIDE DEF v
    <3>2. Op(c) = "sum" => Set("u", v) BY <1>7, <3>1
    <3> QED BY <3>2
  <2>8. Op(c) \notin {"get_hi", "get_lo", "cmp_get_lo", "cmp_get_hi", "arg_beg", "arg_end", "sum"} => loc' = loc
    BY <1>3 DEF Locals
  <2> QED BY <2>1, <2>2, <2>3, <2>4, <2>5, <2>6, <2>7, <2>8
<1>9. ASSUME loc' = loc PROVE Slots' BY <1>9 DEF Slots
<1>10. /\ Slots' /\ loc'[1 - c] = loc[1 - c] /\ loc'[c].target = loc[c].target
  BY <1>8, <1>9
<1>11. loc'[c].time = CASE Op(c) = "get_lo" -> loc[c].t * Half + bus.data
                        [] Op(c) = "cmp_get_hi" -> bus.data * Half + loc[c].u
                        [] OTHER -> loc[c].time
  BY <1>8
<1>12. /\ loc'[c].t = IF Op(c) \in {"get_hi", "arg_beg"} THEN bus.data ELSE loc[c].t
       /\ Op(c) = "cmp_get_lo" => loc'[c].u = bus.data
       /\ Op(c) \notin {"cmp_get_lo", "arg_end", "sum"} => loc'[c].u = loc[c].u
  BY <1>8
<1> QED BY <1>2, <1>3, <1>6, <1>10, <1>11, <1>12

\* A step inside a core: the time to set or compare with is computed, and a new
\* compare time announced.
LEMMA InsideStep ==
  ASSUME LaunchInv, Shape, Slots, NEW c \in Core, Inside(c)
  PROVE  /\ Clock(NoWrite) /\ UNCHANGED <<program, bus, began, boot>> /\ mtimecmp' = mtimecmp /\ mswi' = mswi
         /\ Slots' /\ loc'[1 - c] = loc[1 - c] /\ loc'[c].target = Target(c)
         /\ loc'[c].t = loc[c].t /\ loc'[c].u = loc[c].u /\ loc'[c].time = loc[c].time
         /\ alarm'[c] = IF Op(c) = "cmp_begin" THEN alarm[c] \cup {loc[c].target} ELSE alarm[c]
         /\ alarm'[1 - c] = alarm[1 - c] /\ DOMAIN alarm' = Core
<1>1. Clints /\ Types /\ Results BY DEF LaunchInv
<1>2. mtimecmp' = mtimecmp /\ mswi' = mswi /\ UNCHANGED <<program, bus, boot>> BY <1>1, InsideFrame
<1>3. /\ UNCHANGED <<began>> /\ Clock(NoWrite)
      /\ loc' = [loc EXCEPT ![c].target = Target(c)]
      /\ alarm' = IF Op(c) = "cmp_begin" THEN [alarm EXCEPT ![c] = @ \cup {loc[c].target}] ELSE alarm
  BY DEF Inside
<1>4. DOMAIN alarm = Core BY DEF Shape
<1>5. /\ alarm'[c] = IF Op(c) = "cmp_begin" THEN alarm[c] \cup {loc[c].target} ELSE alarm[c]
      /\ alarm'[1 - c] = alarm[1 - c] /\ DOMAIN alarm' = Core
  <2>1. CASE Op(c) = "cmp_begin"
    <3> DEFINE t == alarm[c] \cup {loc[c].target}
    <3>1. alarm' = [alarm EXCEPT ![c] = t] BY <1>3, <2>1
    <3> HIDE DEF t
    <3>2. alarm'[c] = t /\ alarm'[1 - c] = alarm[1 - c] /\ DOMAIN alarm' = Core BY <1>4, <3>1, EntryExcept
    <3> QED BY <2>1, <3>2 DEF t
  <2>2. CASE Op(c) # "cmp_begin" BY <1>3, <1>4, <2>2
  <2> QED BY <2>1, <2>2
<1>6. /\ Slots' /\ loc'[c].target = Target(c) /\ loc'[1 - c] = loc[1 - c]
      /\ \A g \in {"t", "u", "time", "target"} : g # "target" => loc'[c][g] = loc[c][g]
  <2> DEFINE v == Target(c)
  <2>1. loc' = [loc EXCEPT ![c]["target"] = v] BY <1>3
  <2> HIDE DEF v
  <2>2. /\ Slots' /\ loc'[c]["target"] = v /\ loc'[1 - c] = loc[1 - c]
        /\ \A g \in {"t", "u", "time", "target"} : g # "target" => loc'[c][g] = loc[c][g]
    BY <2>1, SlotExcept
  <2> QED BY <2>2 DEF v
<1> QED BY <1>2, <1>3, <1>5, <1>6

\* Each core's text is ordered, and interrupts come only at its end.
Orders == \A c \in Core : Ordered(code[c]) /\ (hart[c].on => code[c] = <<>>)

\* A step but a strobe.
Turning(c) == Answer(c) \/ Inside(c) \/ Trap(c)

\* Such a step leads the core on.
LEMMA TurnedStep ==
  ASSUME LaunchInv, Timed, Orders, NEW c \in Core, Turning(c)
  PROVE  /\ Turned(c) /\ code'[1 - c] = code[1 - c] /\ hart'[1 - c] = hart[1 - c] /\ program' = program
         /\ Trap(c) => ~Busy(c)
         /\ code[c] \in Text /\ Ordered(code[c])
<1>1. Ordered(code[c]) /\ (hart[c].on => code[c] = <<>>) BY DEF Orders
<1>2. Clints /\ Types /\ Results BY DEF LaunchInv
<1>3. code[c] \in Text BY <1>2 DEF Types
<1>4. CASE Answer(c)
  <2>1. Turned(c) /\ code'[1 - c] = code[1 - c] /\ UNCHANGED <<program, hart>> /\ Busy(c) /\ bus.id = c
    BY <1>4, AnswerTurned
  <2>2. ~Trap(c) BY <2>1 DEF Trap
  <2> QED BY <1>1, <1>3, <2>1, <2>2
<1>5. CASE Inside(c)
  <2>1. Turned(c) /\ code'[1 - c] = code[1 - c] /\ program' = program /\ Busy(c) BY <1>1, <1>5, InsideTurned
  <2>2. hart'[1 - c] = hart[1 - c] BY <1>5, InsideMoves
  <2>3. ~Trap(c) BY <1>1, <2>1 DEF Trap, Busy
  <2> QED BY <1>1, <1>3, <2>1, <2>2, <2>3
<1>6. CASE Trap(c)
  <2>1. Turned(c) /\ code'[1 - c] = code[1 - c] /\ program' = program /\ ~Busy(c) BY <1>1, <1>6, TrapTurned
  <2>2. hart'[1 - c] = hart[1 - c] BY <1>2, <1>6, TrapFrame
  <2> QED BY <1>1, <1>3, <2>1, <2>2
<1> QED BY <1>4, <1>5, <1>6 DEF Turning

\* Interrupts are let in at the end of a text only.
LEMMA OpenAtEnd ==
  ASSUME LaunchInv, Timed, Orders, NEW c \in Core, Turning(c), hart'[c].on
  PROVE  code'[c] = <<>>
<1>1. Ordered(code[c]) /\ (hart[c].on => code[c] = <<>>) BY DEF Orders
<1>2. Types BY DEF LaunchInv
<1>3. code[c] \in Text BY <1>2 DEF Types
<1>4. CASE Answer(c)
  <2>1. UNCHANGED hart /\ Busy(c) BY <1>4, AnswerTurned
  <2> QED BY <1>1, <2>1 DEF Busy
<1>5. CASE Inside(c)
  <2>1. Busy(c) /\ (Op(c) \notin {"available", "ecall", "main_entry"} => code'[c] = Rest(c))
    BY <1>1, <1>5, InsideTurned
  <2>2. ~hart[c].on BY <1>1, <2>1 DEF Busy
  <2>3. /\ Op(c) \notin {"main_entry", "on", "mret"} => (hart'[c].on => hart[c].on)
        /\ Op(c) = "main_entry" => hart' = IF boot.entry = crt0_entry
                                           THEN [hart EXCEPT ![c] = __crt0_smp_setup] ELSE hart
    BY <1>5, InsideControl
  <2>4. Op(c) \in {"main_entry", "on", "mret"} BY <2>2, <2>3
  <2>5. Fits(Op(c), Rest(c)) BY <1>1, <1>3, <2>1, OrderedNow
  <2>6. Rest(c) = <<>> BY <2>4, <2>5 DEF Fits, Ends
  <2>7. CASE Op(c) = "main_entry"
    <3>1. boot.entry = crt0_entry BY <2>2, <2>3, <2>7
    <3>2. crt0_entry # main_core1 BY DEF crt0_entry, main_core1
    <3>3. code'[c] = Rest(c)
      <4>1. \/ Op(c) = "available" \/ Op(c) = "ecall" \/ boot.entry = main_core1 \/ code'[c] = Rest(c)
        BY <1>5, InsideMoves
      <4> QED BY <2>7, <3>1, <3>2, <4>1
    <3> QED BY <2>6, <3>3
  <2>8. CASE Op(c) # "main_entry" BY <2>1, <2>4, <2>6, <2>8
  <2> QED BY <2>7, <2>8
<1>6. CASE Trap(c)
  <2>1. ~hart'[c].on BY <1>1, <1>6, TrapTurned
  <2> QED BY <2>1
<1> QED BY <1>4, <1>5, <1>6 DEF Turning

\* The texts stay ordered.
LEMMA OrdersTurn ==
  ASSUME LaunchInv, Timed, Orders, NEW c \in Core, Turning(c)
  PROVE  Orders'
<1>1. /\ Turned(c) /\ code'[1 - c] = code[1 - c] /\ hart'[1 - c] = hart[1 - c]
      /\ code[c] \in Text /\ Ordered(code[c])
  BY TurnedStep
<1>2. Ordered(code'[c]) BY <1>1, TurnedNext
<1>3. hart'[c].on => code'[c] = <<>> BY OpenAtEnd
<1>4. ASSUME NEW d \in Core PROVE Ordered(code'[d]) /\ (hart'[d].on => code'[d] = <<>>)
  <2>1. d = c \/ d = 1 - c BY OtherCore
  <2>2. CASE d = c BY <1>2, <1>3, <2>2
  <2>3. CASE d = 1 - c
    <3>1. Ordered(code[d]) /\ (hart[d].on => code[d] = <<>>) BY DEF Orders
    <3> QED BY <1>1, <2>3, <3>1
  <2> QED BY <2>1, <2>2, <2>3
<1>5. \A d \in Core : Ordered(code'[d]) /\ (hart'[d].on => code'[d] = <<>>) BY <1>4
<1> QED BY <1>5 DEF Orders, Ordered

\* A step that changes neither texts nor interrupt control leaves them ordered.
LEMMA OrdersSame ==
  ASSUME Orders, UNCHANGED <<code, hart>>
  PROVE  Orders'
  BY DEF Orders, Ordered

\* Once started, core 1 stays started.
LEMMA StartedStays ==
  ASSUME LaunchInv, Started, Step(1)
  PROVE  Started'
<1>1. Clints /\ Types /\ Results BY DEF LaunchInv
<1>2. code[1] \in Seq(Work) /\ Right /\ hart[1].mtvec # "wakeup" BY DEF Started
<1>3. 1 \in Core BY DEF Core
<1>4. ClosedWork \subseteq Work /\ Work \subseteq Work BY WorkOps
<1>5. CASE Strobe(1)
  <2>1. UNCHANGED <<code, hart, boot>> BY <1>1, <1>3, <1>5, StrobeFrame
  <2> QED BY <1>2, <2>1 DEF Started, Right
<1>6. CASE Answer(1)
  <2>1. UNCHANGED boot /\ code'[1] \in Seq(Work) BY <1>1, <1>2, <1>3, <1>4, <1>6, AnswerWorkText
  <2>2. UNCHANGED hart BY <1>1, <1>3, <1>6, AnswerFrame
  <2> QED BY <1>2, <2>1, <2>2 DEF Started, Right
<1>7. CASE Inside(1)
  <2>1. code'[1] \in Seq(Work) /\ Op(1) \in Work BY <1>1, <1>2, <1>3, <1>4, <1>7, InsideWorkText
  <2>2. UNCHANGED boot /\ SetHart(1) BY <1>1, <1>3, <1>7, InsideFrame
  <2>3. Op(1) # "main_entry" BY <2>1 DEF Work, WakeOps
  <2>4. hart'[1].mtvec \in {"rte", "panic", hart[1].mtvec} BY <1>1, <1>3, <2>2, <2>3, HartType
  <2> QED BY <1>2, <2>1, <2>2, <2>4 DEF Started, Right
<1>8. CASE Trap(1)
  <2>1. /\ UNCHANGED boot /\ hart'[1].mtvec = hart[1].mtvec
        /\ \E i \in {"MTI", "MSI"} : code'[1] = Handler(lut[i]) \o code[1]
    BY <1>1, <1>2, <1>3, <1>8, TrapFrame
  <2>2. PICK i \in {"MTI", "MSI"} : code'[1] = Handler(lut[i]) \o code[1] BY <2>1
  <2>3. Handler(lut[i]) \in Seq(Work) BY <1>1, LutNames
  <2>4. code'[1] \in Seq(Work) BY <1>2, <2>2, <2>3, JoinKinds
  <2> QED BY <1>2, <2>1, <2>4 DEF Started, Right
<1> QED BY <1>5, <1>6, <1>7, <1>8 DEF Step

-----------------------------------------------------------------------------
\* The operations that write compare times, and those that write software interrupts.
CompareOps == {"cmp_lo1", "cmp_hi", "cmp_lo"}
BootWords == {"boot_stack", "boot_entry"}
Bells == {"msi_launch", "wake_ack", "msi_other", "msi_self", "msi_clr"}

\* What the operations of the CLINT driver write.
LEMMA TimerWrites ==
  ASSUME NEW c \in Core
  PROVE  /\ Write(c, "time_lo0") = Put("mtime", 0, "lo", 0)
         /\ Write(c, "time_hi") = Put("mtime", 0, "hi", High(loc[c].target))
         /\ Write(c, "time_lo") = Put("mtime", 0, "lo", Low(loc[c].target))
         /\ Write(c, "cmp_lo1") = Put("mtimecmp", c, "lo", Half - 1)
         /\ Write(c, "cmp_hi") = Put("mtimecmp", c, "hi", High(loc[c].target))
         /\ Write(c, "cmp_lo") = Put("mtimecmp", c, "lo", Low(loc[c].target))
         /\ Write(c, "msi_self") = Put("mswi", c, "lo", 1) /\ Write(c, "msi_clr") = Put("mswi", c, "lo", 0)
         /\ \A o \in AccessOps \ (TimeOps \cup CompareOps \cup BootWords \cup Bells) : Write(c, o) = NoWrite
<1>1. Access(c, "time_lo0") = Clint("st", "mtime", 0, "lo", 0) BY DEF Access
<1>2. Access(c, "time_hi") = Clint("st", "mtime", 0, "hi", High(loc[c].target)) BY DEF Access
<1>3. Access(c, "time_lo") = Clint("st", "mtime", 0, "lo", Low(loc[c].target)) BY DEF Access
<1>4. Access(c, "cmp_lo1") = Clint("st", "mtimecmp", c, "lo", Half - 1) BY DEF Access
<1>5. Access(c, "cmp_hi") = Clint("st", "mtimecmp", c, "hi", High(loc[c].target)) BY DEF Access
<1>6. Access(c, "cmp_lo") = Clint("st", "mtimecmp", c, "lo", Low(loc[c].target)) BY DEF Access
<1>7. Access(c, "msi_self") = Clint("st", "mswi", c, "lo", 1) BY DEF Access
<1>8. Access(c, "msi_clr") = Clint("st", "mswi", c, "lo", 0) BY DEF Access
<1>9. ASSUME NEW reg \in {"mtime", "mtimecmp", "mswi"}, NEW h, NEW half, NEW d
      PROVE  ClintWrite(Clint("st", reg, h, half, d)) = Put(reg, h, half, d)
  BY DEF Clint, ClintWrite, Put
<1>10. Write(c, "time_lo0") = Put("mtime", 0, "lo", 0) BY <1>1, <1>9 DEF Write
<1>11. Write(c, "time_hi") = Put("mtime", 0, "hi", High(loc[c].target)) BY <1>2, <1>9 DEF Write
<1>12. Write(c, "time_lo") = Put("mtime", 0, "lo", Low(loc[c].target)) BY <1>3, <1>9 DEF Write
<1>13. Write(c, "cmp_lo1") = Put("mtimecmp", c, "lo", Half - 1) BY <1>4, <1>9 DEF Write
<1>14. Write(c, "cmp_hi") = Put("mtimecmp", c, "hi", High(loc[c].target)) BY <1>5, <1>9 DEF Write
<1>15. Write(c, "cmp_lo") = Put("mtimecmp", c, "lo", Low(loc[c].target)) BY <1>6, <1>9 DEF Write
<1>16. Write(c, "msi_self") = Put("mswi", c, "lo", 1) BY <1>7, <1>9 DEF Write
<1>17. Write(c, "msi_clr") = Put("mswi", c, "lo", 0) BY <1>8, <1>9 DEF Write
<1>18. ASSUME NEW o \in AccessOps \ (TimeOps \cup CompareOps \cup BootWords \cup Bells)
       PROVE  Write(c, o) = NoWrite
  <2>1. o \in {"lock_ld", "lock_st", "lock_lr", "lock_sc", "lock_swap", "unlock_lr", "unlock_sc", "unlock_swap",
               "check_lr", "char", "run_wait", "run_check", "run", "run_done", "arg_beg", "sum", "arg_end", "arg0",
               "arg1", "result"}
        \/ o \in {"boot_poll", "wake_sp", "wake_entry", "get_hi", "get_hi2", "get_lo", "cmp_get_lo", "cmp_get_hi"}
    BY <1>18 DEF AccessOps, TimeOps, CompareOps, BootWords, Bells
  <2>2. CASE o \in {"lock_ld", "lock_st", "lock_lr", "lock_sc", "lock_swap", "unlock_lr", "unlock_sc", "unlock_swap",
               "check_lr", "char", "run_wait", "run_check", "run", "run_done", "arg_beg", "sum", "arg_end", "arg0",
               "arg1", "result"}
    <3>1. Access(c, o).a \notin {"mtime", "mtimecmp", "mswi"} BY <2>2 DEF Access, Word
    <3> QED BY <3>1 DEF Write, ClintWrite
  <2>3. CASE o \in {"boot_poll", "wake_sp", "wake_entry", "get_hi", "get_hi2", "get_lo", "cmp_get_lo", "cmp_get_hi"}
    <3>1. Access(c, o).op = "ld" BY <2>3 DEF Access, Clint
    <3> QED BY <3>1 DEF Write, ClintWrite
  <2> QED BY <2>1, <2>2, <2>3
<1> QED BY <1>10, <1>11, <1>12, <1>13, <1>14, <1>15, <1>16, <1>17, <1>18

\* What the reads of a register of the CLINT return.
LEMMA TimerReads ==
  ASSUME Types, NEW c \in Core
  PROVE  /\ \A o \in {"get_hi", "get_hi2"} : Read(Access(c, o)) = mtime.hi
         /\ Read(Access(c, "get_lo")) = mtime.lo
         /\ Read(Access(c, "cmp_get_lo")) = mtimecmp[c].lo /\ Read(Access(c, "cmp_get_hi")) = mtimecmp[c].hi
         /\ Read(Access(c, "wake_entry")) = mtimecmp[1].hi
<1>1. DOMAIN mem = {"locked", "shared_run", "shared_arg0", "shared_arg1"} BY DEF Types
<1>2. ASSUME NEW reg \in {"mtime", "mtimecmp"}, NEW h, NEW half, NEW d
      PROVE  Read(Clint("ld", reg, h, half, d)) = IF reg = "mtime" THEN mtime[half] ELSE mtimecmp[h][half]
  <2>1. Clint("ld", reg, h, half, d).op = "ld" /\ Clint("ld", reg, h, half, d).a = reg
        /\ Clint("ld", reg, h, half, d).hart = h /\ Clint("ld", reg, h, half, d).half = half
    BY DEF Clint
  <2>2. reg \notin DOMAIN mem BY <1>1
  <2>3. Read(Clint("ld", reg, h, half, d)) = read_back(reg, h, half) BY <2>1, <2>2 DEF Read
  <2> QED BY <2>3 DEF read_back
<1>3. \A o \in {"get_hi", "get_hi2"} : Access(c, o) = Clint("ld", "mtime", 0, "hi", 0) BY DEF Access
<1>4. Access(c, "get_lo") = Clint("ld", "mtime", 0, "lo", 0) BY DEF Access
<1>5. Access(c, "cmp_get_lo") = Clint("ld", "mtimecmp", c, "lo", 0) BY DEF Access
<1>6. Access(c, "cmp_get_hi") = Clint("ld", "mtimecmp", c, "hi", 0) BY DEF Access
<1>7. Access(c, "wake_entry") = Clint("ld", "mtimecmp", 1, "hi", 0) BY DEF Access
<1> QED BY <1>2, <1>3, <1>4, <1>5, <1>6, <1>7

\* The registers of the CLINT after a strobe.
LEMMA StrobeRegs ==
  ASSUME LaunchInv, NEW c \in Core, Strobe(c)
  PROVE  /\ Clints'
         /\ Op(c) \notin CompareOps \cup BootWords =>
              \A h \in Core : mtimecmp'[h].lo = mtimecmp[h].lo /\ mtimecmp'[h].hi = mtimecmp[h].hi
         /\ Op(c) \in CompareOps =>
              /\ mtimecmp'[1 - c].lo = mtimecmp[1 - c].lo /\ mtimecmp'[1 - c].hi = mtimecmp[1 - c].hi
              /\ mtimecmp'[c].lo = CASE Op(c) = "cmp_lo1" -> Half - 1 [] Op(c) = "cmp_lo" -> Low(loc[c].target)
                                     [] OTHER -> mtimecmp[c].lo
              /\ mtimecmp'[c].hi = IF Op(c) = "cmp_hi" THEN High(loc[c].target) ELSE mtimecmp[c].hi
         /\ Op(c) \in BootWords =>
              /\ mtimecmp'[0].lo = mtimecmp[0].lo /\ mtimecmp'[0].hi = mtimecmp[0].hi
              /\ mtimecmp'[1].lo = IF Op(c) = "boot_stack" THEN StackTop ELSE mtimecmp[1].lo
              /\ mtimecmp'[1].hi = IF Op(c) = "boot_entry"
                                   THEN (IF launch.stage = 1 THEN crt0_entry ELSE main_core1) ELSE mtimecmp[1].hi
         /\ Op(c) \notin Bells => mswi'[0] = mswi[0] /\ mswi'[1] = mswi[1]
         /\ Op(c) \notin TimeOps => Write(c, Op(c)).reg # "mtime"
<1>1. Clints /\ Types /\ Results BY DEF LaunchInv
<1>2. Clock(Write(c, Op(c))) /\ Op(c) \in AccessOps BY <1>1, StrobeFrame
<1>3. Core = Hart /\ 0 \in Hart /\ 1 \in Hart /\ 1 - c \in Hart /\ 1 - c # c /\ c \in Hart BY OtherCore DEF Core, Hart
<1> DEFINE w == Write(c, Op(c))
           Regs == /\ Clints'
                   /\ \A h \in Hart :
                        /\ mtimecmp'[h].lo = IF w.reg = "mtimecmp" /\ w.hart = h /\ w.half = "lo" THEN w.data ELSE mtimecmp[h].lo
                        /\ mtimecmp'[h].hi = IF w.reg = "mtimecmp" /\ w.hart = h /\ w.half = "hi" THEN w.data ELSE mtimecmp[h].hi
                        /\ mswi'[h] = IF w.reg = "mswi" /\ w.hart = h THEN w.data ELSE mswi[h]
<1>4. \/ \E half \in {"lo", "hi"} : \E d : w = Put("mtime", 0, half, d) /\ Op(c) \in TimeOps
      \/ \E half \in {"lo", "hi"}, h \in Hart : \E d : w = Put("mtimecmp", h, half, d) /\ Op(c) \in CompareOps \cup BootWords
      \/ \E h \in Hart, d \in {0, 1} : w = Put("mswi", h, "lo", d) /\ Op(c) \in Bells
      \/ w = NoWrite /\ Op(c) \notin TimeOps
  <2>1. CASE Op(c) \in TimeOps BY <2>1, TimerWrites DEF TimeOps
  <2>2. CASE Op(c) \in CompareOps BY <1>3, <2>2, TimerWrites DEF CompareOps
  <2>3. CASE Op(c) \in BootWords BY <1>3, <2>3, LaunchAccess DEF BootWords
  <2>4. CASE Op(c) \in Bells BY <1>3, <2>4, TimerWrites, LaunchAccess DEF Bells
  <2>5. CASE Op(c) \notin TimeOps \cup CompareOps \cup BootWords \cup Bells BY <1>2, <2>5, TimerWrites
  <2> QED BY <2>1, <2>2, <2>3, <2>4, <2>5
<1>5. Regs
  <2>1. w.reg # "mtimecmp" \/ (w.hart \in Hart /\ w.half \in {"lo", "hi"}) BY <1>4 DEF Put, NoWrite
  <2>2. w.reg # "mswi" \/ (w.hart \in Hart /\ w.data \in {0, 1}) BY <1>4 DEF Put, NoWrite
  <2>3. Clock(w) BY <1>2
  <2> HIDE DEF w
  <2> QED BY <1>1, <2>1, <2>2, <2>3, ClockRegs
<1>6. Op(c) \notin CompareOps \cup BootWords => w.reg # "mtimecmp" BY <1>4 DEF Put, NoWrite
<1>7. Op(c) \notin Bells => w.reg # "mswi" BY <1>4 DEF Put, NoWrite
<1>8. Op(c) \notin TimeOps => w.reg # "mtime" BY <1>4 DEF Put, NoWrite
<1>9. Op(c) \notin CompareOps \cup BootWords =>
              \A h \in Core : mtimecmp'[h].lo = mtimecmp[h].lo /\ mtimecmp'[h].hi = mtimecmp[h].hi
  <2> HIDE DEF w
  <2> QED BY <1>3, <1>5, <1>6
<1>10. Op(c) \notin Bells => mswi'[0] = mswi[0] /\ mswi'[1] = mswi[1]
  <2> HIDE DEF w
  <2> QED BY <1>3, <1>5, <1>7
<1>11. Op(c) \in CompareOps =>
              /\ mtimecmp'[1 - c].lo = mtimecmp[1 - c].lo /\ mtimecmp'[1 - c].hi = mtimecmp[1 - c].hi
              /\ mtimecmp'[c].lo = CASE Op(c) = "cmp_lo1" -> Half - 1 [] Op(c) = "cmp_lo" -> Low(loc[c].target)
                                     [] OTHER -> mtimecmp[c].lo
              /\ mtimecmp'[c].hi = IF Op(c) = "cmp_hi" THEN High(loc[c].target) ELSE mtimecmp[c].hi
  <2>1. /\ Op(c) = "cmp_lo1" => w = Put("mtimecmp", c, "lo", Half - 1)
        /\ Op(c) = "cmp_hi" => w = Put("mtimecmp", c, "hi", High(loc[c].target))
        /\ Op(c) = "cmp_lo" => w = Put("mtimecmp", c, "lo", Low(loc[c].target))
    BY TimerWrites
  <2> HIDE DEF w
  <2> QED BY <1>3, <1>5, <2>1 DEF Put, CompareOps
<1>12. Op(c) \in BootWords =>
              /\ mtimecmp'[0].lo = mtimecmp[0].lo /\ mtimecmp'[0].hi = mtimecmp[0].hi
              /\ mtimecmp'[1].lo = IF Op(c) = "boot_stack" THEN StackTop ELSE mtimecmp[1].lo
              /\ mtimecmp'[1].hi = IF Op(c) = "boot_entry"
                                   THEN (IF launch.stage = 1 THEN crt0_entry ELSE main_core1) ELSE mtimecmp[1].hi
  <2>1. /\ Op(c) = "boot_stack" => w = Put("mtimecmp", 1, "lo", StackTop)
        /\ Op(c) = "boot_entry" => w = Put("mtimecmp", 1, "hi", IF launch.stage = 1 THEN crt0_entry ELSE main_core1)
    BY LaunchAccess
  <2> HIDE DEF w
  <2> QED BY <1>3, <1>5, <2>1 DEF Put, BootWords
<1> QED BY <1>5, <1>8, <1>9, <1>10, <1>11, <1>12

\* Asleep and not rung for, core 1 does nothing.
LEMMA AsleepRests ==
  ASSUME Types, Asleep, mswi[1] = 0
  PROVE  ~Step(1)
<1>1. ~Busy(1) BY DEF Asleep, Busy
<1>2. hart[1].mie = {"MSI"} BY DEF Asleep, __crt0_smp_setup
<1>3. Pending(1) = {} BY <1>2 DEF Pending
<1>4. ~Strobe(1) /\ ~Inside(1) /\ ~Trap(1) BY <1>1, <1>3 DEF Strobe, Inside, Trap
<1>5. ~Answer(1)
  <2>1. bus.id = 1 => Busy(1) BY DEF Types, Core
  <2> QED BY <1>1, <2>1 DEF Answer
<1> QED BY <1>4, <1>5 DEF Step

\* The accesses of a launch are made by core 0, in a launch.
LEMMA BootNow ==
  ASSUME LaunchInv, NEW c \in Core, NEW o \in InLaunch, At(c, o)
  PROVE  c = 0 /\ During(code[0]) /\ ~hart[0].on /\ launch.rc # 0 /\ program # "clock"
<1>1. Types /\ Launcher BY DEF LaunchInv
<1>2. Busy(c) /\ Op(c) = o BY DEF At
<1>3. c = 0
  <2>1. ASSUME c # 0 PROVE FALSE
    <3>1. c = 1 BY <2>1 DEF Core
    <3>2. Op(1) \notin LaunchOps BY <1>2, <3>1, OneNeverLaunches
    <3> QED BY <1>2, <3>1, <3>2 DEF LaunchOps, InLaunch
  <2> QED BY <2>1
<1>4. During(code[0])
  <2>1. code[0] # <<>> /\ Head(code[0]) \in InLaunch BY <1>2, <1>3 DEF Op, Busy
  <2>2. ~(code[0] \in Seq(Work) \/ Before(code[0])) BY <2>1, CalmText
  <2>3. code[0] \in Seq(QuietWork) \/ code[0] \in Seq(ClosedWork) => code[0] \in Seq(Work) BY WorkSeqs
  <2> QED BY <1>1, <2>2, <2>3 DEF Launcher
<1> QED BY <1>1, <1>3, <1>4, LaunchIsClosed

\* In a launch, no further one is to come.
LEMMA DuringLast ==
  ASSUME NEW s, During(s)
  PROVE  "launch" \notin Range(s)
<1> DEFINE S == Operation \ {"launch"}
<1>1. PICK r \in Seq(Work) : s \in {Stacking(r), Entering(r), Ringing(r), Polling(r)} BY DEF During
<1>2. Work \subseteq S BY DEF Work, LaunchOps
<1>3. {"boot_stack", "boot_entry", "msi_launch", "boot_poll"} \subseteq S BY LaunchOperations
<1>4. "launch" \notin S OBVIOUS
<1> HIDE DEF S
<1>5. r \in Seq(S) BY <1>2, SeqMonotonic
<1>6. /\ __astrarv32_smp_boot \in Seq(S) /\ <<"boot_entry", "msi_launch", "boot_poll">> \in Seq(S)
      /\ <<"msi_launch", "boot_poll">> \in Seq(S) /\ <<"boot_poll">> \in Seq(S)
  BY <1>3 DEF __astrarv32_smp_boot
<1>7. Stacking(r) \in Seq(S) BY <1>5, <1>6, JoinKinds DEF Stacking
<1>8. Entering(r) \in Seq(S) BY <1>5, <1>6, JoinKinds DEF Entering
<1>9. Ringing(r) \in Seq(S) BY <1>5, <1>6, JoinKinds DEF Ringing
<1>10. Polling(r) \in Seq(S) BY <1>5, <1>6, JoinKinds DEF Polling
<1>11. s \in Seq(S) BY <1>1, <1>7, <1>8, <1>9, <1>10
<1> QED BY <1>4, <1>11 DEF Range

\* How core 0 gets on in the second stage of a launch, or into it.
AtSecond == At(0, "boot_stack") \/ At(0, "boot_entry") \/ (At(0, "msi_launch") /\ bus.id # 0)

\* It comes from the first stage, or from the access before.
LEMMA SecondTurn ==
  ASSUME LaunchInv, Turning(0), AtSecond', launch'.stage = 2, program = "rte"
  PROVE  \/ launch.stage = 2 /\ AtSecond
         \/ Answer(0) /\ Asked(0, "boot_poll") /\ bus.data = 0 /\ launch.stage = 1
<1>1. Clints /\ Types /\ Results /\ Launcher BY DEF LaunchInv
<1>2. 0 \in Core BY DEF Core
<1>3. code'[0] # <<>> /\ Head(code'[0]) \in {"boot_stack", "boot_entry", "msi_launch"} BY DEF AtSecond, At, Busy, Op
<1>4. ~(code'[0] \in Seq(Work)) /\ ~Before(code'[0]) BY <1>3, CalmText DEF InLaunch
<1>5. ASSUME code[0] \in Seq(Work) PROVE FALSE
  <2>1. ClosedWork \subseteq Work /\ Work \subseteq Work BY WorkOps
  <2>2. Answer(0) => code'[0] \in Seq(Work) BY <1>1, <1>2, <1>5, <2>1, AnswerWorkText
  <2>3. Inside(0) => code'[0] \in Seq(Work) BY <1>1, <1>2, <1>5, <2>1, InsideWorkText
  <2>4. ASSUME Trap(0) PROVE code'[0] \in Seq(Work)
    <3>1. hart[0].mtvec # "wakeup" BY <1>1 DEF Launcher
    <3>2. PICK i \in {"MTI", "MSI"} : code'[0] = Handler(lut[i]) \o code[0] BY <1>1, <1>2, <2>4, <3>1, TrapFrame
    <3>3. Handler(lut[i]) \in Seq(Work) BY <1>1, LutNames
    <3> QED BY <1>5, <3>2, <3>3, JoinKinds
  <2> QED BY <1>4, <2>2, <2>3, <2>4 DEF Turning
<1>6. Before(code[0]) \/ During(code[0])
  <2>1. code[0] \in Seq(QuietWork) \/ code[0] \in Seq(ClosedWork) => code[0] \in Seq(Work) BY WorkSeqs
  <2> QED BY <1>1, <1>5, <2>1 DEF Launcher
<1>7. ~hart[0].on BY <1>1, <1>6, LaunchIsClosed
<1>8. Answer(0) \/ Inside(0) BY <1>7 DEF Turning, Trap
<1>9. CASE Before(code[0])
  <2>1. /\ code[0] # <<>>
        /\ \/ Op(0) \in Setting /\ Before(Rest(0))
           \/ Op(0) = "launch"
    BY <1>9, BeforeText DEF Op, Rest
  <2>2. CASE Answer(0)
    <3>1. Op(0) \in AccessOps BY <1>1, <1>2, <2>2, AnswerFrame
    <3>2. "launch" \notin AccessOps BY DEF AccessOps
    <3>3. code' = [code EXCEPT ![0] = Rest(0)] BY <1>1, <2>1, <2>2, <3>1, <3>2, AnswerPlain
    <3>4. code'[0] = Rest(0) BY <1>1, <1>2, <3>3 DEF Types
    <3> QED BY <1>4, <2>1, <3>1, <3>2, <3>4
  <2>3. CASE Inside(0)
    <3>1. CASE Op(0) = "launch"
      <4>1. launch'.stage = 1 BY <2>3, <3>1 DEF Inside
      <4> QED BY <4>1
    <3>2. CASE Op(0) \in Setting /\ Before(Rest(0))
      <4>1. Op(0) \notin {"ecall", "main_entry"} BY <3>2 DEF Setting
      <4>2. code'[0] = <<"exit">> \/ code'[0] = Rest(0) BY <1>2, <2>3, <4>1, InsideMoves
      <4>3. <<"exit">> \in Seq(Work) BY ExitText
      <4> QED BY <1>4, <3>2, <4>2, <4>3
    <3> QED BY <2>1, <3>1, <3>2
  <2> QED BY <1>8, <2>2, <2>3
<1>10. CASE During(code[0])
  <2>1. PICK r \in Seq(Work) :
              \/ Op(0) = "boot_stack" /\ Rest(0) = Entering(r)
              \/ Op(0) = "boot_entry" /\ Rest(0) = Ringing(r)
              \/ Op(0) = "msi_launch" /\ Rest(0) = Polling(r)
              \/ Op(0) = "boot_poll" /\ Rest(0) = r
    BY <1>10, DuringText DEF Op, Rest
  <2>2. Busy(0) BY <1>10, DuringText DEF Busy
  <2>3. ~Inside(0)
    <3>1. Inside(0) => Op(0) \in Internal BY DEF Inside
    <3>2. {"boot_stack", "boot_entry", "msi_launch", "boot_poll"} \cap Internal = {} BY DEF Internal
    <3> QED BY <2>1, <3>1, <3>2
  <2>4. Answer(0) /\ bus.id = 0 BY <1>8, <2>3 DEF Answer
  <2>5. CASE Op(0) \in {"boot_stack", "boot_entry", "msi_launch"}
    <3>1. code' = [code EXCEPT ![0] = Rest(0)] /\ launch' = launch BY <1>1, <2>4, <2>5, AnswerPlain
    <3>2. code'[0] = Rest(0) BY <1>1, <1>2, <3>1 DEF Types
    <3>3. Op(0) # "msi_launch"
      <4>1. Head(Polling(r)) = "boot_poll"
        <5>1. Polling(r) = Cons("boot_poll", r) /\ r \in Text BY LaunchText
        <5>2. "boot_poll" \in Operation BY LaunchOperations
        <5> QED BY <5>1, <5>2, ConsFacts
      <4> QED BY <1>3, <2>1, <3>2, <4>1
    <3> QED BY <2>2, <2>5, <3>1, <3>3 DEF AtSecond, At
  <2>6. CASE Op(0) = "boot_poll"
    <3>1. Polled(bus.data) BY <1>1, <2>4, <2>6, AnswerPoll
    <3>2. Rest(0) = r BY <2>1, <2>6
    <3>3. ASSUME NEW t, code' = [code EXCEPT ![0] = t] PROVE code'[0] = t BY <1>1, <1>2, <3>3 DEF Types
    <3>4. bus.data = 0
      <4>1. ASSUME bus.data # 0 PROVE FALSE
        <5>1. code' = code \/ code' = [code EXCEPT ![0] = <<"exit">>] BY <3>1, <4>1 DEF Polled
        <5>2. CASE code' = code BY <1>3, <2>6, <5>2 DEF Op
        <5>3. CASE code' = [code EXCEPT ![0] = <<"exit">>]
          <6>1. code'[0] = <<"exit">> BY <3>3, <5>3
          <6>2. <<"exit">> \in Seq(Work) BY ExitText
          <6> QED BY <1>4, <6>1, <6>2
        <5> QED BY <5>1, <5>2, <5>3
      <4> QED BY <4>1
    <3>5. launch.stage = 1
      <4>1. ASSUME launch.stage # 1 PROVE FALSE
        <5>1. code' = [code EXCEPT ![0] = Rest(0)] BY <3>1, <3>4, <4>1 DEF Polled, Done
        <5>2. code'[0] = r BY <3>2, <3>3, <5>1
        <5> QED BY <1>4, <5>2
      <4> QED BY <4>1
    <3> QED BY <2>2, <2>4, <2>6, <3>4, <3>5 DEF Asked, At
  <2> QED BY <2>1, <2>5, <2>6
<1> QED BY <1>6, <1>9, <1>10

\* The clock program runs on core 0 alone.
Sleeps == program = "clock" => Asleep /\ mswi[1] = 0
\* Core 1 has set no alarm before it is started.
Unset == Asleep \/ Awake => alarm[1] = {0}
\* Core 1 is not started in the first stage of a launch; nor before it is rung for
\* in the second one, when its request in the compare register is complete.
Unstarted ==
  /\ mtimecmp[1].hi # main_core1 /\ boot.entry # main_core1
  /\ Asked(1, "wake_entry") => bus.data # main_core1
  /\ Asleep \/ Awake
NotYet ==
  program = "rte" =>
    /\ "launch" \in Range(code[0]) => launch.stage = 1
    /\ launch.stage = 1 => Unstarted
    /\ launch.stage = 2 /\ AtSecond => mswi[1] = 0 /\ (Asleep \/ Acked) /\ boot.entry # main_core1

\* The clock program leaves core 1 asleep.
LEMMA SleepsStep ==
  ASSUME LaunchInv, Timed, Shape, Orders, Sleeps, NEW c \in Core, Step(c)
  PROVE  Sleeps'
<1>1. Clints /\ Types /\ Results /\ Launcher /\ Launching BY DEF LaunchInv
<1>2. program' = program
  <2>1. Strobe(c) => program' = program BY StrobeStep
  <2>2. Turning(c) => program' = program BY TurnedStep
  <2> QED BY <2>1, <2>2 DEF Step, Turning
<1>3. SUFFICES ASSUME program = "clock" PROVE Asleep' /\ mswi'[1] = 0 BY <1>2 DEF Sleeps
<1>4. Asleep /\ mswi[1] = 0 BY <1>3 DEF Sleeps
<1>5. c = 0
  <2>1. ~Step(1) BY <1>1, <1>4, AsleepRests
  <2> QED BY <2>1 DEF Core
<1>6. 1 - c = 1 BY <1>5
<1>7. CASE Strobe(c)
  <2>1. UNCHANGED <<code, hart>> /\ Clock(Write(c, Op(c))) /\ Busy(c) /\ Op(c) \in AccessOps BY <1>7, StrobeStep
  <2>2. code[0] \in Seq(QuietWork)
    <3>1. launch.rc # 0 BY <1>1, <1>4, Phases DEF Launching
    <3>2. ClosedWork \subseteq QuietWork BY WorkOps
    <3>3. Seq(ClosedWork) \subseteq Seq(QuietWork) BY <3>2, SeqMonotonic
    <3> QED BY <1>1, <1>3, <3>1, <3>3 DEF Launcher
  <2>3. Op(0) \in QuietWork BY <1>5, <2>1, <2>2 DEF Op, Busy
  <2>4. AccessOps \cap Internal = {} BY DEF AccessOps, Internal
  <2>5. Own(0, Write(0, Op(0))) BY <1>5, <2>1, <2>3, <2>4, OwnAccess
  <2>6. SameOne BY <1>1, <1>5, <2>1, <2>5, ClockOwn
  <2> QED BY <1>4, <2>1, <2>6 DEF Asleep, SameOne
<1>8. CASE Turning(c)
  <2>1. code'[1] = code[1] /\ hart'[1] = hart[1] BY <1>6, <1>8, TurnedStep
  <2>2. mswi' = mswi
    <3>1. Answer(c) => mswi' = mswi BY <1>1, AnswerFrame
    <3>2. Inside(c) => mswi' = mswi BY <1>1, InsideFrame
    <3>3. Trap(c) => mswi' = mswi BY <1>1, TrapFrame
    <3> QED BY <1>8, <3>1, <3>2, <3>3 DEF Turning
  <2> QED BY <1>4, <2>1, <2>2 DEF Asleep
<1> QED BY <1>7, <1>8 DEF Step, Turning

\* Core 1 leaves its compare time alone until it is started.
LEMMA UnsetStep ==
  ASSUME LaunchInv, Timed, Shape, Slots, Orders, Unset, NEW c \in Core, Step(c)
  PROVE  Unset'
<1>1. Clints /\ Types /\ Results /\ Sleeper BY DEF LaunchInv
<1>2. SUFFICES ASSUME Asleep' \/ Awake' PROVE alarm'[1] = {0} BY DEF Unset
<1>3. CASE c = 0
  <2>1. 1 - c = 1 BY <1>3
  <2>2. alarm'[1] = alarm[1]
    <3>1. Strobe(c) => alarm' = alarm BY StrobeStep
    <3>2. Answer(c) => alarm'[1 - c] = alarm[1 - c] BY AnswerStep
    <3>3. Inside(c) => alarm'[1 - c] = alarm[1 - c] BY InsideStep
    <3>4. Trap(c) => alarm' = alarm BY DEF Trap
    <3> QED BY <2>1, <3>1, <3>2, <3>3, <3>4 DEF Step
  <2>3. code'[1] = code[1] /\ hart'[1] = hart[1]
    <3>1. Strobe(c) => code' = code /\ hart' = hart BY StrobeStep
    <3>2. Turning(c) => code'[1] = code[1] /\ hart'[1] = hart[1] BY <2>1, TurnedStep
    <3> QED BY <3>1, <3>2 DEF Step, Turning
  <2>4. Asleep \/ Awake BY <1>2, <2>3 DEF Asleep, Awake
  <2> QED BY <2>2, <2>4 DEF Unset
<1>4. CASE c = 1
  <2>1. ~Started
    <3>1. Started => Started' BY <1>4, StartedStays
    <3> QED BY <1>2, <3>1, PhasesNext
  <2>2. Asleep \/ Awake BY <1>1, <2>1 DEF Sleeper
  <2>3. Busy(1) => Op(1) \in WakeOps
    <3>1. Asleep => ~Busy(1) BY DEF Asleep, Busy
    <3> QED BY <2>2, <3>1, AwakeText
  <2>4. Busy(1) => Op(1) \notin {"cmp_lo", "cmp_begin"} BY <2>3 DEF WakeOps
  <2>5. alarm'[1] = alarm[1]
    <3>1. Strobe(c) => alarm' = alarm BY StrobeStep
    <3>2. Answer(c) => Busy(1) BY <1>1, <1>4, AnswerFrame
    <3>3. Answer(c) => alarm'[1] = alarm[1] BY <1>4, <2>4, <3>2, AnswerStep
    <3>4. Inside(c) => Busy(1) BY <1>4 DEF Inside
    <3>5. Inside(c) => alarm'[1] = alarm[1] BY <1>4, <2>4, <3>4, InsideStep
    <3>6. Trap(c) => alarm' = alarm BY DEF Trap
    <3> QED BY <3>1, <3>3, <3>5, <3>6 DEF Step
  <2> QED BY <2>2, <2>5 DEF Unset
<1> QED BY <1>3, <1>4 DEF Core

\* What a step but a strobe leaves in the registers of the CLINT.
LEMMA TurningRegs ==
  ASSUME LaunchInv, NEW c \in Core, Turning(c)
  PROVE  /\ mtimecmp' = mtimecmp /\ mswi' = mswi /\ Clock(NoWrite)
         /\ \/ Answer(c) /\ bus.id = c /\ bus' = Idle
            \/ ~Answer(c) /\ bus.id # c /\ bus' = bus /\ boot' = boot
<1>1. Clints /\ Types /\ Results BY DEF LaunchInv
<1>2. CASE Answer(c)
  <2>1. mtimecmp' = mtimecmp /\ mswi' = mswi /\ bus.id = c /\ bus' = Idle BY <1>1, <1>2, AnswerFrame
  <2>2. Clock(NoWrite) BY <1>2 DEF Answer
  <2> QED BY <1>2, <2>1, <2>2
<1>3. CASE Inside(c)
  <2>1. mtimecmp' = mtimecmp /\ mswi' = mswi /\ bus.id # c /\ bus' = bus /\ boot' = boot BY <1>1, <1>3, InsideFrame
  <2>2. Clock(NoWrite) BY <1>3 DEF Inside
  <2>3. ~Answer(c) BY <2>1 DEF Answer
  <2> QED BY <2>1, <2>2, <2>3
<1>4. CASE Trap(c)
  <2>1. mtimecmp' = mtimecmp /\ mswi' = mswi /\ bus.id # c /\ bus' = bus /\ boot' = boot BY <1>1, <1>4, TrapFrame
  <2>2. Clock(NoWrite) BY <1>4 DEF Trap
  <2>3. ~Answer(c) BY <2>1 DEF Answer
  <2> QED BY <2>1, <2>2, <2>3
<1> QED BY <1>2, <1>3, <1>4 DEF Turning

\* Core 0 gets on with the launch.
LEMMA NotYetZero ==
  ASSUME LaunchInv, Timed, Shape, Orders, NotYet, Turning(0), program = "rte"
  PROVE  NotYet'
<1>1. Clints /\ Types /\ Results /\ Launcher /\ Launching /\ Sleeper BY DEF LaunchInv
<1>2. 0 \in Core /\ 1 - 0 = 1 BY DEF Core
<1>3. /\ Turned(0) /\ code'[1] = code[1] /\ hart'[1] = hart[1] /\ program' = program
      /\ code[0] \in Text /\ Ordered(code[0])
  BY <1>2, TurnedStep
<1>4. mtimecmp' = mtimecmp /\ mswi' = mswi BY <1>2, TurningRegs
<1>5. boot' = boot /\ (bus'.id = 1 <=> bus.id = 1) /\ (bus.id = 1 => bus' = bus)
  <2>1. CASE Answer(0)
    <3>1. bus.id = 0 /\ bus' = Idle BY <1>1, <1>2, <2>1, AnswerFrame
    <3>2. Busy(0) /\ Op(0) \notin WakeOps
      <4>1. Busy(0) BY <1>1, <1>2, <2>1, AnswerFrame
      <4>2. Before(code[0]) \/ code[0] \in Seq(Work) => Op(0) \notin WakeOps BY <4>1, CalmText DEF Op, Busy
      <4>3. During(code[0]) => Op(0) \notin WakeOps BY DuringText DEF Op, WakeOps
      <4>4. code[0] \in Seq(QuietWork) \/ code[0] \in Seq(ClosedWork) => code[0] \in Seq(Work) BY WorkSeqs
      <4> QED BY <1>1, <4>1, <4>2, <4>3, <4>4 DEF Launcher
    <3>3. boot' = boot BY <2>1, <3>2 DEF Answer, WakeOps
    <3> QED BY <3>1, <3>3 DEF Idle
  <2>2. CASE ~Answer(0)
    <3>1. bus.id # 0 /\ bus' = bus /\ boot' = boot BY <1>2, <2>2, TurningRegs
    <3> QED BY <3>1
  <2> QED BY <2>1, <2>2
<1>6. /\ (Asleep' <=> Asleep) /\ (Awake' <=> Awake) /\ (Acked' <=> Acked)
      /\ (Asked(1, "wake_entry")' <=> Asked(1, "wake_entry"))
  BY <1>3, <1>5, OtherOne
<1>7. Unstarted => Unstarted'
  <2>1. ASSUME Unstarted, Asked(1, "wake_entry")' PROVE bus'.data # main_core1
    <3>1. Asked(1, "wake_entry") /\ bus.id = 1 BY <1>6, <2>1 DEF Asked
    <3> QED BY <1>5, <2>1, <3>1 DEF Unstarted
  <2>2. main_core1' = main_core1 BY DEF main_core1
  <2> QED BY <1>4, <1>5, <1>6, <2>1, <2>2 DEF Unstarted
<1>8. \/ launch'.stage = launch.stage
      \/ Busy(0) /\ Op(0) = "launch" /\ launch'.stage = 1
      \/ Answer(0) /\ At(0, "boot_poll")
  <2>1. CASE At(0, "boot_poll") /\ Answer(0) BY <2>1
  <2>2. CASE Answer(0) /\ ~At(0, "boot_poll")
    <3>1. Busy(0) BY <1>1, <1>2, <2>2, AnswerFrame
    <3>2. launch' = launch BY <2>2, <3>1 DEF Answer, At
    <3> QED BY <3>2
  <2>3. CASE Inside(0) BY <2>3 DEF Inside
  <2>4. CASE Trap(0) BY <2>4 DEF Trap
  <2> QED BY <2>1, <2>2, <2>3, <2>4 DEF Turning
<1>9. Busy(0) /\ Op(0) = "launch" => "launch" \in Range(code[0]) BY <1>2, <1>3, OrderedNow
<1>10. launch.stage \in {1, 2} BY <1>1 DEF Types
<1>11. At(0, "boot_poll") => "launch" \notin Range(code[0])
  <2>1. At(0, "boot_poll") => During(code[0]) BY <1>2, BootNow DEF InLaunch
  <2> QED BY <2>1, DuringLast
<1>12. "launch" \in Range(code'[0]) => launch'.stage = 1
  <2>1. "launch" \in Range(code'[0]) => "launch" \in Range(code[0]) BY <1>2, <1>3, TurnedNext
  <2> QED BY <1>8, <1>11, <2>1 DEF NotYet
<1>13. launch'.stage = 1 => Unstarted'
  <2>1. ASSUME launch'.stage = 1 PROVE launch.stage = 1
    <3>1. CASE launch'.stage = launch.stage BY <2>1, <3>1
    <3>2. CASE Busy(0) /\ Op(0) = "launch" BY <1>9, <3>2 DEF NotYet
    <3>3. CASE Answer(0) /\ At(0, "boot_poll")
      <4>1. Polled(bus.data) BY <1>1, <3>3, AnswerPoll DEF At
      <4>2. launch'.stage = 2 \/ launch'.stage = launch.stage
        <5>1. launch = [stage |-> launch.stage, polls |-> launch.polls, rc |-> launch.rc, tries |-> launch.tries]
          BY <1>1 DEF Types
        <5>2. \/ launch' = [launch EXCEPT !.stage = 2, !.polls = 0, !.rc = IF launch.stage = 1 THEN -3 ELSE 0]
              \/ launch' = [launch EXCEPT !.polls = @ + 1]
              \/ launch' = [launch EXCEPT !.rc = -2]
          BY <4>1 DEF Polled
        <5> QED BY <5>1, <5>2
      <4> QED BY <2>1, <4>2
    <3> QED BY <1>8, <3>1, <3>2, <3>3
  <2> QED BY <1>7, <2>1 DEF NotYet
<1>14. ASSUME launch'.stage = 2, AtSecond' PROVE mswi'[1] = 0 /\ (Asleep' \/ Acked') /\ boot'.entry # main_core1
  <2>1. CASE launch.stage = 2 /\ AtSecond BY <1>4, <1>5, <1>6, <2>1 DEF NotYet
  <2>2. CASE Asked(0, "boot_poll") /\ bus.data = 0 /\ launch.stage = 1
    <3>1. mswi[1] = 0 BY <1>1, <2>2 DEF Launching
    <3>2. Unstarted BY <2>2 DEF NotYet
    <3>3. Awake => Acked BY <1>1, <3>1 DEF Sleeper
    <3> QED BY <1>4, <1>5, <1>6, <3>1, <3>2, <3>3 DEF Unstarted
  <2> QED BY <1>14, <2>1, <2>2, SecondTurn
<1>15. main_core1' = main_core1 BY DEF main_core1
<1> QED BY <1>3, <1>12, <1>13, <1>14, <1>15 DEF NotYet, Range

\* Core 0 starts an access of the launch.
LEMMA NotYetStrobe ==
  ASSUME LaunchInv, Shape, NotYet, Strobe(0), program = "rte"
  PROVE  NotYet'
<1>1. 0 \in Core /\ 1 - 0 = 1 BY DEF Core
<1>2. /\ bus.id = 2 /\ bus'.id = 0 /\ UNCHANGED <<program, code, hart, launch, boot>>
  BY <1>1, StrobeStep
<1>3. /\ (Asleep' <=> Asleep) /\ (Awake' <=> Awake) /\ (Acked' <=> Acked)
      /\ \A o : (Asked(1, o)' <=> Asked(1, o))
  BY <1>2, OtherOne
<1>4. \A o : ~Asked(1, o) BY <1>2 DEF Asked
<1>5. launch.stage = 1 => mtimecmp'[1].hi = mtimecmp[1].hi \/ mtimecmp'[1].hi = crt0_entry
  <2>1. 1 \in Core BY DEF Core
  <2>2. Op(0) \notin CompareOps \cup BootWords => mtimecmp'[1].hi = mtimecmp[1].hi BY <1>1, <2>1, StrobeRegs
  <2>3. Op(0) \in CompareOps => mtimecmp'[1].hi = mtimecmp[1].hi BY <1>1, StrobeRegs
  <2>4. Op(0) \in BootWords => mtimecmp'[1].hi = IF Op(0) = "boot_entry"
                                THEN (IF launch.stage = 1 THEN crt0_entry ELSE main_core1) ELSE mtimecmp[1].hi
    BY <1>1, StrobeRegs
  <2> QED BY <2>2, <2>3, <2>4
<1>6. crt0_entry # main_core1 /\ main_core1' = main_core1 BY DEF crt0_entry, main_core1
<1>7. launch'.stage = 1 => Unstarted'
  <2>1. ASSUME launch.stage = 1 PROVE Unstarted'
    <3>1. Unstarted BY <2>1 DEF NotYet
    <3> QED BY <1>2, <1>3, <1>4, <1>5, <1>6, <2>1, <3>1 DEF Unstarted
  <2> QED BY <1>2, <2>1
<1>8. ASSUME AtSecond' PROVE AtSecond /\ mswi'[1] = mswi[1]
  <2>1. At(0, "boot_stack") \/ At(0, "boot_entry") BY <1>2, <1>8 DEF AtSecond, At, Busy, Op
  <2>2. Op(0) \notin Bells BY <2>1 DEF At, Bells
  <2>3. mswi'[1] = mswi[1] BY <1>1, <2>2, StrobeRegs
  <2> QED BY <2>1, <2>3 DEF AtSecond
<1>9. launch'.stage = 2 /\ AtSecond' => mswi'[1] = 0 /\ (Asleep' \/ Acked') /\ boot'.entry # main_core1
  BY <1>2, <1>3, <1>8 DEF NotYet
<1> QED BY <1>2, <1>6, <1>7, <1>9 DEF NotYet, Range

\* Core 1 wakes up, and goes back to sleep.
LEMMA NotYetOne ==
  ASSUME LaunchInv, Timed, Shape, Orders, NotYet, Step(1), program = "rte"
  PROVE  NotYet'
<1>1. Clints /\ Types /\ Results /\ Sleeper BY DEF LaunchInv
<1>2. 1 \in Core /\ 1 - 1 = 0 BY DEF Core
<1>3. /\ code'[0] = code[0] /\ program' = program /\ launch' = launch
      /\ (bus'.id = 0 <=> bus.id = 0)
  <2>1. Strobe(1) => code' = code /\ program' = program /\ bus.id = 2 /\ bus'.id = 1 BY <1>2, StrobeStep
  <2>2. Turning(1) => code'[0] = code[0] /\ program' = program BY <1>2, TurnedStep
  <2>3. Turning(1) => (bus'.id = 0 <=> bus.id = 0) BY <1>2, TurningRegs DEF Idle
  <2>4. launch' = launch
    <3>1. 1 = 0 => Op(0) \notin LaunchOps OBVIOUS
    <3> QED BY <1>2, <3>1, LaunchStays DEF Step
  <2> QED BY <2>1, <2>2, <2>3, <2>4 DEF Step, Turning
<1>4. /\ \A o : (At(0, o)' <=> At(0, o))
  BY <1>3, OtherZero
<1>5. AtSecond' <=> AtSecond BY <1>3, <1>4 DEF AtSecond
<1>6. crt0_entry # main_core1 /\ main_core1' = main_core1 BY DEF crt0_entry, main_core1
<1>7. Awake => /\ Busy(1) /\ Op(1) \in WakeOps /\ ~hart[1].on
               /\ Op(1) = "wake_sp" => Rest(1) = <<"wake_entry", "wake_ack", "main_entry">>
               /\ Op(1) = "wake_entry" => Rest(1) = <<"wake_ack", "main_entry">>
               /\ Op(1) = "wake_ack" => Rest(1) = <<"main_entry">>
  BY AwakeText DEF Awake
<1>8. Asleep => ~Busy(1) BY DEF Asleep, Busy
<1>9. "main_entry" \in Internal /\ {"wake_sp", "wake_entry", "wake_ack"} \cap Internal = {} BY DEF Internal
<1>10. ASSUME Awake, Inside(1), boot.entry # main_core1
       PROVE  Asleep' /\ UNCHANGED <<boot, mswi, mtimecmp>>
  <2>1. Op(1) \in Internal /\ UNCHANGED <<boot, mswi, mtimecmp>> BY <1>1, <1>2, <1>10, InsideFrame
  <2>2. Op(1) = "main_entry" BY <1>7, <1>9, <1>10, <2>1 DEF WakeOps
  <2> QED BY <1>10, <2>1, <2>2, EntryInside
<1>11. ASSUME Unstarted PROVE Unstarted'
  <2>1. Asleep \/ Awake BY <1>11 DEF Unstarted
  <2>2. CASE Strobe(1)
    <3>1. /\ bus' = [id |-> 1, data |-> Read(Access(1, Op(1)))] /\ Busy(1)
          /\ UNCHANGED <<code, hart, boot>>
      BY <1>2, <2>2, StrobeStep
    <3>2. Awake /\ Op(1) \in WakeOps BY <1>7, <1>8, <2>1, <3>1
    <3>3. Op(1) \notin CompareOps \cup BootWords BY <3>2 DEF WakeOps, CompareOps, BootWords
    <3>4. mtimecmp'[1].hi = mtimecmp[1].hi BY <1>2, <2>2, <3>3, StrobeRegs
    <3>5. Asked(1, "wake_entry")' => bus'.data = mtimecmp[1].hi
      <4>1. Asked(1, "wake_entry")' => Op(1) = "wake_entry" BY <3>1 DEF Asked, At, Op
      <4>2. Read(Access(1, "wake_entry")) = mtimecmp[1].hi BY <1>1, <1>2, TimerReads
      <4> QED BY <3>1, <4>1, <4>2
    <3>6. Awake' BY <3>1, <3>2 DEF Awake
    <3> QED BY <1>6, <1>11, <3>1, <3>4, <3>5, <3>6 DEF Unstarted
  <2>3. CASE Answer(1)
    <3>1. /\ bus.id = 1 /\ bus' = Idle /\ Busy(1) /\ Op(1) \in AccessOps /\ UNCHANGED <<hart, mtimecmp>>
          /\ Op(1) \notin {"lock_sc", "unlock_sc"} => response([data |-> bus.data]).data = bus.data
      BY <1>1, <1>2, <2>3, AnswerFrame
    <3>2. Awake /\ Op(1) \in WakeOps BY <1>7, <1>8, <2>1, <3>1
    <3>3. Op(1) \in {"wake_sp", "wake_entry", "wake_ack"}
      <4>1. "main_entry" \notin AccessOps BY DEF AccessOps
      <4> QED BY <3>1, <3>2, <4>1 DEF WakeOps
    <3>4. code'[1] = Rest(1) BY <1>2, <2>3, <3>3, AnswerExact
    <3>5. Waking(code'[1]) BY <1>7, <3>2, <3>3, <3>4 DEF Waking
    <3>6. Awake'
      <4>1. ~hart[1].on /\ hart[1].mtvec = "panic" BY <3>2 DEF Awake
      <4> QED BY <3>1, <3>5, <4>1 DEF Awake, Waking, __crt0_smp_wakeup
    <3>7. boot'.entry # main_core1
      <4> DEFINE data == response([data |-> bus.data]).data
      <4>1. boot' = CASE Op(1) = "wake_sp"    -> [boot EXCEPT !.sp = data]
                      [] Op(1) = "wake_entry" -> [boot EXCEPT !.entry = data]
                      [] OTHER -> boot
        BY <2>3 DEF Answer
      <4>2. Op(1) = "wake_entry" => data = bus.data BY <3>1
      <4> HIDE DEF data
      <4>3. boot = [sp |-> boot.sp, entry |-> boot.entry] BY <1>1 DEF Types
      <4>4. Op(1) = "wake_entry" => bus.data # main_core1 BY <1>11, <3>1 DEF Unstarted, Asked, At
      <4>5. boot'.entry = IF Op(1) = "wake_entry" THEN data ELSE boot.entry BY <4>1, <4>3
      <4> QED BY <1>11, <4>2, <4>4, <4>5 DEF Unstarted
    <3>8. ~Asked(1, "wake_entry")' BY <3>1 DEF Asked, Idle
    <3> QED BY <1>6, <1>11, <3>1, <3>6, <3>7, <3>8 DEF Unstarted
  <2>4. CASE Inside(1)
    <3>1. Awake BY <1>8, <2>1, <2>4 DEF Inside
    <3>2. Asleep' /\ UNCHANGED <<boot, mswi, mtimecmp>> BY <1>10, <1>11, <2>4, <3>1 DEF Unstarted
    <3>3. ~Asked(1, "wake_entry")' BY <3>2 DEF Asked, At, Busy, Asleep
    <3> QED BY <1>6, <1>11, <3>2, <3>3 DEF Unstarted
  <2>5. CASE Trap(1)
    <3>1. bus.id # 1 /\ hart[1].on /\ UNCHANGED <<bus, boot>> /\ mtimecmp' = mtimecmp BY <1>1, <1>2, <2>5, TrapFrame
    <3>2. Asleep BY <1>7, <2>1, <3>1
    <3>3. hart[1].mtvec = "wakeup" BY <3>2 DEF Asleep, __crt0_smp_setup
    <3>4. code'[1] = __crt0_smp_wakeup /\ hart'[1].mtvec = "panic" /\ ~hart'[1].on BY <1>1, <1>2, <2>5, <3>3, TrapFrame
    <3>5. Awake' BY <3>4 DEF Awake, Waking, __crt0_smp_wakeup
    <3>6. ~Asked(1, "wake_entry")' BY <3>1 DEF Asked
    <3> QED BY <1>6, <1>11, <3>1, <3>5, <3>6 DEF Unstarted
  <2> QED BY <2>2, <2>3, <2>4, <2>5 DEF Step
<1>12. ASSUME launch.stage = 2, AtSecond PROVE mswi'[1] = 0 /\ (Asleep' \/ Acked') /\ boot'.entry # main_core1
  <2>1. mswi[1] = 0 /\ (Asleep \/ Acked) /\ boot.entry # main_core1 BY <1>12 DEF NotYet
  <2>2. Acked /\ Awake
    <3>1. ~Asleep BY <1>1, <2>1, AsleepRests
    <3> QED BY <2>1, <3>1 DEF Acked
  <2>3. At(1, "main_entry") \/ Asked(1, "wake_ack") BY <2>2 DEF Acked
  <2>4. ~Strobe(1)
    <3>1. Strobe(1) => bus.id = 2 /\ Op(1) \notin Internal BY DEF Strobe, BusFree, Idle
    <3> QED BY <1>9, <2>3, <3>1 DEF Asked, At
  <2>5. ~Trap(1) BY <1>7, <2>2 DEF Trap
  <2>6. CASE Answer(1)
    <3>1. bus.id = 1 /\ bus' = Idle /\ Op(1) \in AccessOps /\ UNCHANGED hart /\ mswi' = mswi BY <1>1, <1>2, <2>6, AnswerFrame
    <3>2. "main_entry" \notin AccessOps BY DEF AccessOps
    <3>3. Op(1) = "wake_ack" BY <2>3, <3>1, <3>2 DEF Asked, At
    <3>4. code'[1] = <<"main_entry">> BY <1>2, <1>7, <2>2, <2>6, <3>3, AnswerExact
    <3>5. boot' = boot BY <2>6, <3>3 DEF Answer
    <3>6. Awake' /\ At(1, "main_entry")'
      <4>1. ~hart[1].on /\ hart[1].mtvec = "panic" BY <2>2 DEF Awake
      <4>2. Awake' BY <3>1, <3>4, <4>1 DEF Awake, Waking
      <4>3. <<"main_entry">> # <<>> /\ Head(<<"main_entry">>) = "main_entry" OBVIOUS
      <4> QED BY <3>4, <4>2, <4>3 DEF At, Busy, Op
    <3> QED BY <1>6, <2>1, <3>1, <3>5, <3>6 DEF Acked
  <2>7. CASE Inside(1)
    <3>1. Asleep' /\ UNCHANGED <<boot, mswi, mtimecmp>> BY <1>10, <2>1, <2>2, <2>7
    <3> QED BY <1>6, <2>1, <3>1
  <2> QED BY <2>4, <2>5, <2>6, <2>7 DEF Step
<1>13. launch'.stage = 2 /\ AtSecond' => mswi'[1] = 0 /\ (Asleep' \/ Acked') /\ boot'.entry # main_core1
  BY <1>3, <1>5, <1>12
<1>14. launch'.stage = 1 => Unstarted' BY <1>3, <1>11 DEF NotYet
<1>15. "launch" \in Range(code'[0]) => launch'.stage = 1 BY <1>3 DEF NotYet
<1> QED BY <1>3, <1>6, <1>13, <1>14, <1>15 DEF NotYet, Range

\* Only core 0 sets the time, before it has set an alarm, read the time, or
\* launched core 1.
TimeToSet == Range(code[0]) \cap TimeOps # {}
NoneLeft == Range(code[1]) \cap TimeOps = {}
Fresh ==
  TimeToSet => /\ \A c \in Core : alarm[c] = {0} /\ loc[c].time = 0 /\ began[c] = 0
               /\ Asleep /\ mswi[1] = 0

\* While the time is to be set, core 0 is at that.
LEMMA PresetNow ==
  ASSUME LaunchInv, Orders, TimeToSet
  PROVE  Busy(0) /\ Op(0) \in Presets
<1>1. Types /\ 0 \in Core BY DEF LaunchInv, Core
<1>2. code[0] \in Text /\ Ordered(code[0]) BY <1>1 DEF Types, Orders
<1>3. Busy(0) BY EmptyFacts DEF TimeToSet, Busy
<1>4. Range(code[0]) = {Op(0)} \cup Range(Rest(0)) /\ Fits(Op(0), Rest(0)) BY <1>1, <1>2, <1>3, OrderedNow
<1>5. Op(0) \notin Presets => Range(Rest(0)) \cap TimeOps = {} BY <1>4 DEF Fits
<1>6. TimeOps \subseteq Presets BY TimerOps
<1> QED BY <1>3, <1>4, <1>5, <1>6 DEF TimeToSet

\* It stays so: until the time is set, core 1 sleeps.
LEMMA FreshStep ==
  ASSUME LaunchInv, Timed, Shape, Slots, Orders, Fresh, NoneLeft, NEW c \in Core, Step(c)
  PROVE  Fresh' /\ NoneLeft'
<1>1. Clints /\ Types /\ Results BY DEF LaunchInv
<1>2. Strobe(c) => UNCHANGED <<code, hart, loc, alarm>> BY StrobeStep
<1>3. Turning(c) => /\ Turned(c) /\ code'[1 - c] = code[1 - c] /\ hart'[1 - c] = hart[1 - c]
                    /\ code[c] \in Text /\ Ordered(code[c]) /\ (Trap(c) => ~Busy(c))
  BY TurnedStep
<1>4. Turning(c) => (Range(code'[c]) \cap TimeOps # {} => Range(code[c]) \cap TimeOps # {}) BY <1>3, TurnedNext
<1>5. \A d \in Core : Range(code'[d]) \cap TimeOps # {} => Range(code[d]) \cap TimeOps # {}
  <2>1. \A d \in Core : d = c \/ d = 1 - c BY OtherCore
  <2> QED BY <1>2, <1>3, <1>4, <2>1 DEF Step, Turning
<1>6. Range(code'[1]) \cap TimeOps = {} BY <1>5 DEF NoneLeft, Core
<1>7. NoneLeft' BY <1>6 DEF NoneLeft, Range
<1>8. SUFFICES ASSUME Range(code'[0]) \cap TimeOps # {}
               PROVE  /\ \A d \in Core : alarm'[d] = {0} /\ loc'[d].time = 0 /\ began'[d] = 0
                      /\ Asleep' /\ mswi'[1] = 0
  BY <1>7 DEF Fresh, TimeToSet, Range
<1>9. TimeToSet BY <1>5, <1>8 DEF TimeToSet, Core
<1>10. /\ \A d \in Core : alarm[d] = {0} /\ loc[d].time = 0 /\ began[d] = 0
       /\ Asleep /\ mswi[1] = 0
  BY <1>9 DEF Fresh
<1>11. c = 0
  <2>1. ~Step(1) BY <1>1, <1>10, AsleepRests
  <2> QED BY <2>1 DEF Core
<1>12. 1 - c = 1 /\ 0 \in Core /\ 1 \in Core BY <1>11 DEF Core
<1>13. Busy(0) /\ Op(0) \in Presets BY <1>9, PresetNow
<1>14. Op(0) \notin {"cmp_begin", "cmp_lo", "get_hi", "get_lo", "cmp_get_hi"} BY <1>13 DEF Presets, TimeOps
<1>15. hart'[1] = hart[1] /\ code'[1] = code[1] BY <1>2, <1>3, <1>12 DEF Step, Turning
<1>16. Asleep' BY <1>10, <1>15 DEF Asleep
<1>17. mswi'[1] = 0
  <2>1. CASE Strobe(c)
    <3>1. Op(0) \notin Bells BY <1>13 DEF Presets, TimeOps, Bells
    <3> QED BY <1>10, <1>11, <1>12, <2>1, <3>1, StrobeRegs
  <2>2. CASE Turning(c) BY <1>10, <2>2, TurningRegs
  <2> QED BY <2>1, <2>2 DEF Step, Turning
<1>18. \A d \in Core : alarm'[d] = {0} /\ loc'[d].time = 0 /\ began'[d] = 0
  <2>1. SUFFICES /\ alarm'[c] = {0} /\ loc'[c].time = 0 /\ began'[c] = 0
                 /\ alarm'[1 - c] = {0} /\ loc'[1 - c].time = 0 /\ began'[1 - c] = 0
    BY OtherCore
  <2>6. /\ alarm[c] = {0} /\ loc[c].time = 0 /\ began[c] = 0
        /\ alarm[1 - c] = {0} /\ loc[1 - c].time = 0 /\ began[1 - c] = 0
    BY <1>10, <1>11, <1>12
  <2>7. Op(c) \notin {"cmp_begin", "cmp_lo", "get_hi", "get_lo", "cmp_get_hi"} BY <1>11, <1>14
  <2>2. CASE Strobe(c)
    <3>1. loc' = loc /\ alarm' = alarm /\ began'[1 - c] = began[1 - c] /\ began'[c] = began[c]
      BY <2>2, <2>7, StrobeStep
    <3> QED BY <2>6, <3>1
  <2>3. CASE Answer(c)
    <3>1. /\ began'[c] = began[c] /\ began'[1 - c] = began[1 - c] /\ loc'[1 - c] = loc[1 - c] /\ loc'[c].time = loc[c].time
          /\ alarm'[c] = alarm[c] /\ alarm'[1 - c] = alarm[1 - c]
      BY <2>3, <2>7, AnswerStep
    <3> QED BY <2>6, <3>1
  <2>4. CASE Inside(c)
    <3>1. /\ began' = began /\ loc'[1 - c] = loc[1 - c] /\ loc'[c].time = loc[c].time
          /\ alarm'[c] = alarm[c] /\ alarm'[1 - c] = alarm[1 - c]
      BY <2>4, <2>7, InsideStep
    <3> QED BY <2>6, <3>1
  <2>5. CASE Trap(c) BY <1>3, <1>11, <1>13, <2>5 DEF Turning
  <2> QED BY <2>2, <2>3, <2>4, <2>5 DEF Step
<1> QED BY <1>16, <1>17, <1>18

\* The words of a request are written while core 1 has not been started.
LEMMA BootUnset ==
  ASSUME LaunchInv, Timed, NotYet, NEW c \in Core, Busy(c), Op(c) \in BootWords
  PROVE  c = 0 /\ (Asleep \/ Awake)
<1>1. PICK o \in InLaunch : At(c, o) /\ o \in BootWords
  <2>1. BootWords \subseteq InLaunch BY DEF BootWords, InLaunch
  <2> QED BY <2>1 DEF At
<1>2. c = 0 /\ program = "rte" BY <1>1, BootNow DEF Timed
<1>3. AtSecond BY <1>1, <1>2 DEF AtSecond, BootWords
<1>4. launch.stage \in {1, 2} BY DEF LaunchInv, Types
<1>5. Unstarted \/ (Asleep \/ Acked) BY <1>2, <1>3, <1>4 DEF NotYet
<1> QED BY <1>2, <1>5 DEF Unstarted, Acked

-----------------------------------------------------------------------------
\* The registers stay numbers in a clock that does not write the time.
LEMMA NumbersKept ==
  ASSUME Numbers, NEW w, Clock(w), w.reg # "mtime",
         \A h \in Hart : mtimecmp'[h].lo \in 0 .. Half - 1 /\ mtimecmp'[h].hi \in Nat
  PROVE  Numbers'
<1>1. /\ mtime' = [lo |-> mtime'.lo, hi |-> mtime'.hi, carry |-> mtime'.carry]
      /\ mtime'.lo \in 0 .. Half - 1 /\ mtime'.hi \in Nat /\ mtime'.carry \in {0, 1}
  BY ClockOn
<1> QED BY <1>1 DEF Numbers

\* They stay so when half of the time is written.
LEMMA NumbersSet ==
  ASSUME Numbers, NEW w, Clock(w), mtimecmp' = mtimecmp, w.half \in {"lo", "hi"},
         w.half = "lo" => w.data \in 0 .. Half - 1, w.half = "hi" => w.data \in Nat
  PROVE  Numbers'
<1> DEFINE run == program = "clock" \/ (program = "rte" /\ launch.rc = 0)
           inc == IF run /\ Time < MaxTime THEN 1 ELSE 0
           n == mtime.lo + inc
           h == mtime.hi + mtime.carry
<1>1. inc \in {0, 1} OBVIOUS
<1>2. mtime' = [lo |-> IF w.reg = "mtime" /\ w.half = "lo" THEN w.data ELSE Low(n), carry |-> High(n),
                hi |-> IF w.reg = "mtime" /\ w.half = "hi" THEN w.data ELSE h]
  BY DEF Clock, ClintClock, counter_core
<1> HIDE DEF inc
<1>3. n \in 0 .. Half /\ Half \in Nat \ {0, 1} /\ h \in Nat
  BY <1>1, ClintAssumption DEF Numbers
<1>4. /\ High(n) = IF n = Half THEN 1 ELSE 0
      /\ Low(n) = IF n = Half THEN 0 ELSE n
  BY <1>3, CountedUp
<1> HIDE DEF n, h
<1>5. Low(n) \in 0 .. Half - 1 /\ High(n) \in {0, 1} BY <1>3, <1>4
<1>6. /\ mtime'.lo = IF w.reg = "mtime" /\ w.half = "lo" THEN w.data ELSE Low(n)
      /\ mtime'.hi = IF w.reg = "mtime" /\ w.half = "hi" THEN w.data ELSE h
      /\ mtime'.carry = High(n) /\ mtime' = [lo |-> mtime'.lo, hi |-> mtime'.hi, carry |-> mtime'.carry]
  BY <1>2
<1>7. mtime'.lo \in 0 .. Half - 1 /\ mtime'.hi \in Nat /\ mtime'.carry \in {0, 1} BY <1>3, <1>5, <1>6
<1> QED BY <1>6, <1>7 DEF Numbers

\* The registers after a step.
LEMMA NumbersStep ==
  ASSUME LaunchInv, Shape, Numbers, NEW c \in Core, loc[c].target \in Nat, Step(c)
  PROVE  Numbers'
<1> DEFINE t == loc[c].target
<1>1. High(t) \in Nat /\ Low(t) \in 0 .. Half - 1 BY Halves
<1> HIDE DEF t
<1>2. Core = Hart /\ \A d \in Core : d = c \/ d = 1 - c BY OtherCore DEF Core, Hart
<1>3. Half \in Nat \ {0, 1} BY ClintAssumption
<1>4. \A h \in Hart : mtimecmp[h].lo \in 0 .. Half - 1 /\ mtimecmp[h].hi \in Nat BY DEF Numbers
<1>5. CASE Turning(c)
  <2>1. mtimecmp' = mtimecmp /\ Clock(NoWrite) BY <1>5, TurningRegs
  <2>2. NoWrite.reg # "mtime" BY DEF NoWrite
  <2> QED BY <1>4, <2>1, <2>2, NumbersKept
<1>6. CASE Strobe(c)
  <2> DEFINE w == Write(c, Op(c))
  <2>1. Clock(w) BY <1>6, StrobeStep
  <2>2. CASE Op(c) \in TimeOps
    <3>1. \/ w = Put("mtime", 0, "lo", 0) \/ w = Put("mtime", 0, "hi", High(t)) \/ w = Put("mtime", 0, "lo", Low(t))
      BY <2>2, TimerWrites DEF TimeOps, t
    <3> HIDE DEF w
    <3>2. w.reg = "mtime" /\ w.half \in {"lo", "hi"} /\ (w.half = "lo" => w.data \in 0 .. Half - 1)
          /\ (w.half = "hi" => w.data \in Nat)
      BY <1>1, <1>3, <3>1 DEF Put
    <3>3. mtimecmp' = mtimecmp BY <2>1, <3>2 DEF Clock, ClintClock, write_access
    <3> QED BY <2>1, <3>2, <3>3, NumbersSet
  <2>3. CASE Op(c) \notin TimeOps
    <3>1. w.reg # "mtime" BY <1>6, <2>3, StrobeRegs
    <3> HIDE DEF w
    <3>2. CASE Op(c) \in CompareOps
      <4>1. /\ mtimecmp'[1 - c].lo = mtimecmp[1 - c].lo /\ mtimecmp'[1 - c].hi = mtimecmp[1 - c].hi
            /\ mtimecmp'[c].lo \in {Half - 1, Low(t), mtimecmp[c].lo}
            /\ mtimecmp'[c].hi \in {High(t), mtimecmp[c].hi}
        BY <1>6, <3>2, StrobeRegs DEF t
      <4>2. Half - 1 \in 0 .. Half - 1 BY <1>3
      <4>3. \A h \in Hart : mtimecmp'[h].lo \in 0 .. Half - 1 /\ mtimecmp'[h].hi \in Nat
        BY <1>1, <1>2, <1>4, <4>1, <4>2
      <4> QED BY <2>1, <3>1, <4>3, NumbersKept
    <3>3. CASE Op(c) \in BootWords
      <4>1. /\ mtimecmp'[0].lo = mtimecmp[0].lo /\ mtimecmp'[0].hi = mtimecmp[0].hi
            /\ mtimecmp'[1].lo \in {StackTop, mtimecmp[1].lo}
            /\ mtimecmp'[1].hi \in {crt0_entry, main_core1, mtimecmp[1].hi}
        BY <1>6, <3>3, StrobeRegs
      <4>2. StackTop \in 0 .. Half - 1 /\ crt0_entry \in Nat /\ main_core1 \in Nat
        BY <1>3 DEF StackTop, crt0_entry, main_core1
      <4>3. \A h \in Hart : mtimecmp'[h].lo \in 0 .. Half - 1 /\ mtimecmp'[h].hi \in Nat
        BY <1>4, <4>1, <4>2 DEF Hart
      <4> QED BY <2>1, <3>1, <4>3, NumbersKept
    <3>4. CASE Op(c) \notin CompareOps \cup BootWords
      <4>1. \A h \in Core : mtimecmp'[h].lo = mtimecmp[h].lo /\ mtimecmp'[h].hi = mtimecmp[h].hi
        BY <1>6, <3>4, StrobeRegs
      <4>2. \A h \in Hart : mtimecmp'[h].lo \in 0 .. Half - 1 /\ mtimecmp'[h].hi \in Nat
        BY <1>2, <1>4, <4>1
      <4> QED BY <2>1, <3>1, <4>2, NumbersKept
    <3> QED BY <3>2, <3>3, <3>4
  <2> QED BY <2>2, <2>3
<1> QED BY <1>5, <1>6 DEF Step, Turning

-----------------------------------------------------------------------------
\* The compare time, and whether an announced one has been reached.
Value(c) == mtimecmp[c].hi * Half + mtimecmp[c].lo
Reached(c) == \E t \in alarm[c] : Time >= t
\* The comparison, made in two clocks, and the interrupt come only after an
\* announced compare time; that in the register is no earlier.
Sound(c) ==
  /\ \E t \in alarm[c] : Value(c) >= t
  /\ mti[c] => Reached(c)
  /\ Due(c) => Reached(c)

\* Time is always after zero.
LEMMA SoundZero ==
  ASSUME Numbers, NEW c \in Core, alarm[c] = {0}
  PROVE  Sound(c)
<1>1. Time \in Nat BY TimeNat
<1>2. Core = Hart BY DEF Core, Hart
<1>3. mtimecmp[c].hi \in Nat /\ mtimecmp[c].lo \in Nat /\ Half \in Nat BY <1>2, ClintAssumption DEF Numbers
<1>4. Value(c) \in Nat BY <1>3 DEF Value
<1>5. Reached(c) BY <1>1 DEF Reached
<1>6. \E t \in alarm[c] : Value(c) >= t BY <1>4
<1> QED BY <1>5, <1>6 DEF Sound

\* A clock that does not set the time: the comparison of the lower halves made
\* before counts with the upper half compared now.
LEMMA SoundNext ==
  ASSUME Numbers, NEW w, Clock(w), w.reg # "mtime", NEW c \in Core, alarm'[c] \subseteq Nat,
         mtimecmp'[c].hi \in Nat,
         \E t \in alarm'[c] : Value(c)' >= t,
         \E t \in alarm'[c] : mtimecmp'[c].hi * Half + mtimecmp[c].lo >= t,
         Due(c) => \E t \in alarm'[c] : Time >= t
  PROVE  Sound(c)'
<1>1. Time \in Nat /\ Time' \in Nat /\ Time <= Time' /\ mtime'.hi = mtime.hi + mtime.carry BY ClockOn
<1>2. mti'[c] <=> Due(c) BY DueNow
<1>3. ASSUME \E t \in alarm'[c] : Time >= t PROVE Reached(c)'
  <2>1. PICK t \in alarm'[c] : Time >= t BY <1>3
  <2>2. t \in Nat OBVIOUS
  <2>3. Time' >= t BY <1>1, <2>1, <2>2
  <2> QED BY <2>3 DEF Reached
<1>4. ASSUME Due(c)' PROVE \E t \in alarm'[c] : Time >= t
  <2> DEFINE v == mtimecmp'[c].hi * Half + mtimecmp[c].lo
  <2>1. Time >= v BY <1>1, <1>4, DueThen
  <2>2. PICK t \in alarm'[c] : v >= t OBVIOUS
  <2>3. v \in Nat
    <3>1. Core = Hart BY DEF Core, Hart
    <3>2. mtimecmp[c].lo \in Nat /\ Half \in Nat BY <3>1, ClintAssumption DEF Numbers
    <3> QED BY <3>2
  <2> HIDE DEF v
  <2>4. t \in Nat OBVIOUS
  <2>5. Time >= t BY <1>1, <2>1, <2>2, <2>3, <2>4
  <2> QED BY <2>5
<1> QED BY <1>2, <1>3, <1>4 DEF Sound

\* Nothing of the core's own is changed.
LEMMA SoundStays ==
  ASSUME Numbers, NEW w, Clock(w), w.reg # "mtime", NEW c \in Core, alarm[c] \subseteq Nat, alarm'[c] = alarm[c],
         mtimecmp'[c].hi = mtimecmp[c].hi, mtimecmp'[c].lo = mtimecmp[c].lo, Sound(c)
  PROVE  Sound(c)'
<1>1. Core = Hart BY DEF Core, Hart
<1>2. mtimecmp[c].hi \in Nat BY <1>1 DEF Numbers
<1>3. PICK t \in alarm[c] : Value(c) >= t BY DEF Sound
<1>4. Value(c)' >= t /\ mtimecmp'[c].hi * Half + mtimecmp[c].lo >= t BY <1>3 DEF Value
<1>5. Due(c) => \E x \in alarm'[c] : Time >= x BY DEF Sound, Reached
<1> QED BY <1>2, <1>4, <1>5, SoundNext

-----------------------------------------------------------------------------
\* How far the compare time to set is written: it is announced first; then the
\* lower half is kept out of reach, and the upper half written before the lower.
Compared(c) ==
  LET g == loc[c].target
      m == mtimecmp[c]
  IN  /\ g \in Nat
      /\ At(c, "cmp_lo1") \/ At(c, "cmp_hi") \/ At(c, "cmp_lo") => g \in alarm[c]
      /\ Asked(c, "cmp_lo1") \/ At(c, "cmp_hi") \/ (At(c, "cmp_lo") /\ bus.id # c) => m.lo = Half - 1
      /\ Asked(c, "cmp_hi") \/ At(c, "cmp_lo") => m.hi = High(g) /\ (Due(c) => Time >= g)
      /\ Asked(c, "cmp_lo") => m.lo = Low(g)

\* The operations of the routine that writes the compare time.
Comparing(c) == At(c, "cmp_lo1") \/ At(c, "cmp_hi") \/ At(c, "cmp_lo")

\* Elsewhere only the time to set is to be known.
LEMMA ComparedIdle ==
  ASSUME NEW c \in Core, ~Comparing(c), loc[c].target \in Nat
  PROVE  Compared(c)
  BY DEF Compared, Comparing, Asked

\* With the lower half out of reach no number with that upper half is later.
LEMMA OutOfReach ==
  ASSUME NEW g \in Nat
  PROVE  /\ High(g) * Half + (Half - 1) >= g /\ High(g) * Half + Low(g) = g
         /\ High(g) * Half \in Nat /\ Half - 1 \in Nat
<1>1. High(g) \in Nat /\ Low(g) \in 0 .. Half - 1 /\ g = High(g) * Half + Low(g) BY Halves
<1>2. Half \in Nat \ {0, 1} BY ClintAssumption
<1> DEFINE h == High(g) * Half
           l == Low(g)
<1>3. h \in Nat BY <1>1, <1>2
<1>4. l \in 0 .. Half - 1 /\ g = h + l BY <1>1
<1> HIDE DEF h, l
<1>5. h + (Half - 1) >= g /\ h + l = g /\ Half - 1 \in Nat BY <1>2, <1>3, <1>4
<1> QED BY <1>3, <1>5 DEF h, l

\* While the upper half of the compare time is the one to set and the lower half
\* that or out of reach, the comparison comes only after the time to set.
LEMMA LateEnough ==
  ASSUME Numbers, NEW w, Clock(w), w.reg # "mtime", NEW c \in Core, NEW g \in Nat,
         mtimecmp'[c].hi = High(g), mtimecmp[c].lo \in {Low(g), Half - 1}
  PROVE  Due(c)' => Time' >= g /\ Time >= g
<1>1. Time \in Nat /\ Time' \in Nat /\ Time <= Time' /\ mtime'.hi = mtime.hi + mtime.carry BY ClockOn
<1> DEFINE v == High(g) * Half + mtimecmp[c].lo
<1>2. High(g) \in Nat BY Halves
<1>3. ASSUME Due(c)' PROVE Time >= v BY <1>1, <1>2, <1>3, DueThen
<1>4. v \in Nat /\ v >= g
  <2>1. /\ High(g) * Half + (Half - 1) >= g /\ High(g) * Half + Low(g) = g
        /\ High(g) * Half \in Nat /\ Half - 1 \in Nat
    BY OutOfReach
  <2>2. CASE mtimecmp[c].lo = Low(g) BY <2>1, <2>2
  <2>3. CASE mtimecmp[c].lo = Half - 1
    <3> DEFINE h == High(g) * Half
               k == Half - 1
    <3>1. h + k >= g /\ h \in Nat /\ k \in Nat /\ v = h + k BY <2>1, <2>3
    <3> HIDE DEF h, k, v
    <3> QED BY <3>1
  <2> QED BY <2>2, <2>3
<1> HIDE DEF v
<1> QED BY <1>1, <1>3, <1>4

\* Nothing of the core's own is changed.
LEMMA ComparedStays ==
  ASSUME Numbers, NEW w, Clock(w), w.reg # "mtime", NEW c \in Core, Compared(c), code'[c] = code[c],
         loc'[c].target = loc[c].target, alarm'[c] = alarm[c], bus'.id = c <=> bus.id = c,
         mtimecmp'[c].hi = mtimecmp[c].hi, mtimecmp'[c].lo = mtimecmp[c].lo
  PROVE  Compared(c)'
<1> DEFINE g == loc[c].target
           m == mtimecmp[c]
<1>1. \A o : (At(c, o)' <=> At(c, o)) /\ (Asked(c, o)' <=> Asked(c, o)) BY DEF At, Asked, Busy, Op
<1>2. /\ g \in Nat
      /\ At(c, "cmp_lo1") \/ At(c, "cmp_hi") \/ At(c, "cmp_lo") => g \in alarm[c]
      /\ Asked(c, "cmp_lo1") \/ At(c, "cmp_hi") \/ (At(c, "cmp_lo") /\ bus.id # c) => m.lo = Half - 1
      /\ Asked(c, "cmp_hi") \/ At(c, "cmp_lo") => m.hi = High(g)
      /\ Asked(c, "cmp_lo") => m.lo = Low(g)
  BY DEF Compared
<1>3. ASSUME Asked(c, "cmp_hi") \/ At(c, "cmp_lo") PROVE Due(c)' => Time' >= g
  <2>1. Asked(c, "cmp_hi") => At(c, "cmp_hi") BY DEF Asked
  <2>2. At(c, "cmp_lo") => bus.id # c \/ Asked(c, "cmp_lo") BY DEF Asked
  <2>3. m.lo \in {Low(g), Half - 1} /\ m.hi = High(g) BY <1>2, <1>3, <2>1, <2>2
  <2>4. mtimecmp'[c].hi = High(g) BY <2>3
  <2> QED BY <1>2, <2>3, <2>4, LateEnough
<1>4. loc'[c].target = g /\ mtimecmp'[c].lo = m.lo /\ mtimecmp'[c].hi = m.hi OBVIOUS
<1> HIDE DEF g, m
<1>5. High(g)' = High(g) /\ Low(g)' = Low(g) BY DEF g, High, Low
<1> QED BY <1>1, <1>2, <1>3, <1>4 DEF Compared, High, Low

\* What At and Asked say of a core that has started its access.
LEMMA AskedNow ==
  ASSUME NEW c \in Core, bus.id = 2, bus'.id = c, code' = code, Busy(c)
  PROVE  /\ \A o : (At(c, o)' <=> Op(c) = o) /\ (Asked(c, o)' <=> Op(c) = o) /\ ~Asked(c, o)
         /\ \A o : At(c, o) <=> Op(c) = o
         /\ bus.id # c
  BY DEF At, Asked, Busy, Op, Core

\* A core starts an access to its compare time, or another one.
LEMMA AlarmStrobe ==
  ASSUME LaunchInv, Shape, Numbers, Numbers', NEW c \in Core, Sound(c), Compared(c), Strobe(c),
         Op(c) \notin TimeOps, Op(c) \notin BootWords
  PROVE  Sound(c)' /\ Compared(c)'
<1> DEFINE w == Write(c, Op(c))
           g == loc[c].target
           m == mtimecmp[c]
           n == mtimecmp'[c]
<1>1. /\ bus.id = 2 /\ bus'.id = c /\ Busy(c) /\ Clock(w) /\ UNCHANGED <<code, loc, alarm>>
      /\ w.reg # "mtime"
  BY StrobeStep, StrobeRegs
<1>2. /\ \A o : (At(c, o)' <=> Op(c) = o) /\ (Asked(c, o)' <=> Op(c) = o) /\ ~Asked(c, o)
      /\ \A o : At(c, o) <=> Op(c) = o
      /\ bus.id # c
  BY <1>1, AskedNow
<1>3. /\ g \in Nat
      /\ Op(c) \in CompareOps => g \in alarm[c]
      /\ Op(c) \in {"cmp_hi", "cmp_lo"} => m.lo = Half - 1
      /\ Op(c) = "cmp_lo" => m.hi = High(g)
  BY <1>2 DEF Compared, CompareOps
<1>4. alarm'[c] \subseteq Nat /\ alarm'[c] = alarm[c] BY <1>1 DEF Shape
<1>5. m.hi \in Nat /\ n.hi \in Nat /\ m.lo \in 0 .. Half - 1 /\ Half \in Nat \ {0, 1}
  <2>1. Core = Hart BY DEF Core, Hart
  <2> QED BY <2>1, ClintAssumption DEF Numbers
<1>6. PICK t \in alarm[c] : Value(c) >= t BY DEF Sound
<1>7. Due(c) => \E x \in alarm'[c] : Time >= x BY <1>1 DEF Sound, Reached
<1>8. CASE Op(c) \notin CompareOps
  <2>1. n.lo = m.lo /\ n.hi = m.hi BY <1>8, StrobeRegs
  <2>2. Sound(c)'
    <3> HIDE DEF w
    <3> QED BY <1>1, <1>4, <2>1, SoundStays
  <2>3. ~Comparing(c)' BY <1>2, <1>8 DEF Comparing, CompareOps
  <2>4. Compared(c)' BY <1>1, <1>3, <2>3 DEF Compared, Comparing, Asked
  <2> QED BY <2>2, <2>4
<1>9. CASE Op(c) \in CompareOps
  <2>1. /\ n.lo = CASE Op(c) = "cmp_lo1" -> Half - 1 [] Op(c) = "cmp_lo" -> Low(g) [] OTHER -> m.lo
        /\ n.hi = IF Op(c) = "cmp_hi" THEN High(g) ELSE m.hi
    BY <1>9, StrobeRegs
  <2>2. Value(c) = m.hi * Half + m.lo /\ Value(c)' = n.hi * Half + n.lo BY DEF Value
  <2>3. /\ High(g) * Half + (Half - 1) >= g /\ High(g) * Half + Low(g) = g
        /\ High(g) * Half \in Nat /\ Half - 1 \in Nat
    BY <1>3, OutOfReach
  <2>4. Op(c) \in {"cmp_hi", "cmp_lo"} => (Due(c)' => Time' >= g)
    <3>1. Op(c) \in {"cmp_hi", "cmp_lo"} => n.hi = High(g) /\ m.lo \in {Low(g), Half - 1} BY <1>3, <2>1
    <3> HIDE DEF w
    <3> QED BY <1>1, <1>3, <3>1, LateEnough
  <2>5. \E x \in alarm'[c] : n.hi * Half + n.lo >= x
    <3>1. CASE Op(c) = "cmp_lo1"
      <4>1. n.hi = m.hi /\ n.lo = Half - 1 BY <2>1, <3>1
      <4> DEFINE h == m.hi * Half
      <4>2. h \in Nat BY <1>5
      <4>3. t \in Nat BY <1>4
      <4>4. h + m.lo >= t BY <1>6, <2>2
      <4> HIDE DEF h
      <4>5. h + (Half - 1) >= t BY <1>5, <4>2, <4>3, <4>4
      <4> QED BY <1>4, <4>1, <4>5 DEF h
    <3>2. CASE Op(c) = "cmp_hi"
      <4>1. n.hi = High(g) /\ n.lo = Half - 1 BY <1>3, <2>1, <3>2
      <4>2. g \in alarm'[c] BY <1>3, <1>4, <1>9
      <4> QED BY <2>3, <4>1, <4>2
    <3>3. CASE Op(c) = "cmp_lo"
      <4>1. n.hi = High(g) /\ n.lo = Low(g) BY <1>3, <2>1, <3>3
      <4>2. g \in alarm'[c] BY <1>3, <1>4, <1>9
      <4>3. n.hi * Half + n.lo = g BY <2>3, <4>1
      <4>4. g >= g BY <1>3
      <4> QED BY <4>2, <4>3, <4>4
    <3> QED BY <1>9, <3>1, <3>2, <3>3 DEF CompareOps
  <2>6. \E x \in alarm'[c] : n.hi * Half + m.lo >= x
    <3>1. CASE Op(c) = "cmp_lo1"
      <4>1. n.hi = m.hi BY <2>1, <3>1
      <4> QED BY <1>4, <1>6, <2>2, <4>1
    <3>2. CASE Op(c) \in {"cmp_hi", "cmp_lo"}
      <4>1. n.hi = High(g) /\ m.lo = Half - 1 BY <1>3, <2>1, <3>2
      <4>2. g \in alarm'[c] BY <1>3, <1>4, <1>9
      <4> QED BY <2>3, <4>1, <4>2
    <3> QED BY <1>9, <3>1, <3>2 DEF CompareOps
  <2>7. Sound(c)'
    <3>1. \E x \in alarm'[c] : Value(c)' >= x BY <2>2, <2>5
    <3> HIDE DEF w
    <3> QED BY <1>1, <1>4, <1>5, <1>7, <2>6, <3>1, SoundNext
  <2>8. Compared(c)'
    <3>1. loc'[c].target = g BY <1>1
    <3>2. Op(c) \in CompareOps => g \in alarm'[c] BY <1>3, <1>4
    <3>3. Op(c) \in {"cmp_lo1", "cmp_hi"} => n.lo = Half - 1 BY <1>3, <2>1
    <3>4. Op(c) \in {"cmp_hi", "cmp_lo"} => n.hi = High(g) BY <1>3, <2>1
    <3>5. Op(c) = "cmp_lo" => n.lo = Low(g) BY <2>1
    <3> QED BY <1>1, <1>2, <1>3, <2>4, <3>1, <3>2, <3>3, <3>4, <3>5 DEF Compared, CompareOps, High, Low
  <2> QED BY <2>7, <2>8
<1> QED BY <1>8, <1>9

\* A step that leads core c to a later operation of a routine ends the operation
\* before it: an answer, or the announcement of a compare time.
LEMMA TurnInner ==
  ASSUME LaunchInv, Timed, Orders, NEW c \in Core, Turning(c), NEW y \in Inner, At(c, y)'
  PROVE  /\ Busy(c) /\ code'[c] = Rest(c) /\ Follows(Op(c), y) /\ bus'.id # c
         /\ y = "cmp_lo1" => Inside(c)
         /\ y # "cmp_lo1" => Answer(c) /\ Asked(c, Op(c))
<1>1. Turned(c) /\ code[c] \in Text /\ Ordered(code[c]) /\ (Trap(c) => ~Busy(c)) BY TurnedStep
<1>2. code'[c] # <<>> /\ Head(code'[c]) = y BY DEF At, Busy, Op
<1>3. \/ Busy(c) /\ code'[c] = Rest(c) /\ Follows(Op(c), y)
      \/ Busy(c) /\ code'[c] = code[c] /\ Op(c) \in Lone
  BY <1>1, <1>2, TurnedNext
<1>4. Busy(c) /\ code'[c] = Rest(c) /\ Follows(Op(c), y)
  <2>1. code'[c] = code[c] => Op(c) = y BY <1>2 DEF Op
  <2>2. y \notin Lone BY DEF Lone
  <2> QED BY <1>3, <2>1, <2>2
<1>5. \/ Answer(c) /\ bus.id = c /\ bus' = Idle
      \/ Inside(c) /\ bus.id # c /\ bus' = bus /\ Op(c) \in Internal
  <2>1. \/ Answer(c) /\ bus.id = c /\ bus' = Idle
        \/ ~Answer(c) /\ bus.id # c /\ bus' = bus
    BY TurningRegs
  <2>2. ~Trap(c) BY <1>1, <1>4
  <2>3. Inside(c) => Op(c) \in Internal BY DEF Inside
  <2> QED BY <2>1, <2>2, <2>3 DEF Turning
<1>6. bus'.id # c BY <1>5 DEF Idle, Core
<1>7. y # "cmp_lo1" => Op(c) \notin Internal BY <1>4 DEF Follows, Inner, Internal
<1>8. y = "cmp_lo1" => ~Answer(c)
  <2>1. Answer(c) => Op(c) \in AccessOps BY AnswerTurned
  <2>2. "cmp_begin" \notin AccessOps BY DEF AccessOps
  <2> QED BY <1>4, <2>1, <2>2 DEF Follows
<1> QED BY <1>4, <1>5, <1>6, <1>7, <1>8 DEF Asked, At

\* What a step but a strobe does to the compare time to set.
LEMMA TargetStep ==
  ASSUME LaunchInv, Shape, Slots, NEW c \in Core, loc[c].target \in Nat, loc[c].time \in Nat, Turning(c)
  PROVE  /\ loc'[c].target \in Nat
         /\ ~Inside(c) => loc'[c].target = loc[c].target
         /\ Busy(c) /\ Op(c) = "cmp_begin" => loc'[c].target = loc[c].target
         /\ Inside(c) => alarm'[c] = IF Op(c) = "cmp_begin" THEN alarm[c] \cup {loc[c].target} ELSE alarm[c]
         /\ Answer(c) => alarm'[c] = IF Op(c) = "cmp_lo" THEN {loc[c].target} ELSE alarm[c]
         /\ ~Answer(c) /\ ~Inside(c) => alarm' = alarm
<1>1. Answer(c) => loc'[c].target = loc[c].target /\ alarm'[c] = IF Op(c) = "cmp_lo" THEN {loc[c].target} ELSE alarm[c]
  BY AnswerStep
<1>2. Inside(c) => /\ loc'[c].target = Target(c)
                   /\ alarm'[c] = IF Op(c) = "cmp_begin" THEN alarm[c] \cup {loc[c].target} ELSE alarm[c]
  BY InsideStep
<1>3. Trap(c) => loc' = loc /\ alarm' = alarm BY DEF Trap
<1>4. Target(c) \in Nat
  <2>1. Sec \in Nat /\ Half \in Nat BY ClintAssumption, DualCoreAssumption
  <2> DEFINE t == loc[c].time
             d == IF c = 0 THEN Sec ELSE 2 * Sec
             g == loc[c].target
  <2>2. t \in Nat /\ d \in Nat /\ g \in Nat /\ t + d \in Nat /\ t + Sec \in Nat /\ 2 * Sec \in Nat /\ Never * Half \in Nat
    BY <2>1 DEF Never
  <2>3. Target(c) \in {0, 2 * Sec, Never * Half, t + d, t + Sec, g} BY DEF Target
  <2> HIDE DEF t, d, g
  <2> QED BY <2>2, <2>3
<1>5. Op(c) = "cmp_begin" => Target(c) = loc[c].target BY DEF Target
<1>6. Busy(c) /\ Op(c) = "cmp_begin" => ~Answer(c)
  <2>1. Types /\ Clints /\ Results BY DEF LaunchInv
  <2>2. Answer(c) => Op(c) \in AccessOps BY <2>1, AnswerFrame
  <2>3. "cmp_begin" \notin AccessOps BY DEF AccessOps
  <2> QED BY <2>2, <2>3
<1>7. Inside(c) => ~Answer(c) BY DEF Inside, Answer
<1> QED BY <1>1, <1>2, <1>3, <1>4, <1>5, <1>6, <1>7 DEF Turning

\* A core goes on with a compare time.
LEMMA AlarmTurning ==
  ASSUME LaunchInv, Timed, Shape, Slots, Orders, Numbers, NEW c \in Core, Sound(c), Compared(c),
         loc[c].time \in Nat, Turning(c)
  PROVE  Sound(c)' /\ Compared(c)'
<1> DEFINE g == loc[c].target
           m == mtimecmp[c]
<1>1. mtimecmp' = mtimecmp /\ Clock(NoWrite) /\ NoWrite.reg # "mtime" BY TurningRegs DEF NoWrite
<1>2. g \in Nat BY DEF Compared
<1>3. /\ loc'[c].target \in Nat
      /\ ~Inside(c) => loc'[c].target = g
      /\ Busy(c) /\ Op(c) = "cmp_begin" => loc'[c].target = g
      /\ Inside(c) => alarm'[c] = IF Op(c) = "cmp_begin" THEN alarm[c] \cup {g} ELSE alarm[c]
      /\ Answer(c) => alarm'[c] = IF Op(c) = "cmp_lo" THEN {g} ELSE alarm[c]
      /\ ~Answer(c) /\ ~Inside(c) => alarm' = alarm
  BY <1>2, TargetStep
<1>4. Answer(c) => Asked(c, Op(c)) BY AnswerTurned DEF Asked, At
<1>5. m.hi \in Nat /\ m.lo \in Nat
  <2>1. Core = Hart BY DEF Core, Hart
  <2> QED BY <2>1, ClintAssumption DEF Numbers
<1>6. alarm[c] \subseteq Nat BY DEF Shape
<1>7. Sound(c)'
  <2>1. CASE Answer(c) /\ Op(c) = "cmp_lo"
    <3>1. m.hi = High(g) /\ m.lo = Low(g) /\ (Due(c) => Time >= g) BY <1>4, <2>1 DEF Compared, Asked
    <3>2. m.hi * Half + m.lo = g BY <1>2, <3>1, OutOfReach
    <3>3. alarm'[c] = {g} BY <1>3, <2>1
    <3>4. Value(c)' >= g /\ mtimecmp'[c].hi * Half + mtimecmp[c].lo >= g BY <1>1, <1>2, <3>2 DEF Value
    <3>5. alarm'[c] \subseteq Nat /\ mtimecmp'[c].hi \in Nat BY <1>1, <1>2, <1>5, <3>3
    <3> QED BY <1>1, <3>1, <3>3, <3>4, <3>5, SoundNext
  <2>2. CASE ~(Answer(c) /\ Op(c) = "cmp_lo")
    <3>1. alarm[c] \subseteq alarm'[c] /\ alarm'[c] \subseteq Nat BY <1>2, <1>3, <1>6, <2>2
    <3>2. PICK t \in alarm[c] : Value(c) >= t BY DEF Sound
    <3>3. Value(c)' >= t /\ mtimecmp'[c].hi * Half + mtimecmp[c].lo >= t BY <1>1, <3>2 DEF Value
    <3>4. Due(c) => \E x \in alarm'[c] : Time >= x BY <3>1 DEF Sound, Reached
    <3>5. mtimecmp'[c].hi \in Nat BY <1>1, <1>5
    <3> QED BY <1>1, <3>1, <3>2, <3>3, <3>4, <3>5, SoundNext
  <2> QED BY <2>1, <2>2
<1>8. {"cmp_lo1", "cmp_hi", "cmp_lo"} \subseteq Inner BY DEF Inner
<1>9. Compared(c)'
  <2>1. CASE ~Comparing(c)' BY <1>3, <2>1 DEF Compared, Comparing, Asked
  <2>2. CASE At(c, "cmp_lo1")'
    <3>1. Busy(c) /\ Follows(Op(c), "cmp_lo1") /\ bus'.id # c /\ Inside(c) BY <1>8, <2>2, TurnInner
    <3>2. Op(c) = "cmp_begin" BY <3>1 DEF Follows
    <3>3. loc'[c].target = g /\ g \in alarm'[c] BY <1>3, <3>1, <3>2
    <3> QED BY <1>2, <2>2, <3>1, <3>3 DEF Compared, Asked, At
  <2>3. CASE At(c, "cmp_hi")'
    <3>1. Busy(c) /\ Follows(Op(c), "cmp_hi") /\ bus'.id # c /\ Answer(c) /\ Asked(c, Op(c)) BY <1>8, <2>3, TurnInner
    <3>2. Op(c) = "cmp_lo1" BY <3>1 DEF Follows
    <3>3. m.lo = Half - 1 /\ g \in alarm[c] BY <3>1, <3>2 DEF Compared, Asked
    <3>4. loc'[c].target = g
      <4>1. ~Inside(c) BY <3>1 DEF Inside, Answer
      <4> QED BY <1>3, <4>1
    <3>5. g \in alarm'[c] BY <1>3, <3>1, <3>2, <3>3
    <3> QED BY <1>1, <1>2, <2>3, <3>1, <3>3, <3>4, <3>5 DEF Compared, Asked, At
  <2>4. CASE At(c, "cmp_lo")'
    <3>1. Busy(c) /\ Follows(Op(c), "cmp_lo") /\ bus'.id # c /\ Answer(c) /\ Asked(c, Op(c)) BY <1>8, <2>4, TurnInner
    <3>2. Op(c) = "cmp_hi" BY <3>1 DEF Follows
    <3>3. m.lo = Half - 1 /\ g \in alarm[c] /\ m.hi = High(g) BY <3>1, <3>2 DEF Compared, Asked
    <3>4. loc'[c].target = g
      <4>1. ~Inside(c) BY <3>1 DEF Inside, Answer
      <4> QED BY <1>3, <4>1
    <3>5. g \in alarm'[c] BY <1>3, <3>1, <3>2, <3>3
    <3>6. Due(c)' => Time' >= g
      <4>1. mtimecmp'[c].hi = High(g) /\ m.lo \in {Low(g), Half - 1} BY <1>1, <3>3
      <4> QED BY <1>1, <1>2, <4>1, LateEnough
    <3>7. mtimecmp'[c].lo = Half - 1 /\ mtimecmp'[c].hi = High(g) BY <1>1, <3>3
    <3> QED BY <1>2, <2>4, <3>1, <3>4, <3>5, <3>6, <3>7 DEF Compared, Asked, At, High
  <2> QED BY <2>1, <2>2, <2>3, <2>4 DEF Comparing
<1> QED BY <1>7, <1>9

-----------------------------------------------------------------------------
\* A program that has ended.
Over(c) == ~hart[c].on /\ code[c] \in {<<"exit">>, <<>>}

\* It stays so.
LEMMA OverStays ==
  ASSUME LaunchInv, Timed, Orders, NEW c \in Core, Turning(c), Over(c)
  PROVE  Over(c)'
<1>1. Clints /\ Types /\ Results BY DEF LaunchInv
<1>2. Ordered(code[c]) /\ (hart[c].on => code[c] = <<>>) BY DEF Orders
<1>3. Busy(c)
  <2>1. Answer(c) => Busy(c) BY AnswerTurned
  <2>2. Inside(c) => Busy(c) BY DEF Inside
  <2>3. Trap(c) => hart[c].on BY DEF Trap
  <2> QED BY <2>1, <2>2, <2>3 DEF Turning, Over
<1>4. code[c] = <<"exit">> BY <1>3 DEF Over, Busy
<1>5. Op(c) = "exit" /\ Rest(c) = <<>> BY <1>4 DEF Op, Rest
<1>6. Inside(c)
  <2>1. Answer(c) => Op(c) \in AccessOps BY AnswerTurned
  <2>2. "exit" \notin AccessOps BY DEF AccessOps
  <2>3. Trap(c) => ~Busy(c) BY TurnedStep
  <2> QED BY <1>3, <1>5, <2>1, <2>2, <2>3 DEF Turning
<1>7. code'[c] = <<>> BY <1>2, <1>5, <1>6, InsideTurned
<1>8. hart' = [hart EXCEPT ![c] = [on |-> FALSE, mie |-> {}, mtvec |-> "panic"]]
  BY <1>5, <1>6 DEF Inside, SetHart
<1>9. ~hart'[c].on BY <1>1, <1>8 DEF Types
<1> QED BY <1>7, <1>9 DEF Over

\* A torn read is repeated.
LEMMA ReadAgain ==
  ASSUME LaunchInv, Timed, Orders, NEW c \in Core, Answer(c), At(c, "get_hi2"), bus.data # loc[c].t
  PROVE  Awaits(code'[c])
<1>1. Clints /\ Types /\ Results BY DEF LaunchInv
<1>2. Busy(c) /\ Op(c) = "get_hi2" BY DEF At
<1>3. code[c] \in Text /\ Ordered(code[c]) BY <1>1 DEF Types, Orders
<1>4. Rest(c) \in Text /\ Ordered(Rest(c)) /\ Fits(Op(c), Rest(c)) BY <1>2, <1>3, OrderedNow
<1>5. Starts(Rest(c)) BY <1>2, <1>3, RestStarts
<1>6. Fair(Rest(c)) BY <1>2, <1>4, <1>5 DEF Fair, Fits, Presets, TimeOps
<1>7. Awaits(Then(astrarv32_clint_time_get, Rest(c))) BY <1>6, FairRead
<1> DEFINE data == response([data |-> bus.data]).data
<1>8. data = bus.data BY <1>1, <1>2, AnswerFrame
<1>9. code' = Continue(c, data) BY <1>2 DEF Answer
<1> HIDE DEF data
<1>10. code' = Again(c, astrarv32_clint_time_get) BY <1>2, <1>8, <1>9 DEF Continue
<1>11. Again(c, astrarv32_clint_time_get)[c] = astrarv32_clint_time_get \o Rest(c) BY <1>1 DEF Again, Types
<1>12. code'[c] = Then(astrarv32_clint_time_get, Rest(c)) BY <1>10, <1>11 DEF Then
<1> QED BY <1>7, <1>12

\* A read that is awaited stays so until it is made, if the program goes on.
LEMMA AwaitsTurn ==
  ASSUME LaunchInv, Timed, Orders, NEW c \in Core, Turning(c), Awaits(code[c])
  PROVE  \/ Awaits(code'[c]) \/ Over(c)'
         \/ Answer(c) /\ At(c, "get_hi2") /\ bus.data = loc[c].t
<1>1. Turned(c) /\ code[c] \in Text /\ Ordered(code[c]) /\ (Trap(c) => ~Busy(c)) BY TurnedStep
<1>2. \/ Awaits(code'[c]) \/ At(c, "get_hi2")
      \/ code'[c] = <<"exit">> /\ ~hart[c].on
  BY <1>1, TurnedNext
<1>3. CASE code'[c] = <<"exit">>
  <2>1. code'[c] # <<>> BY <1>3
  <2>2. ~hart'[c].on BY <2>1, OpenAtEnd
  <2> QED BY <1>3, <2>2 DEF Over
<1>4. CASE At(c, "get_hi2")
  <2>1. Inside(c) => Op(c) \in Internal BY DEF Inside
  <2>2. "get_hi2" \notin Internal BY DEF Internal
  <2>3. Answer(c) BY <1>1, <1>4, <2>1, <2>2 DEF At, Turning
  <2> QED BY <1>4, <2>3, ReadAgain
<1> QED BY <1>2, <1>3, <1>4

-----------------------------------------------------------------------------
\* A time the clock has shown since the read began.
Shown(c, t) == began[c] <= t /\ t <= Time

\* How far the time is read: the upper half read first was the clock's then; if it
\* still is, both halves are of one time.  What is in use is a time shown.
Reading(c) ==
  LET l == loc[c]
  IN  /\ l.time \in Nat /\ began[c] <= Time
      /\ At(c, "get_lo") \/ At(c, "get_hi2") => l.t \in Nat /\ l.t <= mtime.hi
      /\ Asked(c, "get_hi") => bus.data \in Nat /\ bus.data <= mtime.hi
      /\ Asked(c, "get_lo") => bus.data \in Nat /\ (l.t = mtime.hi => Shown(c, l.t * Half + bus.data))
      /\ At(c, "get_hi2") /\ bus.id # c => (l.t = mtime.hi => Shown(c, l.time))
      /\ Asked(c, "get_hi2") => bus.data \in Nat /\ (l.t = bus.data => Shown(c, l.time))
      /\ Asked(c, "cmp_get_lo") \/ Asked(c, "cmp_get_hi") => bus.data \in Nat
      /\ At(c, "cmp_get_hi") => l.u \in Nat
      /\ l.time = 0 \/ Shown(c, l.time) \/ Awaits(code[c]) \/ Over(c)

\* Nothing has been read yet.
LEMMA ReadingNone ==
  ASSUME Numbers, NEW c \in Core, loc[c].time = 0, began[c] = 0,
         Busy(c) => Op(c) \notin {"get_hi", "get_lo", "get_hi2", "cmp_get_lo", "cmp_get_hi"}
  PROVE  Reading(c)
<1>1. Time \in Nat BY TimeNat
<1>2. \A o \in {"get_hi", "get_lo", "get_hi2", "cmp_get_lo", "cmp_get_hi"} : ~At(c, o) BY DEF At
<1>3. began[c] <= Time BY <1>1
<1> QED BY <1>2, <1>3 DEF Reading, Asked

\* A time shown stays so, and so does the upper half of one read.
LEMMA ShownStays ==
  ASSUME Shape, Numbers, NEW w, Clock(w), w.reg # "mtime", NEW c \in Core, began'[c] = began[c]
  PROVE  /\ \A t \in Nat : Shown(c, t) => began'[c] <= t /\ t <= Time'
         /\ began[c] <= Time => began'[c] <= Time'
         /\ mtime.hi \in Nat /\ mtime'.hi \in Nat /\ mtime.hi <= mtime'.hi
<1>1. /\ Time \in Nat /\ Time' \in Nat /\ Time <= Time' /\ mtime'.hi = mtime.hi + mtime.carry
      /\ mtime.hi \in Nat /\ mtime'.hi \in Nat /\ mtime.carry \in {0, 1}
  BY ClockOn DEF Numbers
<1>2. began[c] \in Nat BY DEF Shape
<1>3. ASSUME NEW t \in Nat, Shown(c, t) PROVE began'[c] <= t /\ t <= Time' BY <1>1, <1>3 DEF Shown
<1>4. mtime.hi <= mtime'.hi BY <1>1
<1>5. began[c] <= Time => began'[c] <= Time' BY <1>1, <1>2
<1> QED BY <1>1, <1>3, <1>4, <1>5

\* Nothing of the core's own is changed.
LEMMA ReadingStays ==
  ASSUME Shape, Numbers, NEW w, Clock(w), w.reg # "mtime", NEW c \in Core, Reading(c), code'[c] = code[c],
         hart'[c] = hart[c], loc'[c] = loc[c], began'[c] = began[c], bus'.id = c <=> bus.id = c, bus.id = c => bus' = bus
  PROVE  Reading(c)'
<1> DEFINE l == loc[c]
<1>1. /\ \A t \in Nat : Shown(c, t) => began'[c] <= t /\ t <= Time'
      /\ began[c] <= Time => began'[c] <= Time'
      /\ mtime.hi \in Nat /\ mtime'.hi \in Nat /\ mtime.hi <= mtime'.hi
  BY ShownStays
<1>2. /\ \A o : (At(c, o)' <=> At(c, o)) /\ (Asked(c, o)' <=> Asked(c, o)) /\ (Asked(c, o) => At(c, o) /\ bus' = bus)
  BY DEF At, Asked, Busy, Op
<1>3. /\ l.time \in Nat /\ began[c] <= Time
      /\ At(c, "get_lo") \/ At(c, "get_hi2") => l.t \in Nat /\ l.t <= mtime.hi
      /\ Asked(c, "get_hi") => bus.data \in Nat /\ bus.data <= mtime.hi
      /\ Asked(c, "get_lo") => bus.data \in Nat /\ (l.t = mtime.hi => Shown(c, l.t * Half + bus.data))
      /\ At(c, "get_hi2") /\ bus.id # c => (l.t = mtime.hi => Shown(c, l.time))
      /\ Asked(c, "get_hi2") => bus.data \in Nat /\ (l.t = bus.data => Shown(c, l.time))
      /\ Asked(c, "cmp_get_lo") \/ Asked(c, "cmp_get_hi") => bus.data \in Nat
      /\ At(c, "cmp_get_hi") => l.u \in Nat
      /\ l.time = 0 \/ Shown(c, l.time) \/ Awaits(code[c]) \/ Over(c)
  BY DEF Reading
<1> DEFINE Still(t) == began'[c] <= t /\ t <= Time'
<1>4. At(c, "get_lo") \/ At(c, "get_hi2") => l.t \in Nat /\ l.t <= mtime'.hi
  <2>1. ASSUME l.t \in Nat, l.t <= mtime.hi PROVE l.t <= mtime'.hi BY <1>1, <2>1
  <2> QED BY <1>3, <2>1
<1>5. Asked(c, "get_hi") => bus.data \in Nat /\ bus.data <= mtime'.hi
  <2>1. ASSUME bus.data \in Nat, bus.data <= mtime.hi PROVE bus.data <= mtime'.hi BY <1>1, <2>1
  <2> QED BY <1>3, <2>1
<1>6. (At(c, "get_lo") \/ At(c, "get_hi2")) /\ l.t = mtime'.hi => l.t = mtime.hi
  <2>1. ASSUME l.t \in Nat, l.t <= mtime.hi, l.t = mtime'.hi PROVE l.t = mtime.hi BY <1>1, <2>1
  <2> QED BY <1>3, <2>1
<1>7. ASSUME Asked(c, "get_lo") PROVE bus.data \in Nat /\ (l.t = mtime'.hi => Still(l.t * Half + bus.data))
  <2>1. At(c, "get_lo") BY <1>2, <1>7
  <2>2. l.t \in Nat /\ bus.data \in Nat BY <1>3, <1>7, <2>1
  <2> DEFINE v == l.t * Half + bus.data
  <2>3. v \in Nat BY <2>2, ClintAssumption
  <2>4. l.t = mtime'.hi => Shown(c, v) BY <1>3, <1>6, <1>7, <2>1
  <2> HIDE DEF v
  <2>5. l.t = mtime'.hi => Still(v) BY <1>1, <2>3, <2>4
  <2> QED BY <2>2, <2>5 DEF v
<1>8. At(c, "get_hi2") /\ bus.id # c => (l.t = mtime'.hi => Still(l.time)) BY <1>1, <1>3, <1>6
<1>9. Asked(c, "get_hi2") => bus.data \in Nat /\ (l.t = bus.data => Still(l.time)) BY <1>1, <1>3
<1>10. l.time = 0 \/ Still(l.time) \/ Awaits(code'[c]) \/ Over(c)' BY <1>1, <1>3 DEF Over
<1>11. loc'[c] = l /\ Half' = Half OBVIOUS
<1>12. bus'.id # c <=> bus.id # c OBVIOUS
<1>13. \A o : Asked(c, o) => bus'.data = bus.data BY <1>2
<1> HIDE DEF l
<1>14. \A t : Shown(c, t)' <=> Still(t) BY DEF Shown
<1> QED BY <1>1, <1>2, <1>3, <1>4, <1>5, <1>7, <1>8, <1>9, <1>10, <1>11, <1>12, <1>13 DEF Reading, Shown

\* A core starts an access to the timer, or another one.
LEMMA ReadingStrobe ==
  ASSUME LaunchInv, Shape, Orders, Numbers, NEW c \in Core, Reading(c), Strobe(c), Op(c) \notin TimeOps
  PROVE  Reading(c)'
<1> DEFINE w == Write(c, Op(c))
           l == loc[c]
           o == Op(c)
           data == bus'.data
<1>1. /\ bus.id = 2 /\ bus'.id = c /\ data = Read(Access(c, o)) /\ Busy(c) /\ Clock(w)
      /\ UNCHANGED <<code, hart, loc>> /\ w.reg # "mtime"
      /\ began'[c] = IF o = "get_hi" THEN Time ELSE began[c]
  BY StrobeStep, StrobeRegs
<1>2. /\ \A x : (At(c, x)' <=> o = x) /\ (Asked(c, x)' <=> o = x) /\ ~Asked(c, x)
      /\ \A x : At(c, x) <=> o = x
      /\ bus.id # c
  BY <1>1, AskedNow
<1>3. /\ l.time \in Nat /\ began[c] <= Time
      /\ o \in {"get_lo", "get_hi2"} => l.t \in Nat /\ l.t <= mtime.hi
      /\ o = "get_hi2" => (l.t = mtime.hi => Shown(c, l.time))
      /\ o = "cmp_get_hi" => l.u \in Nat
      /\ l.time = 0 \/ Shown(c, l.time) \/ Awaits(code[c]) \/ Over(c)
  BY <1>2 DEF Reading
<1>4. /\ o \in {"get_hi", "get_hi2"} => data = mtime.hi
      /\ o = "get_lo" => data = mtime.lo
      /\ o = "cmp_get_lo" => data = mtimecmp[c].lo
      /\ o = "cmp_get_hi" => data = mtimecmp[c].hi
  <2>1. Types BY DEF LaunchInv
  <2> QED BY <1>1, <2>1, TimerReads
<1>5. /\ Time \in Nat /\ Time' \in Nat /\ Time <= Time' /\ mtime'.hi = mtime.hi + mtime.carry
      /\ mtime.hi \in Nat /\ mtime'.hi \in Nat /\ mtime.carry \in {0, 1} /\ mtime.lo \in Nat
      /\ mtimecmp[c].lo \in Nat /\ mtimecmp[c].hi \in Nat /\ Half \in Nat
  <2>1. Core = Hart BY DEF Core, Hart
  <2>2. /\ Time \in Nat /\ Time' \in Nat /\ Time <= Time' /\ mtime'.hi = mtime.hi + mtime.carry /\ mtime'.hi \in Nat
    <3> HIDE DEF w
    <3> QED BY <1>1, ClockOn
  <2> QED BY <2>1, <2>2, ClintAssumption DEF Numbers
<1>6. began[c] \in Nat BY DEF Shape
<1> DEFINE Still(t) == began'[c] <= t /\ t <= Time'
<1>7. began'[c] <= Time' BY <1>1, <1>3, <1>5, <1>6
<1>8. ASSUME NEW t \in Nat, Shown(c, t), o # "get_hi" PROVE Still(t) BY <1>1, <1>5, <1>6, <1>8 DEF Shown
<1>9. o \in {"get_lo", "get_hi2"} => l.t \in Nat /\ l.t <= mtime'.hi
  <2>1. ASSUME l.t \in Nat, l.t <= mtime.hi PROVE l.t <= mtime'.hi BY <1>5, <2>1
  <2> QED BY <1>3, <2>1
<1>10. o = "get_hi" => data \in Nat /\ data <= mtime'.hi BY <1>4, <1>5
<1>11. ASSUME o = "get_lo" PROVE data \in Nat /\ (l.t = mtime'.hi => Still(l.t * Half + data))
  <2>1. data = mtime.lo /\ l.t \in Nat /\ l.t <= mtime.hi BY <1>3, <1>4, <1>11
  <2>2. ASSUME l.t = mtime'.hi PROVE Still(l.t * Half + data)
    <3>1. mtime.hi + mtime.carry = l.t
      <4>1. mtime'.hi = mtime.hi + mtime.carry BY <1>5
      <4> QED BY <2>2, <4>1
    <3>2. Time = l.t * Half + data BY <2>1, <3>1 DEF Time
    <3>3. began'[c] = began[c] BY <1>1, <1>11
    <3> QED BY <1>3, <1>5, <3>2, <3>3
  <2> QED BY <1>5, <2>1, <2>2
<1>12. o = "get_hi2" => data \in Nat /\ (l.t = data => Still(l.time))
  <2>1. o = "get_hi2" => o # "get_hi" OBVIOUS
  <2> HIDE DEF Still
  <2> QED BY <1>3, <1>4, <1>5, <1>8, <2>1
<1>13. o \in {"cmp_get_lo", "cmp_get_hi"} => data \in Nat BY <1>4, <1>5
<1>14. l.time = 0 \/ Still(l.time) \/ Awaits(code'[c]) \/ Over(c)'
  <2>1. CASE o = "get_hi"
    <3>1. code[c] \in Text /\ Ordered(code[c]) BY DEF LaunchInv, Types, Orders
    <3>2. o \in ReadOps BY <2>1 DEF ReadOps
    <3>3. Awaits(code[c]) BY <1>1, <3>1, <3>2, OrderedNow
    <3> QED BY <1>1, <3>3
  <2>2. CASE o # "get_hi"
    <3>1. Shown(c, l.time) => Still(l.time)
      <4> HIDE DEF Still
      <4> QED BY <1>3, <1>8, <2>2
    <3>2. Over(c) => Over(c)' BY <1>1 DEF Over
    <3> QED BY <1>1, <1>3, <3>1, <3>2
  <2> QED BY <2>1, <2>2
<1>15. loc'[c] = l BY <1>1
<1>16. \A x : At(c, x)' => At(c, x)' /\ bus'.id = c BY <1>1
<1> HIDE DEF l, o, data
<1>17. bus'.data = data BY DEF data
<1>18. l.time \in Nat BY <1>3
<1>19. o = "cmp_get_hi" => l.u \in Nat BY <1>3
<1> QED BY <1>1, <1>2, <1>7, <1>9, <1>10, <1>11, <1>12, <1>13, <1>14, <1>15, <1>17, <1>18, <1>19
     DEF Reading, Shown

\* What a step but a strobe does to the local variables of a read.
LEMMA LocalsTurn ==
  ASSUME LaunchInv, Shape, Slots, NEW c \in Core, Turning(c)
  PROVE  /\ began' = began
         /\ ~Answer(c) => loc'[c].t = loc[c].t /\ loc'[c].u = loc[c].u /\ loc'[c].time = loc[c].time
         /\ Answer(c) => /\ Op(c) = "get_lo" => loc'[c].time = loc[c].t * Half + bus.data
                         /\ Op(c) = "cmp_get_hi" => loc'[c].time = bus.data * Half + loc[c].u
                         /\ Op(c) \notin {"get_lo", "cmp_get_hi"} => loc'[c].time = loc[c].time
                         /\ Op(c) = "get_hi" => loc'[c].t = bus.data
                         /\ Op(c) \notin {"get_hi", "arg_beg"} => loc'[c].t = loc[c].t
                         /\ Op(c) = "cmp_get_lo" => loc'[c].u = bus.data
<1>1. Trap(c) => UNCHANGED <<loc, began>> BY DEF Trap
<1>2. Inside(c) => /\ began' = began
                   /\ loc'[c].t = loc[c].t /\ loc'[c].u = loc[c].u /\ loc'[c].time = loc[c].time
  BY InsideStep
<1>3. ASSUME Answer(c)
      PROVE  /\ began' = began
             /\ loc'[c].time = CASE Op(c) = "get_lo" -> loc[c].t * Half + bus.data
                                 [] Op(c) = "cmp_get_hi" -> bus.data * Half + loc[c].u
                                 [] OTHER -> loc[c].time
             /\ loc'[c].t = IF Op(c) \in {"get_hi", "arg_beg"} THEN bus.data ELSE loc[c].t
             /\ Op(c) = "cmp_get_lo" => loc'[c].u = bus.data
  BY <1>3, AnswerStep
<1> QED BY <1>1, <1>2, <1>3 DEF Turning

\* A core goes on with a read.
LEMMA ReadingTurning ==
  ASSUME LaunchInv, Timed, Shape, Slots, Orders, Numbers, NEW c \in Core, Reading(c), Turning(c)
  PROVE  Reading(c)'
<1> DEFINE l == loc[c]
           n == loc'[c]
           Still(t) == began'[c] <= t /\ t <= Time'
<1>1. Clock(NoWrite) /\ NoWrite.reg # "mtime" /\ began'[c] = began[c] BY TurningRegs, LocalsTurn DEF NoWrite
<1>2. /\ \A t \in Nat : Shown(c, t) => Still(t)
      /\ began[c] <= Time => began'[c] <= Time'
      /\ mtime.hi \in Nat /\ mtime'.hi \in Nat /\ mtime.hi <= mtime'.hi
  BY <1>1, ShownStays
<1>3. bus'.id # c
  <2>1. bus' = Idle \/ (bus' = bus /\ bus.id # c) BY TurningRegs
  <2> QED BY <2>1 DEF Idle, Core
<1>4. \A o : ~Asked(c, o)' BY <1>3 DEF Asked
<1>5. /\ l.time \in Nat /\ began[c] <= Time
      /\ At(c, "get_lo") \/ At(c, "get_hi2") => l.t \in Nat /\ l.t <= mtime.hi
      /\ Asked(c, "get_hi") => bus.data \in Nat /\ bus.data <= mtime.hi
      /\ Asked(c, "get_lo") => bus.data \in Nat /\ (l.t = mtime.hi => Shown(c, l.t * Half + bus.data))
      /\ At(c, "get_hi2") /\ bus.id # c => (l.t = mtime.hi => Shown(c, l.time))
      /\ Asked(c, "get_hi2") => bus.data \in Nat /\ (l.t = bus.data => Shown(c, l.time))
      /\ Asked(c, "cmp_get_lo") \/ Asked(c, "cmp_get_hi") => bus.data \in Nat
      /\ At(c, "cmp_get_hi") => l.u \in Nat
      /\ l.time = 0 \/ Shown(c, l.time) \/ Awaits(code[c]) \/ Over(c)
  BY DEF Reading
<1>6. /\ ~Answer(c) => n.t = l.t /\ n.u = l.u /\ n.time = l.time
      /\ Answer(c) => /\ Op(c) = "get_lo" => n.time = l.t * Half + bus.data
                      /\ Op(c) = "cmp_get_hi" => n.time = bus.data * Half + l.u
                      /\ Op(c) \notin {"get_lo", "cmp_get_hi"} => n.time = l.time
                      /\ Op(c) = "get_hi" => n.t = bus.data
                      /\ Op(c) \notin {"get_hi", "arg_beg"} => n.t = l.t
                      /\ Op(c) = "cmp_get_lo" => n.u = bus.data
  BY LocalsTurn
<1>7. Answer(c) => Busy(c) /\ \A o : (Asked(c, o) <=> Op(c) = o) /\ (At(c, o) <=> Op(c) = o)
  <2>1. Answer(c) => Busy(c) /\ bus.id = c BY AnswerTurned
  <2> QED BY <2>1 DEF Asked, At
<1>8. {"get_lo", "get_hi2", "cmp_get_hi"} \subseteq Inner BY DEF Inner
<1>9. ASSUME At(c, "get_lo")' PROVE n.t \in Nat /\ n.t <= mtime'.hi
  <2>1. Answer(c) /\ Asked(c, Op(c)) /\ Follows(Op(c), "get_lo") BY <1>8, <1>9, TurnInner
  <2>2. Op(c) = "get_hi" BY <2>1 DEF Follows
  <2>3. n.t = bus.data /\ bus.data \in Nat /\ bus.data <= mtime.hi BY <1>5, <1>6, <2>1, <2>2
  <2> QED BY <1>2, <2>3
<1>10. ASSUME At(c, "get_hi2")' PROVE n.t \in Nat /\ n.t <= mtime'.hi /\ (n.t = mtime'.hi => Still(n.time))
  <2>1. Answer(c) /\ Asked(c, Op(c)) /\ Follows(Op(c), "get_hi2") BY <1>8, <1>10, TurnInner
  <2>2. Op(c) = "get_lo" /\ At(c, "get_lo") BY <2>1 DEF Follows, Asked
  <2> DEFINE v == l.t * Half + bus.data
  <2>3. /\ l.t \in Nat /\ l.t <= mtime.hi /\ bus.data \in Nat /\ n.t = l.t /\ n.time = v
        /\ (l.t = mtime.hi => Shown(c, v))
    BY <1>5, <1>6, <2>1, <2>2
  <2>4. v \in Nat BY <2>3, ClintAssumption
  <2> HIDE DEF v, Still
  <2>5. n.t <= mtime'.hi /\ (n.t = mtime'.hi => l.t = mtime.hi)
    <3>1. l.t \in Nat /\ l.t <= mtime.hi /\ n.t = l.t BY <2>3
    <3> HIDE DEF l, n
    <3> QED BY <1>2, <3>1
  <2>6. n.t = mtime'.hi => Still(n.time) BY <1>2, <2>3, <2>4, <2>5
  <2> QED BY <2>3, <2>5, <2>6
<1>11. ASSUME At(c, "cmp_get_hi")' PROVE n.u \in Nat
  <2>1. Answer(c) /\ Asked(c, Op(c)) /\ Follows(Op(c), "cmp_get_hi") BY <1>8, <1>11, TurnInner
  <2>2. Op(c) = "cmp_get_lo" BY <2>1 DEF Follows
  <2> QED BY <1>5, <1>6, <2>1, <2>2
<1>12. n.time \in Nat
  <2>1. CASE Answer(c) /\ Op(c) = "get_lo"
    <3>1. l.t \in Nat /\ bus.data \in Nat /\ n.time = l.t * Half + bus.data BY <1>5, <1>6, <1>7, <2>1
    <3> QED BY <3>1, ClintAssumption
  <2>2. CASE Answer(c) /\ Op(c) = "cmp_get_hi"
    <3>1. l.u \in Nat /\ bus.data \in Nat /\ n.time = bus.data * Half + l.u BY <1>5, <1>6, <1>7, <2>2
    <3> QED BY <3>1, ClintAssumption
  <2>3. CASE ~(Answer(c) /\ Op(c) \in {"get_lo", "cmp_get_hi"}) BY <1>5, <1>6, <2>3
  <2> QED BY <2>1, <2>2, <2>3
<1>13. n.time = 0 \/ Still(n.time) \/ Awaits(code'[c]) \/ Over(c)'
  <2>1. code[c] \in Text /\ Ordered(code[c]) BY DEF LaunchInv, Types, Orders
  <2>2. CASE Awaits(code[c])
    <3>1. CASE Answer(c) /\ At(c, "get_hi2") /\ bus.data = l.t
      <4>1. Op(c) = "get_hi2" /\ Asked(c, "get_hi2") BY <1>7, <3>1
      <4>2. n.time = l.time /\ Shown(c, l.time) BY <1>5, <1>6, <3>1, <4>1
      <4> HIDE DEF Still
      <4> QED BY <1>2, <1>5, <4>2
    <3>2. CASE ~(Answer(c) /\ At(c, "get_hi2") /\ bus.data = l.t) BY <2>2, <3>2, AwaitsTurn
    <3> QED BY <3>1, <3>2
  <2>3. CASE ~Awaits(code[c])
    <3>1. Answer(c) => Op(c) \notin ReadOps BY <1>7, <2>1, <2>3, OrderedNow
    <3>2. n.time = l.time BY <1>6, <3>1 DEF ReadOps
    <3>3. Over(c) => Over(c)' BY OverStays
    <3> HIDE DEF Still
    <3> QED BY <1>2, <1>5, <2>3, <3>2, <3>3
  <2> QED BY <2>2, <2>3
<1> HIDE DEF l
<1>14. began'[c] <= Time' BY <1>2, <1>5
<1> QED BY <1>3, <1>4, <1>9, <1>10, <1>11, <1>12, <1>13, <1>14 DEF Reading, Shown

-----------------------------------------------------------------------------
\* The operations that leave time and compare time alone; the programs message,
\* retry and primes consist of such.
Mute == Operation \ {"cmp_begin", "cmp_lo", "get_lo", "get_hi2", "cmp_get_hi"}
Silent ==
  \A c \in Core : /\ code[c] \in Seq(Mute) /\ alarm[c] = {0}
                  /\ loc[c].time = 0 /\ loc[c].target \in Nat

\* These programs' texts are such.
LEMMA MuteTexts ==
  /\ __astrarv32_smp_boot \in Seq(Mute) /\ __crt0_smp_wakeup \in Seq(Mute) /\ <<"exit">> \in Seq(Mute)
  /\ <<"lock_sc">> \in Seq(Mute) /\ <<"lock_lr">> \in Seq(Mute) /\ <<"unlock_lr", "unlock_sc">> \in Seq(Mute)
  /\ main_message \in Seq(Mute) /\ main_primes \in Seq(Mute)
  /\ main_core1_message \in Seq(Mute) /\ core1_entry \in Seq(Mute)
  /\ Mute \subseteq Operation /\ Seq(Mute) \subseteq Text
<1>1. {"lock_lr", "lock_sc", "lock_swap", "unlock_lr", "unlock_sc", "unlock_swap", "check_lr", "char", "boot_stack",
       "boot_entry", "msi_launch", "boot_poll", "wake_sp", "wake_entry", "wake_ack", "run_wait", "run_check", "run",
       "run_done", "arg_beg", "sum", "arg_end", "arg0", "arg1", "result"} \subseteq Mute
  BY DEF Mute, Operation, AccessOps
<1>2. {"launch", "available", "rte_setup", "main_entry", "exit"} \subseteq Mute BY DEF Mute, Operation, Internal
<1> DEFINE S == Mute
<1> HIDE DEF S
<1>3. {"lock_lr", "lock_sc", "lock_swap", "unlock_lr", "unlock_sc", "unlock_swap", "check_lr", "char", "boot_stack",
       "boot_entry", "msi_launch", "boot_poll", "wake_sp", "wake_entry", "wake_ack", "run_wait", "run_check", "run",
       "run_done", "arg_beg", "sum", "arg_end", "arg0", "arg1", "result",
       "launch", "available", "rte_setup", "main_entry", "exit"} \subseteq S
  BY <1>1, <1>2 DEF S
<1>4. __astrarv32_smp_boot \in Seq(S) BY <1>3 DEF __astrarv32_smp_boot
<1>5. __crt0_smp_wakeup \in Seq(S) BY <1>3 DEF __crt0_smp_wakeup
<1>6. /\ <<"exit">> \in Seq(S) /\ <<"lock_sc">> \in Seq(S) /\ <<"lock_lr">> \in Seq(S)
      /\ <<"unlock_lr", "unlock_sc">> \in Seq(S)
  BY <1>3
<1>7. core1_entry \in Seq(S) BY <1>3 DEF core1_entry
<1> DEFINE L == Locked(printf)
           a == <<"rte_setup", "available">>
           b == astrarv32_smp_launch
           s == spin_check
           x == <<"exit">>
           y == <<"rte_setup">>
           d == <<"arg0", "arg1", "run", "run_check", "sum", "exit">>
<1>8. a \in Seq(S) BY <1>3
<1>9. y \in Seq(S) BY <1>3
<1>10. d \in Seq(S) BY <1>3
<1>11. s \in Seq(S) BY <1>3 DEF spin_check
<1>12. b \in Seq(S)
  <2>1. <<"launch">> \in Seq(S) BY <1>3
  <2> QED BY <1>4, <2>1, JoinKinds DEF astrarv32_smp_launch
<1>13. L \in Seq(S)
  <2>2. <<"lock_swap">> \in Seq(S) /\ <<"lock_lr">> \in Seq(S) BY <1>3
  <2>3. <<"unlock_swap">> \in Seq(S) /\ <<"unlock_lr", "unlock_sc">> \in Seq(S) BY <1>3
  <2>4. spin_lock \in Seq(S) BY <2>2 DEF spin_lock
  <2>5. spin_unlock \in Seq(S) BY <2>3 DEF spin_unlock
  <2>6. printf \in Seq(S) BY <1>3 DEF printf
  <2>7. spin_lock \o printf \in Seq(S) BY <2>4, <2>6, JoinKinds
  <2>8. (spin_lock \o printf) \o spin_unlock \in Seq(S) BY <2>5, <2>7, JoinKinds
  <2> QED BY <2>8 DEF Locked
<1>14. main_message = (((a \o b) \o L) \o s) \o x BY DEF main_message
<1>15. main_core1_message = (y \o L) \o x BY DEF main_core1_message
<1>16. main_primes = (a \o b) \o d BY DEF main_primes
<1>17. x \in Seq(S) BY <1>6
<1> HIDE DEF L, a, b, s, x, y, d
<1>18. a \o b \in Seq(S) BY <1>8, <1>12, JoinKinds
<1>19. (a \o b) \o L \in Seq(S) BY <1>13, <1>18, JoinKinds
<1>20. ((a \o b) \o L) \o s \in Seq(S) BY <1>11, <1>19, JoinKinds
<1>21. main_message \in Seq(S) BY <1>14, <1>17, <1>20, JoinKinds
<1>22. main_primes \in Seq(S) BY <1>10, <1>16, <1>18, JoinKinds
<1>23. y \o L \in Seq(S) BY <1>9, <1>13, JoinKinds
<1>24. main_core1_message \in Seq(S) BY <1>15, <1>17, <1>23, JoinKinds
<1>25. Mute \subseteq Operation /\ Seq(Mute) \subseteq Text
  <2>1. Mute \subseteq Operation BY DEF Mute
  <2> QED BY <2>1, SeqMonotonic DEF Text
<1> QED BY <1>4, <1>5, <1>6, <1>7, <1>21, <1>22, <1>24, <1>25 DEF S

\* An answer leaves the time alone in such a program.
LEMMA AnswerMute ==
  ASSUME LaunchInv, NEW c \in Core, Answer(c), code[c] \in Seq(Mute)
  PROVE  code'[c] \in Seq(Mute) /\ code'[1 - c] = code[1 - c]
<1>1. Clints /\ Types /\ Results BY DEF LaunchInv
<1>2. Busy(c) /\ Op(c) \in AccessOps BY <1>1, AnswerFrame
<1>3. Op(c) \in Mute /\ Rest(c) \in Seq(Mute) BY <1>2 DEF Op, Rest, Busy
<1>4. DOMAIN code = Core BY <1>1 DEF Types
<1>5. PICK data : IF Op(c) = "boot_poll" THEN Polled(data) ELSE code' = Continue(c, data) BY DEF Answer
<1>6. Op(c) # "get_hi2" BY <1>3 DEF Mute
<1> DEFINE r == Rest(c)
           q == <<"lock_sc">> \o r
           p == <<"lock_lr">> \o r
           u == <<"unlock_lr", "unlock_sc">> \o r
           b == __astrarv32_smp_boot \o r
           x == <<"exit">>
           C == code[c]
<1>7. q \in Seq(Mute) /\ p \in Seq(Mute) /\ u \in Seq(Mute) /\ b \in Seq(Mute) /\ x \in Seq(Mute) /\ r \in Seq(Mute)
      /\ C \in Seq(Mute)
  BY <1>3, MuteTexts, JoinKinds
<1>8. ASSUME Op(c) # "boot_poll" PROVE \E t \in Seq(Mute) : code' = [code EXCEPT ![c] = t]
  <2>1. code' = Continue(c, data) BY <1>5, <1>8
  <2>2. Continue(c, data) \in {code, Done(c), Again(c, <<"lock_sc">>), Again(c, <<"lock_lr">>),
                               Again(c, <<"unlock_lr", "unlock_sc">>)}
    BY <1>6 DEF Continue
  <2>3. code = [code EXCEPT ![c] = C] BY <1>1 DEF Types
  <2>4. Done(c) = [code EXCEPT ![c] = r] BY DEF Done
  <2>5. Again(c, <<"lock_sc">>) = [code EXCEPT ![c] = q] BY DEF Again
  <2>6. Again(c, <<"lock_lr">>) = [code EXCEPT ![c] = p] BY DEF Again
  <2>7. Again(c, <<"unlock_lr", "unlock_sc">>) = [code EXCEPT ![c] = u] BY DEF Again
  <2> HIDE DEF q, p, u, r, C
  <2> QED BY <1>7, <2>1, <2>2, <2>3, <2>4, <2>5, <2>6, <2>7
<1>9. ASSUME Op(c) = "boot_poll" PROVE \E t \in Seq(Mute) : code' = [code EXCEPT ![c] = t]
  <2>1. c = 0 BY <1>2, <1>9, PollNow DEF At
  <2>2. Polled(data) BY <1>5, <1>9
  <2>3. code' \in {Again(0, __astrarv32_smp_boot), Done(0), code, Again(0, astrarv32_smp_launch),
                   [code EXCEPT ![0] = <<"exit">>]}
    BY <2>2 DEF Polled
  <2> DEFINE l == astrarv32_smp_launch \o r
  <2>4. l \in Seq(Mute)
    <3>1. "launch" \in Mute BY DEF Mute, Operation, Internal
    <3>2. <<"launch">> \in Seq(Mute) BY <3>1
    <3>3. astrarv32_smp_launch \in Seq(Mute) BY <3>2, MuteTexts, JoinKinds DEF astrarv32_smp_launch
    <3> QED BY <1>7, <3>3, JoinKinds
  <2>5. code = [code EXCEPT ![c] = C] BY <1>1 DEF Types
  <2>6. Done(0) = [code EXCEPT ![c] = r] BY <2>1 DEF Done
  <2>7. Again(0, __astrarv32_smp_boot) = [code EXCEPT ![c] = b] BY <2>1 DEF Again
  <2>8. Again(0, astrarv32_smp_launch) = [code EXCEPT ![c] = l] BY <2>1 DEF Again
  <2>9. [code EXCEPT ![0] = <<"exit">>] = [code EXCEPT ![c] = x] BY <2>1
  <2> HIDE DEF l, b, x, r, C
  <2> QED BY <1>7, <2>3, <2>4, <2>5, <2>6, <2>7, <2>8, <2>9
<1>10. PICK t \in Seq(Mute) : code' = [code EXCEPT ![c] = t] BY <1>8, <1>9
<1>11. code'[c] = t /\ code'[1 - c] = code[1 - c] BY <1>4, <1>10, EntryExcept
<1> QED BY <1>11

\* So does every other step.
LEMMA TurnMute ==
  ASSUME LaunchInv, Texts, ~Timed, NEW c \in Core, Turning(c), code[c] \in Seq(Mute)
  PROVE  code'[c] \in Seq(Mute) /\ code'[1 - c] = code[1 - c]
<1>1. Clints /\ Types /\ Results BY DEF LaunchInv
<1>2. program \in {"message", "retry", "primes"} BY <1>1 DEF Types, Timed
<1>3. /\ code[0] \in Seq(Shut) /\ code[1] \in Seq(Shut)
      /\ ~hart[0].on /\ (hart[1].on => Asleep)
  BY <1>2 DEF Texts
<1>4. CASE Answer(c) BY <1>4, AnswerMute
<1>5. CASE Inside(c)
  <2>1. /\ Busy(c) /\ code'[1 - c] = code[1 - c]
        /\ \/ Op(c) = "available" /\ code'[c] = <<"exit">>
           \/ Op(c) = "ecall" /\ code'[c] = Handler(lut.ecall) \o Rest(c)
           \/ Op(c) = "main_entry" /\ boot.entry = main_core1 /\ code'[c] = entry_point
           \/ Op(c) # "ecall" /\ (Op(c) = "main_entry" => boot.entry # main_core1) /\ code'[c] = Rest(c)
    BY <1>5, InsideMoves
  <2>2. code[c] \in Seq(Shut) BY <1>3 DEF Core
  <2>3. Op(c) # "ecall"
    <3>1. Op(c) \in Shut BY <2>1, <2>2 DEF Op, Busy
    <3> QED BY <3>1 DEF Shut
  <2>4. Rest(c) \in Seq(Mute) BY <2>1 DEF Busy, Rest
  <2>5. <<"exit">> \in Seq(Mute) /\ entry_point \in Seq(Mute)
    <3>1. entry_point \in {main_core1_message, core1_entry} BY <1>2 DEF entry_point
    <3> QED BY <3>1, MuteTexts
  <2> DEFINE x == <<"exit">>
             n == entry_point
             C == code'[c]
  <2>6. C \in {x, n, Rest(c)} BY <2>1, <2>3
  <2>7. x \in Seq(Mute) /\ n \in Seq(Mute) BY <2>5
  <2> HIDE DEF x, n, C
  <2>8. C \in Seq(Mute) BY <2>4, <2>6, <2>7
  <2> QED BY <2>1, <2>8 DEF C
<1>6. CASE Trap(c)
  <2>1. /\ hart[c].on /\ code'[1 - c] = code[1 - c]
        /\ hart[c].mtvec = "wakeup" => code'[c] = __crt0_smp_wakeup
    BY <1>1, <1>6, TrapFrame
  <2>2. c = 1 /\ Asleep BY <1>3, <2>1 DEF Core
  <2>3. hart[c].mtvec = "wakeup" BY <2>2 DEF Asleep, __crt0_smp_setup
  <2> QED BY <2>1, <2>3, MuteTexts
<1> QED BY <1>4, <1>5, <1>6 DEF Turning

\* These programs set no alarm and read no time.
LEMMA SilentStep ==
  ASSUME LaunchInv, Texts, Shape, Slots, ~Timed, Silent, NEW c \in Core, Step(c)
  PROVE  Silent'
<1>1. Clints /\ Types /\ Results BY DEF LaunchInv
<1>2. /\ code[c] \in Seq(Mute) /\ alarm[c] = {0} /\ loc[c].time = 0 /\ loc[c].target \in Nat
  BY DEF Silent
<1>3. CASE Strobe(c)
  <2>1. UNCHANGED <<code, loc, alarm>> BY <1>3, StrobeStep
  <2>2. Mute' = Mute BY DEF Mute, Operation, AccessOps, Internal
  <2> QED BY <2>1 DEF Silent
<1>4. CASE Turning(c)
  <2>1. code'[c] \in Seq(Mute) /\ code'[1 - c] = code[1 - c] BY <1>2, <1>4, TurnMute
  <2>2. Busy(c) => Op(c) \notin {"cmp_begin", "cmp_lo", "get_lo", "get_hi2", "cmp_get_hi"}
    <3>1. Busy(c) => Op(c) \in Mute BY <1>2 DEF Op, Busy
    <3> QED BY <3>1 DEF Mute
  <2>3. Answer(c) \/ Inside(c) => Busy(c)
    <3>1. Answer(c) => Busy(c) BY <1>1, AnswerFrame
    <3>2. Inside(c) => Busy(c) BY DEF Inside
    <3> QED BY <3>1, <3>2
  <2>4. loc'[c].target \in Nat /\ alarm'[c] = alarm[c]
    <3>1. /\ loc'[c].target \in Nat
          /\ Inside(c) => alarm'[c] = IF Op(c) = "cmp_begin" THEN alarm[c] \cup {loc[c].target} ELSE alarm[c]
          /\ Answer(c) => alarm'[c] = IF Op(c) = "cmp_lo" THEN {loc[c].target} ELSE alarm[c]
          /\ ~Answer(c) /\ ~Inside(c) => alarm' = alarm
      <4>1. loc[c].time \in Nat BY <1>2
      <4>2. loc[c].target \in Nat BY <1>2
      <4> QED BY <1>4, <4>1, <4>2, TargetStep
    <3> QED BY <2>2, <2>3, <3>1
  <2>5. loc'[c].time = loc[c].time BY <1>4, <2>2, <2>3, LocalsTurn
  <2>6. loc'[1 - c] = loc[1 - c] /\ alarm'[1 - c] = alarm[1 - c]
    <3>1. Answer(c) => loc'[1 - c] = loc[1 - c] /\ alarm'[1 - c] = alarm[1 - c] BY AnswerStep
    <3>2. Inside(c) => loc'[1 - c] = loc[1 - c] /\ alarm'[1 - c] = alarm[1 - c] BY InsideStep
    <3>3. Trap(c) => loc' = loc /\ alarm' = alarm BY DEF Trap
    <3> QED BY <1>4, <3>1, <3>2, <3>3 DEF Turning
  <2>7. ASSUME NEW d \in Core
        PROVE  code'[d] \in Seq(Mute) /\ alarm'[d] = {0} /\ loc'[d].time = 0 /\ loc'[d].target \in Nat
    <3>1. d = c \/ d = 1 - c BY OtherCore
    <3>2. CASE d = c BY <1>2, <2>1, <2>4, <2>5, <3>2
    <3>3. CASE d = 1 - c
      <4>1. code[d] \in Seq(Mute) /\ alarm[d] = {0} /\ loc[d].time = 0 /\ loc[d].target \in Nat BY DEF Silent
      <4> QED BY <2>1, <2>6, <3>3, <4>1
    <3> QED BY <3>1, <3>2, <3>3
  <2> QED BY <2>7 DEF Silent
<1> QED BY <1>3, <1>4 DEF Step, Turning

-----------------------------------------------------------------------------
\* What is known of the alarm and the reads of core c.
Timers(c) == Sound(c) /\ Compared(c) /\ Reading(c)

\* With the time set anew, or an alarm that is due at once, a core that neither
\* sets an alarm nor reads the time knows enough.
LEMMA SoundAnew ==
  ASSUME Numbers', NEW c \in Core, alarm'[c] = {0}
  PROVE  Sound(c)' /\ Time' \in Nat
<1> DEFINE n == mtime'.hi + mtime'.carry
<1>1. n \in Nat /\ mtime'.lo \in Nat /\ Half \in Nat BY ClintAssumption DEF Numbers
<1>2. Time' = n * Half + mtime'.lo BY DEF Time
<1>3. n * Half \in Nat BY <1>1
<1> HIDE DEF n
<1>4. Time' \in Nat BY <1>1, <1>2, <1>3
<1>5. Core = Hart BY DEF Core, Hart
<1>6. mtimecmp'[c].hi \in Nat /\ mtimecmp'[c].lo \in Nat BY <1>5, ClintAssumption DEF Numbers
<1>7. Value(c)' \in Nat BY <1>1, <1>6 DEF Value
<1>8. Reached(c)' BY <1>4 DEF Reached
<1>9. \E t \in alarm'[c] : Value(c)' >= t BY <1>7
<1> QED BY <1>4, <1>8, <1>9 DEF Sound

\* So it is with reads, and with the routine that sets an alarm.
LEMMA TimersAnew ==
  ASSUME Numbers', NEW c \in Core, alarm'[c] = {0}, loc'[c].time = 0, began'[c] = 0, loc'[c].target \in Nat,
         code'[c] # <<>> => Head(code'[c]) \notin CompareOps \cup
                              {"get_hi", "get_lo", "get_hi2", "cmp_get_lo", "cmp_get_hi"}
  PROVE  Timers(c)'
<1>1. Sound(c)' /\ Time' \in Nat BY SoundAnew
<1>2. \A o \in CompareOps \cup {"get_hi", "get_lo", "get_hi2", "cmp_get_lo", "cmp_get_hi"} : ~At(c, o)' /\ ~Asked(c, o)'
  BY DEF At, Asked, Busy, Op
<1>3. Compared(c)' BY <1>2 DEF Compared, CompareOps
<1>4. began'[c] <= Time' BY <1>1
<1>5. Reading(c)' BY <1>2, <1>4 DEF Reading
<1> QED BY <1>1, <1>3, <1>5 DEF Timers

\* Core 0 sets the time.
LEMMA TimersSet ==
  ASSUME LaunchInv, Timed, Shape, Orders, NoneLeft, Fresh, Numbers', NEW c \in Core, Strobe(c), Op(c) \in TimeOps,
         \A d \in Core : loc[d].target \in Nat
  PROVE  \A d \in Core : Timers(d)'
<1>1. Busy(c) /\ UNCHANGED <<code, loc, alarm>> /\ began'[1 - c] = began[1 - c]
      /\ began'[c] = IF Op(c) = "get_hi" THEN Time ELSE began[c]
  BY StrobeStep
<1>2. code[c] \in Text /\ Ordered(code[c]) BY DEF LaunchInv, Types, Orders
<1>3. Op(c) \in Range(code[c]) BY <1>1, <1>2, OrderedNow
<1>4. c = 0 BY <1>3 DEF NoneLeft, Core
<1>5. TimeToSet BY <1>3, <1>4 DEF TimeToSet
<1>6. \A d \in Core : alarm[d] = {0} /\ loc[d].time = 0 /\ began[d] = 0 BY <1>5 DEF Fresh
<1>7. Asleep BY <1>5 DEF Fresh
<1>8. ASSUME NEW d \in Core PROVE Timers(d)'
  <2>1. d = c \/ d = 1 - c BY OtherCore
  <2>2. alarm'[d] = {0} /\ loc'[d].time = 0 /\ loc'[d].target \in Nat BY <1>1, <1>6
  <2>3. began'[d] = 0
    <3>1. Op(c) # "get_hi" BY DEF TimeOps
    <3>2. began[d] = 0 BY <1>6
    <3> QED BY <1>1, <2>1, <3>1, <3>2
  <2>4. code'[d] # <<>> => Head(code'[d]) \in TimeOps
    <3>1. d = 1 => code'[d] = <<>> BY <1>1, <1>7 DEF Asleep
    <3>2. d = 0 => Head(code'[d]) \in TimeOps BY <1>1, <1>4 DEF Op
    <3> QED BY <3>1, <3>2 DEF Core
  <2>5. TimeOps \cap (CompareOps \cup {"get_hi", "get_lo", "get_hi2", "cmp_get_lo", "cmp_get_hi"}) = {}
    BY DEF TimeOps, CompareOps
  <2> QED BY <2>2, <2>3, <2>4, <2>5, TimersAnew
<1> QED BY <1>8

\* Nothing of the core's own is changed.
LEMMA TimersStay ==
  ASSUME Shape, Numbers, NEW w, Clock(w), w.reg # "mtime", NEW c \in Core, Timers(c), code'[c] = code[c],
         hart'[c] = hart[c], loc'[c] = loc[c], alarm'[c] = alarm[c], began'[c] = began[c],
         bus'.id = c <=> bus.id = c, bus.id = c => bus' = bus,
         mtimecmp'[c].hi = mtimecmp[c].hi, mtimecmp'[c].lo = mtimecmp[c].lo
  PROVE  Timers(c)'
<1>1. Sound(c) /\ Compared(c) /\ Reading(c) BY DEF Timers
<1>2. alarm[c] \subseteq Nat BY DEF Shape
<1>3. Sound(c)' BY <1>1, <1>2, SoundStays
<1>4. loc'[c].target = loc[c].target OBVIOUS
<1>5. Compared(c)' BY <1>1, <1>4, ComparedStays
<1>6. Reading(c)' BY <1>1, ReadingStays
<1> QED BY <1>3, <1>5, <1>6 DEF Timers

\* The words of a request are written to the compare time of core 1, which has
\* set no alarm yet.
LEMMA TimersBoot ==
  ASSUME LaunchInv, Timed, Shape, Orders, Unset, NotYet, Numbers, Numbers', NEW c \in Core, Strobe(c), Op(c) \in BootWords,
         \A d \in Core : Timers(d)
  PROVE  \A d \in Core : Timers(d)'
<1> DEFINE w == Write(c, Op(c))
<1>1. /\ bus.id = 2 /\ bus'.id = c /\ Busy(c) /\ Clock(w) /\ UNCHANGED <<code, hart, loc, alarm>>
      /\ began'[1 - c] = began[1 - c]
  BY StrobeStep
<1>2. c = 0 /\ (Asleep \/ Awake) BY <1>1, BootUnset
<1>3. Op(c) \notin TimeOps /\ w.reg # "mtime"
  <2>1. Op(c) \notin TimeOps BY DEF TimeOps, BootWords
  <2> QED BY <2>1, StrobeRegs
<1>4. 0 \in Core /\ 1 \in Core /\ 1 - c = 1 BY <1>2 DEF Core
<1>5. Sound(0) /\ Compared(0) /\ Reading(0) /\ Compared(1) /\ Reading(1) BY <1>4 DEF Timers
<1>6. mtimecmp'[0].lo = mtimecmp[0].lo /\ mtimecmp'[0].hi = mtimecmp[0].hi BY StrobeRegs
<1>7. loc[0].target \in Nat /\ loc[1].target \in Nat BY <1>5 DEF Compared
<1>8. Timers(0)'
  <2>1. alarm[0] \subseteq Nat /\ alarm'[0] = alarm[0] BY <1>1, <1>4 DEF Shape
  <2>2. Sound(0)'
    <3> HIDE DEF w
    <3> QED BY <1>1, <1>3, <1>4, <1>5, <1>6, <2>1, SoundStays
  <2>3. Reading(0)' BY <1>2, <1>3, <1>4, <1>5, ReadingStrobe
  <2>4. \A o \in CompareOps : ~At(0, o)'
    <3>1. Head(code'[0]) \in BootWords BY <1>1, <1>2 DEF Op
    <3> QED BY <3>1 DEF At, Op, BootWords, CompareOps
  <2>5. Compared(0)' BY <1>1, <1>7, <2>4 DEF Compared, Asked, CompareOps
  <2> QED BY <2>2, <2>3, <2>5 DEF Timers
<1>9. Timers(1)'
  <2>1. alarm[1] = {0} BY <1>2 DEF Unset
  <2>2. Sound(1)'
    <3>1. alarm'[1] = {0} BY <1>1, <2>1
    <3> QED BY <1>4, <3>1, SoundAnew
  <2>3. \A o \in CompareOps : ~At(1, o)'
    <3>1. Awake => Op(1) \in WakeOps BY AwakeText DEF Awake
    <3>2. Asleep => ~Busy(1) BY DEF Asleep, Busy
    <3>3. At(1, "cmp_lo1")' => At(1, "cmp_lo1") BY <1>1 DEF At, Busy, Op
    <3>4. At(1, "cmp_hi")' => At(1, "cmp_hi") BY <1>1 DEF At, Busy, Op
    <3>5. At(1, "cmp_lo")' => At(1, "cmp_lo") BY <1>1 DEF At, Busy, Op
    <3>6. \A o \in CompareOps : ~At(1, o) BY <1>2, <3>1, <3>2 DEF At, WakeOps, CompareOps
    <3> QED BY <3>3, <3>4, <3>5, <3>6 DEF CompareOps
  <2>4. Compared(1)' BY <1>1, <1>7, <2>3 DEF Compared, Asked, CompareOps
  <2>5. Reading(1)'
    <3>1. loc'[1] = loc[1] /\ code'[1] = code[1] /\ hart'[1] = hart[1] /\ began'[1] = began[1] BY <1>1, <1>4
    <3>2. bus'.id # 1 /\ bus.id # 1 BY <1>1, <1>2
    <3> HIDE DEF w
    <3> QED BY <1>1, <1>3, <1>4, <1>5, <3>1, <3>2, ReadingStays
  <2> QED BY <2>2, <2>4, <2>5 DEF Timers
<1> QED BY <1>8, <1>9 DEF Core

\* A core starts another access.
LEMMA TimersStrobe ==
  ASSUME LaunchInv, Shape, Orders, Numbers, Numbers', NEW c \in Core, Strobe(c), Op(c) \notin TimeOps, Op(c) \notin BootWords,
         \A d \in Core : Timers(d)
  PROVE  \A d \in Core : Timers(d)'
<1> DEFINE w == Write(c, Op(c))
<1>1. /\ bus.id = 2 /\ bus'.id = c /\ Busy(c) /\ Clock(w) /\ UNCHANGED <<code, hart, loc, alarm>>
      /\ began'[1 - c] = began[1 - c] /\ w.reg # "mtime"
  BY StrobeStep, StrobeRegs
<1>2. 1 - c \in Core /\ 1 - c # c /\ \A d \in Core : d = c \/ d = 1 - c BY OtherCore
<1>3. Sound(c) /\ Compared(c) /\ Reading(c) /\ Timers(1 - c) BY <1>2 DEF Timers
<1>4. Sound(c)' /\ Compared(c)' /\ Reading(c)' BY <1>3, AlarmStrobe, ReadingStrobe
<1>5. mtimecmp'[1 - c].lo = mtimecmp[1 - c].lo /\ mtimecmp'[1 - c].hi = mtimecmp[1 - c].hi
  <2>1. Op(c) \in CompareOps => mtimecmp'[1 - c].lo = mtimecmp[1 - c].lo /\ mtimecmp'[1 - c].hi = mtimecmp[1 - c].hi
    BY StrobeRegs
  <2>2. Op(c) \notin CompareOps \cup BootWords =>
              \A h \in Core : mtimecmp'[h].lo = mtimecmp[h].lo /\ mtimecmp'[h].hi = mtimecmp[h].hi
    BY StrobeRegs
  <2> QED BY <1>2, <2>1, <2>2
<1>6. Timers(1 - c)'
  <2> DEFINE d == 1 - c
  <2>1. d \in Core /\ d # c /\ Timers(d) BY <1>2, <1>3
  <2>2. /\ code'[d] = code[d] /\ hart'[d] = hart[d] /\ loc'[d] = loc[d] /\ alarm'[d] = alarm[d] /\ began'[d] = began[d]
        /\ mtimecmp'[d].hi = mtimecmp[d].hi /\ mtimecmp'[d].lo = mtimecmp[d].lo
    BY <1>1, <1>5
  <2> HIDE DEF d, w
  <2>3. bus.id # d /\ bus'.id # d BY <1>1, <2>1 DEF Core
  <2>4. Timers(d)' BY <1>1, <2>1, <2>2, <2>3, TimersStay
  <2> QED BY <2>4 DEF d
<1>7. Timers(c)' BY <1>4 DEF Timers
<1> QED BY <1>2, <1>6, <1>7

\* A core goes on.
LEMMA TimersTurning ==
  ASSUME LaunchInv, Timed, Shape, Slots, Orders, Numbers, NEW c \in Core, Turning(c), \A d \in Core : Timers(d)
  PROVE  \A d \in Core : Timers(d)'
<1>1. 1 - c \in Core /\ 1 - c # c /\ \A d \in Core : d = c \/ d = 1 - c BY OtherCore
<1>2. Sound(c) /\ Compared(c) /\ Reading(c) /\ Timers(1 - c) BY <1>1 DEF Timers
<1>3. loc[c].time \in Nat BY <1>2 DEF Reading
<1>4. Sound(c)' /\ Compared(c)' /\ Reading(c)' BY <1>2, <1>3, AlarmTurning, ReadingTurning
<1>5. /\ mtimecmp' = mtimecmp /\ Clock(NoWrite) /\ NoWrite.reg # "mtime"
      /\ \/ bus.id = c /\ bus' = Idle
         \/ bus.id # c /\ bus' = bus
  BY TurningRegs DEF NoWrite
<1>6. code'[1 - c] = code[1 - c] /\ hart'[1 - c] = hart[1 - c] BY TurnedStep
<1>7. loc'[1 - c] = loc[1 - c] /\ alarm'[1 - c] = alarm[1 - c]
  <2>1. Answer(c) => loc'[1 - c] = loc[1 - c] /\ alarm'[1 - c] = alarm[1 - c] BY AnswerStep
  <2>2. Inside(c) => loc'[1 - c] = loc[1 - c] /\ alarm'[1 - c] = alarm[1 - c] BY InsideStep
  <2>3. Trap(c) => loc' = loc /\ alarm' = alarm BY DEF Trap
  <2> QED BY <2>1, <2>2, <2>3 DEF Turning
<1>8. began' = began BY LocalsTurn
<1>9. Timers(1 - c)'
  <2> DEFINE d == 1 - c
  <2>1. d \in Core /\ d # c /\ Timers(d) BY <1>1, <1>2
  <2>2. /\ code'[d] = code[d] /\ hart'[d] = hart[d] /\ loc'[d] = loc[d] /\ alarm'[d] = alarm[d] /\ began'[d] = began[d]
        /\ mtimecmp'[d].hi = mtimecmp[d].hi /\ mtimecmp'[d].lo = mtimecmp[d].lo
    BY <1>5, <1>6, <1>7, <1>8
  <2> HIDE DEF d
  <2>3. (bus'.id = d <=> bus.id = d) /\ (bus.id = d => bus' = bus) BY <1>5, <2>1 DEF Idle, Core
  <2>4. Timers(d)' BY <1>5, <2>1, <2>2, <2>3, TimersStay
  <2> QED BY <2>4 DEF d
<1>10. Timers(c)' BY <1>4 DEF Timers
<1> QED BY <1>1, <1>9, <1>10

-----------------------------------------------------------------------------
\* The inductive invariant of the timer: the program's texts are ordered; the time
\* is set before it is used; and what is known of alarms and reads is true.
TimerUse ==
  /\ Orders /\ NoneLeft /\ Fresh
  /\ Unset /\ Sleeps /\ NotYet
  /\ \A c \in Core : Timers(c)
TimerInv ==
  /\ Shape /\ Numbers
  /\ Timed => TimerUse
  /\ ~Timed => Silent

\* The compare times and the beginnings of reads stay numbers.
LEMMA ShapeStep ==
  ASSUME Shape, Numbers, NEW c \in Core, loc[c].target \in Nat, Step(c)
  PROVE  Shape'
<1> DEFINE n == Time
           g == loc[c].target
<1>1. n \in Nat /\ g \in Nat BY TimeNat
<1>2. alarm \in [Core -> SUBSET Nat] /\ began \in [Core -> Nat] BY DEF Shape
<1>3. began' \in {began, [began EXCEPT ![c] = n]}
  BY DEF Step, Strobe, Answer, Inside, Trap
<1>4. alarm' \in {alarm, [alarm EXCEPT ![c] = {g}], [alarm EXCEPT ![c] = @ \cup {g}]}
  BY DEF Step, Strobe, Answer, Inside, Trap
<1> HIDE DEF n, g
<1>5. began' \in [Core -> Nat] BY <1>1, <1>2, <1>3
<1>6. alarm' \in [Core -> SUBSET Nat] BY <1>1, <1>2, <1>4
<1> QED BY <1>5, <1>6 DEF Shape

\* A step of a program that uses the timer.
LEMMA TimerUseStep ==
  ASSUME LaunchInv, Slots, Shape, Numbers, Timed, TimerUse, NEW c \in Core, Step(c)
  PROVE  Shape' /\ Numbers' /\ TimerUse' /\ program' = program
<1>1. /\ Orders /\ NoneLeft /\ Fresh /\ Unset /\ Sleeps /\ NotYet
      /\ \A d \in Core : Timers(d)
  BY DEF TimerUse
<1>2. \A d \in Core : loc[d].target \in Nat BY <1>1 DEF Timers, Compared
<1>3. Numbers' BY <1>2, NumbersStep
<1>4. Shape' BY <1>2, ShapeStep
<1>5. Strobe(c) \/ Turning(c) BY DEF Step, Turning
<1>6. program' = program
  <2>1. Strobe(c) => program' = program BY StrobeStep
  <2>2. Turning(c) => program' = program BY <1>1, TurnedStep
  <2> QED BY <1>5, <2>1, <2>2
<1>7. Fresh' /\ NoneLeft' BY <1>1, FreshStep
<1>8. Unset' BY <1>1, UnsetStep
<1>9. Sleeps' BY <1>1, SleepsStep
<1>10. Orders'
  <2>1. CASE Strobe(c)
    <3>1. UNCHANGED <<code, hart>> BY <2>1, StrobeStep
    <3> QED BY <1>1, <3>1, OrdersSame
  <2>2. CASE Turning(c) BY <1>1, <2>2, OrdersTurn
  <2> QED BY <1>5, <2>1, <2>2
<1>11. NotYet'
  <2>1. CASE program # "rte" BY <1>6, <2>1 DEF NotYet
  <2>2. CASE program = "rte"
    <3>1. CASE c = 1 BY <1>1, <2>2, <3>1, NotYetOne
    <3>2. CASE c = 0
      <4>1. Strobe(0) \/ Turning(0) BY <1>5, <3>2
      <4>2. Strobe(0) => NotYet' BY <1>1, <2>2, NotYetStrobe
      <4>3. Turning(0) => NotYet' BY <1>1, <2>2, NotYetZero
      <4> QED BY <4>1, <4>2, <4>3
    <3> QED BY <3>1, <3>2 DEF Core
  <2> QED BY <2>1, <2>2
<1>12. \A d \in Core : Timers(d)'
  <2>1. CASE Turning(c) BY <1>1, <2>1, TimersTurning
  <2>2. CASE Strobe(c) /\ Op(c) \in TimeOps BY <1>1, <1>2, <1>3, <2>2, TimersSet
  <2>3. CASE Strobe(c) /\ Op(c) \in BootWords BY <1>1, <1>3, <2>3, TimersBoot
  <2>4. CASE Strobe(c) /\ Op(c) \notin TimeOps /\ Op(c) \notin BootWords BY <1>1, <1>3, <2>4, TimersStrobe
  <2> QED BY <1>5, <2>1, <2>2, <2>3, <2>4
<1> QED BY <1>3, <1>4, <1>6, <1>7, <1>8, <1>9, <1>10, <1>11, <1>12 DEF TimerUse

\* A step of any program.
LEMMA TimerStep ==
  ASSUME LaunchInv, Texts, Slots, TimerInv, NEW c \in Core, Step(c)
  PROVE  TimerInv'
<1>1. Shape /\ Numbers BY DEF TimerInv
<1>2. CASE Timed
  <2>1. TimerUse BY <1>2 DEF TimerInv
  <2>2. Shape' /\ Numbers' /\ TimerUse' /\ program' = program BY <1>1, <1>2, <2>1, TimerUseStep
  <2>3. Timed' BY <1>2, <2>2 DEF Timed
  <2> QED BY <2>2, <2>3 DEF TimerInv
<1>3. CASE ~Timed
  <2>1. Silent BY <1>3 DEF TimerInv
  <2>2. loc[c].target \in Nat BY <2>1 DEF Silent
  <2>3. Numbers' BY <1>1, <2>2, NumbersStep
  <2>4. Shape' BY <1>1, <2>2, ShapeStep
  <2>5. Silent' BY <1>1, <1>3, <2>1, SilentStep
  <2>6. program' = program BY SlotsStep
  <2>7. ~Timed' BY <1>3, <2>6 DEF Timed
  <2> QED BY <2>3, <2>4, <2>5, <2>7 DEF TimerInv
<1> QED BY <1>2, <1>3

\* A tick of the clock changes nothing that is known of a core.
LEMMA TimerTick ==
  ASSUME LaunchInv, TimerInv, Tick
  PROVE  TimerInv'
<1> DEFINE w == NoWrite
<1>1. UNCHANGED <<program, code, hart, loc, bus, launch, boot, alarm, began>> BY DEF Tick, softVars
<1>2. Clock(w) /\ w.reg # "mtime" BY DEF Tick, NoWrite
<1>3. mtimecmp' = mtimecmp /\ mswi' = mswi BY <1>2, ClockIdle
<1> HIDE DEF w
<1>4. Shape /\ Numbers /\ (Timed => TimerUse) /\ (~Timed => Silent) BY DEF TimerInv
<1>5. Shape' BY <1>1, <1>4 DEF Shape
<1>6. Numbers'
  <2>1. \A h \in Hart : mtimecmp'[h].lo \in 0 .. Half - 1 /\ mtimecmp'[h].hi \in Nat BY <1>3, <1>4 DEF Numbers
  <2> QED BY <1>2, <1>4, <2>1, NumbersKept
<1>7. Timed' <=> Timed BY <1>1 DEF Timed
<1>8. ASSUME Silent PROVE Silent'
  <2>1. UNCHANGED <<code, loc, alarm>> BY <1>1
  <2> QED BY <1>8, <2>1 DEF Silent
<1>9. ASSUME TimerUse PROVE TimerUse'
  <2>1. /\ Orders /\ NoneLeft /\ Fresh /\ Unset /\ Sleeps /\ NotYet
        /\ \A d \in Core : Timers(d)
    BY <1>9 DEF TimerUse
  <2>2. Orders' BY <1>1, <2>1, OrdersSame
  <2>3. (Asleep' <=> Asleep) /\ (Awake' <=> Awake) BY <1>1 DEF Asleep, Awake
  <2>4. \A c, o : (At(c, o)' <=> At(c, o)) /\ (Asked(c, o)' <=> Asked(c, o)) BY <1>1 DEF Asked, At, Busy, Op
  <2>5. (AtSecond' <=> AtSecond) /\ (Acked' <=> Acked) BY <1>1, <2>3, <2>4 DEF AtSecond, Acked
  <2>6. NoneLeft' BY <1>1, <2>1 DEF NoneLeft, Range
  <2>7. Fresh' BY <1>1, <1>3, <2>1, <2>3 DEF Fresh, TimeToSet, Range
  <2>8. Unset' BY <1>1, <2>1, <2>3 DEF Unset
  <2>9. Sleeps' BY <1>1, <1>3, <2>1, <2>3 DEF Sleeps
  <2>10. NotYet'
    <3>1. Unstarted' <=> Unstarted BY <1>1, <1>3, <2>3, <2>4 DEF Unstarted, main_core1
    <3>2. "launch" \in Range(code'[0]) <=> "launch" \in Range(code[0]) BY <1>1
    <3> QED BY <1>1, <1>3, <2>1, <2>3, <2>5, <3>1, <3>2 DEF NotYet, main_core1, Range
  <2>11. ASSUME NEW d \in Core PROVE Timers(d)'
    <3>1. Timers(d) BY <2>1
    <3> QED BY <1>1, <1>2, <1>3, <1>4, <3>1, TimersStay
  <2> QED BY <2>2, <2>6, <2>7, <2>8, <2>9, <2>10, <2>11 DEF TimerUse
<1> QED BY <1>4, <1>5, <1>6, <1>7, <1>8, <1>9 DEF TimerInv

\* A text that sets up the runtime environment first.
SetupFirst(s) == s \in Text /\ s # <<>> /\ Head(s) = "rte_setup"

\* It does so with more to be done after it.
LEMMA SetupThen ==
  ASSUME NEW p, SetupFirst(p), NEW s \in Text
  PROVE  SetupFirst(Then(p, s))
<1>1. p \in Text /\ p # <<>> /\ Head(p) = "rte_setup" BY DEF SetupFirst
<1>2. Then(p, s) \in Text BY <1>1, ThenFacts
<1>3. p \o s # <<>> /\ Head(p \o s) = Head(p) BY <1>1, HeadTwo
<1> QED BY <1>1, <1>2, <1>3 DEF SetupFirst, Then

\* The programs of core 0 that use the timer do that.
LEMMA SetupMain ==
  ASSUME Timed
  PROVE  SetupFirst(main)
<1> DEFINE b == astrarv32_clint_time_set
           c == astrarv32_clint_time_get
           e == astrarv32_clint_mtimecmp_set
<1>1. b \in Text /\ c \in Text /\ e \in Text
  <2>1. b \in Seq(Presets) BY DEF astrarv32_clint_time_set, Presets, TimeOps
  <2>2. b \in Text BY <2>1, LoneTexts
  <2>3. c \in Seq(ClosedWork) /\ e \in Seq(ClosedWork) BY RoutineText
  <2> QED BY <2>2, <2>3, WorkSeqs
<1>2. ASSUME program = "rte" PROVE SetupFirst(main)
  <2> DEFINE a == <<"rte_setup", "available", "target0">>
             l == astrarv32_smp_launch
             p == app_main
  <2>1. main = Then(Then(Then(a, b), l), p) BY <1>2 DEF main, main_rte, Then
  <2>2. SetupFirst(a)
    <3>1. a \in Seq(Presets) BY DEF Presets
    <3>2. a \in Text BY <3>1, LoneTexts
    <3> QED BY <3>2 DEF SetupFirst
  <2>3. l \in Text /\ p \in Text
    <3>1. l \in Text BY LonePieces, LoneTexts
    <3> QED BY <3>1, FairApp DEF Fair
  <2> HIDE DEF a, b, l, p
  <2>4. SetupFirst(Then(a, b)) BY <1>1, <2>2, SetupThen
  <2>5. SetupFirst(Then(Then(a, b), l)) BY <2>3, <2>4, SetupThen
  <2>6. SetupFirst(Then(Then(Then(a, b), l), p)) BY <2>3, <2>5, SetupThen
  <2> QED BY <2>1, <2>6
<1>3. ASSUME program = "clock" PROVE SetupFirst(main)
  <2> DEFINE a == <<"rte_setup", "available", "target_unix">>
             d == <<"target_never">>
             f == <<"install_MTI", "install_MSI">>
             h == <<"target_next">>
             j == <<"mie_MTI", "mie_MSI", "on">>
  <2>1. main = Then(Then(Then(Then(Then(Then(Then(Then(Then(a, b), c), d), e), f), c), h), e), j)
    BY <1>3 DEF main, main_clint, Then
  <2>2. SetupFirst(a)
    <3>1. a \in Seq(Presets) BY DEF Presets
    <3>2. a \in Text BY <3>1, LoneTexts
    <3> QED BY <3>2 DEF SetupFirst
  <2>3. d \in Text /\ f \in Text /\ h \in Text
    <3>1. d \in Seq(Lone) /\ f \in Seq(Lone) /\ h \in Seq(Lone) BY LoneOps
    <3> QED BY <3>1, LoneTexts
  <2>4. j \in Text
    <3>1. {"mie_MTI", "mie_MSI"} \subseteq Operation /\ "on" \in Operation BY LoneOps, LoneTexts, TimerOps DEF Ends
    <3> QED BY <3>1 DEF Text
  <2> HIDE DEF a, b, c, d, e, f, h, j
  <2> DEFINE x1 == Then(a, b)
             x2 == Then(x1, c)
             x3 == Then(x2, d)
             x4 == Then(x3, e)
             x5 == Then(x4, f)
             x6 == Then(x5, c)
             x7 == Then(x6, h)
             x8 == Then(x7, e)
             x9 == Then(x8, j)
  <2> HIDE DEF x1, x2, x3, x4, x5, x6, x7, x8, x9
  <2>5. SetupFirst(x1) BY <1>1, <2>2, SetupThen DEF x1
  <2>6. SetupFirst(x2) BY <1>1, <2>5, SetupThen DEF x2
  <2>7. SetupFirst(x3) BY <2>3, <2>6, SetupThen DEF x3
  <2>8. SetupFirst(x4) BY <1>1, <2>7, SetupThen DEF x4
  <2>9. SetupFirst(x5) BY <2>3, <2>8, SetupThen DEF x5
  <2>10. SetupFirst(x6) BY <1>1, <2>9, SetupThen DEF x6
  <2>11. SetupFirst(x7) BY <2>3, <2>10, SetupThen DEF x7
  <2>12. SetupFirst(x8) BY <1>1, <2>11, SetupThen DEF x8
  <2>13. SetupFirst(x9) BY <2>4, <2>12, SetupThen DEF x9
  <2> QED BY <2>1, <2>13 DEF x1, x2, x3, x4, x5, x6, x7, x8, x9
<1> QED BY <1>2, <1>3 DEF Timed

\* At first no time is read and no alarm set.
LEMMA TimerInit ==
  ASSUME Init, LaunchInv
  PROVE  TimerInv
<1> DEFINE m == main
<1>1. /\ hart = [c \in Core |-> IF c = 1 THEN __crt0_smp_setup
                              ELSE [on |-> FALSE, mie |-> {}, mtvec |-> "panic"]]
      /\ loc = [c \in Core |-> [t |-> 0, u |-> 0, time |-> 0, target |-> 0]]
      /\ bus.id = 2 /\ launch.stage = 1 /\ boot.entry = 0
      /\ alarm = [c \in Core |-> {0}] /\ began = [c \in Core |-> 0]
  BY DEF Init, Idle
<1>2. code = [c \in Core |-> IF c = 0 THEN m ELSE <<>>] BY DEF Init
<1>3. /\ mtime = [lo |-> 0, hi |-> 0, carry |-> 0]
      /\ mtimecmp = [h \in Hart |-> [lo |-> 0, hi |-> 0]] /\ mswi = [h \in Hart |-> 0]
  BY DEF Init, ClintInit
<1>4. 0 \in Core /\ 1 \in Core /\ Core = Hart /\ \A d \in Core : d = 0 \/ d = 1 BY DEF Core, Hart
<1>5. Shape BY <1>1 DEF Shape
<1>6. Numbers BY <1>3, ClintAssumption DEF Numbers
<1>7. Timed => SetupFirst(m) /\ Ordered(m) BY SetupMain, OrderedMain DEF Timed
<1>8. ~Timed => m \in Seq(Mute)
  <2>1. program \in {"message", "retry", "primes", "rte", "clock"} BY DEF LaunchInv, Types
  <2>2. ~Timed => m \in {main_message, main_primes} BY <2>1 DEF Timed, main
  <2> QED BY <2>2, MuteTexts
<1> HIDE DEF m
<1>9. /\ code[0] = m /\ code[1] = <<>> /\ mswi[1] = 0
      /\ \A c \in Core : /\ loc[c].time = 0 /\ loc[c].target = 0 /\ loc[c].target \in Nat
                         /\ alarm[c] = {0} /\ began[c] = 0
  BY <1>1, <1>2, <1>3, <1>4
<1>10. ASSUME ~Timed PROVE Silent
  <2>1. <<>> \in Seq(Mute) OBVIOUS
  <2> QED BY <1>4, <1>8, <1>9, <1>10, <2>1 DEF Silent
<1>11. ASSUME Timed PROVE TimerUse
  <2>1. ~hart[0].on BY <1>1, <1>4
  <2>2. Asleep BY <1>1, <1>4, <1>9 DEF Asleep
  <2>3. Ordered(m) /\ m # <<>> /\ Head(m) = "rte_setup" BY <1>7, <1>11 DEF SetupFirst
  <2>4. Orders BY <1>4, <1>9, <2>1, <2>3, OrderedEmpty DEF Orders
  <2>5. NoneLeft BY <1>9, EmptyFacts DEF NoneLeft
  <2>6. Fresh BY <1>9, <2>2 DEF Fresh
  <2>7. Unset /\ Sleeps BY <1>4, <1>9, <2>2 DEF Unset, Sleeps
  <2>8. NotYet
    <3>1. mtimecmp[1].hi = 0 BY <1>3, <1>4
    <3>2. ~Asked(1, "wake_entry") BY <1>1 DEF Asked
    <3>3. Unstarted BY <1>1, <2>2, <3>1, <3>2 DEF Unstarted, main_core1
    <3> QED BY <1>1, <3>3 DEF NotYet
  <2>9. ASSUME NEW c \in Core PROVE Timers(c)
    <3>1. Busy(c) => Op(c) = "rte_setup" BY <1>4, <1>9, <2>3 DEF Busy, Op
    <3>2. Sound(c) BY <1>6, <1>9, SoundZero
    <3>3. ~Comparing(c) BY <3>1 DEF Comparing, At
    <3>4. Compared(c) BY <1>9, <3>3, ComparedIdle
    <3>5. Reading(c) BY <1>6, <1>9, <3>1, ReadingNone
    <3> QED BY <3>2, <3>4, <3>5 DEF Timers
  <2> QED BY <2>4, <2>5, <2>6, <2>7, <2>8, <2>9 DEF TimerUse
<1> QED BY <1>5, <1>6, <1>10, <1>11 DEF TimerInv

\* Nothing is lost when nothing is changed.
LEMMA TimerStutter ==
  ASSUME TimerInv, UNCHANGED vars
  PROVE  TimerInv'
<1>1. /\ UNCHANGED <<program, code, hart, loc, bus, launch, boot, alarm, began>>
      /\ UNCHANGED <<mtime, mtimecmp, cmp_lo_ge, mti, mswi>>
  BY DEF vars, softVars, clintVars
<1>2. \A c, o : (At(c, o)' <=> At(c, o)) /\ (Asked(c, o)' <=> Asked(c, o)) BY <1>1 DEF Asked, At, Busy, Op
<1>3. (Asleep' <=> Asleep) /\ (Awake' <=> Awake) BY <1>1 DEF Asleep, Awake
<1>4. (AtSecond' <=> AtSecond) /\ (Acked' <=> Acked) BY <1>1, <1>2, <1>3 DEF AtSecond, Acked
<1>5. (Shape' <=> Shape) /\ (Numbers' <=> Numbers) /\ (Timed' <=> Timed) BY <1>1 DEF Shape, Numbers, Timed
<1>6. Silent' <=> Silent BY <1>1 DEF Silent
<1>7. ASSUME TimerUse PROVE TimerUse'
  <2>1. /\ Orders /\ NoneLeft /\ Fresh /\ Unset /\ Sleeps /\ NotYet
        /\ \A d \in Core : Timers(d)
    BY <1>7 DEF TimerUse
  <2>2. Orders' BY <1>1, <2>1, OrdersSame
  <2>3. NoneLeft' BY <1>1, <2>1 DEF NoneLeft, Range
  <2>4. Fresh' BY <1>1, <1>3, <2>1 DEF Fresh, TimeToSet, Range
  <2>5. Unset' /\ Sleeps' BY <1>1, <1>3, <2>1 DEF Unset, Sleeps
  <2>6. NotYet'
    <3>1. Unstarted' <=> Unstarted BY <1>1, <1>2, <1>3 DEF Unstarted, main_core1
    <3> QED BY <1>1, <1>3, <1>4, <2>1, <3>1 DEF NotYet, main_core1, Range
  <2>7. Time' = Time BY <1>1 DEF Time
  <2>8. ASSUME NEW d \in Core PROVE Timers(d)'
    <3>1. Sound(d) /\ Compared(d) /\ Reading(d) BY <2>1 DEF Timers
    <3>2. (Due(d)' <=> Due(d)) /\ (Reached(d)' <=> Reached(d)) /\ Value(d)' = Value(d)
      BY <1>1, <2>7 DEF Due, Reached, Value
    <3>3. Sound(d)' BY <1>1, <3>1, <3>2 DEF Sound
    <3>4. Compared(d)' BY <1>1, <1>2, <2>7, <3>1, <3>2 DEF Compared
    <3>5. (Over(d)' <=> Over(d)) /\ \A t : Shown(d, t)' <=> Shown(d, t) BY <1>1, <2>7 DEF Over, Shown
    <3>6. Reading(d)' BY <1>1, <1>2, <2>7, <3>1, <3>5 DEF Reading, Shown
    <3> QED BY <3>3, <3>4, <3>6 DEF Timers
  <2> QED BY <2>2, <2>3, <2>4, <2>5, <2>6, <2>8 DEF TimerUse
<1> QED BY <1>5, <1>6, <1>7 DEF TimerInv

\* The invariant in a step.
LEMMA TimerNext ==
  ASSUME LaunchInv, Texts, Slots, TimerInv, [Next]_vars
  PROVE  TimerInv'
<1>1. CASE UNCHANGED vars BY <1>1, TimerStutter
<1>2. CASE Tick BY <1>2, TimerTick
<1>3. ASSUME NEW c \in Core, Step(c) PROVE TimerInv' BY <1>3, TimerStep
<1> QED BY <1>1, <1>2, <1>3 DEF Next

\* The time the programs compare and read is one number.
LEMMA TimersWhole ==
  ASSUME LaunchInv, TimerInv
  PROVE  TimerWhole
<1>1. Shape /\ Numbers /\ (Timed => TimerUse) /\ (~Timed => Silent) BY DEF TimerInv
<1>2. Time \in Nat BY <1>1, TimeNat
<1>3. ASSUME NEW c \in Core, mti[c]
      PROVE  \E t \in alarm[c] : Time >= t
  <2>1. CASE Timed
    <3>1. Sound(c) BY <1>1, <2>1 DEF TimerUse, Timers
    <3> QED BY <1>3, <3>1 DEF Sound, Reached
  <2>2. CASE ~Timed
    <3>1. alarm[c] = {0} BY <1>1, <2>2 DEF Silent
    <3>2. Time >= 0 BY <1>2
    <3> QED BY <3>1, <3>2
  <2> QED BY <2>1, <2>2
<1>4. ASSUME NEW c \in Core, Busy(c), Op(c) \in UseOps, loc[c].time # 0
      PROVE  Shown(c, loc[c].time)
  <2>1. Timed BY <1>1, <1>4 DEF Silent
  <2>2. Reading(c) /\ Ordered(code[c]) BY <1>1, <2>1 DEF TimerUse, Timers, Orders
  <2>3. code[c] \in Text BY DEF LaunchInv, Types
  <2>4. ~Awaits(code[c]) BY <1>4, <2>2, <2>3, OrderedNow
  <2>5. ~Over(c)
    <3>1. code[c] = <<"exit">> => Op(c) = "exit" BY DEF Op
    <3>2. Op(c) # "exit" BY <1>4 DEF UseOps
    <3> QED BY <1>4, <3>1, <3>2 DEF Over, Busy
  <2> QED BY <1>4, <2>2, <2>4, <2>5 DEF Reading
<1>5. NoEarlyInterrupt BY <1>3 DEF NoEarlyInterrupt
<1>6. TimeNotTorn BY <1>4 DEF TimeNotTorn, Shown, UseOps
<1> QED BY <1>5, <1>6 DEF TimerWhole

\* The timer is one number although it has two halves: whatever clocks pass between
\* the accesses, a timer interrupt comes only when the time has reached the compare
\* time set last or, while a new one is written, the earlier of the two; and the time
\* that is used is one the clock has shown since the read began.
THEOREM TimerTrue == Spec => []TimerWhole
<1>1. Init => LaunchInv /\ VoiceInv /\ PrimesInv /\ TimerInv BY LaunchInit, VoiceInit, PrimesInit, TimerInit
<1>2. LaunchInv /\ VoiceInv /\ PrimesInv /\ TimerInv /\ [Next]_vars => LaunchInv' /\ VoiceInv' /\ PrimesInv' /\ TimerInv'
  BY LaunchNext, VoiceNext, PrimesNext, TimerNext DEF VoiceInv, PrimesInv
<1>3. LaunchInv /\ TimerInv => TimerWhole BY TimersWhole
<1> QED BY <1>1, <1>2, <1>3, PTL DEF Spec

=============================================================================
