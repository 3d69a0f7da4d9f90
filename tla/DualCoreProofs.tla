--------------------------- MODULE DualCoreProofs ---------------------------
(***************************************************************************)
(* Proofs about DualCore, for every number of polls, every range and every *)
(* period, in all five programs: a launch that reports success has started *)
(* core 1 on its stack at its entry point; the lock keeps the messages of  *)
(* the cores apart; and the two cores together count every prime number    *)
(* below NUM_MAX once.                                                     *)
(*                                                                         *)
(* What a core still has to do is a text of operations.  Launcher says     *)
(* which texts core 0 has before, in and after the launch, Sleeper which   *)
(* ones core 1 has asleep, awake and started, and Launching what the two   *)
(* know of each other meanwhile.  Texts says which texts each program      *)
(* leaves to be done, with one message at most, and Lock what the position *)
(* in a message says of the lock, the reservation and the line.  Sharing   *)
(* says, from the positions of both cores, which of the shared variables   *)
(* are set, and to what.                                                   *)
(***************************************************************************)
EXTENDS DualCore, SequenceTheorems, FiniteSetTheorems, TLAPS

\* Operations with a bus access, and all operations.
AccessOps ==
    {"lock_ld", "lock_st", "lock_lr", "lock_sc", "lock_swap", "unlock_lr", "unlock_sc", "unlock_swap",
     "check_lr", "char", "boot_stack", "boot_entry", "msi_launch", "boot_poll", "wake_sp", "wake_entry",
     "wake_ack", "msi_other", "msi_self", "msi_clr", "time_lo0", "time_hi", "time_lo", "get_hi", "get_hi2",
     "get_lo", "cmp_lo1", "cmp_hi", "cmp_lo", "cmp_get_lo", "cmp_get_hi", "run_wait", "run_check", "run",
     "run_done", "arg_beg", "sum", "arg_end", "arg0", "arg1", "result"}
Operation == AccessOps \cup Internal

\* Operations still to be done, written from the first one on.
Text == Seq(Operation)

\* A text that begins with o.
Cons(o, s) == <<o>> \o s

-----------------------------------------------------------------------------
\* A text is its first operation and the others, or empty.
LEMMA ConsFacts ==
  ASSUME NEW o \in Operation, NEW s \in Text
  PROVE  /\ Cons(o, s) \in Text /\ Cons(o, s) # <<>>
         /\ Head(Cons(o, s)) = o /\ Tail(Cons(o, s)) = s
         /\ Range(Cons(o, s)) = {o} \cup Range(s)
         /\ Len(Cons(o, s)) = Len(s) + 1
<1> DEFINE t == Cons(o, s)
<1>1. <<o>> \in Text /\ Len(<<o>>) = 1 /\ <<o>>[1] = o BY DEF Text
<1>2. /\ t \in Text /\ Len(t) = 1 + Len(s)
      /\ \A i \in 1 .. 1 + Len(s) : t[i] = IF i <= 1 THEN <<o>>[i] ELSE s[i - 1]
  BY <1>1, ConcatProperties DEF Cons, Text
<1>3. Len(s) \in Nat BY LenProperties DEF Text
<1>4. t # <<>> BY <1>2, <1>3, EmptySeq DEF Text
<1>5. t[1] = o BY <1>1, <1>2, <1>3
<1>6. Head(t) = o BY <1>4, <1>5 DEF Text
<1>7. /\ Tail(t) \in Text /\ Len(Tail(t)) = Len(s)
      /\ \A i \in 1 .. Len(s) : Tail(t)[i] = t[i + 1]
  BY <1>2, <1>3, <1>4, HeadTailProperties DEF Text
<1>8. \A i \in 1 .. Len(s) : Tail(t)[i] = s[i]
  BY <1>2, <1>3, <1>7
<1>9. Tail(t) = s BY <1>7, <1>8, SeqEqual DEF Text
<1>10. Range(<<o>>) = {o}
  <2>1. DOMAIN <<o>> = {1} OBVIOUS
  <2> QED BY <1>1, <2>1 DEF Range
<1>11. Range(t) = {o} \cup Range(s)
  <2>1. Range(<<o>> \o s) = Range(<<o>>) \cup Range(s)
    BY <1>1, RangeConcatenation DEF Text
  <2> QED BY <1>10, <2>1 DEF Cons
<1> QED BY <1>2, <1>3, <1>4, <1>6, <1>9, <1>11

\* Nothing left to do.
LEMMA EmptyFacts == <<>> \in Text /\ Range(<<>>) = {} /\ Len(<<>>) = 0
<1>1. <<>> \in Text /\ Len(<<>>) = 0 BY EmptySeq DEF Text
<1>2. DOMAIN <<>> = {} OBVIOUS
<1> QED BY <1>1, <1>2 DEF Range

\* A text that is not empty is its first operation and the others.
LEMMA HeadTail ==
  ASSUME NEW s \in Text, s # <<>>
  PROVE  /\ Head(s) \in Operation /\ Tail(s) \in Text /\ s = Cons(Head(s), Tail(s))
         /\ Range(s) = {Head(s)} \cup Range(Tail(s))
<1>1. /\ Head(s) \in Operation /\ Tail(s) \in Text /\ Len(Tail(s)) = Len(s) - 1
      /\ \A i \in 1 .. Len(Tail(s)) : Tail(s)[i] = s[i + 1]
  BY HeadTailProperties DEF Text
<1>2. Len(s) \in Nat \ {0} /\ Head(s) = s[1] BY EmptySeq DEF Text
<1> DEFINE t == Cons(Head(s), Tail(s))
<1>3. <<Head(s)>> \in Text /\ Len(<<Head(s)>>) = 1 /\ <<Head(s)>>[1] = Head(s) BY <1>1 DEF Text
<1>4. /\ t \in Text /\ Len(t) = 1 + Len(Tail(s))
      /\ \A i \in 1 .. 1 + Len(Tail(s)) : t[i] = IF i <= 1 THEN <<Head(s)>>[i] ELSE Tail(s)[i - 1]
  BY <1>1, <1>3, ConcatProperties DEF Cons, Text
<1>5. Len(t) = Len(s) BY <1>1, <1>2, <1>4
<1>6. \A i \in 1 .. Len(s) : t[i] = s[i]
  BY <1>1, <1>2, <1>3, <1>4
<1>7. t = s BY <1>4, <1>5, <1>6, SeqEqual DEF Text
<1> QED BY <1>1, <1>7, ConsFacts

\* Texts one after the other.
LEMMA JoinFacts ==
  ASSUME NEW s \in Text, NEW t \in Text
  PROVE  /\ s \o t \in Text /\ Range(s \o t) = Range(s) \cup Range(t)
         /\ s \o <<>> = s /\ <<>> \o s = s
         /\ \A o \in Operation : Cons(o, s) \o t = Cons(o, s \o t)
<1>1. s \o t \in Text /\ Range(s \o t) = Range(s) \cup Range(t)
  BY ConcatProperties, RangeConcatenation DEF Text
<1>2. s \o <<>> = s /\ <<>> \o s = s BY ConcatEmptySeq DEF Text
<1>3. ASSUME NEW o \in Operation PROVE Cons(o, s) \o t = Cons(o, s \o t)
  <2>1. <<o>> \in Text BY DEF Text
  <2> QED BY <2>1, ConcatAssociative DEF Cons, Text
<1> QED BY <1>1, <1>2, <1>3

\* A literal text is its first operation and a literal text; also in front of
\* another text.
LEMMA Literal1 ==
  ASSUME NEW a \in Operation
  PROVE  /\ <<a>> \in Text /\ <<a>> = Cons(a, <<>>)
         /\ \A s \in Text : <<a>> \o s = Cons(a, s)
<1>1. <<a>> \in Text BY DEF Text
<1> QED BY <1>1, JoinFacts, EmptyFacts DEF Cons

\* Two operations; they are a text, written from the first one on.
LEMMA Literal2 ==
  ASSUME NEW a \in Operation, NEW b \in Operation
  PROVE  /\ <<a, b>> \in Text /\ <<a, b>> = Cons(a, <<b>>)
         /\ \A s \in Text : <<a, b>> \o s = Cons(a, <<b>> \o s)
<1>1. <<a>> \in Text /\ <<b>> \in Text /\ <<a, b>> \in Text BY DEF Text
<1>2. Len(<<a>>) = 1 /\ Len(<<b>>) = 1 /\ Len(<<a, b>>) = 2 OBVIOUS
<1>3. /\ <<a>> \o <<b>> \in Text /\ Len(<<a>> \o <<b>>) = 2
      /\ \A i \in 1 .. 2 : (<<a>> \o <<b>>)[i] = IF i <= 1 THEN <<a>>[i] ELSE <<b>>[i - 1]
  BY <1>1, <1>2, ConcatProperties DEF Text
<1>4. \A i \in 1 .. 2 : (<<a>> \o <<b>>)[i] = <<a, b>>[i] BY <1>3
<1>5. <<a>> \o <<b>> = <<a, b>> BY <1>1, <1>2, <1>3, <1>4, SeqEqual DEF Text
<1>6. <<a, b>> = Cons(a, <<b>>) BY <1>5 DEF Cons
<1> DEFINE r == <<b>>
<1>7. r \in Text /\ <<a, b>> = Cons(a, r) BY <1>1, <1>6
<1> HIDE DEF r
<1>8. \A s \in Text : Cons(a, r) \o s = Cons(a, r \o s) BY <1>7, JoinFacts
<1>9. \A s \in Text : <<a, b>> \o s = Cons(a, r \o s) BY <1>7, <1>8
<1> QED BY <1>1, <1>6, <1>9 DEF r

\* Three operations.
LEMMA Literal3 ==
  ASSUME NEW a \in Operation, NEW b \in Operation, NEW c \in Operation
  PROVE  /\ <<a, b, c>> \in Text /\ <<a, b, c>> = Cons(a, <<b, c>>)
         /\ \A s \in Text : <<a, b, c>> \o s = Cons(a, <<b, c>> \o s)
<1>1. <<a>> \in Text /\ <<b, c>> \in Text /\ <<a, b, c>> \in Text BY DEF Text
<1>2. Len(<<a>>) = 1 /\ Len(<<b, c>>) = 2 /\ Len(<<a, b, c>>) = 3 OBVIOUS
<1>3. /\ <<a>> \o <<b, c>> \in Text /\ Len(<<a>> \o <<b, c>>) = 3
      /\ \A i \in 1 .. 3 : (<<a>> \o <<b, c>>)[i] = IF i <= 1 THEN <<a>>[i] ELSE <<b, c>>[i - 1]
  BY <1>1, <1>2, ConcatProperties DEF Text
<1>4. \A i \in 1 .. 3 : (<<a>> \o <<b, c>>)[i] = <<a, b, c>>[i] BY <1>3
<1>5. <<a>> \o <<b, c>> = <<a, b, c>> BY <1>1, <1>2, <1>3, <1>4, SeqEqual DEF Text
<1>6. <<a, b, c>> = Cons(a, <<b, c>>) BY <1>5 DEF Cons
<1> DEFINE r == <<b, c>>
<1>7. r \in Text /\ <<a, b, c>> = Cons(a, r) BY <1>1, <1>6
<1> HIDE DEF r
<1>8. \A s \in Text : Cons(a, r) \o s = Cons(a, r \o s) BY <1>7, JoinFacts
<1>9. \A s \in Text : <<a, b, c>> \o s = Cons(a, r \o s) BY <1>7, <1>8
<1> QED BY <1>1, <1>6, <1>9 DEF r

\* Four operations.
LEMMA Literal4 ==
  ASSUME NEW a \in Operation, NEW b \in Operation, NEW c \in Operation, NEW d \in Operation
  PROVE  /\ <<a, b, c, d>> \in Text /\ <<a, b, c, d>> = Cons(a, <<b, c, d>>)
         /\ \A s \in Text : <<a, b, c, d>> \o s = Cons(a, <<b, c, d>> \o s)
<1>1. <<a>> \in Text /\ <<b, c, d>> \in Text /\ <<a, b, c, d>> \in Text BY DEF Text
<1>2. Len(<<a>>) = 1 /\ Len(<<b, c, d>>) = 3 /\ Len(<<a, b, c, d>>) = 4 OBVIOUS
<1>3. /\ <<a>> \o <<b, c, d>> \in Text /\ Len(<<a>> \o <<b, c, d>>) = 4
      /\ \A i \in 1 .. 4 : (<<a>> \o <<b, c, d>>)[i] = IF i <= 1 THEN <<a>>[i] ELSE <<b, c, d>>[i - 1]
  BY <1>1, <1>2, ConcatProperties DEF Text
<1>4. \A i \in 1 .. 4 : (<<a>> \o <<b, c, d>>)[i] = <<a, b, c, d>>[i] BY <1>3
<1>5. <<a>> \o <<b, c, d>> = <<a, b, c, d>> BY <1>1, <1>2, <1>3, <1>4, SeqEqual DEF Text
<1>6. <<a, b, c, d>> = Cons(a, <<b, c, d>>) BY <1>5 DEF Cons
<1> DEFINE r == <<b, c, d>>
<1>7. r \in Text /\ <<a, b, c, d>> = Cons(a, r) BY <1>1, <1>6
<1> HIDE DEF r
<1>8. \A s \in Text : Cons(a, r) \o s = Cons(a, r \o s) BY <1>7, JoinFacts
<1>9. \A s \in Text : <<a, b, c, d>> \o s = Cons(a, r \o s) BY <1>7, <1>8
<1> QED BY <1>1, <1>6, <1>9 DEF r

\* The operations of a launch, of being launched, and those that let the
\* outside in or reach out: interrupts allowed, the other core rung for.
LaunchOps == {"launch", "boot_stack", "boot_entry", "msi_launch", "boot_poll"}
WakeOps == {"wake_sp", "wake_entry", "wake_ack", "main_entry"}
OpenOps == {"on", "mret", "msi_other"}

\* What core 0 does before a launch.
Setting == {"rte_setup", "available", "target0", "time_lo0", "time_hi", "time_lo"}

\* Work of a core apart from launching and being launched; with and without
\* ringing for the other core; with interrupts kept out.
Work == Operation \ (LaunchOps \cup WakeOps)
QuietWork == Work \ {"msi_other"}
ClosedWork == Work \ OpenOps

\* Which operations are work, and of what kind.
LEMMA WorkOps ==
  /\ {"rte_setup", "run_wait", "arg_beg", "arg_end", "result", "run_done", "exit", "available",
      "arg0", "arg1", "run", "run_check", "sum", "check_lr", "char", "lock_lr", "lock_sc", "lock_swap",
      "unlock_lr", "unlock_sc", "unlock_swap", "target0", "time_lo0", "time_hi", "time_lo"} \subseteq ClosedWork
  /\ {"get_hi", "get_lo", "get_hi2", "cmp_begin", "cmp_lo1", "cmp_hi", "cmp_lo", "cmp_get_lo", "cmp_get_hi",
      "target_next", "target_add", "target_never", "target_unix", "msi_self", "msi_clr",
      "install_MTI", "install_MSI", "install_ecall", "mie_MTI", "mie_MSI", "mask_MTI", "mask_MSI",
      "eret", "ecall"} \subseteq ClosedWork
  /\ {"on", "mret"} \subseteq QuietWork /\ "msi_other" \in Work
  /\ ClosedWork \subseteq QuietWork /\ QuietWork \subseteq Work /\ Work \subseteq Operation
<1>1. {"rte_setup", "run_wait", "arg_beg", "arg_end", "result", "run_done", "exit", "available",
      "arg0", "arg1", "run", "run_check", "sum", "check_lr", "char", "lock_lr", "lock_sc", "lock_swap",
      "unlock_lr", "unlock_sc", "unlock_swap", "target0", "time_lo0", "time_hi", "time_lo"} \subseteq ClosedWork
  BY DEF ClosedWork, Work, OpenOps, LaunchOps, WakeOps, Operation, AccessOps, Internal
<1>2. {"get_hi", "get_lo", "get_hi2", "cmp_begin", "cmp_lo1", "cmp_hi", "cmp_lo", "cmp_get_lo", "cmp_get_hi",
      "target_next", "target_add", "target_never", "target_unix", "msi_self", "msi_clr",
      "install_MTI", "install_MSI", "install_ecall", "mie_MTI", "mie_MSI", "mask_MTI", "mask_MSI",
      "eret", "ecall"} \subseteq ClosedWork
  BY DEF ClosedWork, Work, OpenOps, LaunchOps, WakeOps, Operation, AccessOps, Internal
<1>3. {"on", "mret"} \subseteq QuietWork /\ "msi_other" \in Work
  BY DEF QuietWork, Work, LaunchOps, WakeOps, Operation, AccessOps, Internal
<1>4. ClosedWork \subseteq QuietWork /\ QuietWork \subseteq Work /\ Work \subseteq Operation
  BY DEF ClosedWork, QuietWork, Work, OpenOps
<1> QED BY <1>1, <1>2, <1>3, <1>4

\* A message, with and without its lock, is work that keeps interrupts out.
LEMMA SectionText == printf \in Seq(ClosedWork) /\ Locked(printf) \in Seq(ClosedWork)
<1>1. printf \in Seq(ClosedWork) BY WorkOps DEF printf
<1>2. spin_lock \in Seq(ClosedWork) /\ spin_unlock \in Seq(ClosedWork)
  BY WorkOps DEF spin_lock, spin_unlock
<1> QED BY <1>1, <1>2 DEF Locked

\* So are the routines of the CLINT driver.
LEMMA RoutineText ==
  /\ astrarv32_clint_time_set \in Seq(ClosedWork) /\ astrarv32_clint_time_get \in Seq(ClosedWork)
  /\ astrarv32_clint_mtimecmp_set \in Seq(ClosedWork) /\ astrarv32_clint_mtimecmp_get \in Seq(ClosedWork)
  BY WorkOps DEF astrarv32_clint_time_set, astrarv32_clint_time_get, astrarv32_clint_mtimecmp_set,
     astrarv32_clint_mtimecmp_get

\* Every kind of work is work, and work is text.
LEMMA WorkSeqs == Seq(ClosedWork) \subseteq Seq(QuietWork) /\ Seq(QuietWork) \subseteq Seq(Work) /\ Seq(Work) \subseteq Text
  BY WorkOps, SeqMonotonic DEF Text

\* The interrupt handlers are work.
LEMMA HandlerText ==
  /\ \A n \in {"panic MTI", "panic MSI", "panic ecall", "trap_handler_mswi", "trap_handler_ecall",
               "mti_irq_handler", "msi_irq_handler"} : Handler(n) \in Seq(QuietWork)
  /\ \A n \in {"panic ecall", "trap_handler_ecall"} : Handler(n) \in Seq(ClosedWork)
  /\ Handler("trap_handler_mtmi") \in Seq(Work)
<1>1. {"mask_MTI", "mask_MSI", "mret", "eret", "msi_clr", "msi_self", "target_add", "target_next"} \subseteq QuietWork
  BY WorkOps
<1>2. /\ printf \in Seq(QuietWork) /\ Locked(printf) \in Seq(QuietWork)
      /\ astrarv32_clint_time_get \in Seq(QuietWork)
      /\ astrarv32_clint_mtimecmp_set \in Seq(QuietWork) /\ astrarv32_clint_mtimecmp_get \in Seq(QuietWork)
  BY SectionText, RoutineText, WorkSeqs
<1>3. Handler("panic MTI") \in Seq(QuietWork) BY <1>1, <1>2 DEF Handler
<1>4. Handler("panic MSI") \in Seq(QuietWork) BY <1>1, <1>2 DEF Handler
<1>5. Handler("panic ecall") \in Seq(ClosedWork) BY SectionText, WorkOps DEF Handler
<1>6. Handler("trap_handler_ecall") \in Seq(ClosedWork) BY SectionText, WorkOps DEF Handler, trap_handler_ecall
<1>7. Handler("trap_handler_mswi") \in Seq(QuietWork) BY <1>1, <1>2 DEF Handler, trap_handler_mswi
<1>8. Handler("msi_irq_handler") \in Seq(QuietWork) BY <1>1, <1>2 DEF Handler, msi_irq_handler
<1>9. Handler("mti_irq_handler") \in Seq(QuietWork) BY <1>1, <1>2 DEF Handler, mti_irq_handler
<1>10. Handler("trap_handler_mtmi") \in Seq(Work)
  <2>1. {"target_next", "msi_other", "mret"} \subseteq Work BY WorkOps
  <2>2. Locked(printf) \in Seq(Work) /\ astrarv32_clint_time_get \in Seq(Work) /\ astrarv32_clint_mtimecmp_set \in Seq(Work)
    BY <1>2, WorkSeqs
  <2> QED BY <2>1, <2>2 DEF Handler, trap_handler_mtmi
<1>11. Handler("panic ecall") \in Seq(QuietWork) /\ Handler("trap_handler_ecall") \in Seq(QuietWork)
  BY <1>5, <1>6, WorkSeqs
<1> QED BY <1>3, <1>4, <1>5, <1>6, <1>7, <1>8, <1>9, <1>10, <1>11

\* app_main does not ring for the other core.
LEMMA AppText == app_main \in Seq(QuietWork)
<1>1. {"rte_setup", "target0", "install_MTI", "mie_MTI", "install_MSI", "mie_MSI", "install_ecall",
                 "ecall", "on"} \subseteq QuietWork BY WorkOps
<1>2. Locked(printf) \in Seq(QuietWork) /\ astrarv32_clint_mtimecmp_set \in Seq(QuietWork)
  BY SectionText, RoutineText, WorkSeqs
<1> QED BY <1>1, <1>2 DEF app_main

\* What core 1 is launched for is work.
LEMMA EntryText ==
  ASSUME program \in {"message", "retry", "primes", "rte"} PROVE entry_point \in Seq(Work)
<1>1. Locked(printf) \in Seq(Work) /\ app_main \in Seq(Work) BY SectionText, AppText, WorkSeqs
<1>2. {"rte_setup", "run_wait", "arg_beg", "arg_end", "result", "run_done", "exit"} \subseteq Work BY WorkOps
<1>3. main_core1_message \in Seq(Work) BY <1>1, <1>2 DEF main_core1_message
<1>4. core1_entry \in Seq(Work) BY <1>1, <1>2 DEF core1_entry
<1> QED BY <1>1, <1>3, <1>4 DEF entry_point

\* The launch, from each of its operations on.
Calling(r) == <<"launch">> \o (__astrarv32_smp_boot \o r)
Stacking(r) == __astrarv32_smp_boot \o r
Entering(r) == <<"boot_entry", "msi_launch", "boot_poll">> \o r
Ringing(r) == <<"msi_launch", "boot_poll">> \o r
Polling(r) == <<"boot_poll">> \o r

\* Core 0 before and in the launch.
Before(s) == \E p \in Seq(Setting), r \in Seq(Work) : s = p \o Calling(r)
During(s) == \E r \in Seq(Work) : s \in {Stacking(r), Entering(r), Ringing(r), Polling(r)}

\* The next operation of core c; its answer is to come.
At(c, o) == Busy(c) /\ Op(c) = o
Asked(c, o) == At(c, o) /\ bus.id = c

\* The registers of the CLINT a launch uses are registers.
Clints ==
    /\ mtimecmp = [h \in Hart |-> [lo |-> mtimecmp[h].lo, hi |-> mtimecmp[h].hi]]
    /\ mswi \in [Hart -> {0, 1}]

\* Every variable a launch depends on has its type; a bus access under way is
\* the next operation of its core.
Types ==
    /\ program \in {"message", "retry", "primes", "rte", "clock"}
    /\ code \in [Core -> Text]
    /\ hart \in [Core -> [on : BOOLEAN, mie : SUBSET {"MTI", "MSI"}, mtvec : {"panic", "rte", "wakeup"}]]
    /\ bus = [id |-> bus.id, data |-> bus.data] /\ bus.id \in {0, 1, 2}
    /\ \A c \in Core : bus.id = c => Busy(c) /\ Op(c) \notin Internal
    /\ DOMAIN mem = {"locked", "shared_run", "shared_arg0", "shared_arg1"}
    /\ lut \in [MTI : {panic.MTI, handler.MTI}, MSI : {panic.MSI, handler.MSI},
                ecall : {panic.ecall, handler.ecall}]
    /\ launch = [stage |-> launch.stage, polls |-> launch.polls, rc |-> launch.rc, tries |-> launch.tries]
    /\ launch.stage \in {1, 2}
    /\ boot = [sp |-> boot.sp, entry |-> boot.entry]

\* A store-conditional's result is for its core's answer only.
Results == /\ sc_pend_pass \in BOOLEAN /\ sc_pend_fail \in BOOLEAN
           /\ (sc_pend_pass \/ sc_pend_fail) =>
                  bus.id \in Core /\ Op(bus.id) \in {"lock_sc", "unlock_sc"}

\* Core 0 before, in and after the launch.
Launcher ==
    /\ hart[0].mtvec # "wakeup"
    /\ \/ /\ Before(code[0]) \/ During(code[0])
          /\ ~hart[0].on /\ launch.rc # 0 /\ program # "clock"
       \/ code[0] \in Seq(Work) /\ launch.rc = 0
       \/ code[0] \in Seq(QuietWork) /\ program = "clock"
       \/ code[0] \in Seq(ClosedWork) /\ ~hart[0].on

\* Core 1 asleep in crt0, awake there, and in its program.
Asleep == hart[1] = __crt0_smp_setup /\ code[1] = <<>>
Waking(s) == s \in {__crt0_smp_wakeup, <<"wake_entry", "wake_ack", "main_entry">>,
                    <<"wake_ack", "main_entry">>, <<"main_entry">>}
Awake == Waking(code[1]) /\ ~hart[1].on /\ hart[1].mtvec = "panic"
Right == boot.sp = StackTop /\ boot.entry = main_core1
Started == Right /\ hart[1].mtvec # "wakeup" /\ code[1] \in Seq(Work)

\* The request is acknowledged; both words of it are read.
Acked == Awake /\ (At(1, "main_entry") \/ Asked(1, "wake_ack"))
Entered == Awake /\ (At(1, "wake_ack") \/ At(1, "main_entry"))

\* What core 1 reads is a request.
Sleeper ==
    /\ Asleep \/ Awake \/ Started
    /\ (Asleep /\ mswi[1] = 1) \/ Awake =>
           mtimecmp[1].lo = StackTop /\ mtimecmp[1].hi \in {crt0_entry, main_core1}
    /\ Awake =>
         /\ mswi[1] = 0 => Acked
         /\ ~At(1, "wake_sp") => boot.sp = StackTop
         /\ Asked(1, "wake_sp") => bus.data = StackTop
         /\ Asked(1, "wake_entry") => bus.data \in {crt0_entry, main_core1}
         /\ Entered => boot.entry \in {crt0_entry, main_core1}

\* The words of the request are set; the bell is rung.
StackSet == At(0, "boot_entry") \/ At(0, "msi_launch") \/ At(0, "boot_poll") \/ Asked(0, "boot_stack")
EntrySet == At(0, "msi_launch") \/ At(0, "boot_poll") \/ Asked(0, "boot_entry")
Rung == At(0, "boot_poll") \/ Asked(0, "msi_launch")

\* What core 1 reads in the second stage of a launch is its request, and an
\* acknowledge then is for that.
Launching ==
    /\ StackSet /\ ~Started => mtimecmp[1].lo = StackTop
    /\ EntrySet /\ ~Started =>
           mtimecmp[1].hi = IF launch.stage = 1 THEN crt0_entry ELSE main_core1
    /\ launch.stage = 2 /\ ~Started /\ (At(0, "boot_stack") \/ At(0, "boot_entry") \/ At(0, "msi_launch")) =>
           Rung \/ mswi[1] = 0
    /\ launch.stage = 2 /\ ~Started /\ Rung =>
           /\ ~Acked => (Entered => Right)
           /\ Asked(1, "wake_entry") => bus.data = main_core1
           /\ mswi[1] = 0 => Acked /\ Right
    /\ Asked(0, "boot_poll") => bus.data = mswi[1]
    /\ launch.rc = 0 => code[0] \in Seq(Work) /\ (Started \/ (Acked /\ Right))

\* The inductive invariant.
LaunchInv == Clints /\ Types /\ Results /\ Launcher /\ Sleeper /\ Launching

-----------------------------------------------------------------------------
\* The operations used here are operations.
LEMMA LaunchOperations ==
  /\ {"launch", "boot_stack", "boot_entry", "msi_launch", "boot_poll", "wake_sp", "wake_entry", "wake_ack", "main_entry"}
       \subseteq Operation
  /\ Setting \subseteq Operation /\ Work \subseteq Operation /\ Setting \subseteq ClosedWork
<1>1. {"launch", "boot_stack", "boot_entry", "msi_launch", "boot_poll"} \subseteq Operation
  BY DEF Operation, AccessOps, Internal
<1>2. {"wake_sp", "wake_entry", "wake_ack", "main_entry"} \subseteq Operation
  BY DEF Operation, AccessOps, Internal
<1>3. Work \subseteq Operation /\ Setting \subseteq ClosedWork BY WorkOps DEF Setting
<1> QED BY <1>1, <1>2, <1>3, WorkOps

\* Joining texts is associative.
LEMMA JoinThree ==
  ASSUME NEW s \in Text, NEW t \in Text, NEW u \in Text
  PROVE  (s \o t) \o u = s \o (t \o u)
  BY ConcatAssociative DEF Text

\* A launch, written from each of its operations on.
LEMMA LaunchText ==
  ASSUME NEW r \in Seq(Work)
  PROVE  /\ r \in Text
         /\ Calling(r) = Cons("launch", Stacking(r)) /\ Stacking(r) = Cons("boot_stack", Entering(r))
         /\ Entering(r) = Cons("boot_entry", Ringing(r)) /\ Ringing(r) = Cons("msi_launch", Polling(r))
         /\ Polling(r) = Cons("boot_poll", r)
         /\ Stacking(r) \in Text /\ Entering(r) \in Text /\ Ringing(r) \in Text /\ Polling(r) \in Text
         /\ Calling(r) \in Text
<1>1. r \in Text BY WorkSeqs
<1>2. /\ "launch" \in Operation /\ "boot_stack" \in Operation /\ "boot_entry" \in Operation
      /\ "msi_launch" \in Operation /\ "boot_poll" \in Operation
  BY LaunchOperations
<1>3. Stacking(r) = Cons("boot_stack", Entering(r))
  <2>1. __astrarv32_smp_boot = Cons("boot_stack", <<"boot_entry", "msi_launch", "boot_poll">>)
    <3>1. /\ "boot_stack" \in Operation /\ "boot_entry" \in Operation
          /\ "msi_launch" \in Operation /\ "boot_poll" \in Operation
      BY <1>2
    <3>2. __astrarv32_smp_boot \in Text
          /\ __astrarv32_smp_boot = Cons("boot_stack", <<"boot_entry", "msi_launch", "boot_poll">>)
      BY <3>1, Literal4 DEF __astrarv32_smp_boot
    <3> QED BY <3>2
  <2>2. <<"boot_entry", "msi_launch", "boot_poll">> \in Text
    BY <1>2, Literal3
  <2>3. \A o \in Operation : Cons(o, <<"boot_entry", "msi_launch", "boot_poll">>) \o r
                              = Cons(o, <<"boot_entry", "msi_launch", "boot_poll">> \o r)
    BY <1>1, <2>2, JoinFacts
  <2>4. Stacking(r) = Cons("boot_stack", <<"boot_entry", "msi_launch", "boot_poll">>) \o r
    BY <2>1 DEF Stacking
  <2> QED BY <1>2, <2>3, <2>4 DEF Entering
<1>4. Entering(r) = Cons("boot_entry", Ringing(r))
  <2>1. \A t \in Text : <<"boot_entry", "msi_launch", "boot_poll">> \o t
                         = Cons("boot_entry", <<"msi_launch", "boot_poll">> \o t)
    BY <1>2, Literal3
  <2> QED BY <1>1, <2>1 DEF Ringing, Entering
<1>5. Ringing(r) = Cons("msi_launch", Polling(r))
  BY <1>1, <1>2, Literal2 DEF Ringing, Polling
<1>6. Polling(r) = Cons("boot_poll", r)
  BY <1>1, <1>2, Literal1 DEF Polling
<1>7. Calling(r) = Cons("launch", Stacking(r))
  BY DEF Calling, Stacking, Cons
<1>8. Polling(r) \in Text BY <1>1, <1>2, <1>6, ConsFacts
<1>9. Ringing(r) \in Text BY <1>8, <1>2, <1>5, ConsFacts
<1>10. Entering(r) \in Text BY <1>9, <1>2, <1>4, ConsFacts
<1>11. Stacking(r) \in Text BY <1>10, <1>2, <1>3, ConsFacts
<1>12. Calling(r) \in Text BY <1>11, <1>2, <1>7, ConsFacts
<1> QED BY <1>1, <1>3, <1>4, <1>5, <1>6, <1>7, <1>8, <1>9, <1>10, <1>11, <1>12

\* Core 0 before the launch: a setting to come, or the launch itself.
LEMMA BeforeText ==
  ASSUME NEW s, Before(s)
  PROVE  /\ s \in Text /\ s # <<>>
         /\ \/ Head(s) \in Setting /\ Before(Tail(s))
            \/ Head(s) = "launch" /\ \E r \in Seq(Work) : Tail(s) = Stacking(r)
<1> PICK p \in Seq(Setting), r \in Seq(Work) : s = p \o Calling(r) BY DEF Before
<1>1. p \in Text
  BY LaunchOperations, SeqMonotonic DEF Text
<1>2. Calling(r) \in Text /\ Calling(r) = Cons("launch", Stacking(r)) /\ Stacking(r) \in Text
  BY LaunchText
<1>3. "launch" \in Operation BY LaunchOperations
<1>4. s \in Text BY <1>1, <1>2, JoinFacts
<1>5. CASE p = <<>>
  <2>1. s = Calling(r) BY <1>2, <1>5, JoinFacts
  <2> QED BY <2>1, <1>2, <1>3, <1>4, ConsFacts
<1>6. CASE p # <<>>
  <2>1. Head(p) \in Setting /\ Tail(p) \in Seq(Setting) BY <1>6
  <2>2. p = Cons(Head(p), Tail(p)) /\ Tail(p) \in Text /\ Head(p) \in Operation BY <1>1, <1>6, HeadTail
  <2>3. s = Cons(Head(p), Tail(p) \o Calling(r))
    <3>1. \A o \in Operation : Cons(o, Tail(p)) \o Calling(r) = Cons(o, Tail(p) \o Calling(r))
      BY <1>2, <2>2, JoinFacts
    <3> QED BY <2>2, <3>1
  <2>4. Tail(p) \o Calling(r) \in Text BY <1>2, <2>2, JoinFacts
  <2>5. Head(s) = Head(p) /\ Tail(s) = Tail(p) \o Calling(r) /\ s # <<>> BY <2>2, <2>3, <2>4, ConsFacts
  <2>6. Before(Tail(s)) BY <2>1, <2>5 DEF Before
  <2> QED BY <1>4, <2>1, <2>5, <2>6
<1> QED BY <1>5, <1>6

\* Core 0 in the launch.
LEMMA DuringText ==
  ASSUME NEW s, During(s)
  PROVE  /\ s \in Text /\ s # <<>> /\ Head(s) \in {"boot_stack", "boot_entry", "msi_launch", "boot_poll"}
         /\ \E r \in Seq(Work) :
              \/ s = Stacking(r) /\ Head(s) = "boot_stack" /\ Tail(s) = Entering(r)
              \/ s = Entering(r) /\ Head(s) = "boot_entry" /\ Tail(s) = Ringing(r)
              \/ s = Ringing(r) /\ Head(s) = "msi_launch" /\ Tail(s) = Polling(r)
              \/ s = Polling(r) /\ Head(s) = "boot_poll" /\ Tail(s) = r
<1> PICK r \in Seq(Work) : s \in {Stacking(r), Entering(r), Ringing(r), Polling(r)} BY DEF During
<1>1. /\ "boot_stack" \in Operation /\ "boot_entry" \in Operation
      /\ "msi_launch" \in Operation /\ "boot_poll" \in Operation
  BY LaunchOperations
<1>2. CASE s = Stacking(r)
  <2>1. Head(s) = "boot_stack" /\ Tail(s) = Entering(r) /\ s \in Text /\ s # <<>>
    <3>1. s = Cons("boot_stack", Entering(r)) /\ Entering(r) \in Text BY <1>2, LaunchText
    <3> QED BY <1>1, <3>1, ConsFacts
  <2> QED BY <1>2, <2>1
<1>3. CASE s = Entering(r)
  <2>1. Head(s) = "boot_entry" /\ Tail(s) = Ringing(r) /\ s \in Text /\ s # <<>>
    <3>1. s = Cons("boot_entry", Ringing(r)) /\ Ringing(r) \in Text BY <1>3, LaunchText
    <3> QED BY <1>1, <3>1, ConsFacts
  <2> QED BY <1>3, <2>1
<1>4. CASE s = Ringing(r)
  <2>1. Head(s) = "msi_launch" /\ Tail(s) = Polling(r) /\ s \in Text /\ s # <<>>
    <3>1. s = Cons("msi_launch", Polling(r)) /\ Polling(r) \in Text BY <1>4, LaunchText
    <3> QED BY <1>1, <3>1, ConsFacts
  <2> QED BY <1>4, <2>1
<1>5. CASE s = Polling(r)
  <2>1. Head(s) = "boot_poll" /\ Tail(s) = r /\ s \in Text /\ s # <<>>
    <3>1. s = Cons("boot_poll", r) /\ r \in Text BY <1>5, LaunchText
    <3> QED BY <1>1, <3>1, ConsFacts
  <2> QED BY <1>5, <2>1
<1> QED BY <1>2, <1>3, <1>4, <1>5

\* The start-up code of core 1.
LEMMA WakingText ==
  /\ \A s : Waking(s) => s \in Text /\ s # <<>>
  /\ Head(__crt0_smp_wakeup) = "wake_sp" /\ Tail(__crt0_smp_wakeup) = <<"wake_entry", "wake_ack", "main_entry">>
  /\ Head(<<"wake_entry", "wake_ack", "main_entry">>) = "wake_entry"
  /\ Tail(<<"wake_entry", "wake_ack", "main_entry">>) = <<"wake_ack", "main_entry">>
  /\ Head(<<"wake_ack", "main_entry">>) = "wake_ack" /\ Tail(<<"wake_ack", "main_entry">>) = <<"main_entry">>
  /\ Head(<<"main_entry">>) = "main_entry" /\ Tail(<<"main_entry">>) = <<>>
<1>1. /\ "wake_sp" \in Operation /\ "wake_entry" \in Operation /\ "wake_ack" \in Operation
      /\ "main_entry" \in Operation
  BY LaunchOperations
<1>2. /\ <<"main_entry">> \in Text /\ <<"main_entry">> = Cons("main_entry", <<>>)
  BY <1>1, Literal1
<1>3. /\ <<"wake_ack", "main_entry">> \in Text
      /\ <<"wake_ack", "main_entry">> = Cons("wake_ack", <<"main_entry">>)
  BY <1>1, Literal2
<1>4. /\ <<"wake_entry", "wake_ack", "main_entry">> \in Text
      /\ <<"wake_entry", "wake_ack", "main_entry">> = Cons("wake_entry", <<"wake_ack", "main_entry">>)
  BY <1>1, Literal3
<1>5. /\ __crt0_smp_wakeup \in Text
      /\ __crt0_smp_wakeup = Cons("wake_sp", <<"wake_entry", "wake_ack", "main_entry">>)
  BY <1>1, Literal4 DEF __crt0_smp_wakeup
<1>6. <<>> \in Text BY EmptyFacts
<1>7. Head(<<"main_entry">>) = "main_entry" /\ Tail(<<"main_entry">>) = <<>> /\ <<"main_entry">> # <<>>
  BY <1>1, <1>2, <1>6, ConsFacts
<1>8. Head(<<"wake_ack", "main_entry">>) = "wake_ack" /\ Tail(<<"wake_ack", "main_entry">>) = <<"main_entry">>
      /\ <<"wake_ack", "main_entry">> # <<>>
  BY <1>1, <1>2, <1>3, ConsFacts
<1>9. Head(<<"wake_entry", "wake_ack", "main_entry">>) = "wake_entry"
      /\ Tail(<<"wake_entry", "wake_ack", "main_entry">>) = <<"wake_ack", "main_entry">>
      /\ <<"wake_entry", "wake_ack", "main_entry">> # <<>>
  BY <1>1, <1>4, <1>3, ConsFacts
<1>10. Head(__crt0_smp_wakeup) = "wake_sp" /\ Tail(__crt0_smp_wakeup) = <<"wake_entry", "wake_ack", "main_entry">>
      /\ __crt0_smp_wakeup # <<>>
  BY <1>1, <1>4, <1>5, ConsFacts
<1>11. \A s : Waking(s) => s \in Text /\ s # <<>>
  BY <1>2, <1>3, <1>4, <1>5, <1>7, <1>8, <1>9, <1>10 DEF Waking
<1> QED BY <1>7, <1>8, <1>9, <1>10, <1>11

\* The launch as the program calls it.
LEMMA CallingText ==
  ASSUME NEW r \in Seq(Work)
  PROVE  /\ astrarv32_smp_launch \in Text /\ astrarv32_smp_launch \o r = Calling(r)
         /\ Before(Calling(r))
<1>1. astrarv32_smp_launch = <<"launch">> \o __astrarv32_smp_boot /\ __astrarv32_smp_boot \in Text
      /\ <<"launch">> \in Text /\ astrarv32_smp_launch \in Text
  <2>1. /\ "launch" \in Operation /\ "boot_stack" \in Operation /\ "boot_entry" \in Operation
        /\ "msi_launch" \in Operation /\ "boot_poll" \in Operation
    BY LaunchOperations
  <2> QED BY <2>1 DEF astrarv32_smp_launch, __astrarv32_smp_boot, Text
<1>2. astrarv32_smp_launch \o r = Calling(r)
  <2>1. r \in Text BY WorkSeqs
  <2>2. (<<"launch">> \o __astrarv32_smp_boot) \o r = <<"launch">> \o (__astrarv32_smp_boot \o r)
    BY <1>1, <2>1, JoinThree
  <2> QED BY <1>1, <2>2 DEF Calling
<1>3. Before(Calling(r))
  <2>1. <<>> \in Seq(Setting) OBVIOUS
  <2>2. Calling(r) \in Text BY LaunchText
  <2>3. <<>> \o Calling(r) = Calling(r) BY <2>2, JoinFacts
  <2> QED BY <2>1, <2>3 DEF Before
<1> QED BY <1>1, <1>2, <1>3

\* The programs of core 0: settings, the launch, and work; or work alone.
LEMMA MainText ==
  /\ program \in {"message", "retry", "primes", "rte"} => Before(main)
  /\ program = "clock" => main \in Seq(QuietWork)
<1>1. astrarv32_smp_launch \in Text
  <2>1. <<>> \in Seq(Work) OBVIOUS
  <2> QED BY <2>1, CallingText
<1>3. ASSUME NEW p \in Seq(Setting), NEW r \in Seq(Work)
      PROVE  Before((p \o astrarv32_smp_launch) \o r)
  <2>1. r \in Text /\ p \in Text BY WorkSeqs, LaunchOperations, SeqMonotonic DEF Text
  <2>2. (p \o astrarv32_smp_launch) \o r = p \o (astrarv32_smp_launch \o r)
    BY <1>1, <2>1, JoinThree
  <2>3. astrarv32_smp_launch \o r = Calling(r) BY CallingText
  <2> QED BY <2>2, <2>3 DEF Before
<1>4. ASSUME program \in {"message", "retry"} PROVE Before(main)
  <2>1. Locked(printf) \in Seq(Work) BY SectionText, WorkSeqs
  <2>2. spin_check \in Seq(Work) /\ <<"exit">> \in Seq(Work) BY WorkOps DEF spin_check
  <2> DEFINE p == <<"rte_setup", "available">>
             a == Locked(printf)
             b == spin_check
             d == <<"exit">>
             l == astrarv32_smp_launch
  <2>3. p \in Seq(Setting) BY DEF Setting
  <2>4. main = (((p \o l) \o a) \o b) \o d BY <1>4 DEF main, main_message
  <2>5. a \in Seq(Work) /\ b \in Seq(Work) /\ d \in Seq(Work) BY <2>1, <2>2
  <2>6. l \in Text BY <1>1
  <2> HIDE DEF p, a, b, d, l
  <2>7. a \in Text /\ b \in Text /\ d \in Text /\ p \in Text
    BY <2>3, <2>5, WorkSeqs, LaunchOperations, SeqMonotonic DEF Text
  <2> DEFINE q == p \o l
  <2>8. q \in Text BY <2>6, <2>7, JoinFacts
  <2>9. main = ((q \o a) \o b) \o d BY <2>4
  <2> HIDE DEF q
  <2>10. (q \o a) \o b = q \o (a \o b) BY <2>7, <2>8, JoinThree
  <2>11. a \o b \in Text BY <2>7, JoinFacts
  <2>12. (q \o (a \o b)) \o d = q \o ((a \o b) \o d) BY <2>7, <2>8, <2>11, JoinThree
  <2>13. (a \o b) \o d \in Seq(Work) BY <2>5
  <2>14. main = q \o ((a \o b) \o d) BY <2>9, <2>10, <2>12
  <2> QED BY <1>3, <2>3, <2>13, <2>14 DEF q, l
<1>5. ASSUME program = "primes" PROVE Before(main)
  <2>1. <<"rte_setup", "available">> \in Seq(Setting) BY DEF Setting
  <2>2. <<"arg0", "arg1", "run", "run_check", "sum", "exit">> \in Seq(Work) BY WorkOps
  <2> QED BY <1>3, <1>5, <2>1, <2>2 DEF main, main_primes
<1>6. ASSUME program = "rte" PROVE Before(main)
  <2>1. <<"rte_setup", "available", "target0">> \o astrarv32_clint_time_set \in Seq(Setting)
    BY DEF Setting, astrarv32_clint_time_set
  <2>2. app_main \in Seq(Work) BY AppText, WorkSeqs
  <2> QED BY <1>3, <1>6, <2>1, <2>2 DEF main, main_rte
<1>7. ASSUME program = "clock" PROVE main \in Seq(QuietWork)
  <2>1. {"rte_setup", "available", "target_unix", "target_never", "install_MTI", "install_MSI",
         "target_next", "mie_MTI", "mie_MSI", "on"} \subseteq QuietWork
    BY WorkOps
  <2>2. /\ astrarv32_clint_time_set \in Seq(QuietWork) /\ astrarv32_clint_time_get \in Seq(QuietWork)
        /\ astrarv32_clint_mtimecmp_set \in Seq(QuietWork)
    BY RoutineText, WorkSeqs
  <2>3. main_clint \in Seq(QuietWork) BY <2>1, <2>2 DEF main_clint
  <2> QED BY <1>7, <2>3 DEF main
<1> QED BY <1>4, <1>5, <1>6, <1>7

\* The register write of the access of an operation.
Write(c, o) == ClintWrite(Access(c, o))

\* A write of a register of the CLINT.
Put(reg, h, half, d) == [reg |-> reg, hart |-> h, half |-> half, data |-> d]

\* What the operations of a launch, and ringing for the other core, write.
LEMMA LaunchAccess ==
  ASSUME NEW c \in Core
  PROVE  /\ Write(c, "boot_stack") = Put("mtimecmp", 1, "lo", StackTop)
         /\ Write(c, "boot_entry") = Put("mtimecmp", 1, "hi", IF launch.stage = 1 THEN crt0_entry ELSE main_core1)
         /\ Write(c, "msi_launch") = Put("mswi", 1, "lo", 1)
         /\ Write(c, "wake_ack") = Put("mswi", 1, "lo", 0)
         /\ Write(c, "msi_other") = Put("mswi", 1 - c, "lo", 1)
         /\ \A o \in {"boot_poll", "wake_sp", "wake_entry"} : Write(c, o) = NoWrite
<1>1. Access(c, "boot_stack") = Clint("st", "mtimecmp", 1, "lo", StackTop) BY DEF Access
<1>2. Access(c, "boot_entry") = Clint("st", "mtimecmp", 1, "hi", IF launch.stage = 1 THEN crt0_entry ELSE main_core1)
  BY DEF Access
<1>3. Access(c, "msi_launch") = Clint("st", "mswi", 1, "lo", 1) BY DEF Access
<1>4. Access(c, "wake_ack") = Clint("st", "mswi", 1, "lo", 0) BY DEF Access
<1>5. Access(c, "msi_other") = Clint("st", "mswi", 1 - c, "lo", 1) BY DEF Access
<1>6. Access(c, "boot_poll") = Clint("ld", "mswi", 1, "lo", 0) BY DEF Access
<1>7. Access(c, "wake_sp") = Clint("ld", "mtimecmp", 1, "lo", 0) BY DEF Access
<1>8. Access(c, "wake_entry") = Clint("ld", "mtimecmp", 1, "hi", 0) BY DEF Access
<1>9. Write(c, "boot_stack") = Put("mtimecmp", 1, "lo", StackTop) BY <1>1 DEF Clint, Write, Put, ClintWrite
<1>10. Write(c, "boot_entry") = Put("mtimecmp", 1, "hi", IF launch.stage = 1 THEN crt0_entry ELSE main_core1)
  BY <1>2 DEF Clint, Write, Put, ClintWrite
<1>11. Write(c, "msi_launch") = Put("mswi", 1, "lo", 1) BY <1>3 DEF Clint, Write, Put, ClintWrite
<1>12. Write(c, "wake_ack") = Put("mswi", 1, "lo", 0) BY <1>4 DEF Clint, Write, Put, ClintWrite
<1>13. Write(c, "msi_other") = Put("mswi", 1 - c, "lo", 1) BY <1>5 DEF Clint, Write, Put, ClintWrite
<1>14. \A o \in {"boot_poll", "wake_sp", "wake_entry"} : Write(c, o) = NoWrite
  BY <1>6, <1>7, <1>8 DEF Clint, Write, Put, ClintWrite
<1> QED BY <1>9, <1>10, <1>11, <1>12, <1>13, <1>14

\* What a core's other operations write in the CLINT is its own or the time.
Own(c, w) == /\ w.reg \in {"mtimecmp", "mswi"} => w.hart = c
             /\ w.reg = "mswi" => w.data \in {0, 1}
             /\ w.half \in {"lo", "hi"} /\ w.reg \in {"none", "mtime", "mtimecmp", "mswi"}

\* Any other operation of work writes its own core's registers or the time.
LEMMA OwnAccess ==
  ASSUME NEW c \in Core, NEW o \in QuietWork \ Internal
  PROVE  Own(c, Write(c, o))
<1>1. o \in {"lock_ld", "lock_st", "lock_lr", "lock_sc", "lock_swap", "unlock_lr", "unlock_sc", "unlock_swap",
     "check_lr", "char", "run_wait", "run_check", "run", "run_done", "arg_beg", "sum", "arg_end", "arg0", "arg1", "result"}
     \/ o \in {"get_hi", "get_hi2", "get_lo", "cmp_get_lo", "cmp_get_hi"}
     \/ o \in {"msi_self", "msi_clr", "time_lo0", "time_hi", "time_lo", "cmp_lo1", "cmp_hi", "cmp_lo"}
  BY DEF QuietWork, Work, Operation, AccessOps, LaunchOps, WakeOps, Internal
<1>2. CASE o \in {"lock_ld", "lock_st", "lock_lr", "lock_sc", "lock_swap", "unlock_lr", "unlock_sc", "unlock_swap",
     "check_lr", "char", "run_wait", "run_check", "run", "run_done", "arg_beg", "sum", "arg_end", "arg0", "arg1", "result"}
  <2>1. Access(c, o).a \notin {"mtime", "mtimecmp", "mswi"} BY <1>2 DEF Access, Word
  <2>2. Write(c, o) = NoWrite BY <2>1 DEF Write, ClintWrite
  <2> QED BY <2>2 DEF NoWrite, Own
<1>3. CASE o \in {"get_hi", "get_hi2", "get_lo", "cmp_get_lo", "cmp_get_hi"}
  <2>1. Access(c, o).op = "ld" BY <1>3 DEF Access, Clint
  <2>2. Write(c, o) = NoWrite BY <2>1 DEF Write, ClintWrite
  <2> QED BY <2>2 DEF NoWrite, Own
<1>4. CASE o \in {"msi_self", "msi_clr", "time_lo0", "time_hi", "time_lo", "cmp_lo1", "cmp_hi", "cmp_lo"}
  <2>1. CASE o \in {"msi_self", "msi_clr"}
    <3>1. Access(c, o) = Clint("st", "mswi", c, "lo", 1) \/ Access(c, o) = Clint("st", "mswi", c, "lo", 0)
      BY <2>1 DEF Access
    <3> QED BY <3>1 DEF Clint, Write, ClintWrite, Own
  <2>2. CASE o \in {"time_lo0", "time_hi", "time_lo"}
    <3>1. \E d : \E h \in {"lo", "hi"} : Access(c, o) = Clint("st", "mtime", 0, h, d)
      BY <2>2 DEF Access
    <3> QED BY <3>1 DEF Clint, Write, ClintWrite, Own
  <2>3. CASE o \in {"cmp_lo1", "cmp_hi", "cmp_lo"}
    <3>1. \E d : \E h \in {"lo", "hi"} : Access(c, o) = Clint("st", "mtimecmp", c, h, d)
      BY <2>3 DEF Access
    <3> QED BY <3>1 DEF Clint, Write, ClintWrite, Own
  <2> QED BY <1>4, <2>1, <2>2, <2>3
<1> QED BY <1>1, <1>2, <1>3, <1>4

\* What a clock does to the compare registers and the software interrupts.
LEMMA ClockRegs ==
  ASSUME Clints, NEW w, Clock(w), w.reg # "mtimecmp" \/ (w.hart \in Hart /\ w.half \in {"lo", "hi"}),
         w.reg # "mswi" \/ (w.hart \in Hart /\ w.data \in {0, 1})
  PROVE  /\ Clints'
         /\ \A h \in Hart :
              /\ mtimecmp'[h].lo = IF w.reg = "mtimecmp" /\ w.hart = h /\ w.half = "lo" THEN w.data ELSE mtimecmp[h].lo
              /\ mtimecmp'[h].hi = IF w.reg = "mtimecmp" /\ w.hart = h /\ w.half = "hi" THEN w.data ELSE mtimecmp[h].hi
              /\ mswi'[h] = IF w.reg = "mswi" /\ w.hart = h THEN w.data ELSE mswi[h]
<1>1. write_access(w) /\ mswi_reg(w) BY DEF Clock, ClintClock
<1>2. /\ mswi' \in [Hart -> {0, 1}]
      /\ \A h \in Hart : mswi'[h] = IF w.reg = "mswi" /\ w.hart = h THEN w.data ELSE mswi[h]
  BY <1>1 DEF mswi_reg, Clints
<1>3. CASE w.reg # "mtimecmp"
  <2>1. mtimecmp' = mtimecmp BY <1>1, <1>3 DEF write_access
  <2> QED BY <2>1, <1>2, <1>3 DEF Clints
<1>4. CASE w.reg = "mtimecmp"
  <2>1. w.hart \in Hart /\ w.half \in {"lo", "hi"} BY <1>4
  <2>2. mtimecmp' = [mtimecmp EXCEPT ![w.hart] =
                        IF w.half = "lo" THEN [@ EXCEPT !.lo = w.data]
                                         ELSE [@ EXCEPT !.hi = w.data]]
    BY <1>1, <1>4 DEF write_access
  <2>3. mtimecmp = [h \in Hart |-> [lo |-> mtimecmp[h].lo, hi |-> mtimecmp[h].hi]] BY DEF Clints
  <2>4. \A h \in Hart : mtimecmp[h] = [lo |-> mtimecmp[h].lo, hi |-> mtimecmp[h].hi]
    BY <2>3
  <2>5. DOMAIN mtimecmp = Hart BY <2>3
  <2>6. DOMAIN mtimecmp' = Hart /\ mtimecmp' = [h \in Hart |-> mtimecmp'[h]] BY <2>2, <2>5
  <2>7. ASSUME NEW h \in Hart, h # w.hart PROVE mtimecmp'[h] = mtimecmp[h]
    BY <2>2, <2>5, <2>7
  <2>8. mtimecmp'[w.hart] = IF w.half = "lo" THEN [lo |-> w.data, hi |-> mtimecmp[w.hart].hi]
                                             ELSE [lo |-> mtimecmp[w.hart].lo, hi |-> w.data]
    BY <2>1, <2>2, <2>4, <2>5
  <2>9. ASSUME NEW h \in Hart
        PROVE  /\ mtimecmp'[h] = [lo |-> mtimecmp'[h].lo, hi |-> mtimecmp'[h].hi]
               /\ mtimecmp'[h].lo = IF w.hart = h /\ w.half = "lo" THEN w.data ELSE mtimecmp[h].lo
               /\ mtimecmp'[h].hi = IF w.hart = h /\ w.half = "hi" THEN w.data ELSE mtimecmp[h].hi
    <3>1. CASE h = w.hart BY <2>1, <2>8, <3>1
    <3>2. CASE h # w.hart BY <2>4, <2>7, <3>2
    <3> QED BY <3>1, <3>2
  <2>10. mtimecmp' = [h \in Hart |-> [lo |-> mtimecmp'[h].lo, hi |-> mtimecmp'[h].hi]] BY <2>6, <2>9
  <2> QED BY <1>2, <1>4, <2>9, <2>10 DEF Clints
<1> QED BY <1>3, <1>4

\* A clock without a write.
LEMMA ClockIdle ==
  ASSUME Clock(NoWrite)
  PROVE  mtimecmp' = mtimecmp /\ mswi' = mswi
  BY DEF Clock, ClintClock, write_access, mswi_reg, NoWrite

\* Only a store-conditional is one.
LEMMA ScAccess ==
  ASSUME NEW c \in Core, NEW o \in AccessOps, o \notin {"lock_sc", "unlock_sc"}
  PROVE  Access(c, o).op # "sc"
  BY DEF Access, Word, Clint, AccessOps

\* What a strobe leaves alone, writes and reads.
LEMMA StrobeFrame ==
  ASSUME Clints, Types, Results, NEW c \in Core, Strobe(c)
  PROVE  /\ bus.id = 2 /\ bus' = [id |-> c, data |-> Read(Access(c, Op(c)))]
         /\ Clock(Write(c, Op(c))) /\ Busy(c) /\ Op(c) \in AccessOps
         /\ UNCHANGED <<program, code, hart, lut, launch, boot>>
         /\ Types' /\ Results'
<1>1. /\ bus = Idle /\ Busy(c) /\ Op(c) \notin Internal
      /\ bus' = [id |-> c, data |-> Read(Access(c, Op(c)))]
      /\ Clock(Write(c, Op(c)))
      /\ UNCHANGED <<program, code, hart, lut, launch, boot>>
  BY DEF Strobe, BusFree, Write
<1>2. bus.id = 2 BY <1>1 DEF Idle
<1>3. Op(c) \in AccessOps
  <2>1. code[c] \in Text /\ code[c] # <<>> BY <1>1 DEF Types, Busy
  <2>2. Op(c) \in Operation BY <2>1, HeadTail DEF Op
  <2> QED BY <1>1, <2>2 DEF Operation
<1>4. DOMAIN mem' = DOMAIN mem
  <2>1. \E r, q : mem' = (IF Written(r, q) THEN [mem EXCEPT ![r.a] = r.data] ELSE mem) BY DEF Strobe
  <2> QED BY <2>1
<1>5. Types'
  <2>1. bus' = [id |-> bus'.id, data |-> bus'.data] /\ bus'.id = c BY <1>1
  <2>2. \A d \in Core : bus'.id = d => (Busy(d) /\ Op(d) \notin Internal)'
    <3>1. (Busy(c) /\ Op(c) \notin Internal)' BY <1>1 DEF Busy, Op
    <3> QED BY <3>1, <2>1
  <2>3. bus'.id \in {0, 1, 2} BY <2>1 DEF Core
  <2>4. DOMAIN mem' = {"locked", "shared_run", "shared_arg0", "shared_arg1"} BY <1>4 DEF Types
  <2>5. program' = program /\ code' = code /\ hart' = hart /\ lut' = lut /\ launch' = launch /\ boot' = boot
    BY <1>1
  <2> QED BY <2>1, <2>2, <2>3, <2>4, <2>5 DEF Types, handler
<1>6. Results'
  <2> DEFINE r == Access(c, Op(c))
             req == [stb |-> TRUE, id |-> c, op |-> r.op, a |-> r.a, rw |-> r.op \in {"st", "sc", "swap"}]
  <2>1. sc_result(req, [ack |-> FALSE]) BY DEF Strobe, RvsClock
  <2>2. ~sc_pend_pass /\ ~sc_pend_fail BY <1>2 DEF Results, Core
  <2>3. CASE Op(c) \in {"lock_sc", "unlock_sc"}
    <3>1. sc_pend_pass' \in BOOLEAN /\ sc_pend_fail' \in BOOLEAN BY <2>1 DEF sc_result, Results
    <3>2. Op(c)' = Op(c) /\ bus'.id = c BY <1>1 DEF Op
    <3> QED BY <2>3, <3>1, <3>2 DEF Results
  <2>4. CASE Op(c) \notin {"lock_sc", "unlock_sc"}
    <3>1. r.op # "sc" BY <1>3, <2>4, ScAccess
    <3>2. UNCHANGED <<sc_pend_pass, sc_pend_fail>> BY <2>1, <3>1 DEF sc_result, sc
    <3> QED BY <2>2, <3>2 DEF Results
  <2> QED BY <2>3, <2>4
<1> QED BY <1>1, <1>2, <1>3, <1>5, <1>6

\* What an answer leaves alone, and what the core reads.
LEMMA AnswerFrame ==
  ASSUME Clints, Types, Results, NEW c \in Core, Answer(c)
  PROVE  /\ bus.id = c /\ bus' = Idle /\ Busy(c) /\ Op(c) \in AccessOps
         /\ mtimecmp' = mtimecmp /\ mswi' = mswi
         /\ UNCHANGED <<program, hart, mem, lut>>
         /\ Results'
         /\ Op(c) \notin {"lock_sc", "unlock_sc"} => response([data |-> bus.data]).data = bus.data
<1>1. bus.id = c /\ bus' = Idle /\ UNCHANGED <<program, hart, mem, lut>> /\ Clock(NoWrite)
  BY DEF Answer
<1>2. mtimecmp' = mtimecmp /\ mswi' = mswi BY <1>1, ClockIdle
<1>3. Busy(c) /\ Op(c) \in AccessOps
  <2>1. Busy(c) /\ Op(c) \notin Internal BY <1>1 DEF Types
  <2>2. code[c] \in Text /\ code[c] # <<>> BY <2>1 DEF Types, Busy
  <2>3. Op(c) \in Operation BY <2>2, HeadTail DEF Op
  <2> QED BY <2>1, <2>3 DEF Operation
<1>4. Results'
  <2>1. sc_result([stb |-> FALSE], [ack |-> TRUE]) BY DEF Answer, RvsClock
  <2>2. sc_pend_pass' = FALSE /\ sc_pend_fail' = FALSE BY <2>1 DEF sc_result
  <2> QED BY <2>2 DEF Results
<1>5. Op(c) \notin {"lock_sc", "unlock_sc"} => response([data |-> bus.data]).data = bus.data
  BY <1>1 DEF Results, response
<1> QED BY <1>1, <1>2, <1>3, <1>4, <1>5

\* Work stays work when it is answered.
LEMMA AnswerWorkText ==
  ASSUME Clints, Types, Results, NEW c \in Core, Answer(c), NEW S, ClosedWork \subseteq S, S \subseteq Work,
         code[c] \in Seq(S)
  PROVE  /\ code'[c] \in Seq(S) /\ code'[1 - c] = code[1 - c]
         /\ UNCHANGED <<launch, boot>> /\ Types'
<1>1. Busy(c) /\ Op(c) \in AccessOps /\ bus' = Idle /\ UNCHANGED <<program, hart, mem, lut>> BY AnswerFrame
<1>2. Op(c) \in S /\ Rest(c) \in Seq(S) BY <1>1 DEF Op, Rest, Busy
<1>3. Op(c) \notin {"boot_poll", "wake_sp", "wake_entry"} BY <1>2 DEF Work, LaunchOps, WakeOps
<1> PICK data : /\ IF Op(c) = "boot_poll" THEN Polled(data)
                   ELSE code' = Continue(c, data) /\ UNCHANGED launch
                /\ boot' = CASE Op(c) = "wake_sp"    -> [boot EXCEPT !.sp = data]
                             [] Op(c) = "wake_entry" -> [boot EXCEPT !.entry = data]
                             [] OTHER -> boot
  BY DEF Answer
<1>4. code' = Continue(c, data) /\ UNCHANGED launch BY <1>3
<1>5. boot' = boot BY <1>3
<1>6. {"lock_sc", "lock_lr", "unlock_lr", "unlock_sc", "get_hi", "get_lo", "get_hi2"} \subseteq S
  BY WorkOps
<1>7. \E t \in Seq(S) : code' = [code EXCEPT ![c] = t]
  <2>1. code[c] \in Seq(S) /\ code = [code EXCEPT ![c] = code[c]] BY DEF Types
  <2>2. <<"lock_sc">> \o Rest(c) \in Seq(S) /\ <<"lock_lr">> \o Rest(c) \in Seq(S)
        /\ <<"unlock_lr", "unlock_sc">> \o Rest(c) \in Seq(S)
    BY <1>2, <1>6
  <2>3. astrarv32_clint_time_get \o Rest(c) \in Seq(S)
    BY <1>2, <1>6 DEF astrarv32_clint_time_get
  <2>4. \/ Continue(c, data) \in {code, Done(c), Again(c, <<"lock_sc">>), Again(c, <<"lock_lr">>),
                           Again(c, <<"unlock_lr", "unlock_sc">>), Again(c, astrarv32_clint_time_get)}
    BY DEF Continue
  <2> QED BY <1>2, <1>4, <2>1, <2>2, <2>3, <2>4 DEF Done, Again
<1>8. code'[c] \in Seq(S) /\ code'[1 - c] = code[1 - c] /\ code' \in [Core -> Text]
  <2> PICK t \in Seq(S) : code' = [code EXCEPT ![c] = t] BY <1>7
  <2>1. t \in Text
    <3>1. S \subseteq Operation BY WorkOps
    <3> QED BY <3>1, SeqMonotonic DEF Text
  <2> QED BY <2>1 DEF Types, Core
<1>9. Types'
  <2>1. bus' = [id |-> bus'.id, data |-> bus'.data] /\ bus'.id = 2 BY <1>1 DEF Idle
  <2>2. program' = program /\ mem' = mem /\ hart' = hart /\ lut' = lut /\ launch' = launch /\ boot' = boot
    BY <1>1, <1>4, <1>5
  <2>3. bus'.id \in {0, 1, 2} /\ \A d \in Core : bus'.id # d BY <2>1 DEF Core
  <2> QED BY <1>8, <2>1, <2>2, <2>3 DEF Types, handler
<1> QED BY <1>4, <1>5, <1>8, <1>9

\* The values of a core's interrupt control.
Harts == [on : BOOLEAN, mie : SUBSET {"MTI", "MSI"}, mtvec : {"panic", "rte", "wakeup"}]

\* What the handler table holds stays a handler or the panic of its cause.
LEMMA LutType ==
  ASSUME Types, NEW c \in Core, SetLut(c), program' = program
  PROVE  (lut \in [MTI : {panic.MTI, handler.MTI}, MSI : {panic.MSI, handler.MSI},
                ecall : {panic.ecall, handler.ecall}])'
<1> DEFINE L == [MTI : {panic.MTI, handler.MTI}, MSI : {panic.MSI, handler.MSI},
                ecall : {panic.ecall, handler.ecall}]
<1>1. handler' = handler BY DEF handler
<1>2. panic \in L BY DEF panic
<1>3. lut \in L BY DEF Types
<1>4. \/ lut' = panic \/ lut' = [lut EXCEPT !.MTI = handler.MTI] \/ lut' = [lut EXCEPT !.MSI = handler.MSI]
      \/ lut' = [lut EXCEPT !.ecall = handler.ecall] \/ lut' = lut
  BY DEF SetLut
<1>5. lut' \in L BY <1>2, <1>3, <1>4
<1> QED BY <1>1, <1>5

\* A step inside a core: its interrupt control.
LEMMA HartType ==
  ASSUME Types, NEW c \in Core, SetHart(c)
  PROVE  /\ hart' \in [Core -> Harts] /\ hart'[1 - c] = hart[1 - c]
         /\ Op(c) # "main_entry" => hart'[c].mtvec \in {"rte", "panic", hart[c].mtvec}
         /\ Op(c) \notin {"main_entry", "on", "mret"} => (hart'[c].on => hart[c].on)
         /\ Op(c) = "main_entry" => hart' = IF boot.entry = crt0_entry
                                            THEN [hart EXCEPT ![c] = __crt0_smp_setup] ELSE hart
<1>1. hart \in [Core -> Harts] BY DEF Types, Harts
<1> DEFINE h == hart[c]
<1>2. hart[c] \in Harts BY <1>1
<1>3. \E n : hart' = [hart EXCEPT ![c] = n] /\ n \in Harts
             /\ (Op(c) # "main_entry" => n.mtvec \in {"rte", "panic", hart[c].mtvec})
             /\ (Op(c) \notin {"main_entry", "on", "mret"} => (n.on => hart[c].on))
  <2>1. CASE Op(c) = "rte_setup"
    <3> DEFINE n == [on |-> FALSE, mie |-> {}, mtvec |-> "rte"]
    <3>1. hart' = [hart EXCEPT ![c] = n] BY <2>1 DEF SetHart
    <3>2. n \in Harts /\ n.mtvec = "rte" /\ ~n.on BY DEF Harts
    <3> HIDE DEF n
    <3> QED BY <3>1, <3>2
  <2>2. CASE Op(c) = "exit"
    <3> DEFINE n == [on |-> FALSE, mie |-> {}, mtvec |-> "panic"]
    <3>1. hart' = [hart EXCEPT ![c] = n] BY <2>2 DEF SetHart
    <3>2. n \in Harts /\ n.mtvec = "panic" /\ ~n.on BY DEF Harts
    <3> HIDE DEF n
    <3> QED BY <3>1, <3>2
  <2>3. CASE Op(c) \in {"mie_MTI", "mie_MSI", "mask_MTI", "mask_MSI"}
    <3>1. \E m \in SUBSET {"MTI", "MSI"} : hart' = [hart EXCEPT ![c].mie = m]
      <4>1. hart[c].mie \in SUBSET {"MTI", "MSI"} BY <1>2 DEF Harts
      <4>2. CASE Op(c) = "mie_MTI" BY <4>1, <4>2 DEF SetHart
      <4>3. CASE Op(c) = "mie_MSI" BY <4>1, <4>3 DEF SetHart
      <4>4. CASE Op(c) = "mask_MTI" BY <4>1, <4>4 DEF SetHart
      <4>5. CASE Op(c) = "mask_MSI" BY <4>1, <4>5 DEF SetHart
      <4> QED BY <2>3, <4>2, <4>3, <4>4, <4>5
    <3> PICK m \in SUBSET {"MTI", "MSI"} : hart' = [hart EXCEPT ![c].mie = m] BY <3>1
    <3> DEFINE n == [hart[c] EXCEPT !.mie = m]
    <3>2. hart' = [hart EXCEPT ![c] = n] BY <1>1
    <3>3. n \in Harts /\ n.mtvec = hart[c].mtvec /\ n.on = hart[c].on BY <1>2 DEF Harts
    <3> HIDE DEF n
    <3> QED BY <3>2, <3>3
  <2>4. CASE Op(c) \in {"on", "mret"}
    <3>1. hart' = [hart EXCEPT ![c].on = TRUE] BY <2>4 DEF SetHart
    <3> DEFINE n == [hart[c] EXCEPT !.on = TRUE]
    <3>2. hart' = [hart EXCEPT ![c] = n] BY <3>1, <1>1
    <3>3. n \in Harts /\ n.mtvec = hart[c].mtvec BY <1>2 DEF Harts
    <3> HIDE DEF n
    <3> QED BY <2>4, <3>2, <3>3
  <2>5. CASE Op(c) = "main_entry" /\ boot.entry = crt0_entry
    <3>1. hart' = [hart EXCEPT ![c] = __crt0_smp_setup] BY <2>5 DEF SetHart
    <3>2. __crt0_smp_setup \in Harts BY DEF Harts, __crt0_smp_setup
    <3> QED BY <2>5, <3>1, <3>2
  <2>6. CASE /\ Op(c) \notin {"rte_setup", "exit", "mie_MTI", "mie_MSI", "mask_MTI", "mask_MSI", "on", "mret"}
             /\ ~(Op(c) = "main_entry" /\ boot.entry = crt0_entry)
    <3>1. hart' = hart BY <2>6 DEF SetHart
    <3>2. hart' = [hart EXCEPT ![c] = hart[c]] BY <1>1, <3>1
    <3> QED BY <1>2, <3>2
  <2> QED BY <2>1, <2>2, <2>3, <2>4, <2>5, <2>6
<1> PICK n : hart' = [hart EXCEPT ![c] = n] /\ n \in Harts
             /\ (Op(c) # "main_entry" => n.mtvec \in {"rte", "panic", hart[c].mtvec})
             /\ (Op(c) \notin {"main_entry", "on", "mret"} => (n.on => hart[c].on))
  BY <1>3
<1>4. hart' \in [Core -> Harts] /\ hart'[1 - c] = hart[1 - c] /\ hart'[c] = n BY <1>1 DEF Core
<1>5. Op(c) = "main_entry" => hart' = IF boot.entry = crt0_entry
                                            THEN [hart EXCEPT ![c] = __crt0_smp_setup] ELSE hart
  BY DEF SetHart
<1> QED BY <1>4, <1>5

\* What a step inside a core leaves alone.
LEMMA InsideFrame ==
  ASSUME Clints, Types, Results, NEW c \in Core, Inside(c)
  PROVE  /\ bus.id # c /\ Busy(c) /\ Op(c) \in Internal /\ SetCode(c) /\ SetHart(c)
         /\ mtimecmp' = mtimecmp /\ mswi' = mswi
         /\ UNCHANGED <<program, bus, mem, boot>>
         /\ Results' /\ code'[1 - c] = code[1 - c]
         /\ code'[c] \in Text => Types'
<1>1. /\ bus.id # c /\ Busy(c) /\ Op(c) \in Internal /\ SetCode(c) /\ SetHart(c) /\ SetLut(c)
      /\ Clock(NoWrite) /\ UNCHANGED <<program, bus, mem, boot>>
      /\ UNCHANGED <<sc_pend_pass, sc_pend_fail>>
  BY DEF Inside, rvsVars
<1>2. mtimecmp' = mtimecmp /\ mswi' = mswi BY <1>1, ClockIdle
<1>3. \E t : code' = [code EXCEPT ![c] = t]
  BY <1>1 DEF SetCode, Again, Done
<1> PICK t : code' = [code EXCEPT ![c] = t] BY <1>3
<1>4. code'[1 - c] = code[1 - c] /\ DOMAIN code' = Core /\ code'[c] = t
      /\ \A d \in Core : d # c => code'[d] = code[d]
  BY DEF Types, Core
<1>5. Results'
  <2>1. CASE ~(sc_pend_pass \/ sc_pend_fail) BY <1>1, <2>1 DEF Results
  <2>2. CASE sc_pend_pass \/ sc_pend_fail
    <3>1. bus.id \in Core /\ Op(bus.id) \in {"lock_sc", "unlock_sc"} BY <2>2 DEF Results
    <3>2. bus'.id = bus.id /\ code'[bus.id] = code[bus.id] BY <1>1, <1>4, <3>1
    <3>3. Op(bus.id)' = Op(bus.id) BY <3>2 DEF Op
    <3> QED BY <1>1, <3>1, <3>2, <3>3 DEF Results
  <2> QED BY <2>1, <2>2
<1>6. ASSUME code'[c] \in Text PROVE Types'
  <2>1. code' \in [Core -> Text] BY <1>4, <1>6 DEF Types
  <2>2. hart' \in [Core -> Harts] BY <1>1, HartType
  <2>3. (lut \in [MTI : {panic.MTI, handler.MTI}, MSI : {panic.MSI, handler.MSI},
                ecall : {panic.ecall, handler.ecall}])'
    BY <1>1, LutType
  <2>4. \A d \in Core : bus'.id = d => (Busy(d) /\ Op(d) \notin Internal)'
    <3> SUFFICES ASSUME NEW d \in Core, bus'.id = d PROVE (Busy(d) /\ Op(d) \notin Internal)' OBVIOUS
    <3>1. bus.id = d /\ d # c BY <1>1
    <3>2. Busy(d) /\ Op(d) \notin Internal BY <3>1 DEF Types
    <3>3. code'[d] = code[d] BY <1>4, <3>1
    <3> QED BY <3>2, <3>3 DEF Busy, Op
  <2>5. launch' = [stage |-> launch'.stage, polls |-> launch'.polls, rc |-> launch'.rc, tries |-> launch'.tries]
        /\ launch'.stage \in {1, 2}
    <3>1. launch' = IF Op(c) = "launch"
                 THEN [stage |-> 1, polls |-> 0, rc |-> -3, tries |-> launch.tries + 1] ELSE launch
      BY DEF Inside
    <3> QED BY <3>1 DEF Types
  <2>6. program' = program /\ bus' = bus /\ mem' = mem /\ boot' = boot BY <1>1
  <2> QED BY <2>1, <2>2, <2>3, <2>4, <2>5, <2>6 DEF Types, Harts
<1> QED BY <1>1, <1>2, <1>4, <1>5, <1>6

\* Whatever the handler table holds is work; the handlers of the clock program do
\* not ring, and the one of an environment call keeps interrupts out.
LEMMA LutNames ==
  ASSUME Types
  PROVE  /\ \A i \in {"MTI", "MSI", "ecall"} : Handler(lut[i]) \in Seq(Work)
         /\ program = "clock" => \A i \in {"MTI", "MSI", "ecall"} : Handler(lut[i]) \in Seq(QuietWork)
         /\ Handler(lut.ecall) \in Seq(ClosedWork)
<1>1. lut \in [MTI : {panic.MTI, handler.MTI}, MSI : {panic.MSI, handler.MSI},
                ecall : {panic.ecall, handler.ecall}]
  BY DEF Types
<1>2. /\ lut.MTI \in {"panic MTI", "trap_handler_mtmi", "mti_irq_handler"}
      /\ lut.MSI \in {"panic MSI", "trap_handler_mswi", "msi_irq_handler"}
      /\ lut.ecall \in {"panic ecall", "trap_handler_ecall"}
      /\ program = "clock" => lut.MTI # "trap_handler_mtmi"
  BY <1>1 DEF panic, handler
<1>3. Handler(lut.ecall) \in Seq(ClosedWork) BY <1>2, HandlerText
<1>4. Handler(lut.MSI) \in Seq(QuietWork) BY <1>2, HandlerText
<1>5. Handler(lut.MTI) \in Seq(Work) /\ (program = "clock" => Handler(lut.MTI) \in Seq(QuietWork))
  BY <1>2, HandlerText, WorkSeqs
<1>6. lut["MTI"] = lut.MTI /\ lut["MSI"] = lut.MSI /\ lut["ecall"] = lut.ecall OBVIOUS
<1> QED BY <1>3, <1>4, <1>5, <1>6, WorkSeqs

\* Work stays work in a step inside a core.
LEMMA InsideWorkText ==
  ASSUME Clints, Types, Results, NEW c \in Core, Inside(c), NEW S, ClosedWork \subseteq S, S \subseteq Work,
         code[c] \in Seq(S)
  PROVE  /\ code'[c] \in Seq(S) /\ code'[1 - c] = code[1 - c]
         /\ launch' = launch /\ Types' /\ Op(c) \in S
<1>1. Busy(c) /\ Op(c) \in Internal /\ SetCode(c) /\ code'[1 - c] = code[1 - c] BY InsideFrame
<1>2. Op(c) \in S /\ Rest(c) \in Seq(S) BY <1>1 DEF Op, Rest, Busy
<1>3. Op(c) # "main_entry" /\ Op(c) # "launch" BY <1>2 DEF Work, LaunchOps, WakeOps
<1>4. \E t \in Seq(S) : code' = [code EXCEPT ![c] = t]
  <2>1. <<"exit">> \in Seq(S) BY WorkOps
  <2>2. Handler(lut.ecall) \in Seq(S) BY LutNames, SeqMonotonic
  <2>3. Handler(lut.ecall) \o Rest(c) \in Seq(S) BY <1>2, <2>2
  <2>4. \/ code' = [code EXCEPT ![c] = <<"exit">>] \/ code' = [code EXCEPT ![c] = Rest(c)]
        \/ code' = [code EXCEPT ![c] = Handler(lut.ecall) \o Rest(c)]
    BY <1>1, <1>3 DEF SetCode, Again, Done
  <2> QED BY <1>2, <2>1, <2>3, <2>4
<1>5. code'[c] \in Seq(S) BY <1>4 DEF Types
<1>6. code'[c] \in Text
  <2>1. S \subseteq Operation BY WorkOps
  <2> QED BY <1>5, <2>1, SeqMonotonic DEF Text
<1>7. Types' BY <1>6, InsideFrame
<1>8. launch' = launch BY <1>3 DEF Inside
<1> QED BY <1>1, <1>2, <1>5, <1>7, <1>8

\* What a trap leaves alone.
LEMMA TrapFrame ==
  ASSUME Clints, Types, Results, NEW c \in Core, Trap(c)
  PROVE  /\ bus.id # c /\ hart[c].on /\ Pending(c) # {}
         /\ mtimecmp' = mtimecmp /\ mswi' = mswi
         /\ UNCHANGED <<program, bus, mem, lut, launch, boot>>
         /\ Results' /\ code'[1 - c] = code[1 - c] /\ hart'[1 - c] = hart[1 - c] /\ ~hart'[c].on
         /\ hart[c].mtvec = "wakeup" => code'[c] = __crt0_smp_wakeup /\ hart'[c].mtvec = "panic"
         /\ hart[c].mtvec # "wakeup" => /\ hart'[c].mtvec = hart[c].mtvec
                                        /\ \E i \in {"MTI", "MSI"} : code'[c] = Handler(lut[i]) \o code[c]
         /\ code'[c] \in Text => Types'
<1>1. /\ bus.id # c /\ hart[c].on /\ Pending(c) # {} /\ Clock(NoWrite)
      /\ UNCHANGED <<program, bus, mem, lut, launch, boot>> /\ UNCHANGED <<sc_pend_pass, sc_pend_fail>>
  BY DEF Trap, rvsVars
<1>2. mtimecmp' = mtimecmp /\ mswi' = mswi BY <1>1, ClockIdle
<1>3. PICK i \in {"MTI", "MSI"} :
         code' = [code EXCEPT ![c] = IF hart[c].mtvec = "wakeup" THEN __crt0_smp_wakeup
                                      ELSE Handler(lut[i]) \o @]
  BY DEF Trap
<1>4. /\ code'[1 - c] = code[1 - c] /\ DOMAIN code' = Core
      /\ \A d \in Core : d # c => code'[d] = code[d]
      /\ code'[c] = IF hart[c].mtvec = "wakeup" THEN __crt0_smp_wakeup ELSE Handler(lut[i]) \o code[c]
      /\ code'[c] \in Text => code' \in [Core -> Text]
  <2> DEFINE v == IF hart[c].mtvec = "wakeup" THEN __crt0_smp_wakeup ELSE Handler(lut[i]) \o code[c]
  <2>1. code \in [Core -> Text] BY DEF Types
  <2>2. code' = [code EXCEPT ![c] = v] BY <1>3, <2>1
  <2> HIDE DEF v
  <2>3. code'[1 - c] = code[1 - c] /\ DOMAIN code' = Core /\ (\A d \in Core : d # c => code'[d] = code[d])
        /\ code'[c] = v /\ (v \in Text => code' \in [Core -> Text])
    BY <2>1, <2>2 DEF Core
  <2> QED BY <2>3 DEF v
<1>5. /\ hart' \in [Core -> Harts] /\ hart'[1 - c] = hart[1 - c] /\ ~hart'[c].on
      /\ hart[c].mtvec = "wakeup" => hart'[c].mtvec = "panic"
      /\ hart[c].mtvec # "wakeup" => hart'[c].mtvec = hart[c].mtvec
  <2>1. hart \in [Core -> Harts] BY DEF Types, Harts
  <2>2. CASE hart[c].mtvec = "wakeup"
    <3>1. hart' = [hart EXCEPT ![c] = [on |-> FALSE, mie |-> {}, mtvec |-> "panic"]] BY <2>2 DEF Trap
    <3>2. [on |-> FALSE, mie |-> {}, mtvec |-> "panic"] \in Harts BY DEF Harts
    <3>3. hart'[c] = [on |-> FALSE, mie |-> {}, mtvec |-> "panic"] /\ hart' \in [Core -> Harts]
          /\ hart'[1 - c] = hart[1 - c]
      BY <2>1, <3>1, <3>2 DEF Core
    <3> QED BY <2>2, <3>3
  <2>3. CASE hart[c].mtvec # "wakeup"
    <3>1. hart' = [hart EXCEPT ![c].on = FALSE] BY <2>3 DEF Trap
    <3> DEFINE n == [hart[c] EXCEPT !.on = FALSE]
    <3>2. hart' = [hart EXCEPT ![c] = n] BY <2>1, <3>1
    <3>3. n \in Harts /\ n.mtvec = hart[c].mtvec /\ ~n.on BY <2>1 DEF Harts
    <3> HIDE DEF n
    <3>4. hart'[c] = n /\ hart' \in [Core -> Harts] /\ hart'[1 - c] = hart[1 - c] BY <2>1, <3>2, <3>3 DEF Core
    <3> QED BY <2>3, <3>3, <3>4
  <2> QED BY <2>2, <2>3
<1>6. Results'
  <2>1. CASE ~(sc_pend_pass \/ sc_pend_fail) BY <1>1, <2>1 DEF Results
  <2>2. CASE sc_pend_pass \/ sc_pend_fail
    <3>1. bus.id \in Core /\ Op(bus.id) \in {"lock_sc", "unlock_sc"} BY <2>2 DEF Results
    <3>2. bus'.id = bus.id /\ code'[bus.id] = code[bus.id] BY <1>1, <1>4, <3>1
    <3>3. Op(bus.id)' = Op(bus.id) BY <3>2 DEF Op
    <3> QED BY <1>1, <3>1, <3>2, <3>3 DEF Results
  <2> QED BY <2>1, <2>2
<1>7. ASSUME code'[c] \in Text PROVE Types'
  <2>1. code' \in [Core -> Text] BY <1>4, <1>7 DEF Types
  <2>4. \A d \in Core : bus'.id = d => (Busy(d) /\ Op(d) \notin Internal)'
    <3> SUFFICES ASSUME NEW d \in Core, bus'.id = d PROVE (Busy(d) /\ Op(d) \notin Internal)' OBVIOUS
    <3>1. bus.id = d /\ d # c BY <1>1
    <3>2. Busy(d) /\ Op(d) \notin Internal BY <3>1 DEF Types
    <3>3. code'[d] = code[d] BY <1>4, <3>1
    <3> QED BY <3>2, <3>3 DEF Busy, Op
  <2>6. program' = program /\ bus' = bus /\ mem' = mem /\ boot' = boot /\ lut' = lut /\ launch' = launch BY <1>1
  <2> QED BY <1>5, <2>1, <2>4, <2>6 DEF Types, Harts, handler
<1> QED BY <1>1, <1>2, <1>4, <1>5, <1>6, <1>7

\* The bus accesses of a launch.
InLaunch == {"boot_stack", "boot_entry", "msi_launch", "boot_poll"}

\* The next operation of work, and before the launch, is none of a launch.
LEMMA CalmText ==
  ASSUME NEW s, s # <<>>, s \in Seq(Work) \/ Before(s)
  PROVE  Head(s) \notin InLaunch /\ Head(s) \notin WakeOps
<1>1. CASE s \in Seq(Work)
  <2>1. Head(s) \in Work BY <1>1
  <2> QED BY <2>1 DEF Work, LaunchOps, InLaunch
<1>2. CASE Before(s)
  <2>1. Head(s) \in Setting \/ Head(s) = "launch" BY <1>2, BeforeText
  <2> QED BY <2>1 DEF Setting, InLaunch, WakeOps
<1> QED BY <1>1, <1>2

\* So core 0 is at no access of a launch while it works or before the launch.
LEMMA CalmNow ==
  ASSUME code[0] \in Seq(Work) \/ Before(code[0])
  PROVE  /\ \A o \in InLaunch : ~At(0, o)
         /\ ~StackSet /\ ~EntrySet /\ ~Rung
<1>1. \A o \in InLaunch : ~At(0, o) BY CalmText DEF At, Busy, Op
<1> QED BY <1>1 DEF StackSet, EntrySet, Rung, Asked, InLaunch

\* The phases of core 1 exclude one another.
LEMMA Phases ==
  /\ Started => ~Asleep /\ ~Awake
  /\ Asleep => ~Awake
  /\ Acked => Awake
<1>1. Asleep => ~Started BY DEF Asleep, Started, __crt0_smp_setup
<1>2. ASSUME Started, Awake PROVE FALSE
  <2>1. code[1] # <<>> /\ Head(code[1]) \in WakeOps
    BY <1>2, WakingText DEF Awake, Waking, WakeOps
  <2>2. code[1] \in Seq(Work) BY <1>2 DEF Started
  <2> QED BY <2>1, <2>2, CalmText
<1>3. Asleep => ~Awake BY DEF Asleep, Awake, __crt0_smp_setup
<1> QED BY <1>1, <1>2, <1>3 DEF Acked

\* A step of core 0 leaves the phase of core 1 alone.
LEMMA OtherOne ==
  ASSUME code'[1] = code[1], hart'[1] = hart[1], boot' = boot, bus'.id = 1 <=> bus.id = 1
  PROVE  /\ (Asleep' <=> Asleep) /\ (Awake' <=> Awake) /\ (Started' <=> Started) /\ (Right' <=> Right)
         /\ (Acked' <=> Acked) /\ (Entered' <=> Entered)
         /\ \A o : (At(1, o)' <=> At(1, o)) /\ (Asked(1, o)' <=> Asked(1, o))
<1>1. (Asleep' <=> Asleep) /\ (Awake' <=> Awake) BY DEF Asleep, Awake
<1>2. (Started' <=> Started) /\ (Right' <=> Right) BY DEF Started, Right
<1>3. \A o : (At(1, o)' <=> At(1, o)) /\ (Asked(1, o)' <=> Asked(1, o))
  BY DEF At, Asked, Busy, Op
<1>4. At(1, "wake_ack")' <=> At(1, "wake_ack") BY <1>3
<1>5. At(1, "main_entry")' <=> At(1, "main_entry") BY <1>3
<1>6. Asked(1, "wake_ack")' <=> Asked(1, "wake_ack") BY <1>3
<1> QED BY <1>1, <1>2, <1>3, <1>4, <1>5, <1>6 DEF Acked, Entered

\* A step of core 1 leaves the phase of core 0 alone.
LEMMA OtherZero ==
  ASSUME code'[0] = code[0], bus'.id = 0 <=> bus.id = 0
  PROVE  /\ \A o : (At(0, o)' <=> At(0, o)) /\ (Asked(0, o)' <=> Asked(0, o))
         /\ (StackSet' <=> StackSet) /\ (EntrySet' <=> EntrySet) /\ (Rung' <=> Rung)
<1>1. \A o : (At(0, o)' <=> At(0, o)) /\ (Asked(0, o)' <=> Asked(0, o))
  BY DEF At, Asked, Busy, Op
<1>2. At(0, "boot_entry")' <=> At(0, "boot_entry") BY <1>1
<1>3. At(0, "msi_launch")' <=> At(0, "msi_launch") BY <1>1
<1>4. At(0, "boot_poll")' <=> At(0, "boot_poll") BY <1>1
<1>5. Asked(0, "boot_stack")' <=> Asked(0, "boot_stack") BY <1>1
<1>6. Asked(0, "boot_entry")' <=> Asked(0, "boot_entry") BY <1>1
<1>7. Asked(0, "msi_launch")' <=> Asked(0, "msi_launch") BY <1>1
<1> QED BY <1>1, <1>2, <1>3, <1>4, <1>5, <1>6, <1>7 DEF StackSet, EntrySet, Rung

\* A step of core 0 that leaves core 1 alone, its registers apart from a new request.
KeptOne ==
  /\ code'[1] = code[1] /\ hart'[1] = hart[1] /\ boot' = boot
  /\ (bus'.id = 1 <=> bus.id = 1) /\ (bus.id = 1 => bus' = bus)
  /\ mtimecmp'[1].lo = mtimecmp[1].lo \/ mtimecmp'[1].lo = StackTop
  /\ mtimecmp'[1].hi = mtimecmp[1].hi \/ mtimecmp'[1].hi \in {crt0_entry, main_core1}
  /\ \/ mswi'[1] = mswi[1]
     \/ ~Asleep /\ mswi'[1] = 1
     \/ mswi'[1] = 1 /\ mtimecmp'[1].lo = StackTop /\ mtimecmp'[1].hi \in {crt0_entry, main_core1}

\* Such a step keeps what is known of core 1.
LEMMA SleeperFrame ==
  ASSUME Sleeper, KeptOne
  PROVE  Sleeper'
<1>1. /\ (Asleep' <=> Asleep) /\ (Awake' <=> Awake) /\ (Started' <=> Started)
      /\ (Acked' <=> Acked) /\ (Entered' <=> Entered)
      /\ \A o : (At(1, o)' <=> At(1, o)) /\ (Asked(1, o)' <=> Asked(1, o))
  BY OtherOne DEF KeptOne
<1>2. At(1, "wake_sp")' <=> At(1, "wake_sp") BY <1>1
<1>3. Asked(1, "wake_sp")' <=> Asked(1, "wake_sp") BY <1>1
<1>4. Asked(1, "wake_entry")' <=> Asked(1, "wake_entry") BY <1>1
<1>5. (Asleep \/ Awake \/ Started)' BY <1>1 DEF Sleeper, KeptOne
<1>6. ((Asleep /\ mswi[1] = 1) \/ Awake =>
           mtimecmp[1].lo = StackTop /\ mtimecmp[1].hi \in {crt0_entry, main_core1})'
  BY <1>1 DEF Sleeper, KeptOne
<1>7. (Awake /\ mswi[1] = 0 => Acked)' BY <1>1 DEF Sleeper, KeptOne
<1>8. (Awake /\ ~At(1, "wake_sp") => boot.sp = StackTop)' BY <1>1, <1>2 DEF Sleeper, KeptOne
<1>9. (Awake /\ Asked(1, "wake_sp") => bus.data = StackTop)' BY <1>1, <1>3 DEF Sleeper, KeptOne, Asked
<1>10. (Awake /\ Asked(1, "wake_entry") => bus.data \in {crt0_entry, main_core1})'
  BY <1>1, <1>4 DEF Sleeper, KeptOne, Asked
<1>11. (Awake /\ Entered => boot.entry \in {crt0_entry, main_core1})' BY <1>1 DEF Sleeper, KeptOne
<1> QED BY <1>5, <1>6, <1>7, <1>8, <1>9, <1>10, <1>11 DEF Sleeper, KeptOne

\* When core 0 is not launching, only the result of the launch matters.
LEMMA CalmLaunching ==
  ASSUME (code[0] \in Seq(Work) \/ Before(code[0]))',
         (launch.rc = 0 => code[0] \in Seq(Work) /\ (Started \/ (Acked /\ Right)))'
  PROVE  Launching'
<1>1. \A o \in InLaunch : ~At(0, o)' BY CalmText DEF At, Busy, Op
<1>2. /\ ~At(0, "boot_stack")' /\ ~At(0, "boot_entry")' /\ ~At(0, "msi_launch")' /\ ~At(0, "boot_poll")'
  BY <1>1 DEF InLaunch
<1>3. ~StackSet' /\ ~EntrySet' /\ ~Rung' /\ ~Asked(0, "boot_poll")'
  BY <1>2 DEF StackSet, EntrySet, Rung, Asked
<1> QED BY <1>2, <1>3 DEF Launching

\* The registers of core 1 in the CLINT stay as they are.
SameOne == mtimecmp'[1].lo = mtimecmp[1].lo /\ mtimecmp'[1].hi = mtimecmp[1].hi /\ mswi'[1] = mswi[1]

\* Work holds no launch.
LEMMA WorkNotBefore ==
  ASSUME NEW s \in Seq(Work)
  PROVE  ~Before(s) /\ ~During(s)
<1>1. ASSUME During(s) PROVE FALSE
  <2>1. s # <<>> /\ Head(s) \in InLaunch BY <1>1, DuringText DEF InLaunch
  <2> QED BY <2>1, CalmText
<1>2. ASSUME Before(s) PROVE FALSE
  <2> PICK p \in Seq(Setting), r \in Seq(Work) : s = p \o Calling(r) BY <1>2 DEF Before
  <2>1. Calling(r) = Cons("launch", Stacking(r)) /\ Stacking(r) \in Text /\ Calling(r) \in Text BY LaunchText
  <2>2. "launch" \in Operation BY LaunchOperations
  <2>3. "launch" \in Range(Calling(r)) BY <2>1, <2>2, ConsFacts
  <2>4. p \in Text BY LaunchOperations, SeqMonotonic DEF Text
  <2>5. "launch" \in Range(s) BY <2>1, <2>3, <2>4, JoinFacts
  <2>6. Range(s) \subseteq Work BY RangeOfSeq
  <2> QED BY <2>5, <2>6 DEF Work, LaunchOps
<1> QED BY <1>1, <1>2

\* The words in which a launch stands: its state is that of Launcher.
LEMMA LaunchIsClosed ==
  ASSUME Launcher, During(code[0]) \/ Before(code[0])
  PROVE  ~hart[0].on /\ launch.rc # 0 /\ program # "clock"
<1>1. code[0] \notin Seq(Work) BY WorkNotBefore
<1>2. code[0] \notin Seq(QuietWork) /\ code[0] \notin Seq(ClosedWork) BY <1>1, WorkSeqs
<1> QED BY <1>1, <1>2 DEF Launcher

\* A clock with the write of a core's own operation, and with another's.
LEMMA ClockOwn ==
  ASSUME Clints, NEW w, Clock(w), Own(0, w)
  PROVE  Clints' /\ SameOne
<1>1. /\ w.reg # "mtimecmp" \/ (w.hart \in Hart /\ w.half \in {"lo", "hi"})
      /\ w.reg # "mswi" \/ (w.hart \in Hart /\ w.data \in {0, 1})
      /\ w.reg \in {"mtimecmp", "mswi"} => w.hart # 1
  BY DEF Own, Hart
<1> QED BY <1>1, ClockRegs DEF SameOne, Hart

\* A clock with a write of a register of core 1.
LEMMA ClockPut ==
  ASSUME Clints, NEW reg \in {"mtimecmp", "mswi"}, NEW half \in {"lo", "hi"}, NEW d, reg = "mswi" => d \in {0, 1},
         Clock(Put(reg, 1, half, d))
  PROVE  /\ Clints'
         /\ mtimecmp'[1].lo = IF reg = "mtimecmp" /\ half = "lo" THEN d ELSE mtimecmp[1].lo
         /\ mtimecmp'[1].hi = IF reg = "mtimecmp" /\ half = "hi" THEN d ELSE mtimecmp[1].hi
         /\ mswi'[1] = IF reg = "mswi" THEN d ELSE mswi[1]
<1> DEFINE w == Put(reg, 1, half, d)
<1>1. w.reg = reg /\ w.hart = 1 /\ w.half = half /\ w.data = d BY DEF Put
<1>2. Clock(w) OBVIOUS
<1> HIDE DEF w
<1> QED BY <1>1, <1>2, ClockRegs DEF Hart

\* Core 0 starts an access.
LEMMA StrobeZero ==
  ASSUME LaunchInv, Strobe(0)
  PROVE  LaunchInv'
<1>1. Clints /\ Types /\ Results /\ Launcher /\ Sleeper /\ Launching BY DEF LaunchInv
<1>2. /\ bus.id = 2 /\ bus' = [id |-> 0, data |-> Read(Access(0, Op(0)))]
      /\ Clock(Write(0, Op(0))) /\ Busy(0) /\ Op(0) \in AccessOps
      /\ UNCHANGED <<program, code, hart, lut, launch, boot>>
      /\ Types' /\ Results'
  BY <1>1, StrobeFrame DEF Core
<1>3. bus'.id = 0 /\ bus'.data = Read(Access(0, Op(0))) BY <1>2
<1>4. /\ (Asleep' <=> Asleep) /\ (Awake' <=> Awake) /\ (Started' <=> Started) /\ (Right' <=> Right)
      /\ (Acked' <=> Acked) /\ (Entered' <=> Entered)
      /\ \A o : (At(1, o)' <=> At(1, o)) /\ (Asked(1, o)' <=> Asked(1, o))
  BY <1>2, <1>3, OtherOne
<1>5. Launcher' BY <1>1, <1>2 DEF Launcher
<1>6. launch.rc = 0 => code[0] \in Seq(Work) /\ (Started \/ (Acked /\ Right)) BY <1>1 DEF Launching
<1>7. (launch.rc = 0 => code[0] \in Seq(Work) /\ (Started \/ (Acked /\ Right)))' BY <1>2, <1>4, <1>6
<1>8. Op(0)' = Op(0) /\ Busy(0)' BY <1>2 DEF Op, Busy
<1>9. /\ code'[1] = code[1] /\ hart'[1] = hart[1] /\ boot' = boot
      /\ (bus'.id = 1 <=> bus.id = 1) /\ (bus.id = 1 => bus' = bus) /\ Sleeper
  BY <1>1, <1>2, <1>3
<1> DEFINE w == Write(0, Op(0))
<1>10. CASE During(code[0])
  <2>1. Op(0) \in InLaunch BY <1>10, DuringText DEF Op, InLaunch
  <2>2. launch.rc # 0 BY <1>1, <1>10, LaunchIsClosed
  <2>3. launch'.rc # 0 /\ launch'.stage = launch.stage BY <1>2, <2>2
  <2>4. ~Asked(0, "boot_stack") /\ ~Asked(0, "boot_entry") /\ ~Asked(0, "msi_launch") BY <1>2 DEF Asked
  <2>5. ~Asked(1, "wake_entry") /\ ~Asked(1, "wake_ack") BY <1>2 DEF Asked
  <2>6. CASE Op(0) = "boot_stack"
    <3>1. w = Put("mtimecmp", 1, "lo", StackTop) BY <2>6, LaunchAccess DEF Core
    <3>2. /\ Clints' /\ mtimecmp'[1].lo = StackTop /\ mtimecmp'[1].hi = mtimecmp[1].hi /\ mswi'[1] = mswi[1]
      BY <1>1, <1>2, <3>1, ClockPut
    <3>3. Sleeper'
      <4> HIDE DEF w
      <4>1. KeptOne BY <1>9, <3>2 DEF KeptOne
      <4> QED BY <1>9, <4>1, SleeperFrame
    <3>4. /\ At(0, "boot_stack") /\ ~At(0, "boot_entry") /\ ~At(0, "msi_launch") /\ ~At(0, "boot_poll")
          /\ At(0, "boot_stack")' /\ ~At(0, "boot_entry")' /\ ~At(0, "msi_launch")' /\ ~At(0, "boot_poll")'
      BY <1>2, <1>8, <2>6 DEF At
    <3>5. ~EntrySet' /\ ~Rung' /\ ~Asked(0, "boot_poll")' /\ ~Rung BY <2>4, <3>4 DEF EntrySet, Rung, Asked
    <3>6. launch.stage = 2 /\ ~Started => mswi[1] = 0 BY <1>1, <3>4, <3>5 DEF Launching
    <3>7. Launching' BY <1>4, <2>3, <3>2, <3>4, <3>5, <3>6 DEF Launching
    <3> QED BY <1>2, <1>5, <3>2, <3>3, <3>7 DEF LaunchInv
  <2>7. CASE Op(0) = "boot_entry"
    <3>1. w = Put("mtimecmp", 1, "hi", IF launch.stage = 1 THEN crt0_entry ELSE main_core1)
      BY <2>7, LaunchAccess DEF Core
    <3>2. /\ Clints' /\ mtimecmp'[1].lo = mtimecmp[1].lo /\ mswi'[1] = mswi[1]
          /\ mtimecmp'[1].hi = IF launch.stage = 1 THEN crt0_entry ELSE main_core1
      BY <1>1, <1>2, <3>1, ClockPut
    <3>3. Sleeper'
      <4> HIDE DEF w
      <4>1. KeptOne BY <1>9, <3>2 DEF KeptOne
      <4> QED BY <1>9, <4>1, SleeperFrame
    <3>4. /\ ~At(0, "boot_stack") /\ At(0, "boot_entry") /\ ~At(0, "msi_launch") /\ ~At(0, "boot_poll")
          /\ ~At(0, "boot_stack")' /\ At(0, "boot_entry")' /\ ~At(0, "msi_launch")' /\ ~At(0, "boot_poll")'
      BY <1>2, <1>8, <2>7 DEF At
    <3>5. ~Rung' /\ ~Asked(0, "boot_poll")' /\ ~Rung /\ StackSet
      BY <2>4, <3>4 DEF StackSet, Rung, Asked
    <3>6. launch.stage = 2 /\ ~Started => mswi[1] = 0 BY <1>1, <3>4, <3>5 DEF Launching
    <3>7. ~Started => mtimecmp[1].lo = StackTop BY <1>1, <3>5 DEF Launching
    <3>8. Launching' BY <1>4, <2>3, <3>2, <3>4, <3>5, <3>6, <3>7 DEF Launching
    <3> QED BY <1>2, <1>5, <3>2, <3>3, <3>8 DEF LaunchInv
  <2>8. CASE Op(0) = "msi_launch"
    <3>1. w = Put("mswi", 1, "lo", 1) BY <2>8, LaunchAccess DEF Core
    <3>2. /\ Clints' /\ mtimecmp'[1].lo = mtimecmp[1].lo /\ mtimecmp'[1].hi = mtimecmp[1].hi /\ mswi'[1] = 1
      BY <1>1, <1>2, <3>1, ClockPut
    <3>4. /\ ~At(0, "boot_stack") /\ ~At(0, "boot_entry") /\ At(0, "msi_launch") /\ ~At(0, "boot_poll")
          /\ ~At(0, "boot_stack")' /\ ~At(0, "boot_entry")' /\ At(0, "msi_launch")' /\ ~At(0, "boot_poll")'
      BY <1>2, <1>8, <2>8 DEF At
    <3>5. Rung' /\ ~Asked(0, "boot_poll")' /\ ~Rung /\ StackSet /\ EntrySet
      BY <1>3, <2>4, <3>4 DEF StackSet, EntrySet, Rung, Asked
    <3>6. launch.stage = 2 /\ ~Started => mswi[1] = 0 BY <1>1, <3>4, <3>5 DEF Launching
    <3>7. ~Started => mtimecmp[1].lo = StackTop
                      /\ mtimecmp[1].hi = IF launch.stage = 1 THEN crt0_entry ELSE main_core1
      BY <1>1, <3>5 DEF Launching
    <3>3. Sleeper'
      <4>1. ~Asleep \/ ~Started BY Phases
      <4>2. \/ mswi'[1] = mswi[1]
            \/ ~Asleep /\ mswi'[1] = 1
            \/ mswi'[1] = 1 /\ mtimecmp'[1].lo = StackTop /\ mtimecmp'[1].hi \in {crt0_entry, main_core1}
        <5>1. CASE Started
          <6>1. ~Asleep BY <5>1, Phases
          <6>2. mswi'[1] = 1 BY <3>2
          <6> QED BY <6>1, <6>2
        <5>2. CASE ~Started
          <6>1. mtimecmp[1].lo = StackTop /\ mtimecmp[1].hi \in {crt0_entry, main_core1} BY <3>7, <5>2
          <6>2. mtimecmp'[1].lo = StackTop /\ mtimecmp'[1].hi \in {crt0_entry, main_core1} BY <3>2, <6>1
          <6> QED BY <3>2, <6>2
        <5> QED BY <5>1, <5>2
      <4>3. KeptOne BY <1>9, <3>2, <4>2 DEF KeptOne
      <4> QED BY <1>9, <4>3, SleeperFrame
    <3>8. launch.stage = 2 /\ ~Started => (~Acked => ~Entered)
      BY <1>1, <3>6 DEF Sleeper, Entered
    <3>9. ~Asked(1, "wake_entry")' BY <1>4, <2>5
    <3>10. Launching' BY <1>4, <2>3, <3>2, <3>4, <3>5, <3>6, <3>7, <3>8, <3>9 DEF Launching
    <3> QED BY <1>2, <1>5, <3>2, <3>3, <3>10 DEF LaunchInv
  <2>9. CASE Op(0) = "boot_poll"
    <3>1. w = NoWrite BY <2>9, LaunchAccess DEF Core
    <3>2. /\ Clints' /\ mtimecmp'[1].lo = mtimecmp[1].lo /\ mtimecmp'[1].hi = mtimecmp[1].hi /\ mswi'[1] = mswi[1]
      BY <1>1, <1>2, <3>1, ClockIdle DEF Clints
    <3>3. Sleeper'
      <4> HIDE DEF w
      <4>1. KeptOne BY <1>9, <3>2 DEF KeptOne
      <4> QED BY <1>9, <4>1, SleeperFrame
    <3>4. /\ ~At(0, "boot_stack") /\ ~At(0, "boot_entry") /\ ~At(0, "msi_launch") /\ At(0, "boot_poll")
          /\ ~At(0, "boot_stack")' /\ ~At(0, "boot_entry")' /\ ~At(0, "msi_launch")' /\ At(0, "boot_poll")'
      BY <1>2, <1>8, <2>9 DEF At
    <3>5. Rung /\ StackSet /\ EntrySet BY <3>4 DEF StackSet, EntrySet, Rung
    <3>6. bus'.data = mswi[1]
      <4>1. Access(0, "boot_poll") = Clint("ld", "mswi", 1, "lo", 0) BY DEF Access
      <4>2. Read(Clint("ld", "mswi", 1, "lo", 0)) = mswi[1]
        BY <1>1 DEF Read, Clint, read_back, Types
      <4> QED BY <1>3, <2>9, <4>1, <4>2
    <3>7. ~Asked(1, "wake_entry")' BY <1>4, <2>5
    <3>8. Launching' BY <1>1, <1>4, <2>3, <3>2, <3>4, <3>5, <3>6, <3>7 DEF Launching
    <3> QED BY <1>2, <1>5, <3>2, <3>3, <3>8 DEF LaunchInv
  <2> QED BY <2>1, <2>6, <2>7, <2>8, <2>9 DEF InLaunch
<1>11. CASE code[0] \in Seq(Work) \/ Before(code[0])
  <2>1. Op(0) \in Work
    <3>1. CASE code[0] \in Seq(Work) BY <1>2, <3>1 DEF Op, Busy
    <3>2. CASE Before(code[0])
      <4>1. Op(0) \in Setting \/ Op(0) = "launch" BY <3>2, BeforeText DEF Op
      <4>2. "launch" \notin AccessOps BY DEF AccessOps
      <4> QED BY <1>2, <4>1, <4>2, LaunchOperations, WorkOps
    <3> QED BY <1>11, <3>1, <3>2
  <2>2. (code[0] \in Seq(Work) \/ Before(code[0]))' BY <1>2, <1>11
  <2>3. Launching' BY <1>7, <2>2, CalmLaunching
  <2>4. CASE Op(0) = "msi_other"
    <3>1. w = Put("mswi", 1, "lo", 1) BY <2>4, LaunchAccess DEF Core
    <3>2. /\ Clints' /\ mtimecmp'[1].lo = mtimecmp[1].lo /\ mtimecmp'[1].hi = mtimecmp[1].hi /\ mswi'[1] = 1
      BY <1>1, <1>2, <3>1, ClockPut
    <3>3. launch.rc = 0
      <4>1. Op(0) \notin QuietWork /\ Op(0) \notin ClosedWork BY <2>4 DEF QuietWork, ClosedWork, OpenOps
      <4>2. code[0] \notin Seq(QuietWork) /\ code[0] \notin Seq(ClosedWork) BY <1>2, <4>1 DEF Op, Busy
      <4>3. ~Before(code[0])
        <5>1. "msi_other" \notin Setting \cup {"launch"} BY DEF Setting
        <5> QED BY <2>4, <5>1, BeforeText DEF Op
      <4>4. ~During(code[0])
        <5>1. "msi_other" \notin {"boot_stack", "boot_entry", "msi_launch", "boot_poll"} OBVIOUS
        <5> QED BY <2>4, <5>1, DuringText DEF Op
      <4> QED BY <1>1, <4>2, <4>3, <4>4 DEF Launcher
    <3>4. ~Asleep BY <1>6, <3>3, Phases
    <3>5. Sleeper'
      <4> HIDE DEF w
      <4>1. KeptOne BY <1>9, <3>2, <3>4 DEF KeptOne
      <4> QED BY <1>9, <4>1, SleeperFrame
    <3> QED BY <1>2, <1>5, <2>3, <3>2, <3>5 DEF LaunchInv
  <2>5. CASE Op(0) # "msi_other"
    <3>1. Op(0) \in QuietWork \ Internal
      <4>1. Op(0) \notin Internal BY <1>1, <1>2, StrobeFrame DEF Strobe
      <4> QED BY <2>1, <2>5, <4>1 DEF QuietWork
    <3>2. Own(0, w) BY <3>1, OwnAccess DEF Core
    <3>3. /\ Clints' /\ mtimecmp'[1].lo = mtimecmp[1].lo /\ mtimecmp'[1].hi = mtimecmp[1].hi /\ mswi'[1] = mswi[1]
      BY <1>1, <1>2, <3>2, ClockOwn DEF SameOne
    <3>4. Sleeper'
      <4> HIDE DEF w
      <4>1. KeptOne BY <1>9, <3>3 DEF KeptOne
      <4> QED BY <1>9, <4>1, SleeperFrame
    <3> QED BY <1>2, <1>5, <2>3, <3>3, <3>4 DEF LaunchInv
  <2> QED BY <2>4, <2>5
<1> QED BY <1>1, <1>10, <1>11, WorkSeqs DEF Launcher

\* What an answer to core 0 does to its code and to the launch, for the
\* operations that come before a launch or are part of one.
LEMMA AnswerPlain ==
  ASSUME Clints, Types, Results, Answer(0), Op(0) \in Setting \cup {"boot_stack", "boot_entry", "msi_launch"}
  PROVE  code' = [code EXCEPT ![0] = Rest(0)] /\ launch' = launch /\ boot' = boot
<1> PICK data : /\ IF Op(0) = "boot_poll" THEN Polled(data)
                   ELSE code' = Continue(0, data) /\ UNCHANGED launch
                /\ boot' = CASE Op(0) = "wake_sp"    -> [boot EXCEPT !.sp = data]
                             [] Op(0) = "wake_entry" -> [boot EXCEPT !.entry = data]
                             [] OTHER -> boot
  BY DEF Answer
<1>1. Op(0) \notin {"boot_poll", "wake_sp", "wake_entry", "lock_ld", "lock_swap", "check_lr", "run_check",
                    "run_wait", "lock_lr", "lock_sc", "unlock_sc", "get_hi2"}
  BY DEF Setting
<1>2. code' = Continue(0, data) /\ launch' = launch /\ boot' = boot BY <1>1
<1>3. Continue(0, data) = Done(0) BY <1>1 DEF Continue
<1> QED BY <1>2, <1>3 DEF Done

\* The answer to a poll is what was read.
LEMMA AnswerPoll ==
  ASSUME Clints, Types, Results, Answer(0), Op(0) = "boot_poll"
  PROVE  Polled(bus.data) /\ boot' = boot
<1>1. response([data |-> bus.data]).data = bus.data BY AnswerFrame DEF Core
<1> DEFINE data == response([data |-> bus.data]).data
<1>2. /\ IF Op(0) = "boot_poll" THEN Polled(data)
                   ELSE code' = Continue(0, data) /\ UNCHANGED launch
      /\ boot' = CASE Op(0) = "wake_sp"    -> [boot EXCEPT !.sp = data]
                             [] Op(0) = "wake_entry" -> [boot EXCEPT !.entry = data]
                             [] OTHER -> boot
  BY DEF Answer
<1> HIDE DEF data
<1>3. Polled(data) /\ boot' = boot BY <1>2
<1> QED BY <1>1, <1>3 DEF data

\* New code of a core keeps the types.
LEMMA NewCode ==
  ASSUME NEW c \in Core, NEW t \in Text, code \in [Core -> Text], code' = [code EXCEPT ![c] = t]
  PROVE  code' \in [Core -> Text] /\ code'[c] = t /\ code'[1 - c] = code[1 - c]
  BY DEF Core

\* A program that gives up.
LEMMA ExitText == <<"exit">> \in Seq(ClosedWork) /\ <<"exit">> \in Seq(Work) /\ <<"exit">> \in Text
<1>1. "exit" \in ClosedWork BY WorkOps
<1>2. <<"exit">> \in Seq(ClosedWork) BY <1>1
<1> QED BY <1>2, WorkSeqs

\* An answer keeps the types.
LEMMA AnswerTypes ==
  ASSUME Clints, Types, Results, NEW c \in Core, Answer(c), code' \in [Core -> Text], launch'.stage \in {1, 2},
         launch' = [stage |-> launch'.stage, polls |-> launch'.polls, rc |-> launch'.rc, tries |-> launch'.tries],
         boot' = [sp |-> boot'.sp, entry |-> boot'.entry]
  PROVE  Types'
<1>1. bus' = [id |-> bus'.id, data |-> bus'.data] /\ bus'.id = 2 BY AnswerFrame DEF Idle
<1>2. program' = program /\ mem' = mem /\ hart' = hart /\ lut' = lut BY AnswerFrame
<1>3. bus'.id \in {0, 1, 2} /\ \A d \in Core : bus'.id # d BY <1>1 DEF Core
<1> QED BY <1>1, <1>2, <1>3 DEF Types, handler

\* Core 0 gets an answer.
LEMMA AnswerZero ==
  ASSUME LaunchInv, Answer(0)
  PROVE  LaunchInv'
<1>1. Clints /\ Types /\ Results /\ Launcher /\ Sleeper /\ Launching BY DEF LaunchInv
<1>2. /\ bus.id = 0 /\ bus' = Idle /\ Busy(0) /\ Op(0) \in AccessOps
      /\ mtimecmp' = mtimecmp /\ mswi' = mswi
      /\ UNCHANGED <<program, hart, mem, lut>>
      /\ Results'
  BY <1>1, AnswerFrame DEF Core
<1>3. bus'.id = 2 BY <1>2 DEF Idle
<1>4. Clints' BY <1>1, <1>2 DEF Clints
<1>5. code \in [Core -> Text] /\ code[0] # <<>> BY <1>1, <1>2 DEF Types, Busy
<1>6. launch.rc = 0 => code[0] \in Seq(Work) /\ (Started \/ (Acked /\ Right)) BY <1>1 DEF Launching
<1>7. ASSUME code'[1] = code[1], boot' = boot
      PROVE  /\ (Asleep' <=> Asleep) /\ (Awake' <=> Awake) /\ (Started' <=> Started) /\ (Right' <=> Right)
             /\ (Acked' <=> Acked) /\ (Entered' <=> Entered)
             /\ \A o : (At(1, o)' <=> At(1, o)) /\ (Asked(1, o)' <=> Asked(1, o))
             /\ Sleeper'
  <2>1. /\ code'[1] = code[1] /\ hart'[1] = hart[1] /\ boot' = boot
        /\ (bus'.id = 1 <=> bus.id = 1) /\ (bus.id = 1 => bus' = bus)
    BY <1>2, <1>3, <1>7
  <2>2. KeptOne BY <1>2, <2>1 DEF KeptOne
  <2>3. Sleeper' BY <1>1, <2>2, SleeperFrame
  <2> QED BY <2>1, <2>3, OtherOne
<1>8. ~Asked(0, "boot_poll")' /\ ~Asked(0, "boot_stack")' /\ ~Asked(0, "boot_entry")' /\ ~Asked(0, "msi_launch")'
      /\ ~Asked(1, "wake_entry") /\ ~Asked(1, "wake_entry")'
  BY <1>2, <1>3 DEF Asked
<1>9. CASE During(code[0])
  <2>1. ~hart[0].on /\ launch.rc # 0 /\ program # "clock" BY <1>1, <1>9, LaunchIsClosed
  <2> PICK r \in Seq(Work) :
              \/ code[0] = Stacking(r) /\ Op(0) = "boot_stack" /\ Rest(0) = Entering(r)
              \/ code[0] = Entering(r) /\ Op(0) = "boot_entry" /\ Rest(0) = Ringing(r)
              \/ code[0] = Ringing(r) /\ Op(0) = "msi_launch" /\ Rest(0) = Polling(r)
              \/ code[0] = Polling(r) /\ Op(0) = "boot_poll" /\ Rest(0) = r
    BY <1>9, DuringText DEF Op, Rest
  <2>2. /\ r \in Text /\ Stacking(r) \in Text /\ Entering(r) \in Text /\ Ringing(r) \in Text /\ Polling(r) \in Text
        /\ Calling(r) \in Text
    BY LaunchText
  <2>3. During(Stacking(r)) /\ During(Entering(r)) /\ During(Ringing(r)) /\ During(Polling(r)) BY DEF During
  <2>4. /\ Entering(r) # <<>> /\ Head(Entering(r)) = "boot_entry"
        /\ Ringing(r) # <<>> /\ Head(Ringing(r)) = "msi_launch"
        /\ Polling(r) # <<>> /\ Head(Polling(r)) = "boot_poll"
        /\ Stacking(r) # <<>> /\ Head(Stacking(r)) = "boot_stack"
    <3>1. /\ Stacking(r) = Cons("boot_stack", Entering(r))
          /\ Entering(r) = Cons("boot_entry", Ringing(r)) /\ Ringing(r) = Cons("msi_launch", Polling(r))
          /\ Polling(r) = Cons("boot_poll", r)
      BY LaunchText
    <3>2. "boot_stack" \in Operation /\ "boot_entry" \in Operation /\ "msi_launch" \in Operation /\ "boot_poll" \in Operation
      BY LaunchOperations
    <3>3. Stacking(r) # <<>> /\ Head(Stacking(r)) = "boot_stack"
      <4>1. Stacking(r) = Cons("boot_stack", Entering(r)) /\ Entering(r) \in Text /\ "boot_stack" \in Operation
        BY <2>2, <3>1, <3>2
      <4> QED BY <4>1, ConsFacts
    <3>4. Entering(r) # <<>> /\ Head(Entering(r)) = "boot_entry"
      <4>1. Entering(r) = Cons("boot_entry", Ringing(r)) /\ Ringing(r) \in Text /\ "boot_entry" \in Operation
        BY <2>2, <3>1, <3>2
      <4> QED BY <4>1, ConsFacts
    <3>5. Ringing(r) # <<>> /\ Head(Ringing(r)) = "msi_launch"
      <4>1. Ringing(r) = Cons("msi_launch", Polling(r)) /\ Polling(r) \in Text /\ "msi_launch" \in Operation
        BY <2>2, <3>1, <3>2
      <4> QED BY <4>1, ConsFacts
    <3>6. Polling(r) # <<>> /\ Head(Polling(r)) = "boot_poll"
      <4>1. Polling(r) = Cons("boot_poll", r) /\ r \in Text /\ "boot_poll" \in Operation
        BY <2>2, <3>1, <3>2
      <4> QED BY <4>1, ConsFacts
    <3> QED BY <3>3, <3>4, <3>5, <3>6
  <2>5. CASE Op(0) = "boot_stack"
    <3>1. Rest(0) = Entering(r) BY <2>5
    <3>2. code' = [code EXCEPT ![0] = Entering(r)] /\ launch' = launch /\ boot' = boot
      BY <1>1, <2>5, <3>1, AnswerPlain
    <3>3. code' \in [Core -> Text] /\ code'[0] = Entering(r) /\ code'[1] = code[1]
      BY <1>5, <2>2, <3>2, NewCode DEF Core
    <3>4. Types' BY <1>1, <3>2, <3>3, AnswerTypes DEF Types, Core
    <3>5. Launcher' BY <1>1, <1>2, <2>1, <2>3, <3>2, <3>3 DEF Launcher
    <3>6. ~At(0, "boot_stack")' /\ At(0, "boot_entry")' /\ ~At(0, "msi_launch")' /\ ~At(0, "boot_poll")'
      BY <2>4, <3>3 DEF At, Busy, Op
    <3>7. /\ At(0, "boot_stack") /\ ~At(0, "boot_poll") /\ Asked(0, "boot_stack") /\ ~Asked(0, "msi_launch")
      BY <1>2, <2>5 DEF At, Asked
    <3>8. StackSet /\ ~Rung BY <3>7 DEF StackSet, Rung
    <3>9. ~EntrySet' /\ ~Rung' BY <1>8, <3>6 DEF EntrySet, Rung
    <3>10. ~Started => mtimecmp[1].lo = StackTop BY <1>1, <3>8 DEF Launching
    <3>11. launch.stage = 2 /\ ~Started => mswi[1] = 0 BY <1>1, <3>7, <3>8 DEF Launching
    <3>12. Launching' BY <1>2, <1>7, <1>8, <2>1, <3>2, <3>3, <3>6, <3>9, <3>10, <3>11 DEF Launching
    <3> QED BY <1>2, <1>4, <1>7, <3>2, <3>3, <3>4, <3>5, <3>12 DEF LaunchInv
  <2>6. CASE Op(0) = "boot_entry"
    <3>1. Rest(0) = Ringing(r) BY <2>6
    <3>2. code' = [code EXCEPT ![0] = Ringing(r)] /\ launch' = launch /\ boot' = boot
      BY <1>1, <2>6, <3>1, AnswerPlain
    <3>3. code' \in [Core -> Text] /\ code'[0] = Ringing(r) /\ code'[1] = code[1]
      BY <1>5, <2>2, <3>2, NewCode DEF Core
    <3>4. Types' BY <1>1, <3>2, <3>3, AnswerTypes DEF Types, Core
    <3>5. Launcher' BY <1>1, <1>2, <2>1, <2>3, <3>2, <3>3 DEF Launcher
    <3>6. ~At(0, "boot_stack")' /\ ~At(0, "boot_entry")' /\ At(0, "msi_launch")' /\ ~At(0, "boot_poll")'
      BY <2>4, <3>3 DEF At, Busy, Op
    <3>7. /\ At(0, "boot_entry") /\ ~At(0, "boot_poll") /\ Asked(0, "boot_entry") /\ ~Asked(0, "msi_launch")
      BY <1>2, <2>6 DEF At, Asked
    <3>8. StackSet /\ EntrySet /\ ~Rung BY <3>7 DEF StackSet, EntrySet, Rung
    <3>9. ~Rung' BY <1>8, <3>6 DEF Rung
    <3>10. ~Started => mtimecmp[1].lo = StackTop
                       /\ mtimecmp[1].hi = IF launch.stage = 1 THEN crt0_entry ELSE main_core1
      BY <1>1, <3>8 DEF Launching
    <3>11. launch.stage = 2 /\ ~Started => mswi[1] = 0 BY <1>1, <3>7, <3>8 DEF Launching
    <3>12. Launching' BY <1>2, <1>7, <1>8, <2>1, <3>2, <3>3, <3>6, <3>9, <3>10, <3>11 DEF Launching
    <3> QED BY <1>2, <1>4, <1>7, <3>2, <3>3, <3>4, <3>5, <3>12 DEF LaunchInv
  <2>7. CASE Op(0) = "msi_launch"
    <3>1. Rest(0) = Polling(r) BY <2>7
    <3>2. code' = [code EXCEPT ![0] = Polling(r)] /\ launch' = launch /\ boot' = boot
      BY <1>1, <2>7, <3>1, AnswerPlain
    <3>3. code' \in [Core -> Text] /\ code'[0] = Polling(r) /\ code'[1] = code[1]
      BY <1>5, <2>2, <3>2, NewCode DEF Core
    <3>4. Types' BY <1>1, <3>2, <3>3, AnswerTypes DEF Types, Core
    <3>5. Launcher' BY <1>1, <1>2, <2>1, <2>3, <3>2, <3>3 DEF Launcher
    <3>6. ~At(0, "boot_stack")' /\ ~At(0, "boot_entry")' /\ ~At(0, "msi_launch")' /\ At(0, "boot_poll")'
      BY <2>4, <3>3 DEF At, Busy, Op
    <3>7. /\ At(0, "msi_launch") /\ Asked(0, "msi_launch")
      BY <1>2, <2>7 DEF At, Asked
    <3>8. StackSet /\ EntrySet /\ Rung BY <3>7 DEF StackSet, EntrySet, Rung
    <3>10. ~Started => mtimecmp[1].lo = StackTop
                       /\ mtimecmp[1].hi = IF launch.stage = 1 THEN crt0_entry ELSE main_core1
      BY <1>1, <3>8 DEF Launching
    <3>11. launch.stage = 2 /\ ~Started => (~Acked => (Entered => Right)) /\ (mswi[1] = 0 => Acked /\ Right)
      BY <1>1, <3>8 DEF Launching
    <3>12. Launching' BY <1>2, <1>7, <1>8, <2>1, <3>2, <3>3, <3>6, <3>10, <3>11 DEF Launching
    <3> QED BY <1>2, <1>4, <1>7, <3>2, <3>3, <3>4, <3>5, <3>12 DEF LaunchInv
  <2>8. CASE Op(0) = "boot_poll"
    <3>1. Rest(0) = r /\ code[0] = Polling(r) BY <2>8
    <3>2. Polled(bus.data) /\ boot' = boot BY <1>1, <2>8, AnswerPoll
    <3>3. At(0, "boot_poll") /\ Asked(0, "boot_poll") BY <1>2, <2>8 DEF At, Asked
    <3>4. bus.data = mswi[1] BY <1>1, <3>3 DEF Launching
    <3>5. StackSet /\ EntrySet /\ Rung BY <3>3 DEF StackSet, EntrySet, Rung
    <3>6. ~Started => mtimecmp[1].lo = StackTop
                       /\ mtimecmp[1].hi = IF launch.stage = 1 THEN crt0_entry ELSE main_core1
      BY <1>1, <3>5 DEF Launching
    <3>7. launch.stage = 2 /\ ~Started => (~Acked => (Entered => Right)) /\ (mswi[1] = 0 => Acked /\ Right)
      BY <1>1, <3>5 DEF Launching
    <3>8. CASE bus.data = 0 /\ launch.stage = 1
      <4>1. code' = [code EXCEPT ![0] = Stacking(r)]
        BY <3>1, <3>2, <3>8 DEF Polled, Again, Stacking
      <4> DEFINE n == -3
      <4>2. launch' = [launch EXCEPT !.stage = 2, !.polls = 0, !.rc = n] /\ n # 0
        BY <3>2, <3>8 DEF Polled
      <4> HIDE DEF n
      <4>3. /\ launch' = [stage |-> launch'.stage, polls |-> launch'.polls, rc |-> launch'.rc, tries |-> launch'.tries]
            /\ launch'.stage = 2 /\ launch'.rc # 0
        BY <1>1, <4>2 DEF Types
      <4>4. code' \in [Core -> Text] /\ code'[0] = Stacking(r) /\ code'[1] = code[1]
        BY <1>5, <2>2, <4>1, NewCode DEF Core
      <4>5. Types' BY <1>1, <3>2, <4>3, <4>4, AnswerTypes DEF Types, Core
      <4>6. Launcher' BY <1>1, <1>2, <2>1, <2>3, <4>3, <4>4 DEF Launcher
      <4>7. At(0, "boot_stack")' /\ ~At(0, "boot_entry")' /\ ~At(0, "msi_launch")' /\ ~At(0, "boot_poll")'
        BY <2>4, <4>4 DEF At, Busy, Op
      <4>8. ~StackSet' /\ ~EntrySet' /\ ~Rung' BY <1>8, <4>7 DEF StackSet, EntrySet, Rung
      <4>9. mswi'[1] = 0 BY <1>2, <3>4, <3>8
      <4>10. Launching' BY <1>8, <4>3, <4>8, <4>9 DEF Launching
      <4> QED BY <1>2, <1>4, <1>7, <3>2, <4>4, <4>5, <4>6, <4>10 DEF LaunchInv
    <3>9. CASE bus.data = 0 /\ launch.stage # 1
      <4>1. code' = [code EXCEPT ![0] = r]
        BY <3>1, <3>2, <3>9 DEF Polled, Done
      <4>2. launch' = [launch EXCEPT !.stage = 2, !.polls = 0, !.rc = 0]
        BY <3>2, <3>9 DEF Polled
      <4>3. /\ launch' = [stage |-> launch'.stage, polls |-> launch'.polls, rc |-> launch'.rc, tries |-> launch'.tries]
            /\ launch'.stage = 2 /\ launch'.rc = 0
        BY <1>1, <4>2 DEF Types
      <4>4. code' \in [Core -> Text] /\ code'[0] = r /\ code'[1] = code[1]
        BY <1>5, <2>2, <4>1, NewCode DEF Core
      <4>5. Types' BY <1>1, <3>2, <4>3, <4>4, AnswerTypes DEF Types, Core
      <4>6. Launcher' BY <1>1, <1>2, <4>3, <4>4 DEF Launcher
      <4>7. launch.stage = 2 /\ mswi[1] = 0 BY <1>1, <3>4, <3>9 DEF Types
      <4>8. Started \/ (Acked /\ Right) BY <3>7, <4>7
      <4>9. (Started \/ (Acked /\ Right))' BY <1>7, <3>2, <4>4, <4>8
      <4>10. Launching' BY <4>4, <4>9, CalmLaunching
      <4> QED BY <1>2, <1>4, <1>7, <3>2, <4>4, <4>5, <4>6, <4>10 DEF LaunchInv
    <3>10. CASE bus.data # 0 /\ launch.polls < Polls - 1
      <4>1. code' = code /\ launch' = [launch EXCEPT !.polls = @ + 1] BY <3>2, <3>10 DEF Polled
      <4>2. /\ launch' = [stage |-> launch'.stage, polls |-> launch'.polls, rc |-> launch'.rc, tries |-> launch'.tries]
            /\ launch'.stage = launch.stage /\ launch'.rc = launch.rc
        BY <1>1, <4>1 DEF Types
      <4>3. code'[1] = code[1] BY <4>1
      <4>5. Types' BY <1>1, <3>2, <4>1, <4>2, AnswerTypes DEF Types, Core
      <4>6. Launcher' BY <1>1, <1>2, <4>1, <4>2 DEF Launcher
      <4>7. ~At(0, "boot_stack")' /\ ~At(0, "boot_entry")' /\ ~At(0, "msi_launch")' /\ At(0, "boot_poll")'
        BY <2>8, <3>3, <4>1 DEF At, Busy, Op
      <4>10. Launching' BY <1>2, <1>7, <1>8, <2>1, <3>2, <4>2, <4>3, <4>7, <3>6, <3>7 DEF Launching
      <4> QED BY <1>2, <1>4, <1>7, <3>2, <4>3, <4>5, <4>6, <4>10 DEF LaunchInv
    <3>11. CASE bus.data # 0 /\ ~(launch.polls < Polls - 1)
      <4>1. launch' = [launch EXCEPT !.rc = -2] BY <3>2, <3>11 DEF Polled
      <4>2. /\ launch' = [stage |-> launch'.stage, polls |-> launch'.polls, rc |-> launch'.rc, tries |-> launch'.tries]
            /\ launch'.stage = launch.stage /\ launch'.rc # 0
        BY <1>1, <4>1 DEF Types
      <4>3. code' = [code EXCEPT ![0] = Calling(r)] \/ code' = [code EXCEPT ![0] = <<"exit">>]
        <5>1. code' = (IF program = "retry" /\ launch.tries = 1
                    THEN Again(0, astrarv32_smp_launch) ELSE [code EXCEPT ![0] = <<"exit">>])
          BY <3>2, <3>11 DEF Polled
        <5>2. Again(0, astrarv32_smp_launch) = [code EXCEPT ![0] = astrarv32_smp_launch \o r]
          BY <3>1 DEF Again
        <5>3. astrarv32_smp_launch \o r = Calling(r) BY CallingText
        <5> QED BY <5>1, <5>2, <5>3
      <4>4. Before(Calling(r)) BY CallingText
      <4>5. <<"exit">> \in Seq(ClosedWork) /\ <<"exit">> \in Seq(Work) /\ <<"exit">> \in Text BY ExitText
      <4>6. /\ code' \in [Core -> Text] /\ code'[1] = code[1] /\ code'[0] \in {Calling(r), <<"exit">>}
        BY <1>5, <2>2, <4>3, <4>5, NewCode DEF Core
      <4>7. Types' BY <1>1, <3>2, <4>2, <4>6, AnswerTypes DEF Types, Core
      <4>8. Launcher' BY <1>1, <1>2, <2>1, <4>2, <4>4, <4>5, <4>6 DEF Launcher
      <4>9. Launching' BY <4>2, <4>4, <4>5, <4>6, CalmLaunching
      <4> QED BY <1>2, <1>4, <1>7, <3>2, <4>6, <4>7, <4>8, <4>9 DEF LaunchInv
    <3> QED BY <3>8, <3>9, <3>10, <3>11
  <2>9. Op(0) \in {"boot_stack", "boot_entry", "msi_launch", "boot_poll"} OBVIOUS
  <2> QED BY <2>5, <2>6, <2>7, <2>8, <2>9
<1>10. CASE Before(code[0])
  <2>1. ~hart[0].on /\ launch.rc # 0 /\ program # "clock" BY <1>1, <1>10, LaunchIsClosed
  <2>2. Op(0) \in Setting /\ Before(Rest(0))
    <3>1. "launch" \notin AccessOps BY DEF AccessOps
    <3> QED BY <1>2, <1>10, <3>1, BeforeText DEF Op, Rest
  <2>3. code' = [code EXCEPT ![0] = Rest(0)] /\ launch' = launch /\ boot' = boot BY <1>1, <2>2, AnswerPlain
  <2>4. Rest(0) \in Text BY <2>2, BeforeText
  <2>5. code' \in [Core -> Text] /\ code'[0] = Rest(0) /\ code'[1] = code[1]
    BY <1>5, <2>3, <2>4, NewCode DEF Core
  <2>6. Types' BY <1>1, <2>3, <2>5, AnswerTypes DEF Types, Core
  <2>7. Launcher' BY <1>1, <1>2, <2>1, <2>2, <2>3, <2>5 DEF Launcher
  <2>8. Launching' BY <2>1, <2>2, <2>3, <2>5, CalmLaunching
  <2> QED BY <1>2, <1>4, <1>7, <2>3, <2>5, <2>6, <2>7, <2>8 DEF LaunchInv
<1>11. CASE code[0] \in Seq(Work) /\ ~Before(code[0]) /\ ~During(code[0])
  <2>1. ClosedWork \subseteq Work /\ QuietWork \subseteq Work /\ ClosedWork \subseteq QuietWork BY WorkOps
  <2>2. code'[0] \in Seq(Work) /\ code'[1] = code[1] /\ UNCHANGED <<launch, boot>> /\ Types'
    BY <1>1, <1>11, <2>1, AnswerWorkText DEF Core
  <2>3. code[0] \in Seq(QuietWork) => code'[0] \in Seq(QuietWork)
    BY <1>1, <2>1, AnswerWorkText DEF Core
  <2>4. code[0] \in Seq(ClosedWork) => code'[0] \in Seq(ClosedWork)
    BY <1>1, <2>1, AnswerWorkText DEF Core
  <2>5. Launcher' BY <1>1, <1>2, <1>11, <2>2, <2>3, <2>4 DEF Launcher
  <2>6. (launch.rc = 0 => code[0] \in Seq(Work) /\ (Started \/ (Acked /\ Right)))'
    BY <1>6, <1>7, <2>2
  <2>7. Launching' BY <2>2, <2>6, CalmLaunching
  <2> QED BY <1>2, <1>4, <1>7, <2>2, <2>5, <2>7 DEF LaunchInv
<1> QED BY <1>1, <1>9, <1>10, <1>11, WorkSeqs DEF Launcher

\* A step inside core 0 leaves core 1 and its registers alone.
LEMMA InsideZeroFrame ==
  ASSUME LaunchInv, Inside(0)
  PROVE  /\ bus' = bus /\ boot' = boot /\ program' = program /\ Busy(0) /\ Op(0) \in Internal
         /\ Clints' /\ Results' /\ Sleeper' /\ SameOne
         /\ code'[1] = code[1] /\ hart'[0].mtvec # "wakeup"
         /\ (Op(0) \notin {"on", "mret"} => (hart'[0].on => hart[0].on))
         /\ (Started' <=> Started) /\ (Right' <=> Right) /\ (Acked' <=> Acked) /\ (Awake' <=> Awake)
         /\ (Entered' <=> Entered)
         /\ code'[0] \in Text => Types'
         /\ Op(0) # "main_entry"
<1>1. Clints /\ Types /\ Results /\ Launcher /\ Sleeper /\ Launching BY DEF LaunchInv
<1>2. /\ bus.id # 0 /\ Busy(0) /\ Op(0) \in Internal /\ SetHart(0)
      /\ mtimecmp' = mtimecmp /\ mswi' = mswi
      /\ UNCHANGED <<program, bus, mem, boot>>
      /\ Results' /\ code'[1] = code[1]
      /\ code'[0] \in Text => Types'
  BY <1>1, InsideFrame DEF Core
<1>3. Op(0) # "main_entry"
  <2>1. CASE During(code[0])
    <3>1. Op(0) \in InLaunch BY <2>1, DuringText DEF Op, InLaunch
    <3> QED BY <3>1 DEF InLaunch
  <2>2. CASE code[0] \in Seq(Work) \/ Before(code[0])
    <3>1. Head(code[0]) \notin WakeOps BY <1>2, <2>2, CalmText DEF Busy
    <3> QED BY <3>1 DEF Op, WakeOps
  <2> QED BY <1>1, <2>1, <2>2, WorkSeqs DEF Launcher
<1>4. /\ hart'[1] = hart[1]
      /\ hart'[0].mtvec \in {"rte", "panic", hart[0].mtvec}
      /\ Op(0) \notin {"on", "mret"} => (hart'[0].on => hart[0].on)
  BY <1>1, <1>2, <1>3, HartType DEF Core
<1>5. hart'[0].mtvec # "wakeup" BY <1>1, <1>4 DEF Launcher
<1>6. Clints' /\ SameOne BY <1>1, <1>2 DEF Clints, SameOne
<1>7. /\ code'[1] = code[1] /\ hart'[1] = hart[1] /\ boot' = boot
      /\ (bus'.id = 1 <=> bus.id = 1) /\ (bus.id = 1 => bus' = bus)
  BY <1>2, <1>4
<1>8. KeptOne BY <1>6, <1>7 DEF KeptOne, SameOne
<1>9. Sleeper' BY <1>1, <1>8, SleeperFrame
<1>10. (Started' <=> Started) /\ (Right' <=> Right) /\ (Acked' <=> Acked) /\ (Awake' <=> Awake)
       /\ (Entered' <=> Entered)
  BY <1>7, OtherOne
<1> QED BY <1>2, <1>3, <1>4, <1>5, <1>6, <1>9, <1>10

\* Core 0 does a step without access.
LEMMA InsideZero ==
  ASSUME LaunchInv, Inside(0)
  PROVE  LaunchInv'
<1>1. Clints /\ Types /\ Results /\ Launcher /\ Sleeper /\ Launching BY DEF LaunchInv
<1>2. /\ bus' = bus /\ boot' = boot /\ program' = program /\ Busy(0) /\ Op(0) \in Internal
      /\ Clints' /\ Results' /\ Sleeper' /\ SameOne
      /\ code'[1] = code[1] /\ hart'[0].mtvec # "wakeup"
      /\ (Op(0) \notin {"on", "mret"} => (hart'[0].on => hart[0].on))
      /\ (code'[0] \in Text => Types')
  BY InsideZeroFrame
<1>3. (Started' <=> Started) /\ (Right' <=> Right) /\ (Acked' <=> Acked) /\ (Awake' <=> Awake) /\ (Entered' <=> Entered)
  BY InsideZeroFrame
<1>4. code \in [Core -> Text] BY <1>1 DEF Types
<1>5. launch.rc = 0 => code[0] \in Seq(Work) /\ (Started \/ (Acked /\ Right)) BY <1>1 DEF Launching
<1>6. ~During(code[0])
  <2> SUFFICES ASSUME During(code[0]) PROVE FALSE OBVIOUS
  <2>1. Op(0) \in {"boot_stack", "boot_entry", "msi_launch", "boot_poll"} BY DuringText DEF Op
  <2> QED BY <1>2, <2>1 DEF Internal
<1>7. CASE Before(code[0])
  <2>1. ~hart[0].on /\ launch.rc # 0 /\ program # "clock" BY <1>1, <1>7, LaunchIsClosed
  <2>2. \/ Op(0) \in Setting /\ Before(Rest(0))
        \/ Op(0) = "launch" /\ \E r \in Seq(Work) : Rest(0) = Stacking(r)
    BY <1>7, BeforeText DEF Op, Rest
  <2>3. Op(0) \notin {"on", "mret", "ecall", "main_entry"} BY <2>2 DEF Setting
  <2>4. ~hart'[0].on BY <1>2, <2>1, <2>3
  <2>5. SetCode(0) BY <1>1, InsideFrame DEF Core
  <2>6. \/ Op(0) = "available" /\ code' = [code EXCEPT ![0] = <<"exit">>]
        \/ code' = [code EXCEPT ![0] = Rest(0)]
    BY <2>3, <2>5 DEF SetCode, Done
  <2>7. launch' = IF Op(0) = "launch"
                 THEN [stage |-> 1, polls |-> 0, rc |-> -3, tries |-> launch.tries + 1] ELSE launch
    BY DEF Inside
  <2>8. launch'.rc # 0
    <3> DEFINE n == -3
    <3>1. launch' = (IF Op(0) = "launch"
                 THEN [stage |-> 1, polls |-> 0, rc |-> n, tries |-> launch.tries + 1] ELSE launch) /\ n # 0
      BY <2>7
    <3> HIDE DEF n
    <3> QED BY <2>1, <3>1
  <2>9. CASE Op(0) = "available" /\ code' = [code EXCEPT ![0] = <<"exit">>]
    <3>1. <<"exit">> \in Text /\ <<"exit">> \in Seq(ClosedWork) /\ <<"exit">> \in Seq(Work) BY ExitText
    <3>2. code'[0] = <<"exit">> BY <1>4, <2>9, <3>1, NewCode DEF Core
    <3>3. Launcher' BY <1>2, <2>4, <3>1, <3>2 DEF Launcher
    <3>4. Launching' BY <2>8, <3>1, <3>2, CalmLaunching
    <3> QED BY <1>2, <3>1, <3>2, <3>3, <3>4 DEF LaunchInv
  <2>10. CASE Op(0) \in Setting /\ Before(Rest(0)) /\ code' = [code EXCEPT ![0] = Rest(0)]
    <3>1. Rest(0) \in Text BY <2>10, BeforeText
    <3>2. code'[0] = Rest(0) BY <1>4, <2>10, <3>1, NewCode DEF Core
    <3>3. Launcher' BY <1>2, <2>1, <2>4, <2>8, <2>10, <3>2 DEF Launcher
    <3>4. Launching' BY <2>8, <2>10, <3>2, CalmLaunching
    <3> QED BY <1>2, <3>1, <3>2, <3>3, <3>4 DEF LaunchInv
  <2>11. CASE Op(0) = "launch" /\ code' = [code EXCEPT ![0] = Rest(0)]
    <3> PICK r \in Seq(Work) : Rest(0) = Stacking(r)
      <4>1. "launch" \notin Setting BY DEF Setting
      <4> QED BY <2>2, <2>11, <4>1
    <3>1. Stacking(r) \in Text BY LaunchText
    <3>2. code'[0] = Stacking(r) BY <1>4, <2>11, <3>1, NewCode DEF Core
    <3>3. During(Stacking(r)) BY DEF During
    <3>4. Launcher' BY <1>2, <2>1, <2>4, <2>8, <3>2, <3>3 DEF Launcher
    <3>5. Stacking(r) # <<>> /\ Head(Stacking(r)) = "boot_stack"
      <4>1. Stacking(r) = Cons("boot_stack", Entering(r)) /\ Entering(r) \in Text BY LaunchText
      <4>2. "boot_stack" \in Operation BY LaunchOperations
      <4> QED BY <4>1, <4>2, ConsFacts
    <3>6. ~At(0, "boot_entry")' /\ ~At(0, "msi_launch")' /\ ~At(0, "boot_poll")'
      BY <3>2, <3>5 DEF At, Op
    <3>7. bus'.id # 0 BY <1>1, <1>2, InsideFrame DEF Core
    <3>8. ~StackSet' /\ ~EntrySet' /\ ~Rung' /\ ~Asked(0, "boot_poll")'
      BY <3>6, <3>7 DEF StackSet, EntrySet, Rung, Asked
    <3>9. launch'.stage = 1 BY <2>7, <2>11
    <3>10. Launching' BY <2>8, <3>8, <3>9 DEF Launching
    <3> QED BY <1>2, <3>1, <3>2, <3>4, <3>10 DEF LaunchInv
  <2> QED BY <2>2, <2>6, <2>9, <2>10, <2>11
<1>8. CASE code[0] \in Seq(Work)
  <2>1. ClosedWork \subseteq Work /\ QuietWork \subseteq Work /\ ClosedWork \subseteq QuietWork BY WorkOps
  <2>2. code'[0] \in Seq(Work) /\ launch' = launch /\ Types'
    BY <1>1, <1>8, <2>1, InsideWorkText DEF Core
  <2>3. code[0] \in Seq(QuietWork) => code'[0] \in Seq(QuietWork)
    BY <1>1, <2>1, InsideWorkText DEF Core
  <2>4. code[0] \in Seq(ClosedWork) => code'[0] \in Seq(ClosedWork) /\ Op(0) \in ClosedWork
    BY <1>1, <2>1, InsideWorkText DEF Core
  <2>5. code[0] \in Seq(ClosedWork) /\ ~hart[0].on => ~hart'[0].on
    BY <1>2, <2>4 DEF ClosedWork, OpenOps
  <2>6. ~Before(code[0])
    <3>1. Before(code[0]) => launch.rc # 0 /\ ~hart[0].on /\ program # "clock" BY <1>1, LaunchIsClosed
    <3> SUFFICES ASSUME Before(code[0]) PROVE FALSE OBVIOUS
    <3> QED BY <1>8, WorkNotBefore
  <2>7. Launcher' BY <1>1, <1>2, <1>6, <2>2, <2>3, <2>4, <2>5, <2>6 DEF Launcher
  <2>8. (launch.rc = 0 => code[0] \in Seq(Work) /\ (Started \/ (Acked /\ Right)))'
    BY <1>3, <1>5, <2>2
  <2>9. Launching' BY <2>2, <2>8, CalmLaunching
  <2> QED BY <1>2, <2>2, <2>7, <2>9 DEF LaunchInv
<1> QED BY <1>1, <1>6, <1>7, <1>8, WorkSeqs DEF Launcher

\* Core 0 is interrupted.
LEMMA TrapZero ==
  ASSUME LaunchInv, Trap(0)
  PROVE  LaunchInv'
<1>1. Clints /\ Types /\ Results /\ Launcher /\ Sleeper /\ Launching BY DEF LaunchInv
<1>2. /\ hart[0].on
      /\ mtimecmp' = mtimecmp /\ mswi' = mswi
      /\ UNCHANGED <<program, bus, mem, lut, launch, boot>>
      /\ Results' /\ code'[1] = code[1] /\ hart'[1] = hart[1] /\ ~hart'[0].on
      /\ hart[0].mtvec # "wakeup" => /\ hart'[0].mtvec = hart[0].mtvec
                                     /\ \E i \in {"MTI", "MSI"} : code'[0] = Handler(lut[i]) \o code[0]
      /\ code'[0] \in Text => Types'
  <2>1. 0 \in Core /\ 1 - 0 = 1 BY DEF Core
  <2> QED BY <1>1, <2>1, TrapFrame
<1>3. hart[0].mtvec # "wakeup" BY <1>1 DEF Launcher
<1>4. /\ hart'[0].mtvec # "wakeup"
      /\ \E i \in {"MTI", "MSI"} : code'[0] = Handler(lut[i]) \o code[0]
  BY <1>2, <1>3
<1>5. PICK i \in {"MTI", "MSI"} : code'[0] = Handler(lut[i]) \o code[0] BY <1>4
<1>6. \/ code[0] \in Seq(Work) /\ launch.rc = 0
      \/ code[0] \in Seq(QuietWork) /\ program = "clock"
  BY <1>1, <1>2 DEF Launcher
<1>7. /\ Handler(lut[i]) \in Seq(Work) /\ (program = "clock" => Handler(lut[i]) \in Seq(QuietWork))
  BY <1>1, LutNames
<1>8. code[0] \in Seq(Work) => code'[0] \in Seq(Work)
  <2> DEFINE h == Handler(lut[i])
  <2>1. h \in Seq(Work) /\ code'[0] = h \o code[0] BY <1>5, <1>7
  <2> HIDE DEF h
  <2> QED BY <2>1
<1>9. program = "clock" /\ code[0] \in Seq(QuietWork) => code'[0] \in Seq(QuietWork)
  <2> DEFINE h == Handler(lut[i])
  <2>1. (program = "clock" => h \in Seq(QuietWork)) /\ code'[0] = h \o code[0] BY <1>5, <1>7
  <2> HIDE DEF h
  <2> QED BY <2>1
<1>10. code'[0] \in Seq(Work) /\ code'[0] \in Text BY <1>6, <1>8, <1>9, WorkSeqs
<1>11. Types' BY <1>2, <1>10
<1>12. Launcher' BY <1>2, <1>4, <1>6, <1>8, <1>9 DEF Launcher
<1>13. Clints' BY <1>1, <1>2 DEF Clints
<1>14. /\ code'[1] = code[1] /\ hart'[1] = hart[1] /\ boot' = boot
       /\ (bus'.id = 1 <=> bus.id = 1) /\ (bus.id = 1 => bus' = bus)
  BY <1>2
<1>15. KeptOne BY <1>2, <1>14 DEF KeptOne
<1>16. Sleeper' BY <1>1, <1>15, SleeperFrame
<1>17. (Started' <=> Started) /\ (Right' <=> Right) /\ (Acked' <=> Acked)
  BY <1>14, OtherOne
<1>18. launch.rc = 0 => code[0] \in Seq(Work) /\ (Started \/ (Acked /\ Right)) BY <1>1 DEF Launching
<1>19. (launch.rc = 0 => code[0] \in Seq(Work) /\ (Started \/ (Acked /\ Right)))'
  BY <1>2, <1>10, <1>17, <1>18
<1>20. Launching' BY <1>10, <1>19, CalmLaunching
<1> QED BY <1>2, <1>11, <1>12, <1>13, <1>16, <1>20 DEF LaunchInv

\* The clock ticks, or nothing happens.
LEMMA TickZero ==
  ASSUME LaunchInv, Tick \/ UNCHANGED vars
  PROVE  LaunchInv'
<1>1. mtimecmp' = mtimecmp /\ mswi' = mswi
  <2>1. CASE Tick BY <2>1, ClockIdle DEF Tick
  <2>2. CASE UNCHANGED vars BY <2>2 DEF vars, clintVars
  <2> QED BY <2>1, <2>2
<1>2. /\ program' = program /\ code' = code /\ hart' = hart /\ bus' = bus /\ mem' = mem
      /\ lut' = lut /\ launch' = launch /\ boot' = boot
      /\ sc_pend_pass' = sc_pend_pass /\ sc_pend_fail' = sc_pend_fail
  BY DEF Tick, vars, softVars, rvsVars
<1>3. Clints' /\ Types' BY <1>1, <1>2 DEF LaunchInv, Clints, Types, handler, Busy, Op
<1>4. Results' BY <1>1, <1>2 DEF LaunchInv, Results, Op
<1>5. Launcher' BY <1>2 DEF LaunchInv, Launcher
<1>6. /\ (Asleep' <=> Asleep) /\ (Awake' <=> Awake) /\ (Started' <=> Started) /\ (Right' <=> Right)
      /\ (Acked' <=> Acked) /\ (Entered' <=> Entered)
      /\ \A o : (At(1, o)' <=> At(1, o)) /\ (Asked(1, o)' <=> Asked(1, o))
  BY <1>2, OtherOne
<1>7. /\ \A o : (At(0, o)' <=> At(0, o)) /\ (Asked(0, o)' <=> Asked(0, o))
      /\ (StackSet' <=> StackSet) /\ (EntrySet' <=> EntrySet) /\ (Rung' <=> Rung)
  BY <1>2, OtherZero
<1>8. KeptOne BY <1>1, <1>2 DEF KeptOne
<1>9. Sleeper' BY <1>8, SleeperFrame DEF LaunchInv
<1>10. Launching' BY <1>1, <1>2, <1>6, <1>7 DEF LaunchInv, Launching
<1> QED BY <1>3, <1>4, <1>5, <1>9, <1>10 DEF LaunchInv

\* The phases of core 1 after a step.
LEMMA PhasesNext ==
  /\ Started' => ~Asleep' /\ ~Awake'
  /\ Asleep' => ~Awake'
  /\ Acked' => Awake'
<1>1. (/\ Started => ~Asleep /\ ~Awake
       /\ Asleep => ~Awake
       /\ Acked => Awake)'
  BY Phases, PTL
<1> QED BY <1>1

\* A step of core 1 leaves core 0 and the result of the launch alone.
KeptZero == /\ code'[0] = code[0] /\ hart'[0] = hart[0] /\ program' = program /\ launch' = launch
            /\ (bus'.id = 0 <=> bus.id = 0) /\ (bus.id = 0 => bus' = bus /\ mswi'[1] = mswi[1])

\* Such a step keeps what is known of core 0.
LEMMA LauncherFrame ==
  ASSUME Launcher, KeptZero
  PROVE  Launcher'
  BY DEF Launcher, KeptZero

\* Once core 1 is started, what it does is of no consequence to the launch.
LEMMA StartedNext ==
  ASSUME Launching, Started, Started', KeptZero
  PROVE  Sleeper' /\ Launching'
<1>1. ~Asleep' /\ ~Awake' BY PhasesNext
<1>2. Sleeper' BY <1>1 DEF Sleeper
<1>3. Asked(0, "boot_poll")' <=> Asked(0, "boot_poll") BY OtherZero DEF KeptZero
<1>4. (Asked(0, "boot_poll") => bus.data = mswi[1])'
  BY <1>3 DEF Launching, KeptZero, Asked
<1>5. (launch.rc = 0 => code[0] \in Seq(Work) /\ (Started \/ (Acked /\ Right)))'
  BY DEF Launching, KeptZero
<1> QED BY <1>2, <1>4, <1>5 DEF Launching

\* Awake, core 1 has a request and has not been started.
LEMMA AwakeText ==
  ASSUME Awake
  PROVE  /\ Busy(1) /\ ~Started /\ ~Asleep /\ Op(1) \in WakeOps /\ code[1] \in Text
         /\ Op(1) = "wake_sp" => Rest(1) = <<"wake_entry", "wake_ack", "main_entry">>
         /\ Op(1) = "wake_entry" => Rest(1) = <<"wake_ack", "main_entry">>
         /\ Op(1) = "wake_ack" => Rest(1) = <<"main_entry">>
         /\ Op(1) = "main_entry" => Rest(1) = <<>>
<1>1. Waking(code[1]) BY DEF Awake
<1>2. Busy(1) /\ code[1] \in Text BY <1>1, WakingText DEF Busy
<1>3. \/ Op(1) = "wake_sp" /\ Rest(1) = <<"wake_entry", "wake_ack", "main_entry">>
      \/ Op(1) = "wake_entry" /\ Rest(1) = <<"wake_ack", "main_entry">>
      \/ Op(1) = "wake_ack" /\ Rest(1) = <<"main_entry">>
      \/ Op(1) = "main_entry" /\ Rest(1) = <<>>
  BY <1>1, WakingText DEF Waking, Op, Rest
<1>4. ~Started /\ ~Asleep BY Phases
<1> QED BY <1>2, <1>3, <1>4 DEF WakeOps

\* Core 1 starts an access: it reads a request, or acknowledges it.
LEMMA StrobeOne ==
  ASSUME LaunchInv, Strobe(1)
  PROVE  LaunchInv'
<1>1. Clints /\ Types /\ Results /\ Launcher /\ Sleeper /\ Launching BY DEF LaunchInv
<1>2. /\ bus.id = 2 /\ bus' = [id |-> 1, data |-> Read(Access(1, Op(1)))]
      /\ Clock(Write(1, Op(1))) /\ Busy(1) /\ Op(1) \in AccessOps
      /\ UNCHANGED <<program, code, hart, lut, launch, boot>>
      /\ Types' /\ Results'
  BY <1>1, StrobeFrame DEF Core
<1>3. bus'.id = 1 /\ bus'.data = Read(Access(1, Op(1))) BY <1>2
<1>4. KeptZero BY <1>2, <1>3 DEF KeptZero
<1>5. Launcher' BY <1>1, <1>4, LauncherFrame
<1>6. /\ (Asleep' <=> Asleep) /\ (Awake' <=> Awake) /\ (Started' <=> Started) /\ (Right' <=> Right)
      /\ (Entered' <=> Entered) /\ \A o : (At(1, o)' <=> At(1, o))
  BY <1>2 DEF Asleep, Awake, Started, Right, Entered, At, Busy, Op
<1>7. /\ \A o : (At(0, o)' <=> At(0, o)) /\ (Asked(0, o)' <=> Asked(0, o))
      /\ (StackSet' <=> StackSet) /\ (EntrySet' <=> EntrySet) /\ (Rung' <=> Rung)
  BY <1>4, OtherZero DEF KeptZero
<1>8. ~Asked(0, "boot_poll")' BY <1>3 DEF Asked
<1>9. \A o : ~Asked(1, o) BY <1>2 DEF Asked
<1>10. ~Asleep BY <1>2 DEF Asleep, Busy
<1>11. CASE Started
  <2>1. Op(1) \in Work BY <1>2, <1>11 DEF Started, Op, Busy
  <2>2. Clints'
    <3>1. CASE Op(1) = "msi_other"
      <4>1. Write(1, Op(1)) = Put("mswi", 0, "lo", 1) BY <3>1, LaunchAccess DEF Core
      <4> DEFINE w == Put("mswi", 0, "lo", 1)
      <4>2. w.reg = "mswi" /\ w.hart = 0 /\ w.data = 1 BY DEF Put
      <4>3. Clock(w) BY <1>2, <4>1
      <4> HIDE DEF w
      <4> QED BY <1>1, <4>2, <4>3, ClockRegs DEF Hart
    <3>2. CASE Op(1) # "msi_other"
      <4>1. Op(1) \in QuietWork \ Internal
        <5>1. Op(1) \notin Internal BY DEF Strobe
        <5> QED BY <2>1, <3>2, <5>1 DEF QuietWork
      <4> DEFINE w == Write(1, Op(1))
      <4>2. Own(1, w) BY <4>1, OwnAccess DEF Core
      <4>3. Clock(w) BY <1>2
      <4> HIDE DEF w
      <4> QED BY <1>1, <4>2, <4>3, ClockRegs DEF Own, Hart
    <3> QED BY <3>1, <3>2
  <2>3. Started' BY <1>6, <1>11
  <2>4. Sleeper' /\ Launching' BY <1>1, <1>4, <1>11, <2>3, StartedNext
  <2> QED BY <1>2, <1>5, <2>2, <2>4 DEF LaunchInv
<1>12. CASE Awake
  <2>1. ~Started /\ Op(1) \in WakeOps BY <1>12, AwakeText
  <2>2. Op(1) # "main_entry" BY <1>2 DEF AccessOps
  <2>3. /\ mtimecmp[1].lo = StackTop /\ mtimecmp[1].hi \in {crt0_entry, main_core1}
        /\ mswi[1] = 0 => Acked
        /\ ~At(1, "wake_sp") => boot.sp = StackTop
        /\ Entered => boot.entry \in {crt0_entry, main_core1}
    BY <1>1, <1>12 DEF Sleeper
  <2>4. ~Acked BY <1>9, <2>2 DEF Acked, At
  <2>5. mswi[1] # 0 /\ launch.rc # 0 BY <1>1, <2>1, <2>3, <2>4 DEF Launching
  <2>6. launch'.rc # 0 /\ launch'.stage = launch.stage BY <1>2, <2>5
  <2>7. CASE Op(1) \in {"wake_sp", "wake_entry"}
    <3>1. Write(1, Op(1)) = NoWrite BY <2>7, LaunchAccess DEF Core
    <3>2. mtimecmp' = mtimecmp /\ mswi' = mswi BY <1>2, <3>1, ClockIdle
    <3>3. Clints' BY <1>1, <3>2 DEF Clints
    <3>4. /\ Op(1) = "wake_sp" => bus'.data = StackTop
          /\ Op(1) = "wake_entry" => bus'.data = mtimecmp[1].hi
      <4>1. Op(1) = "wake_sp" => Access(1, Op(1)) = Clint("ld", "mtimecmp", 1, "lo", 0) BY DEF Access
      <4>2. Op(1) = "wake_entry" => Access(1, Op(1)) = Clint("ld", "mtimecmp", 1, "hi", 0) BY DEF Access
      <4>3. Read(Clint("ld", "mtimecmp", 1, "lo", 0)) = mtimecmp[1].lo
        <5>1. "mtimecmp" \notin DOMAIN mem BY <1>1 DEF Types
        <5> QED BY <5>1 DEF Read, Clint, read_back
      <4>4. Read(Clint("ld", "mtimecmp", 1, "hi", 0)) = mtimecmp[1].hi
        <5>1. "mtimecmp" \notin DOMAIN mem BY <1>1 DEF Types
        <5> QED BY <5>1 DEF Read, Clint, read_back
      <4> QED BY <1>3, <2>3, <4>1, <4>2, <4>3, <4>4
    <3>5. Sleeper'
      <4>1. ~At(1, "wake_sp")' => ~At(1, "wake_sp") BY <1>6
      <4>2. Asked(1, "wake_sp")' => Op(1) = "wake_sp" BY <1>2 DEF Asked, At, Op
      <4>3. Asked(1, "wake_entry")' => Op(1) = "wake_entry" BY <1>2 DEF Asked, At, Op
      <4>4. boot' = boot BY <1>2
      <4> QED BY <1>6, <1>10, <1>12, <2>3, <2>5, <3>2, <3>4, <4>1, <4>2, <4>3, <4>4 DEF Sleeper
    <3>6. Launching'
      <4>1. ~Entered BY <2>7 DEF Entered, At
      <4>2. Asked(1, "wake_entry")' => Op(1) = "wake_entry" BY <1>2 DEF Asked, At, Op
      <4>3. StackSet => mtimecmp[1].lo = StackTop BY <2>3
      <4>4. EntrySet => mtimecmp[1].hi = IF launch.stage = 1 THEN crt0_entry ELSE main_core1
        BY <1>1, <2>1 DEF Launching
      <4>5. Rung => EntrySet BY DEF Rung, EntrySet, Asked
      <4>6. launch.stage = 2 /\ (At(0, "boot_stack") \/ At(0, "boot_entry") \/ At(0, "msi_launch")) => Rung
        BY <1>1, <2>1, <2>5 DEF Launching
      <4>7. (StackSet /\ ~Started => mtimecmp[1].lo = StackTop)' BY <1>7, <3>2, <4>3
      <4>8. (EntrySet /\ ~Started => mtimecmp[1].hi = IF launch.stage = 1 THEN crt0_entry ELSE main_core1)'
        BY <1>7, <2>6, <3>2, <4>4
      <4>9. (launch.stage = 2 /\ (At(0, "boot_stack") \/ At(0, "boot_entry") \/ At(0, "msi_launch")) => Rung)'
        <5>1. /\ (At(0, "boot_stack")' <=> At(0, "boot_stack")) /\ (At(0, "boot_entry")' <=> At(0, "boot_entry"))
              /\ (At(0, "msi_launch")' <=> At(0, "msi_launch"))
          BY <1>7
        <5> QED BY <1>7, <2>6, <4>6, <5>1
      <4>10. (launch.stage = 2 /\ ~Started /\ Rung =>
               /\ ~Acked => (Entered => Right)
               /\ Asked(1, "wake_entry") => bus.data = main_core1
               /\ mswi[1] = 0 => Acked /\ Right)'
        BY <1>6, <1>7, <2>5, <2>6, <3>2, <3>4, <4>1, <4>2, <4>4, <4>5
      <4> QED BY <1>8, <2>6, <4>7, <4>8, <4>9, <4>10 DEF Launching
    <3> QED BY <1>2, <1>5, <3>3, <3>5, <3>6 DEF LaunchInv
  <2>8. CASE Op(1) = "wake_ack"
    <3>1. Write(1, Op(1)) = Put("mswi", 1, "lo", 0) BY <2>8, LaunchAccess DEF Core
    <3>2. /\ Clints' /\ mtimecmp'[1].lo = mtimecmp[1].lo /\ mtimecmp'[1].hi = mtimecmp[1].hi /\ mswi'[1] = 0
      BY <1>1, <1>2, <3>1, ClockPut
    <3>3. At(1, "wake_ack") /\ Entered /\ ~At(1, "wake_sp") BY <1>2, <1>12, <2>8 DEF At, Entered
    <3>4. Asked(1, "wake_ack")' BY <1>3, <1>6, <3>3 DEF Asked
    <3>5. Acked' BY <1>6, <1>12, <3>4 DEF Acked
    <3>6. ~Asked(1, "wake_sp")' /\ ~Asked(1, "wake_entry")' BY <1>2, <2>8 DEF Asked, At, Op
    <3>7. boot' = boot BY <1>2
    <3>8. Sleeper'
      BY <1>6, <1>10, <1>12, <2>3, <3>2, <3>3, <3>5, <3>6, <3>7 DEF Sleeper
    <3>9. launch.stage = 2 /\ Rung => Right BY <1>1, <2>1, <2>4, <3>3 DEF Launching
    <3>10. Launching'
      <4>1. (StackSet => mtimecmp[1].lo = StackTop)' BY <1>7, <2>3, <3>2
      <4>2. EntrySet => mtimecmp[1].hi = IF launch.stage = 1 THEN crt0_entry ELSE main_core1
        BY <1>1, <2>1 DEF Launching
      <4>3. (EntrySet => mtimecmp[1].hi = IF launch.stage = 1 THEN crt0_entry ELSE main_core1)'
        BY <1>7, <2>6, <3>2, <4>2
      <4>4. (launch.stage = 2 /\ Rung => Right)' BY <1>6, <1>7, <2>6, <3>9
      <4> QED BY <1>8, <2>6, <3>2, <3>5, <3>6, <4>1, <4>3, <4>4 DEF Launching
    <3> QED BY <1>2, <1>5, <3>2, <3>8, <3>10 DEF LaunchInv
  <2> QED BY <2>1, <2>2, <2>7, <2>8 DEF WakeOps
<1> QED BY <1>1, <1>10, <1>11, <1>12 DEF Sleeper

\* Core 1 gets an answer: what it read is its stack or its entry point.
LEMMA AnswerOne ==
  ASSUME LaunchInv, Answer(1)
  PROVE  LaunchInv'
<1>1. Clints /\ Types /\ Results /\ Launcher /\ Sleeper /\ Launching BY DEF LaunchInv
<1>2. /\ bus.id = 1 /\ bus' = Idle /\ Busy(1) /\ Op(1) \in AccessOps
      /\ mtimecmp' = mtimecmp /\ mswi' = mswi
      /\ UNCHANGED <<program, hart, mem, lut>>
      /\ Results'
      /\ Op(1) \notin {"lock_sc", "unlock_sc"} => response([data |-> bus.data]).data = bus.data
  BY <1>1, AnswerFrame DEF Core
<1>3. bus'.id = 2 BY <1>2 DEF Idle
<1>4. Clints' BY <1>1, <1>2 DEF Clints
<1>5. code \in [Core -> Text] BY <1>1 DEF Types
<1>6. ~Asleep BY <1>2 DEF Asleep, Busy
<1>7. CASE Started
  <2>1. ClosedWork \subseteq Work /\ code[1] \in Seq(Work) BY <1>7, WorkOps DEF Started
  <2>2. code'[1] \in Seq(Work) /\ code'[0] = code[0] /\ launch' = launch /\ boot' = boot /\ Types'
    <3>1. 1 \in Core /\ 1 - 1 = 0 BY DEF Core
    <3> QED BY <1>1, <2>1, <3>1, AnswerWorkText
  <2>3. KeptZero BY <1>2, <1>3, <2>2 DEF KeptZero
  <2>4. Started' BY <1>2, <1>7, <2>2 DEF Started, Right
  <2>5. Sleeper' /\ Launching' BY <1>1, <1>7, <2>3, <2>4, StartedNext
  <2>6. Launcher' BY <1>1, <2>3, LauncherFrame
  <2> QED BY <1>2, <1>4, <2>2, <2>5, <2>6 DEF LaunchInv
<1>8. CASE Awake
  <2>1. ~Started /\ Op(1) \in WakeOps BY <1>8, AwakeText
  <2>2. Op(1) # "main_entry" BY <1>2 DEF AccessOps
  <2>3. response([data |-> bus.data]).data = bus.data BY <1>2, <2>1 DEF WakeOps
  <2>4. /\ code' = Continue(1, bus.data) /\ launch' = launch
        /\ boot' = CASE Op(1) = "wake_sp"    -> [boot EXCEPT !.sp = bus.data]
                     [] Op(1) = "wake_entry" -> [boot EXCEPT !.entry = bus.data]
                     [] OTHER -> boot
    <3> DEFINE data == response([data |-> bus.data]).data
    <3>1. /\ IF Op(1) = "boot_poll" THEN Polled(data)
             ELSE code' = Continue(1, data) /\ UNCHANGED launch
          /\ boot' = CASE Op(1) = "wake_sp"    -> [boot EXCEPT !.sp = data]
                       [] Op(1) = "wake_entry" -> [boot EXCEPT !.entry = data]
                       [] OTHER -> boot
      BY DEF Answer
    <3>2. data = bus.data BY <2>3
    <3>3. Op(1) # "boot_poll" BY <2>1 DEF WakeOps
    <3> HIDE DEF data
    <3> QED BY <3>1, <3>2, <3>3
  <2>5. code' = [code EXCEPT ![1] = Rest(1)]
    <3>1. Continue(1, bus.data) = Done(1) BY <2>1 DEF Continue, WakeOps
    <3> QED BY <2>4, <3>1 DEF Done
  <2>6. /\ mtimecmp[1].lo = StackTop /\ mtimecmp[1].hi \in {crt0_entry, main_core1}
        /\ mswi[1] = 0 => Acked
        /\ ~At(1, "wake_sp") => boot.sp = StackTop
        /\ Asked(1, "wake_sp") => bus.data = StackTop
        /\ Asked(1, "wake_entry") => bus.data \in {crt0_entry, main_core1}
        /\ Entered => boot.entry \in {crt0_entry, main_core1}
    BY <1>1, <1>8 DEF Sleeper
  <2>7. CASE Op(1) \in {"wake_sp", "wake_entry"}
    <3>1. Waking(Rest(1)) /\ Rest(1) \in Text /\ Rest(1) # <<>>
      <4>1. Waking(Rest(1)) BY <1>8, <2>7, AwakeText DEF Waking
      <4> QED BY <4>1, WakingText
    <3>2. code' \in [Core -> Text] /\ code'[1] = Rest(1) /\ code'[0] = code[0]
      <4>1. 1 \in Core /\ 1 - 1 = 0 BY DEF Core
      <4> QED BY <1>5, <2>5, <3>1, <4>1, NewCode
    <3>3. KeptZero BY <1>2, <1>3, <2>4, <3>2 DEF KeptZero
    <3>4. Launcher' BY <1>1, <3>3, LauncherFrame
    <3>5. boot' = [sp |-> boot'.sp, entry |-> boot'.entry]
      <4>1. boot = [sp |-> boot.sp, entry |-> boot.entry] BY <1>1 DEF Types
      <4>2. CASE Op(1) = "wake_sp"
        <5>1. boot' = [boot EXCEPT !.sp = bus.data] BY <2>4, <4>2
        <5> QED BY <4>1, <5>1
      <4>3. CASE Op(1) = "wake_entry"
        <5>1. boot' = [boot EXCEPT !.entry = bus.data] BY <2>4, <4>3
        <5> QED BY <4>1, <5>1
      <4> QED BY <2>7, <4>2, <4>3
    <3>6. Types' BY <1>1, <2>4, <3>2, <3>5, AnswerTypes DEF Types, Core
    <3>7. Awake' BY <1>2, <1>8, <3>1, <3>2 DEF Awake
    <3>8. ~Started' /\ ~Asleep' BY <3>7, PhasesNext
    <3>9. ~Acked /\ mswi[1] # 0 /\ launch.rc # 0
      <4>1. ~Acked BY <2>7 DEF Acked, At, Asked
      <4> QED BY <1>1, <2>1, <2>6, <4>1 DEF Launching
    <3>10. \A o : ~Asked(1, o)' BY <1>3 DEF Asked
    <3>11. Op(1)' # "main_entry" /\ Op(1)' # "wake_sp" /\ (Op(1)' = "wake_ack" <=> Op(1) = "wake_entry")
      BY <1>8, <2>7, <3>2, AwakeText, WakingText DEF Op
    <3>12. ~Acked' BY <3>10, <3>11 DEF Acked, At
    <3>13. Entered' => Op(1) = "wake_entry" BY <3>11 DEF Entered, At
    <3>14. boot'.sp = StackTop
      <4>1. boot = [sp |-> boot.sp, entry |-> boot.entry] BY <1>1 DEF Types
      <4>2. CASE Op(1) = "wake_sp"
        <5>1. boot' = [boot EXCEPT !.sp = bus.data] BY <2>4, <4>2
        <5>2. bus.data = StackTop BY <1>2, <2>6, <4>2 DEF Asked, At
        <5> QED BY <4>1, <5>1, <5>2
      <4>3. CASE Op(1) = "wake_entry"
        <5>1. boot' = [boot EXCEPT !.entry = bus.data] BY <2>4, <4>3
        <5>2. boot.sp = StackTop BY <2>6, <4>3 DEF At
        <5> QED BY <4>1, <5>1, <5>2
      <4> QED BY <2>7, <4>2, <4>3
    <3>15. Op(1) = "wake_entry" => /\ boot'.entry \in {crt0_entry, main_core1}
                                   /\ launch.stage = 2 /\ Rung => boot'.entry = main_core1
      <4> SUFFICES ASSUME Op(1) = "wake_entry"
                   PROVE  /\ boot'.entry \in {crt0_entry, main_core1}
                          /\ launch.stage = 2 /\ Rung => boot'.entry = main_core1
        OBVIOUS
      <4>1. Asked(1, "wake_entry") BY <1>2 DEF Asked, At
      <4>2. boot = [sp |-> boot.sp, entry |-> boot.entry] BY <1>1 DEF Types
      <4>3. boot' = [boot EXCEPT !.entry = bus.data] BY <2>4
      <4>4. boot'.entry = bus.data BY <4>2, <4>3
      <4>5. bus.data \in {crt0_entry, main_core1} BY <2>6, <4>1
      <4>6. launch.stage = 2 /\ Rung => bus.data = main_core1 BY <1>1, <2>1, <4>1 DEF Launching
      <4> QED BY <4>4, <4>5, <4>6
    <3>16. Sleeper'
      BY <1>2, <2>6, <3>7, <3>8, <3>9, <3>10, <3>13, <3>14, <3>15 DEF Sleeper
    <3>17. /\ \A o : (At(0, o)' <=> At(0, o)) /\ (Asked(0, o)' <=> Asked(0, o))
           /\ (StackSet' <=> StackSet) /\ (EntrySet' <=> EntrySet) /\ (Rung' <=> Rung)
      BY <3>3, OtherZero DEF KeptZero
    <3>18. Launching'
      <4>1. (StackSet => mtimecmp[1].lo = StackTop)' BY <1>2, <2>6
      <4>2. (EntrySet => mtimecmp[1].hi = IF launch.stage = 1 THEN crt0_entry ELSE main_core1)'
        <5>1. EntrySet => mtimecmp[1].hi = IF launch.stage = 1 THEN crt0_entry ELSE main_core1
          BY <1>1, <2>1 DEF Launching
        <5> QED BY <1>2, <2>4, <3>17, <5>1
      <4>3. (launch.stage = 2 /\ (At(0, "boot_stack") \/ At(0, "boot_entry") \/ At(0, "msi_launch")) => Rung)'
        <5>1. launch.stage = 2 /\ (At(0, "boot_stack") \/ At(0, "boot_entry") \/ At(0, "msi_launch")) => Rung
          BY <1>1, <2>1, <3>9 DEF Launching
        <5>2. /\ (At(0, "boot_stack")' <=> At(0, "boot_stack")) /\ (At(0, "boot_entry")' <=> At(0, "boot_entry"))
              /\ (At(0, "msi_launch")' <=> At(0, "msi_launch"))
          BY <3>17
        <5> QED BY <2>4, <3>17, <5>1, <5>2
      <4>4. (launch.stage = 2 /\ Rung => (~Acked => (Entered => Right)) /\ (mswi[1] = 0 => Acked /\ Right))'
        <5>1. launch.stage = 2 /\ Rung /\ Entered' => Right' BY <3>13, <3>14, <3>15 DEF Right
        <5> QED BY <1>2, <2>4, <3>9, <3>17, <5>1
      <4>5. ~Asked(0, "boot_poll")' BY <1>3 DEF Asked
      <4>6. launch'.rc # 0 BY <2>4, <3>9
      <4> QED BY <3>10, <4>1, <4>2, <4>3, <4>4, <4>5, <4>6 DEF Launching
    <3> QED BY <1>2, <1>4, <3>4, <3>6, <3>16, <3>18 DEF LaunchInv
  <2>8. CASE Op(1) = "wake_ack"
    <3>1. Rest(1) = <<"main_entry">> BY <1>8, <2>8, AwakeText
    <3>2. Waking(Rest(1)) /\ Rest(1) \in Text /\ Rest(1) # <<>>
      <4>1. Waking(Rest(1)) BY <3>1 DEF Waking
      <4> QED BY <4>1, WakingText
    <3>3. code' \in [Core -> Text] /\ code'[1] = Rest(1) /\ code'[0] = code[0]
      <4>1. 1 \in Core /\ 1 - 1 = 0 BY DEF Core
      <4> QED BY <1>5, <2>5, <3>2, <4>1, NewCode
    <3>4. boot' = boot BY <2>4, <2>8
    <3>5. KeptZero BY <1>2, <1>3, <2>4, <3>3 DEF KeptZero
    <3>6. Launcher' BY <1>1, <3>5, LauncherFrame
    <3>7. Types' BY <1>1, <2>4, <3>3, <3>4, AnswerTypes DEF Types, Core
    <3>8. Awake' BY <1>2, <1>8, <3>2, <3>3 DEF Awake
    <3>9. ~Started' /\ ~Asleep' BY <3>8, PhasesNext
    <3>10. \A o : ~Asked(1, o)' BY <1>3 DEF Asked
    <3>11. Op(1)' = "main_entry" BY <3>1, <3>3, WakingText DEF Op
    <3>12. At(1, "main_entry")' BY <3>2, <3>3, <3>11 DEF At, Busy
    <3>13. Acked' /\ Acked /\ Entered
      <4>1. At(1, "wake_ack") /\ Asked(1, "wake_ack") BY <1>2, <2>8 DEF At, Asked
      <4> QED BY <1>8, <3>8, <3>12, <4>1 DEF Acked, Entered
    <3>14. boot'.sp = StackTop /\ boot'.entry \in {crt0_entry, main_core1}
      BY <2>6, <2>8, <3>4, <3>13 DEF At
    <3>15. Sleeper'
      BY <1>2, <2>6, <3>8, <3>9, <3>10, <3>13, <3>14 DEF Sleeper
    <3>16. /\ \A o : (At(0, o)' <=> At(0, o)) /\ (Asked(0, o)' <=> Asked(0, o))
           /\ (StackSet' <=> StackSet) /\ (EntrySet' <=> EntrySet) /\ (Rung' <=> Rung)
      BY <3>5, OtherZero DEF KeptZero
    <3>17. Launching'
      <4>1. (StackSet => mtimecmp[1].lo = StackTop)' BY <1>2, <2>6
      <4>2. (EntrySet => mtimecmp[1].hi = IF launch.stage = 1 THEN crt0_entry ELSE main_core1)'
        <5>1. EntrySet => mtimecmp[1].hi = IF launch.stage = 1 THEN crt0_entry ELSE main_core1
          BY <1>1, <2>1 DEF Launching
        <5> QED BY <1>2, <2>4, <3>16, <5>1
      <4>3. (launch.stage = 2 /\ (At(0, "boot_stack") \/ At(0, "boot_entry") \/ At(0, "msi_launch"))
               => Rung \/ mswi[1] = 0)'
        <5>1. launch.stage = 2 /\ (At(0, "boot_stack") \/ At(0, "boot_entry") \/ At(0, "msi_launch"))
                => Rung \/ mswi[1] = 0
          BY <1>1, <2>1 DEF Launching
        <5>2. /\ (At(0, "boot_stack")' <=> At(0, "boot_stack")) /\ (At(0, "boot_entry")' <=> At(0, "boot_entry"))
              /\ (At(0, "msi_launch")' <=> At(0, "msi_launch"))
          BY <3>16
        <5> QED BY <1>2, <2>4, <3>16, <5>1, <5>2
      <4>4. (launch.stage = 2 /\ Rung => (mswi[1] = 0 => Right))'
        <5>1. launch.stage = 2 /\ Rung => (mswi[1] = 0 => Right) BY <1>1, <2>1 DEF Launching
        <5>2. Right' <=> Right BY <3>4 DEF Right
        <5> QED BY <1>2, <2>4, <3>16, <5>1, <5>2
      <4>5. ~Asked(0, "boot_poll")' BY <1>3 DEF Asked
      <4>6. (launch.rc = 0 => code[0] \in Seq(Work) /\ Right)'
        <5>1. launch.rc = 0 => code[0] \in Seq(Work) /\ Right BY <1>1, <2>1 DEF Launching
        <5>2. Right' <=> Right BY <3>4 DEF Right
        <5> QED BY <2>4, <3>3, <5>1, <5>2
      <4> QED BY <3>10, <3>13, <4>1, <4>2, <4>3, <4>4, <4>5, <4>6 DEF Launching
    <3> QED BY <1>2, <1>4, <3>6, <3>7, <3>15, <3>17 DEF LaunchInv
  <2> QED BY <2>1, <2>2, <2>7, <2>8 DEF WakeOps
<1> QED BY <1>1, <1>6, <1>7, <1>8 DEF Sleeper

\* Core 1 does a step without access: it goes to its entry point, which is
\* either the start-up code once more or its program.
LEMMA InsideOne ==
  ASSUME LaunchInv, Inside(1)
  PROVE  LaunchInv'
<1>1. Clints /\ Types /\ Results /\ Launcher /\ Sleeper /\ Launching BY DEF LaunchInv
<1> USE DEF Core
<1>2. /\ bus.id # 1 /\ Busy(1) /\ Op(1) \in Internal /\ SetCode(1) /\ SetHart(1)
      /\ mtimecmp' = mtimecmp /\ mswi' = mswi
      /\ UNCHANGED <<program, bus, mem, boot>>
      /\ Results' /\ code'[0] = code[0]
      /\ (code'[1] \in Text => Types')
  <2>1. 1 \in Core /\ 1 - 1 = 0 OBVIOUS
  <2> QED BY <1>1, <2>1, InsideFrame
<1>3. /\ hart'[0] = hart[0]
      /\ (Op(1) # "main_entry" => hart'[1].mtvec \in {"rte", "panic", hart[1].mtvec})
      /\ (Op(1) = "main_entry" => hart' = IF boot.entry = crt0_entry
                                          THEN [hart EXCEPT ![1] = __crt0_smp_setup] ELSE hart)
  <2>1. 1 \in Core /\ 1 - 1 = 0 OBVIOUS
  <2> QED BY <1>1, <1>2, <2>1, HartType
<1>4. Clints' BY <1>1, <1>2 DEF Clints
<1>5. code \in [Core -> Text] /\ hart \in [Core -> Harts] BY <1>1 DEF Types, Harts
<1>6. ~Asleep BY <1>2 DEF Asleep, Busy
<1>7. CASE Started
  <2>1. ClosedWork \subseteq Work /\ code[1] \in Seq(Work) BY <1>7, WorkOps DEF Started
  <2>2. code'[1] \in Seq(Work) /\ launch' = launch /\ Types' /\ Op(1) \in Work
    <3>1. 1 \in Core /\ 1 - 1 = 0 OBVIOUS
    <3> QED BY <1>1, <2>1, <3>1, InsideWorkText
  <2>3. KeptZero BY <1>2, <1>3, <2>2 DEF KeptZero
  <2>4. hart'[1].mtvec # "wakeup"
    <3>1. Op(1) # "main_entry" BY <2>2 DEF Work, WakeOps
    <3> QED BY <1>3, <1>7, <3>1 DEF Started
  <2>5. Started' BY <1>2, <1>7, <2>2, <2>4 DEF Started, Right
  <2>6. Sleeper' /\ Launching' BY <1>1, <1>7, <2>3, <2>5, StartedNext
  <2>7. Launcher' BY <1>1, <2>3, LauncherFrame
  <2> QED BY <1>2, <1>4, <2>2, <2>6, <2>7 DEF LaunchInv
<1>8. CASE Awake
  <2>1. ~Started /\ Op(1) \in WakeOps BY <1>8, AwakeText
  <2>2. Op(1) = "main_entry" /\ Rest(1) = <<>>
    <3>1. Op(1) = "main_entry" BY <1>2, <2>1 DEF WakeOps, Internal
    <3> QED BY <1>8, <3>1, AwakeText
  <2>3. /\ mtimecmp[1].lo = StackTop /\ mtimecmp[1].hi \in {crt0_entry, main_core1}
        /\ ~At(1, "wake_sp") => boot.sp = StackTop
        /\ Entered => boot.entry \in {crt0_entry, main_core1}
    BY <1>1, <1>8 DEF Sleeper
  <2>4. At(1, "main_entry") /\ Entered /\ Acked BY <1>2, <1>8, <2>2 DEF At, Entered, Acked
  <2>5. boot.sp = StackTop /\ boot.entry \in {crt0_entry, main_core1}
    BY <2>2, <2>3, <2>4 DEF At
  <2>6. launch' = launch BY <2>2 DEF Inside
  <2>7. KeptZero BY <1>2, <1>3, <2>6 DEF KeptZero
  <2>8. Launcher' BY <1>1, <2>7, LauncherFrame
  <2>9. CASE boot.entry = crt0_entry
    <3>1. boot.entry # main_core1 BY <2>9 DEF crt0_entry, main_core1
    <3>2. code' = [code EXCEPT ![1] = <<>>]
      BY <1>2, <2>2, <3>1 DEF SetCode, Done
    <3>3. <<>> \in Text BY EmptyFacts
    <3>4. code' \in [Core -> Text] /\ code'[1] = <<>> BY <1>5, <3>2, <3>3
    <3>5. hart' = [hart EXCEPT ![1] = __crt0_smp_setup] BY <1>3, <2>2, <2>9
    <3>6. hart'[1] = __crt0_smp_setup BY <1>5, <3>5
    <3>7. Asleep' BY <3>4, <3>6 DEF Asleep
    <3>8. ~Awake' /\ ~Started' /\ ~Acked' /\ ~Entered' BY <3>7, PhasesNext DEF Entered
    <3>9. \A o : ~Asked(1, o)' BY <1>2 DEF Asked
    <3>10. Sleeper' BY <1>2, <2>3, <3>7, <3>8 DEF Sleeper
    <3>11. ~Right BY <3>1 DEF Right
    <3>12. launch.rc # 0 BY <1>1, <2>1, <3>11 DEF Launching
    <3>13. /\ \A o : (At(0, o)' <=> At(0, o)) /\ (Asked(0, o)' <=> Asked(0, o))
           /\ (StackSet' <=> StackSet) /\ (EntrySet' <=> EntrySet) /\ (Rung' <=> Rung)
      BY <2>7, OtherZero DEF KeptZero
    <3>14. Launching'
      <4>1. (StackSet => mtimecmp[1].lo = StackTop)' BY <1>2, <2>3
      <4>2. (EntrySet => mtimecmp[1].hi = IF launch.stage = 1 THEN crt0_entry ELSE main_core1)'
        <5>1. EntrySet => mtimecmp[1].hi = IF launch.stage = 1 THEN crt0_entry ELSE main_core1
          BY <1>1, <2>1 DEF Launching
        <5> QED BY <1>2, <2>6, <3>13, <5>1
      <4>3. (launch.stage = 2 /\ (At(0, "boot_stack") \/ At(0, "boot_entry") \/ At(0, "msi_launch"))
               => Rung \/ mswi[1] = 0)'
        <5>1. launch.stage = 2 /\ (At(0, "boot_stack") \/ At(0, "boot_entry") \/ At(0, "msi_launch"))
                => Rung \/ mswi[1] = 0
          BY <1>1, <2>1 DEF Launching
        <5>2. /\ (At(0, "boot_stack")' <=> At(0, "boot_stack")) /\ (At(0, "boot_entry")' <=> At(0, "boot_entry"))
              /\ (At(0, "msi_launch")' <=> At(0, "msi_launch"))
          BY <3>13
        <5> QED BY <1>2, <2>6, <3>13, <5>1, <5>2
      <4>4. (launch.stage = 2 /\ Rung => mswi[1] # 0)'
        <5>1. launch.stage = 2 /\ Rung => mswi[1] # 0 BY <1>1, <2>1, <3>11 DEF Launching
        <5> QED BY <1>2, <2>6, <3>13, <5>1
      <4>5. (Asked(0, "boot_poll") => bus.data = mswi[1])'
        <5>1. Asked(0, "boot_poll") => bus.data = mswi[1] BY <1>1 DEF Launching
        <5>2. Asked(0, "boot_poll")' <=> Asked(0, "boot_poll") BY <3>13
        <5> QED BY <1>2, <5>1, <5>2
      <4>6. launch'.rc # 0 BY <2>6, <3>12
      <4> QED BY <3>8, <3>9, <4>1, <4>2, <4>3, <4>4, <4>5, <4>6 DEF Launching
    <3> QED BY <1>2, <1>4, <2>8, <3>4, <3>10, <3>14 DEF LaunchInv
  <2>10. CASE boot.entry = main_core1
    <3>1. boot.entry # crt0_entry BY <2>10 DEF crt0_entry, main_core1
    <3>2. code' = [code EXCEPT ![1] = entry_point]
      BY <1>2, <2>2, <2>10 DEF SetCode
    <3>3. entry_point \in Seq(Work)
      <4>1. CASE program = "clock"
        <5>1. entry_point = <<>> BY <4>1 DEF entry_point
        <5> QED BY <5>1
      <4>2. CASE program # "clock"
        <5>1. program \in {"message", "retry", "primes", "rte"} BY <1>1, <4>2 DEF Types
        <5> QED BY <5>1, EntryText
      <4> QED BY <4>1, <4>2
    <3>4. code'[1] = entry_point BY <1>5, <3>2
    <3>5. code'[1] \in Seq(Work) /\ code'[1] \in Text BY <3>3, <3>4, WorkSeqs
    <3>6. hart' = hart BY <1>3, <2>2, <3>1
    <3>7. hart[1].mtvec = "panic" BY <1>8 DEF Awake
    <3>8. boot' = boot /\ bus' = bus /\ mswi' = mswi /\ mtimecmp' = mtimecmp BY <1>2
    <3>9. Started' BY <2>5, <2>10, <3>5, <3>6, <3>7, <3>8 DEF Started, Right
    <3>10. ~Asleep' /\ ~Awake' BY <3>9, PhasesNext
    <3>11. Sleeper' BY <3>9, <3>10 DEF Sleeper
    <3>12. Asked(0, "boot_poll")' <=> Asked(0, "boot_poll") BY <2>7, OtherZero DEF KeptZero
    <3>13. (Asked(0, "boot_poll") => bus.data = mswi[1])' BY <1>1, <3>8, <3>12 DEF Launching
    <3>14. (launch.rc = 0 => code[0] \in Seq(Work))' BY <1>1, <1>2, <2>6 DEF Launching
    <3>15. Launching' BY <3>9, <3>13, <3>14 DEF Launching
    <3> QED BY <1>2, <1>4, <2>8, <3>5, <3>11, <3>15 DEF LaunchInv
  <2> QED BY <2>5, <2>9, <2>10
<1> QED BY <1>1, <1>6, <1>7, <1>8 DEF Sleeper

\* Core 1 is interrupted: woken up, if it sleeps in the start-up code.
LEMMA TrapOne ==
  ASSUME LaunchInv, Trap(1)
  PROVE  LaunchInv'
<1>1. Clints /\ Types /\ Results /\ Launcher /\ Sleeper /\ Launching BY DEF LaunchInv
<1>2. /\ bus.id # 1 /\ hart[1].on /\ Pending(1) # {}
      /\ mtimecmp' = mtimecmp /\ mswi' = mswi
      /\ UNCHANGED <<program, bus, mem, lut, launch, boot>>
      /\ Results' /\ code'[0] = code[0] /\ hart'[0] = hart[0] /\ ~hart'[1].on
      /\ (hart[1].mtvec = "wakeup" => code'[1] = __crt0_smp_wakeup /\ hart'[1].mtvec = "panic")
      /\ (hart[1].mtvec # "wakeup" => /\ hart'[1].mtvec = hart[1].mtvec
                                      /\ \E i \in {"MTI", "MSI"} : code'[1] = Handler(lut[i]) \o code[1])
      /\ (code'[1] \in Text => Types')
  <2>1. 1 \in Core /\ 1 - 1 = 0 BY DEF Core
  <2>2. /\ bus.id # 1 /\ hart[1].on /\ Pending(1) # {}
        /\ mtimecmp' = mtimecmp /\ mswi' = mswi
        /\ UNCHANGED <<program, bus, mem, lut, launch, boot>>
        /\ Results' /\ code'[1 - 1] = code[1 - 1] /\ hart'[1 - 1] = hart[1 - 1] /\ ~hart'[1].on
    BY <1>1, <2>1, TrapFrame
  <2>3. hart[1].mtvec = "wakeup" => code'[1] = __crt0_smp_wakeup /\ hart'[1].mtvec = "panic"
    BY <1>1, <2>1, TrapFrame
  <2>4. hart[1].mtvec # "wakeup" => /\ hart'[1].mtvec = hart[1].mtvec
                                    /\ \E i \in {"MTI", "MSI"} : code'[1] = Handler(lut[i]) \o code[1]
    BY <1>1, <2>1, TrapFrame
  <2>5. code'[1] \in Text => Types' BY <1>1, <2>1, TrapFrame
  <2> QED BY <2>1, <2>2, <2>3, <2>4, <2>5
<1>3. KeptZero BY <1>2 DEF KeptZero
<1>4. Launcher' BY <1>1, <1>3, LauncherFrame
<1>5. Clints' BY <1>1, <1>2 DEF Clints
<1>6. ~Awake BY <1>2 DEF Awake
<1>7. CASE Started
  <2>1. /\ hart'[1].mtvec = hart[1].mtvec /\ hart[1].mtvec # "wakeup" /\ code[1] \in Seq(Work)
        /\ \E i \in {"MTI", "MSI"} : code'[1] = Handler(lut[i]) \o code[1]
    BY <1>2, <1>7 DEF Started
  <2>2. PICK i \in {"MTI", "MSI"} : code'[1] = Handler(lut[i]) \o code[1] BY <2>1
  <2> DEFINE h == Handler(lut[i])
  <2>3. h \in Seq(Work) BY <1>1, LutNames
  <2>4. code'[1] = h \o code[1] BY <2>2
  <2> HIDE DEF h
  <2>5. code'[1] \in Seq(Work) BY <2>1, <2>3, <2>4
  <2>6. Types' BY <1>2, <2>5, WorkSeqs
  <2>7. Started' BY <1>2, <1>7, <2>1, <2>5 DEF Started, Right
  <2>8. Sleeper' /\ Launching' BY <1>1, <1>3, <1>7, <2>7, StartedNext
  <2> QED BY <1>2, <1>4, <1>5, <2>6, <2>8 DEF LaunchInv
<1>8. CASE Asleep
  <2>1. hart[1] = [on |-> TRUE, mie |-> {"MSI"}, mtvec |-> "wakeup"] BY <1>8 DEF Asleep, __crt0_smp_setup
  <2>2. mswi[1] = 1 BY <1>2, <2>1 DEF Pending
  <2>3. code'[1] = __crt0_smp_wakeup /\ hart'[1].mtvec = "panic" BY <1>2, <2>1
  <2>4. Awake' BY <1>2, <2>3 DEF Awake, Waking
  <2>5. __crt0_smp_wakeup \in Text /\ Head(__crt0_smp_wakeup) = "wake_sp" /\ __crt0_smp_wakeup # <<>>
    <3>1. Waking(__crt0_smp_wakeup) BY DEF Waking
    <3> QED BY <3>1, WakingText
  <2>6. Op(1)' = "wake_sp" /\ Busy(1)' BY <2>3, <2>5 DEF Op, Busy
  <2>7. \A o : ~Asked(1, o)' BY <1>2 DEF Asked
  <2>8. At(1, "wake_sp")' /\ ~Entered' /\ ~Acked' BY <2>6, <2>7 DEF At, Entered, Acked
  <2>9. ~Asleep' /\ ~Started' BY <2>4, PhasesNext
  <2>10. mtimecmp[1].lo = StackTop /\ mtimecmp[1].hi \in {crt0_entry, main_core1}
    BY <1>1, <1>8, <2>2 DEF Sleeper
  <2>11. Sleeper' BY <1>2, <2>2, <2>4, <2>7, <2>8, <2>9, <2>10 DEF Sleeper
  <2>12. ~Started /\ ~Acked BY <1>6, <1>8, Phases
  <2>13. launch.rc # 0 BY <1>1, <2>12 DEF Launching
  <2>14. /\ \A o : (At(0, o)' <=> At(0, o)) /\ (Asked(0, o)' <=> Asked(0, o))
         /\ (StackSet' <=> StackSet) /\ (EntrySet' <=> EntrySet) /\ (Rung' <=> Rung)
    BY <1>3, OtherZero DEF KeptZero
  <2>15. Launching'
    <4>1. (StackSet => mtimecmp[1].lo = StackTop)' BY <1>2, <2>10
    <4>2. (EntrySet => mtimecmp[1].hi = IF launch.stage = 1 THEN crt0_entry ELSE main_core1)'
      <5>1. EntrySet => mtimecmp[1].hi = IF launch.stage = 1 THEN crt0_entry ELSE main_core1
        BY <1>1, <2>12 DEF Launching
      <5> QED BY <1>2, <2>14, <5>1
    <4>3. (launch.stage = 2 /\ (At(0, "boot_stack") \/ At(0, "boot_entry") \/ At(0, "msi_launch")) => Rung)'
      <5>1. launch.stage = 2 /\ (At(0, "boot_stack") \/ At(0, "boot_entry") \/ At(0, "msi_launch")) => Rung
        BY <1>1, <2>2, <2>12 DEF Launching
      <5>2. /\ (At(0, "boot_stack")' <=> At(0, "boot_stack")) /\ (At(0, "boot_entry")' <=> At(0, "boot_entry"))
            /\ (At(0, "msi_launch")' <=> At(0, "msi_launch"))
        BY <2>14
      <5> QED BY <1>2, <2>14, <5>1, <5>2
    <4>4. (Asked(0, "boot_poll") => bus.data = mswi[1])'
      <5>1. Asked(0, "boot_poll") => bus.data = mswi[1] BY <1>1 DEF Launching
      <5>2. Asked(0, "boot_poll")' <=> Asked(0, "boot_poll") BY <2>14
      <5> QED BY <1>2, <5>1, <5>2
    <4>5. launch'.rc # 0 /\ mswi'[1] # 0 BY <1>2, <2>2, <2>13
    <4> QED BY <2>7, <2>8, <4>1, <4>2, <4>3, <4>4, <4>5 DEF Launching
  <2> QED BY <1>2, <1>4, <1>5, <2>3, <2>5, <2>11, <2>15 DEF LaunchInv
<1> QED BY <1>1, <1>6, <1>7, <1>8 DEF Sleeper

\* The invariant holds initially.
LEMMA LaunchInit ==
  ASSUME Init
  PROVE  LaunchInv
<1> USE DEF Init, Core
<1>1. Clints BY DEF Clints, ClintInit, Hart
<1>2. program \in {"message", "retry", "primes", "rte", "clock"} BY DualCoreAssumption
<1>3. main \in Text /\ (program # "clock" => Before(main)) /\ (program = "clock" => main \in Seq(QuietWork))
  BY <1>2, MainText, BeforeText, WorkSeqs
<1>4. code[0] = main /\ code[1] = <<>> /\ bus.id = 2
  BY DEF Idle
<1>5. code \in [Core -> Text] BY <1>3, EmptyFacts
<1>6. hart[0] = [on |-> FALSE, mie |-> {}, mtvec |-> "panic"] /\ hart[1] = __crt0_smp_setup
  OBVIOUS
<1>7. hart \in [Core -> [on : BOOLEAN, mie : SUBSET {"MTI", "MSI"}, mtvec : {"panic", "rte", "wakeup"}]]
  BY DEF __crt0_smp_setup
<1>8. Types
  <2>1. bus = [id |-> bus.id, data |-> bus.data] /\ bus.id \in {0, 1, 2} /\ \A c \in Core : bus.id # c
    BY DEF Idle
  <2>2. lut \in [MTI : {panic.MTI, handler.MTI}, MSI : {panic.MSI, handler.MSI},
                ecall : {panic.ecall, handler.ecall}]
    BY DEF panic
  <2>3. launch = [stage |-> launch.stage, polls |-> launch.polls, rc |-> launch.rc, tries |-> launch.tries]
        /\ launch.stage \in {1, 2}
    OBVIOUS
  <2>4. DOMAIN mem = {"locked", "shared_run", "shared_arg0", "shared_arg1"} OBVIOUS
  <2>5. boot = [sp |-> boot.sp, entry |-> boot.entry] OBVIOUS
  <2> QED BY <1>2, <1>5, <1>7, <2>1, <2>2, <2>3, <2>4, <2>5 DEF Types
<1>9. Results BY DEF Results, RvsInit
<1>10. launch.rc # 0
  <2> DEFINE n == -3
  <2>1. launch = [stage |-> 1, polls |-> 0, rc |-> n, tries |-> 0] /\ n # 0 OBVIOUS
  <2> HIDE DEF n
  <2> QED BY <2>1
<1>11. Launcher BY <1>2, <1>3, <1>4, <1>6, <1>10 DEF Launcher
<1>12. Asleep BY <1>4, <1>6 DEF Asleep
<1>13. mswi[1] = 0 BY DEF ClintInit, Hart
<1>14. Sleeper BY <1>12, <1>13, Phases DEF Sleeper
<1>15. code[0] \in Seq(Work) \/ Before(code[0]) BY <1>2, <1>3, <1>4, WorkSeqs
<1>16. ~At(0, "boot_stack") /\ ~At(0, "boot_entry") /\ ~At(0, "msi_launch") /\ ~At(0, "boot_poll")
  BY <1>15, CalmNow DEF InLaunch
<1>17. ~StackSet /\ ~EntrySet /\ ~Rung BY <1>15, CalmNow
<1>18. Launching BY <1>10, <1>16, <1>17 DEF Launching, Asked
<1> QED BY <1>1, <1>8, <1>9, <1>11, <1>14, <1>18 DEF LaunchInv

\* Every step keeps the invariant.
LEMMA LaunchNext ==
  ASSUME LaunchInv, [Next]_vars
  PROVE  LaunchInv'
<1>1. CASE Tick \/ UNCHANGED vars BY <1>1, TickZero
<1>2. ASSUME NEW c \in Core, Step(c) PROVE LaunchInv'
  <2>1. CASE c = 0 BY <1>2, <2>1, StrobeZero, AnswerZero, InsideZero, TrapZero DEF Step
  <2>2. CASE c = 1 BY <1>2, <2>2, StrobeOne, AnswerOne, InsideOne, TrapOne DEF Step
  <2> QED BY <2>1, <2>2 DEF Core
<1> QED BY <1>1, <1>2 DEF Next

\* A launch that reports success has started core 1.
THEOREM LaunchTrue == Spec => []LaunchTruthful
<1>1. Init => LaunchInv BY LaunchInit
<1>2. LaunchInv /\ [Next]_vars => LaunchInv' BY LaunchNext
<1>3. LaunchInv => LaunchTruthful
  <2> SUFFICES ASSUME LaunchInv, launch.rc = 0 PROVE boot = [sp |-> StackTop, entry |-> main_core1]
    BY DEF LaunchTruthful
  <2>1. Right BY DEF LaunchInv, Launching, Started
  <2>2. boot = [sp |-> boot.sp, entry |-> boot.entry] BY DEF LaunchInv, Types
  <2> QED BY <2>1, <2>2 DEF Right
<1> QED BY <1>1, <1>2, <1>3, PTL DEF Spec

\* The operations of a message and its lock; the others; those that add none.
SectionOps == {"lock_ld", "lock_st", "lock_lr", "lock_sc", "lock_swap", "char", "unlock_lr", "unlock_sc", "unlock_swap"}
Calm == Operation \ SectionOps
Fore == Calm \ {"ecall"}

\* A message and what follows, from each of its operations on.
Unlocking(r) == spin_unlock \o r
Printing(r) == printf \o Unlocking(r)
LastChar(r) == <<"char">> \o Unlocking(r)
Locking(r) == spin_lock \o Printing(r)
Conditional(r) == <<"lock_sc">> \o Printing(r)
Releasing(r) == <<"unlock_sc">> \o r

\* At most one message to come; in a message.
Outside(s) == s \in Seq(Calm) \/ \E p \in Seq(Fore), r \in Seq(Calm) : s = p \o Locking(r)
Within(r) == {Printing(r), LastChar(r), Unlocking(r)}
             \cup (IF program = "rte" THEN {} ELSE {Conditional(r), Releasing(r)})
Section(s) == \E r \in Seq(Calm) : s \in Within(r)
Speech(s) == Outside(s) \/ Section(s)

\* What a core of the program rte does before it installs a handler and between
\* two of them.
Marks == {"install_MTI", "install_MSI", "install_ecall", "ecall", "on", "mret"}
Early == Operation \ (Marks \cup WakeOps)
Shut == Operation \ {"ecall", "on", "mret"}

\* Operations that are of no account to messages, handlers and start-up.
Plain == Operation \ (SectionOps \cup Marks \cup WakeOps)

\* All but the one that resets the handler table.
Late == Operation \ {"rte_setup"}

\* How the kinds of operations lie in one another.
LEMMA Kinds ==
  /\ Calm \subseteq Operation /\ Fore \subseteq Calm /\ Early \subseteq Operation /\ Shut \subseteq Operation
  /\ SectionOps \subseteq Early /\ SectionOps \subseteq Shut /\ SectionOps \subseteq Operation
  /\ WakeOps \subseteq Fore /\ WakeOps \subseteq Shut
  /\ Plain \subseteq Fore /\ Plain \subseteq Early /\ Plain \subseteq Shut
  /\ Marks \subseteq Calm /\ Marks \ {"ecall"} \subseteq Fore
<1>1. SectionOps \subseteq Operation /\ WakeOps \subseteq Operation /\ Marks \subseteq Operation
  BY DEF SectionOps, WakeOps, Marks, Operation, AccessOps, Internal
<1>2. SectionOps \cap WakeOps = {} /\ SectionOps \cap Marks = {} /\ WakeOps \cap Marks = {}
  BY DEF SectionOps, WakeOps, Marks
<1>3. {"ecall", "on", "mret"} \subseteq Marks BY DEF Marks
<1> QED BY <1>1, <1>2, <1>3 DEF Calm, Fore, Early, Shut, Plain

\* The operations of no account.
LEMMA PlainOps ==
  /\ {"rte_setup", "run_wait", "arg_beg", "arg_end", "result", "run_done", "exit", "available",
      "arg0", "arg1", "run", "run_check", "sum", "check_lr", "target0", "time_lo0", "time_hi", "time_lo"} \subseteq Plain
  /\ {"get_hi", "get_lo", "get_hi2", "cmp_begin", "cmp_lo1", "cmp_hi", "cmp_lo",
      "target_next", "msi_other", "msi_clr", "mie_MTI", "mie_MSI", "eret",
      "launch", "boot_stack", "boot_entry", "msi_launch", "boot_poll"} \subseteq Plain
<1>1. {"rte_setup", "run_wait", "arg_beg", "arg_end", "result", "run_done", "exit", "available",
      "arg0", "arg1", "run", "run_check", "sum", "check_lr", "target0", "time_lo0", "time_hi", "time_lo"} \subseteq Plain
  BY DEF Plain, SectionOps, WakeOps, Marks, Operation, AccessOps, Internal
<1>2. {"get_hi", "get_lo", "get_hi2", "cmp_begin", "cmp_lo1", "cmp_hi", "cmp_lo",
      "target_next", "msi_other", "msi_clr", "mie_MTI", "mie_MSI", "eret",
      "launch", "boot_stack", "boot_entry", "msi_launch", "boot_poll"} \subseteq Plain
  BY DEF Plain, SectionOps, WakeOps, Marks, Operation, AccessOps, Internal
<1> QED BY <1>1, <1>2

\* The same of texts.
LEMMA KindSeqs ==
  /\ Seq(Calm) \subseteq Text /\ Seq(Fore) \subseteq Seq(Calm) /\ Seq(Early) \subseteq Text /\ Seq(Shut) \subseteq Text
  /\ Seq(Plain) \subseteq Seq(Fore) /\ Seq(Plain) \subseteq Seq(Early) /\ Seq(Plain) \subseteq Seq(Shut)
  /\ Seq(WakeOps) \subseteq Seq(Fore) /\ Seq(WakeOps) \subseteq Seq(Shut)
  /\ Seq(Plain \cap Late) \subseteq Seq(Plain)
<1>1. Seq(Calm) \subseteq Text /\ Seq(Early) \subseteq Text /\ Seq(Shut) \subseteq Text
  BY Kinds, SeqMonotonic DEF Text
<1>2. Seq(Fore) \subseteq Seq(Calm) BY Kinds, SeqMonotonic
<1>3. Seq(Plain) \subseteq Seq(Fore) BY Kinds, SeqMonotonic
<1>4. Seq(Plain) \subseteq Seq(Early) BY Kinds, SeqMonotonic
<1>5. Seq(Plain) \subseteq Seq(Shut) BY Kinds, SeqMonotonic
<1>6. Seq(WakeOps) \subseteq Seq(Fore) BY Kinds, SeqMonotonic
<1>7. Seq(WakeOps) \subseteq Seq(Shut) BY Kinds, SeqMonotonic
<1>8. Seq(Plain \cap Late) \subseteq Seq(Plain) BY SeqMonotonic
<1> QED BY <1>1, <1>2, <1>3, <1>4, <1>5, <1>6, <1>7, <1>8

\* A message, written from each of its operations on.
LEMMA SpeechText ==
  ASSUME NEW r \in Seq(Calm)
  PROVE  /\ r \in Text
         /\ Unlocking(r) = IF program = "rte" THEN Cons("unlock_swap", r) ELSE Cons("unlock_lr", Releasing(r))
         /\ Releasing(r) = Cons("unlock_sc", r)
         /\ LastChar(r) = Cons("char", Unlocking(r)) /\ Printing(r) = Cons("char", LastChar(r))
         /\ Conditional(r) = Cons("lock_sc", Printing(r))
         /\ Locking(r) = IF program = "rte" THEN Cons("lock_swap", Printing(r)) ELSE Cons("lock_lr", Printing(r))
         /\ Unlocking(r) \in Text /\ Releasing(r) \in Text /\ LastChar(r) \in Text /\ Printing(r) \in Text
         /\ Conditional(r) \in Text /\ Locking(r) \in Text
<1>1. r \in Text BY KindSeqs
<1>2. /\ "unlock_swap" \in Operation /\ "unlock_lr" \in Operation /\ "unlock_sc" \in Operation
      /\ "char" \in Operation /\ "lock_sc" \in Operation /\ "lock_swap" \in Operation /\ "lock_lr" \in Operation
  BY DEF Operation, AccessOps
<1>3. Releasing(r) = Cons("unlock_sc", r) /\ Releasing(r) \in Text
  <2>1. Releasing(r) = Cons("unlock_sc", r) BY DEF Releasing, Cons
  <2> QED BY <1>1, <1>2, <2>1, ConsFacts
<1>4. /\ Unlocking(r) = IF program = "rte" THEN Cons("unlock_swap", r) ELSE Cons("unlock_lr", Releasing(r))
      /\ Unlocking(r) \in Text
  <2>1. CASE program = "rte"
    <3>1. Unlocking(r) = <<"unlock_swap">> \o r BY <2>1 DEF Unlocking, spin_unlock
    <3>2. Unlocking(r) = Cons("unlock_swap", r) BY <3>1, <1>1, <1>2, Literal1
    <3> QED BY <2>1, <3>2, <1>1, <1>2, ConsFacts
  <2>2. CASE program # "rte"
    <3>1. Unlocking(r) = <<"unlock_lr", "unlock_sc">> \o r BY <2>2 DEF Unlocking, spin_unlock
    <3>2. \A t \in Text : <<"unlock_lr", "unlock_sc">> \o t = Cons("unlock_lr", <<"unlock_sc">> \o t)
      BY <1>2, Literal2
    <3>3. Unlocking(r) = Cons("unlock_lr", Releasing(r)) BY <3>1, <3>2, <1>1 DEF Releasing
    <3> QED BY <2>2, <3>3, <1>3, <1>2, ConsFacts
  <2> QED BY <2>1, <2>2
<1> DEFINE u == Unlocking(r)
<1>5. u \in Text BY <1>4
<1>6. LastChar(r) = Cons("char", u) /\ LastChar(r) \in Text
  <2>1. LastChar(r) = Cons("char", u) BY DEF LastChar, Cons
  <2> HIDE DEF u
  <2> QED BY <2>1, <1>2, <1>5, ConsFacts
<1>7. Printing(r) = Cons("char", LastChar(r)) /\ Printing(r) \in Text
  <2>1. Printing(r) = <<"char", "char">> \o u BY DEF Printing, printf
  <2>2. LastChar(r) = <<"char">> \o u BY DEF LastChar
  <2> HIDE DEF u
  <2>3. \A t \in Text : <<"char", "char">> \o t = Cons("char", <<"char">> \o t) BY <1>2, Literal2
  <2>4. Printing(r) = Cons("char", LastChar(r)) BY <2>1, <2>2, <2>3, <1>5
  <2> QED BY <2>4, <1>2, <1>6, ConsFacts
<1> DEFINE w == Printing(r)
<1>8. w \in Text BY <1>7
<1>9. Conditional(r) = Cons("lock_sc", w) BY DEF Conditional, Cons
<1>10. Locking(r) = spin_lock \o w BY DEF Locking
<1> HIDE DEF w
<1>11. Conditional(r) = Cons("lock_sc", w) /\ Conditional(r) \in Text BY <1>2, <1>8, <1>9, ConsFacts
<1>12. /\ Locking(r) = IF program = "rte" THEN Cons("lock_swap", w) ELSE Cons("lock_lr", w)
       /\ Locking(r) \in Text
  <2>1. CASE program = "rte"
    <3>1. Locking(r) = <<"lock_swap">> \o w BY <2>1, <1>10 DEF spin_lock
    <3>2. Locking(r) = Cons("lock_swap", w) BY <3>1, <1>2, <1>8, Literal1
    <3> QED BY <2>1, <3>2, <1>8, <1>2, ConsFacts
  <2>2. CASE program # "rte"
    <3>1. Locking(r) = <<"lock_lr">> \o w BY <2>2, <1>10 DEF spin_lock
    <3>2. Locking(r) = Cons("lock_lr", w) BY <3>1, <1>2, <1>8, Literal1
    <3> QED BY <2>2, <3>2, <1>8, <1>2, ConsFacts
  <2> QED BY <2>1, <2>2
<1> QED BY <1>1, <1>3, <1>4, <1>6, <1>7, <1>11, <1>12 DEF w

\* Outside a message: an operation of no account, or the lock is asked for.
LEMMA OutsideText ==
  ASSUME NEW s, Outside(s), s # <<>>
  PROVE  /\ s \in Text
         /\ \/ /\ Head(s) \in Calm /\ Outside(Tail(s))
               /\ (Head(s) = "ecall" => Tail(s) \in Seq(Calm))
            \/ /\ Head(s) = IF program = "rte" THEN "lock_swap" ELSE "lock_lr"
               /\ \E r \in Seq(Calm) : Tail(s) = Printing(r)
<1>1. CASE s \in Seq(Calm)
  <2>1. Head(s) \in Calm /\ Tail(s) \in Seq(Calm) BY <1>1
  <2> QED BY <1>1, <2>1, KindSeqs DEF Outside
<1>2. ASSUME NEW p \in Seq(Fore), NEW r \in Seq(Calm), s = p \o Locking(r)
      PROVE  /\ s \in Text
             /\ \/ /\ Head(s) \in Calm /\ Outside(Tail(s)) /\ Head(s) # "ecall"
                \/ /\ Head(s) = IF program = "rte" THEN "lock_swap" ELSE "lock_lr"
                   /\ Tail(s) = Printing(r)
  <2> DEFINE l == Locking(r)
  <2>1. l \in Text /\ Printing(r) \in Text BY SpeechText
  <2>2. p \in Text BY KindSeqs
  <2>3. s = p \o l BY <1>2
  <2> HIDE DEF l
  <2>4. s \in Text BY <2>1, <2>2, <2>3, JoinFacts
  <2>5. CASE p = <<>>
    <3>1. s = l BY <2>1, <2>3, <2>5, JoinFacts
    <3>2. l = IF program = "rte" THEN Cons("lock_swap", Printing(r)) ELSE Cons("lock_lr", Printing(r))
      BY SpeechText DEF l
    <3>3. "lock_swap" \in Operation /\ "lock_lr" \in Operation BY DEF Operation, AccessOps
    <3>4. /\ Head(s) = IF program = "rte" THEN "lock_swap" ELSE "lock_lr"
          /\ Tail(s) = Printing(r)
      BY <2>1, <3>1, <3>2, <3>3, ConsFacts
    <3> QED BY <2>4, <3>4
  <2>6. CASE p # <<>>
    <3>1. Head(p) \in Fore /\ Tail(p) \in Seq(Fore) BY <2>6
    <3>2. p = Cons(Head(p), Tail(p)) /\ Tail(p) \in Text /\ Head(p) \in Operation BY <2>2, <2>6, HeadTail
    <3> DEFINE h == Head(p)
               t == Tail(p)
    <3>3. h \in Operation /\ t \in Text /\ p = Cons(h, t) BY <3>2
    <3> HIDE DEF h, t
    <3>4. Cons(h, t) \o l = Cons(h, t \o l) BY <2>1, <3>3, JoinFacts
    <3>5. s = Cons(h, t \o l) BY <2>3, <3>3, <3>4
    <3>6. t \o l \in Text BY <2>1, <3>3, JoinFacts
    <3>7. Head(s) = h /\ Tail(s) = t \o l BY <3>3, <3>5, <3>6, ConsFacts
    <3>8. h \in Fore /\ t \in Seq(Fore) BY <3>1 DEF h, t
    <3>9. Outside(Tail(s)) BY <3>7, <3>8 DEF Outside, l
    <3>10. h \in Calm /\ h # "ecall" BY <3>8 DEF Fore
    <3> QED BY <2>4, <3>7, <3>9, <3>10
  <2> QED BY <2>5, <2>6
<1> QED BY <1>1, <1>2 DEF Outside

\* Nothing is in the way of more operations of no account before a message.
LEMMA OutsideMore ==
  ASSUME NEW s, Outside(s), NEW q \in Seq(Fore)
  PROVE  Outside(q \o s)
<1>1. CASE s \in Seq(Calm)
  <2>1. q \in Seq(Calm) BY KindSeqs
  <2> QED BY <1>1, <2>1 DEF Outside
<1>2. ASSUME NEW p \in Seq(Fore), NEW r \in Seq(Calm), s = p \o Locking(r)
      PROVE  Outside(q \o s)
  <2> DEFINE l == Locking(r)
  <2>1. l \in Text BY SpeechText
  <2>2. p \in Text /\ q \in Text BY KindSeqs
  <2>3. s = p \o l BY <1>2
  <2> HIDE DEF l
  <2>4. q \o s = (q \o p) \o l BY <2>1, <2>2, <2>3, JoinThree
  <2>5. q \o p \in Seq(Fore) OBVIOUS
  <2> QED BY <2>4, <2>5 DEF Outside, l
<1> QED BY <1>1, <1>2 DEF Outside

\* A message to come.
LEMMA OutsideLocked ==
  ASSUME NEW r \in Seq(Calm)
  PROVE  Outside(Locking(r)) /\ Locked(printf) \in Text /\ Locked(printf) \o r = Locking(r)
<1>1. Outside(Locking(r))
  <2>1. <<>> \in Seq(Fore) OBVIOUS
  <2>2. Locking(r) \in Text BY SpeechText
  <2>3. <<>> \o Locking(r) = Locking(r) BY <2>2, JoinFacts
  <2> QED BY <2>1, <2>3 DEF Outside
<1>2. spin_lock \in Text /\ printf \in Text /\ spin_unlock \in Text
  <2>1. /\ "unlock_swap" \in Operation /\ "unlock_lr" \in Operation /\ "unlock_sc" \in Operation
        /\ "char" \in Operation /\ "lock_swap" \in Operation /\ "lock_lr" \in Operation
    BY DEF Operation, AccessOps
  <2> QED BY <2>1, Literal1, Literal2 DEF spin_lock, printf, spin_unlock
<1>3. r \in Text BY KindSeqs
<1> DEFINE a == spin_lock
           b == printf
           d == spin_unlock
<1>4. a \in Text /\ b \in Text /\ d \in Text BY <1>2
<1>5. Locked(printf) = (a \o b) \o d BY DEF Locked
<1>6. Locking(r) = a \o (b \o (d \o r)) BY DEF Locking, Printing, Unlocking
<1> HIDE DEF a, b, d
<1>7. a \o b \in Text /\ d \o r \in Text BY <1>3, <1>4, JoinFacts
<1>8. ((a \o b) \o d) \o r = (a \o b) \o (d \o r) BY <1>3, <1>4, <1>7, JoinThree
<1>9. (a \o b) \o (d \o r) = a \o (b \o (d \o r)) BY <1>4, <1>7, JoinThree
<1>10. (a \o b) \o d \in Text BY <1>4, <1>7, JoinFacts
<1> QED BY <1>1, <1>5, <1>6, <1>8, <1>9, <1>10

\* The first and the second character of a message; no message begun.
First(c) == At(c, "char") /\ Head(Rest(c)) = "char"
Last(c) == At(c, "char") /\ Head(Rest(c)) # "char"
Away(c) == ~Busy(c) \/ Op(c) \in Calm \cup {"lock_lr", "lock_swap"}

\* The answer to a store-conditional says that it succeeded.
Passed == response([data |-> bus.data]).data = 0

\* In a message.
LEMMA SectionTurns ==
  ASSUME NEW s, Section(s)
  PROVE  /\ s \in Text /\ s # <<>>
         /\ \E r \in Seq(Calm) :
              \/ s = Conditional(r) /\ program # "rte" /\ Head(s) = "lock_sc" /\ Tail(s) = Printing(r)
              \/ s = Printing(r) /\ Head(s) = "char" /\ Tail(s) = LastChar(r)
              \/ s = LastChar(r) /\ Head(s) = "char" /\ Tail(s) = Unlocking(r)
              \/ s = Unlocking(r) /\ program = "rte" /\ Head(s) = "unlock_swap" /\ Tail(s) = r
              \/ s = Unlocking(r) /\ program # "rte" /\ Head(s) = "unlock_lr" /\ Tail(s) = Releasing(r)
              \/ s = Releasing(r) /\ program # "rte" /\ Head(s) = "unlock_sc" /\ Tail(s) = r
<1> PICK r \in Seq(Calm) : s \in Within(r) BY DEF Section
<1>1. /\ "unlock_swap" \in Operation /\ "unlock_lr" \in Operation /\ "unlock_sc" \in Operation
      /\ "char" \in Operation /\ "lock_sc" \in Operation
  BY DEF Operation, AccessOps
<1> DEFINE a == Conditional(r)
           b == Printing(r)
           d == LastChar(r)
           e == Unlocking(r)
           f == Releasing(r)
<1>2. /\ r \in Text
      /\ e = IF program = "rte" THEN Cons("unlock_swap", r) ELSE Cons("unlock_lr", f)
      /\ f = Cons("unlock_sc", r) /\ d = Cons("char", e) /\ b = Cons("char", d) /\ a = Cons("lock_sc", b)
      /\ e \in Text /\ f \in Text /\ d \in Text /\ b \in Text /\ a \in Text
  BY SpeechText
<1>3. s \in {b, d, e} \/ (program # "rte" /\ s \in {a, f}) BY DEF Within
<1> HIDE DEF a, b, d, e, f
<1>4. CASE s = a /\ program # "rte"
  <2>1. Head(s) = "lock_sc" /\ Tail(s) = b /\ s # <<>> BY <1>1, <1>2, <1>4, ConsFacts
  <2> QED BY <1>2, <1>4, <2>1 DEF a, b
<1>5. CASE s = b
  <2>1. Head(s) = "char" /\ Tail(s) = d /\ s # <<>> BY <1>1, <1>2, <1>5, ConsFacts
  <2> QED BY <1>2, <1>5, <2>1 DEF b, d
<1>6. CASE s = d
  <2>1. Head(s) = "char" /\ Tail(s) = e /\ s # <<>> BY <1>1, <1>2, <1>6, ConsFacts
  <2> QED BY <1>2, <1>6, <2>1 DEF d, e
<1>7. CASE s = e
  <2>1. CASE program = "rte"
    <3>1. Head(s) = "unlock_swap" /\ Tail(s) = r /\ s # <<>> BY <1>1, <1>2, <1>7, <2>1, ConsFacts
    <3> QED BY <1>2, <1>7, <2>1, <3>1 DEF e
  <2>2. CASE program # "rte"
    <3>1. Head(s) = "unlock_lr" /\ Tail(s) = f /\ s # <<>> BY <1>1, <1>2, <1>7, <2>2, ConsFacts
    <3> QED BY <1>2, <1>7, <2>2, <3>1 DEF e, f
  <2> QED BY <2>1, <2>2
<1>8. CASE s = f /\ program # "rte"
  <2>1. Head(s) = "unlock_sc" /\ Tail(s) = r /\ s # <<>> BY <1>1, <1>2, <1>8, ConsFacts
  <2> QED BY <1>2, <1>8, <2>1 DEF f
<1> QED BY <1>3, <1>4, <1>5, <1>6, <1>7, <1>8

\* No message follows what begins none.
LEMMA QuietText ==
  ASSUME NEW s, Speech(s), s = <<>> \/ Head(s) \notin SectionOps
  PROVE  Outside(s)
<1>1. CASE Section(s)
  <2>1. s # <<>> /\ Head(s) \in {"lock_sc", "char", "unlock_swap", "unlock_lr", "unlock_sc"} BY <1>1, SectionTurns
  <2> QED BY <2>1 DEF SectionOps
<1> QED BY <1>1 DEF Speech

\* A core outside a message is away from the lock.
LEMMA AwayText ==
  ASSUME NEW c \in Core, Outside(code[c])
  PROVE  Away(c) /\ Speech(code[c])
<1>1. CASE code[c] = <<>> BY <1>1 DEF Away, Busy, Speech
<1>2. CASE code[c] # <<>>
  <2>1. \/ Head(code[c]) \in Calm
        \/ Head(code[c]) = IF program = "rte" THEN "lock_swap" ELSE "lock_lr"
    BY <1>2, OutsideText
  <2> QED BY <1>2, <2>1 DEF Away, Op, Speech
<1> QED BY <1>1, <1>2

-----------------------------------------------------------------------------
\* What an answer does to the operations to come.
LEMMA AnswerMoves ==
  ASSUME LaunchInv, NEW c \in Core, Answer(c)
  PROVE  /\ code[c] \in Text /\ Busy(c) /\ Op(c) \in AccessOps /\ Rest(c) \in Text
         /\ code'[1 - c] = code[1 - c] /\ DOMAIN code' = Core
         /\ Op(c) \in Calm => \/ code'[c] = code[c]
                              \/ \E q \in Seq(Plain \cap Late) : code'[c] = q \o Rest(c)
                              \/ c = 0 /\ code'[0] = <<"exit">> /\ During(code[0])
         /\ Op(c) \in {"lock_lr", "lock_swap"} /\ bus.data # 0 => code'[c] = code[c]
         /\ Op(c) = "lock_lr" /\ bus.data = 0 => code'[c] = Cons("lock_sc", Rest(c))
         /\ Op(c) = "lock_swap" /\ bus.data = 0 => code'[c] = Rest(c)
         /\ Op(c) = "lock_sc" => code'[c] = IF Passed THEN Rest(c) ELSE Cons("lock_lr", Rest(c))
         /\ Op(c) = "unlock_sc" => code'[c] = IF Passed THEN Rest(c)
                                              ELSE <<"unlock_lr", "unlock_sc">> \o Rest(c)
         /\ Op(c) \in {"char", "unlock_lr", "unlock_swap"} => code'[c] = Rest(c)
<1>1. Clints /\ Types /\ Results /\ Launcher /\ Sleeper BY DEF LaunchInv
<1>2. Busy(c) /\ Op(c) \in AccessOps BY <1>1, AnswerFrame
<1>3. Op(c) \notin {"lock_sc", "unlock_sc"} => response([data |-> bus.data]).data = bus.data BY <1>1, AnswerFrame
<1>4. code \in [Core -> Text] /\ code[c] # <<>> BY <1>1, <1>2 DEF Types, Busy
<1>5. code[c] \in Text /\ Rest(c) \in Text BY <1>4, HeadTail DEF Rest
<1> DEFINE data == response([data |-> bus.data]).data
<1>6. /\ Op(c) # "boot_poll" => code' = Continue(c, data)
      /\ Op(c) = "boot_poll" => Polled(data)
  BY DEF Answer
<1>7. data = 0 <=> Passed BY DEF Passed
<1> HIDE DEF data
<1>8. code'[1 - c] = code[1 - c] /\ DOMAIN code' = Core
  <2>1. Op(c) = "boot_poll" => c = 0
    <3>1. ASSUME c # 0, Op(c) = "boot_poll" PROVE FALSE
      <4>1. c = 1 BY <3>1 DEF Core
      <4>2. CASE Awake
        <5>1. Op(1) \in WakeOps BY <4>2, AwakeText
        <5> QED BY <3>1, <4>1, <5>1 DEF WakeOps
      <4>3. CASE Started
        <5>1. Op(1) \in Work BY <1>4, <4>1, <4>3 DEF Started, Op
        <5> QED BY <3>1, <4>1, <5>1 DEF Work, LaunchOps
      <4>4. ~Asleep BY <1>4, <4>1 DEF Asleep
      <4> QED BY <1>1, <4>2, <4>3, <4>4 DEF Sleeper
    <3> QED BY <3>1
  <2>2. \E t : code' = [code EXCEPT ![c] = t]
    <3>1. CASE Op(c) = "boot_poll"
      <4>1. c = 0 BY <2>1, <3>1
      <4>2. code' = code \/ \E t : code' = [code EXCEPT ![0] = t]
        BY <1>6, <3>1 DEF Polled, Again, Done
      <4>3. code = [code EXCEPT ![0] = code[0]] BY <1>4
      <4> QED BY <4>1, <4>2, <4>3
    <3>2. CASE Op(c) # "boot_poll"
      <4>1. code' = code \/ \E t : code' = [code EXCEPT ![c] = t]
        BY <1>6, <3>2 DEF Continue, Again, Done
      <4>2. code = [code EXCEPT ![c] = code[c]] BY <1>4
      <4> QED BY <4>1, <4>2
    <3> QED BY <3>1, <3>2
  <2> QED BY <1>4, <2>2 DEF Core
<1>9. ASSUME NEW t PROVE [code EXCEPT ![c] = t][c] = t BY <1>4
<1>10. Done(c)[c] = Rest(c) /\ \A q : Again(c, q)[c] = q \o Rest(c)
  <2>1. Done(c)[c] = Rest(c) BY <1>9 DEF Done
  <2>2. ASSUME NEW q PROVE Again(c, q)[c] = q \o Rest(c)
    <3> DEFINE t == q \o Rest(c)
    <3>1. Again(c, q) = [code EXCEPT ![c] = t] BY DEF Again
    <3> HIDE DEF t
    <3>2. Again(c, q)[c] = t BY <1>9, <3>1
    <3> QED BY <3>2 DEF t
  <2> QED BY <2>1, <2>2
<1>11. Op(c) \in {"lock_lr", "lock_swap"} /\ bus.data # 0 => code'[c] = code[c]
  <2>1. Op(c) = "lock_lr" /\ data # 0 => code' = code BY <1>6 DEF Continue
  <2>2. Op(c) = "lock_swap" /\ data # 0 => code' = code BY <1>6 DEF Continue
  <2> QED BY <1>3, <2>1, <2>2 DEF data
<1>12. Op(c) = "lock_lr" /\ bus.data = 0 => code'[c] = Cons("lock_sc", Rest(c))
  <2>1. Op(c) = "lock_lr" /\ data = 0 => code' = Again(c, <<"lock_sc">>) BY <1>6 DEF Continue
  <2>2. Op(c) = "lock_lr" /\ data = 0 => code'[c] = <<"lock_sc">> \o Rest(c) BY <1>10, <2>1
  <2> QED BY <1>3, <2>2 DEF data, Cons
<1>13. Op(c) = "lock_swap" /\ bus.data = 0 => code'[c] = Rest(c)
  <2>1. Op(c) = "lock_swap" /\ data = 0 => code' = Done(c) BY <1>6 DEF Continue
  <2> QED BY <1>3, <1>10, <2>1 DEF data
<1>14. Op(c) = "lock_sc" => code'[c] = IF Passed THEN Rest(c) ELSE Cons("lock_lr", Rest(c))
  <2>1. Op(c) = "lock_sc" => code' = IF data = 0 THEN Done(c) ELSE Again(c, <<"lock_lr">>) BY <1>6 DEF Continue
  <2>2. Op(c) = "lock_sc" => code'[c] = IF data = 0 THEN Rest(c) ELSE <<"lock_lr">> \o Rest(c) BY <1>10, <2>1
  <2> QED BY <1>7, <2>2 DEF Cons
<1>15. Op(c) = "unlock_sc" => code'[c] = IF Passed THEN Rest(c) ELSE <<"unlock_lr", "unlock_sc">> \o Rest(c)
  <2>1. Op(c) = "unlock_sc" => code' = IF data = 0 THEN Done(c) ELSE Again(c, <<"unlock_lr", "unlock_sc">>)
    BY <1>6 DEF Continue
  <2> QED BY <1>7, <1>10, <2>1
<1>16. Op(c) \in {"char", "unlock_lr", "unlock_swap"} => code'[c] = Rest(c)
  <2>1. Op(c) \in {"char", "unlock_lr", "unlock_swap"} => code' = Done(c) BY <1>6 DEF Continue
  <2> QED BY <1>10, <2>1
<1>17. ASSUME Op(c) \in Calm
       PROVE  \/ code'[c] = code[c]
              \/ \E q \in Seq(Plain \cap Late) : code'[c] = q \o Rest(c)
              \/ c = 0 /\ code'[0] = <<"exit">> /\ During(code[0])
  <2>1. <<>> \in Seq(Plain \cap Late) /\ <<>> \o Rest(c) = Rest(c) BY <1>5, JoinFacts
  <2>2. CASE Op(c) = "boot_poll"
    <3>1. ASSUME c # 0 PROVE FALSE
      <4>1. c = 1 BY <3>1 DEF Core
      <4>2. CASE Awake
        <5>1. Op(1) \in WakeOps BY <4>2, AwakeText
        <5> QED BY <2>2, <4>1, <5>1 DEF WakeOps
      <4>3. CASE Started
        <5>1. Op(1) \in Work BY <1>4, <4>1, <4>3 DEF Started, Op
        <5> QED BY <2>2, <4>1, <5>1 DEF Work, LaunchOps
      <4>4. ~Asleep BY <1>4, <4>1 DEF Asleep
      <4> QED BY <1>1, <4>2, <4>3, <4>4 DEF Sleeper
    <3>2. c = 0 BY <3>1
    <3>3. During(code[0])
      <4>1. code[0] # <<>> /\ Head(code[0]) = "boot_poll" BY <1>4, <2>2, <3>2 DEF Op
      <4>2. ~(code[0] \in Seq(Work) \/ Before(code[0])) BY <4>1, CalmText DEF InLaunch
      <4>3. code[0] \in Seq(QuietWork) \/ code[0] \in Seq(ClosedWork) => code[0] \in Seq(Work) BY WorkSeqs
      <4> QED BY <1>1, <4>2, <4>3 DEF Launcher
    <3>4. \/ code' = code \/ code' = Again(0, __astrarv32_smp_boot) \/ code' = Done(0)
          \/ code' = Again(0, astrarv32_smp_launch) \/ code' = [code EXCEPT ![0] = <<"exit">>]
      BY <1>6, <2>2 DEF Polled
    <3>5. __astrarv32_smp_boot \in Seq(Plain \cap Late) /\ astrarv32_smp_launch \in Seq(Plain \cap Late)
      <4>1. {"launch", "boot_stack", "boot_entry", "msi_launch", "boot_poll"} \subseteq Plain \cap Late
        <5>1. {"launch", "boot_stack", "boot_entry", "msi_launch", "boot_poll"} \subseteq Plain BY PlainOps
        <5> QED BY <5>1 DEF Late, Plain
      <4>2. __astrarv32_smp_boot \in Seq(Plain \cap Late) BY <4>1 DEF __astrarv32_smp_boot
      <4>3. <<"launch">> \in Seq(Plain \cap Late) BY <4>1
      <4>4. <<"launch">> \o __astrarv32_smp_boot \in Seq(Plain \cap Late) BY <4>2, <4>3
      <4> QED BY <4>2, <4>4 DEF astrarv32_smp_launch
    <3>6. [code EXCEPT ![0] = <<"exit">>][0] = <<"exit">> BY <1>9, <3>2
    <3>7. CASE code' = Again(0, __astrarv32_smp_boot)
      <4>1. code'[0] = __astrarv32_smp_boot \o Rest(0) BY <1>10, <3>2, <3>7
      <4> QED BY <3>2, <3>5, <4>1
    <3>8. CASE code' = Again(0, astrarv32_smp_launch)
      <4>1. code'[0] = astrarv32_smp_launch \o Rest(0) BY <1>10, <3>2, <3>8
      <4> QED BY <3>2, <3>5, <4>1
    <3>9. CASE code' = Done(0)
      <4>1. code'[0] = Rest(0) BY <1>10, <3>2, <3>9
      <4> QED BY <2>1, <3>2, <4>1
    <3> QED BY <3>2, <3>3, <3>4, <3>6, <3>7, <3>8, <3>9
  <2>3. CASE Op(c) # "boot_poll"
    <3>1. code' = code \/ code' = Done(c) \/ code' = Again(c, astrarv32_clint_time_get)
      <4>1. Op(c) \notin {"lock_lr", "lock_sc", "unlock_sc"} BY <1>17 DEF Calm, SectionOps
      <4> QED BY <1>6, <2>3, <4>1 DEF Continue
    <3>2. astrarv32_clint_time_get \in Seq(Plain \cap Late)
      <4>1. {"get_hi", "get_lo", "get_hi2"} \subseteq Plain BY PlainOps
      <4>2. {"get_hi", "get_lo", "get_hi2"} \subseteq Plain \cap Late BY <4>1 DEF Late, Plain
      <4> QED BY <4>2 DEF astrarv32_clint_time_get
    <3>3. CASE code' = Again(c, astrarv32_clint_time_get)
      <4>1. code'[c] = astrarv32_clint_time_get \o Rest(c) BY <1>10, <3>3
      <4> QED BY <3>2, <4>1
    <3>4. CASE code' = Done(c)
      <4>1. code'[c] = Rest(c) BY <1>10, <3>4
      <4> QED BY <2>1, <4>1
    <3> QED BY <3>1, <3>3, <3>4
  <2> QED BY <2>2, <2>3
<1>18. code[c] \in Text /\ Busy(c) /\ Op(c) \in AccessOps /\ Rest(c) \in Text BY <1>2, <1>5
<1>19. /\ Op(c) \in {"lock_lr", "lock_swap"} /\ bus.data # 0 => code'[c] = code[c]
       /\ Op(c) = "lock_lr" /\ bus.data = 0 => code'[c] = Cons("lock_sc", Rest(c))
       /\ Op(c) = "lock_swap" /\ bus.data = 0 => code'[c] = Rest(c)
  BY <1>11, <1>12, <1>13
<1>20. /\ Op(c) = "lock_sc" => code'[c] = IF Passed THEN Rest(c) ELSE Cons("lock_lr", Rest(c))
       /\ Op(c) = "unlock_sc" => code'[c] = IF Passed THEN Rest(c)
                                              ELSE <<"unlock_lr", "unlock_sc">> \o Rest(c)
       /\ Op(c) \in {"char", "unlock_lr", "unlock_swap"} => code'[c] = Rest(c)
  BY <1>14, <1>15, <1>16
<1> QED BY <1>8, <1>17, <1>18, <1>19, <1>20

\* The operations of the answer that are done at once, and two that repeat.
LEMMA AnswerExact ==
  ASSUME LaunchInv, NEW c \in Core, Answer(c)
  PROVE  /\ Op(c) \in {"wake_sp", "wake_entry", "wake_ack", "arg_beg", "arg_end", "result", "run_done",
                      "arg0", "arg1", "run", "sum"} => code'[c] = Rest(c)
         /\ Op(c) = "run_wait" => code'[c] = IF bus.data = 0 THEN code[c] ELSE Rest(c)
         /\ Op(c) = "run_check" => code'[c] = IF bus.data = 0 THEN Rest(c) ELSE code[c]
<1>1. Clints /\ Types /\ Results BY DEF LaunchInv
<1>2. Op(c) \notin {"lock_sc", "unlock_sc"} => response([data |-> bus.data]).data = bus.data BY <1>1, AnswerFrame
<1>3. code \in [Core -> Text] BY <1>1 DEF Types
<1> DEFINE data == response([data |-> bus.data]).data
<1>4. Op(c) # "boot_poll" => code' = Continue(c, data) BY DEF Answer
<1>5. Op(c) \notin {"lock_sc", "unlock_sc"} => data = bus.data BY <1>2
<1> HIDE DEF data
<1>6. Done(c)[c] = Rest(c) BY <1>3 DEF Done
<1>7. Op(c) \in {"wake_sp", "wake_entry", "wake_ack", "arg_beg", "arg_end", "result", "run_done",
                 "arg0", "arg1", "run", "sum"} => code' = Done(c)
  BY <1>4 DEF Continue
<1>8. Op(c) = "run_wait" => code' = IF bus.data = 0 THEN code ELSE Done(c) BY <1>4, <1>5 DEF Continue
<1>9. Op(c) = "run_check" => code' = IF bus.data = 0 THEN Done(c) ELSE code BY <1>4, <1>5 DEF Continue
<1> QED BY <1>6, <1>7, <1>8, <1>9

\* What a step leaves to be said is a part of a message, or lies outside.
LEMMA SpeechNext ==
  ASSUME NEW c \in Core, program' = program, Speech(code'[c])
  PROVE  Speech(code[c])'
<1>1. spin_lock' = spin_lock /\ spin_unlock' = spin_unlock BY DEF spin_lock, spin_unlock
<1> DEFINE s == code'[c]
<1>2. CASE s \in Seq(Calm) BY <1>2 DEF Speech, Outside
<1>3. ASSUME NEW p \in Seq(Fore), NEW r \in Seq(Calm), s = p \o Locking(r) PROVE Speech(code[c])'
  <2>1. Locking(r)' = Locking(r) BY <1>1 DEF Locking, Printing, Unlocking
  <2>2. s = p \o Locking(r)' BY <1>3, <2>1
  <2> QED BY <2>2 DEF Speech, Outside
<1>4. ASSUME NEW r \in Seq(Calm), s \in Within(r)
      PROVE Speech(code[c])'
  <2>1. /\ Conditional(r)' = Conditional(r) /\ Printing(r)' = Printing(r) /\ LastChar(r)' = LastChar(r)
        /\ Unlocking(r)' = Unlocking(r) /\ Releasing(r)' = Releasing(r)
    BY <1>1 DEF Conditional, Printing, LastChar, Unlocking, Releasing
  <2>2. Within(r)' = Within(r) BY <2>1 DEF Within
  <2>3. Section(code[c])' BY <1>4, <2>2 DEF Section
  <2> QED BY <2>3 DEF Speech
<1> QED BY <1>2, <1>3, <1>4 DEF Speech, Outside, Section

\* A step that ends outside a message ends away from the lock.
LEMMA AwayNext ==
  ASSUME NEW c \in Core, program' = program, Outside(code'[c])
  PROVE  Away(c)' /\ Speech(code[c])'
<1>1. Speech(code[c])' BY SpeechNext DEF Speech
<1>2. CASE code'[c] = <<>> BY <1>1, <1>2 DEF Away, Busy
<1>3. CASE code'[c] # <<>>
  <2>1. \/ Head(code'[c]) \in Calm
        \/ Head(code'[c]) = IF program = "rte" THEN "lock_swap" ELSE "lock_lr"
    BY <1>3, OutsideText
  <2> QED BY <1>1, <1>3, <2>1 DEF Away, Op
<1> QED BY <1>2, <1>3

\* An answer outside a message.
LEMMA AnswerQuiet ==
  ASSUME LaunchInv, NEW c \in Core, Answer(c), Speech(code[c]), Op(c) \in Calm
  PROVE  Outside(code'[c]) /\ Op(c) # "ecall"
<1>1. Busy(c) /\ Op(c) \in AccessOps /\ Rest(c) \in Text /\ code[c] \in Text BY AnswerMoves
<1>2. Op(c) # "ecall" BY <1>1 DEF AccessOps
<1>3. code[c] # <<>> /\ Op(c) = Head(code[c]) /\ Rest(c) = Tail(code[c]) BY <1>1 DEF Busy, Op, Rest
<1>4. Op(c) \notin SectionOps BY DEF Calm
<1>5. Outside(code[c]) BY <1>3, <1>4, QuietText
<1>6. Outside(Rest(c))
  <2>1. "lock_swap" \notin Calm /\ "lock_lr" \notin Calm BY DEF Calm, SectionOps
  <2>2. \/ Outside(Tail(code[c]))
        \/ Head(code[c]) = IF program = "rte" THEN "lock_swap" ELSE "lock_lr"
    BY <1>3, <1>5, OutsideText
  <2> QED BY <1>3, <2>1, <2>2
<1>7. CASE code'[c] = code[c] BY <1>2, <1>5, <1>7
<1>8. ASSUME NEW q \in Seq(Plain \cap Late), code'[c] = q \o Rest(c) PROVE Outside(code'[c])
  <2>1. q \in Seq(Fore) BY KindSeqs
  <2> QED BY <1>6, <1>8, <2>1, OutsideMore
<1>9. CASE c = 0 /\ code'[0] = <<"exit">>
  <2>1. "exit" \in Calm BY PlainOps, Kinds
  <2>2. <<"exit">> \in Seq(Calm) BY <2>1
  <2> QED BY <1>2, <1>9, <2>2 DEF Outside
<1> QED BY <1>2, <1>7, <1>8, <1>9, AnswerMoves

\* How an answer leads a core through a message and its lock.
Led(c) ==
  /\ Speech(code[c])'
  /\ Op(c) \in {"lock_lr", "lock_swap"} /\ bus.data # 0 => code'[c] = code[c]
  /\ Op(c) = "lock_lr" /\ bus.data = 0 => At(c, "lock_sc")'
  /\ Op(c) = "lock_sc" /\ ~Passed => At(c, "lock_lr")'
  /\ \/ Op(c) = "lock_sc" /\ Passed
     \/ Op(c) = "lock_swap" /\ bus.data = 0
     => First(c)'
  /\ First(c) => Last(c)'
  /\ Last(c) => At(c, "unlock_lr")' \/ At(c, "unlock_swap")'
  /\ Op(c) = "unlock_lr" => At(c, "unlock_sc")'
  /\ Op(c) = "unlock_sc" /\ ~Passed => At(c, "unlock_lr")'
  /\ (Op(c) = "unlock_sc" /\ Passed) \/ Op(c) = "unlock_swap" \/ Op(c) \in Calm => Away(c)'

\* Every answer leads a core through its message in this way.
LEMMA AnswerTurn ==
  ASSUME LaunchInv, NEW c \in Core, Answer(c), Speech(code[c])
  PROVE  /\ Op(c) \in Calm \cup {"lock_lr", "lock_swap", "lock_sc", "char", "unlock_lr", "unlock_sc", "unlock_swap"}
         /\ Led(c)
<1>1. Busy(c) /\ Op(c) \in AccessOps /\ Rest(c) \in Text /\ code[c] \in Text BY AnswerMoves
<1>2. code[c] # <<>> /\ Op(c) = Head(code[c]) /\ Rest(c) = Tail(code[c]) BY <1>1 DEF Busy, Op, Rest
<1>3. program' = program BY AnswerFrame DEF LaunchInv
<1>4. "lock_sc" \in Operation /\ "lock_lr" \in Operation /\ "unlock_lr" \in Operation /\ "unlock_sc" \in Operation
  BY DEF Operation, AccessOps
<1>5. /\ "lock_lr" \notin Calm /\ "lock_swap" \notin Calm /\ "lock_sc" \notin Calm /\ "char" \notin Calm
      /\ "unlock_lr" \notin Calm /\ "unlock_sc" \notin Calm /\ "unlock_swap" \notin Calm
  BY DEF Calm, SectionOps
<1>6. ASSUME NEW o, code'[c] # <<>>, Head(code'[c]) = o PROVE At(c, o)'
  BY <1>6 DEF At, Busy, Op
<1>7. ASSUME NEW r \in Seq(Calm) PROVE Outside(r) BY DEF Outside
<1>8. CASE Op(c) \in Calm
  <2>1. Outside(code'[c]) BY <1>8, AnswerQuiet
  <2>2. Away(c)' /\ Speech(code[c])' BY <1>3, <2>1, AwayNext
  <2>3. ~First(c) /\ ~Last(c) BY <1>5, <1>8 DEF First, Last, At
  <2> QED BY <1>5, <1>8, <2>2, <2>3 DEF Led
<1>9. ASSUME NEW r \in Seq(Calm), Rest(c) = Printing(r), Op(c) = IF program = "rte" THEN "lock_swap" ELSE "lock_lr"
      PROVE  Led(c)
  <2>1. ~First(c) /\ ~Last(c) BY <1>9 DEF First, Last, At
  <2>2. CASE bus.data # 0
    <3>1. code'[c] = code[c] BY <1>9, <2>2, AnswerMoves
    <3>2. Speech(code[c])' BY <1>3, <3>1, SpeechNext
    <3> QED BY <1>5, <1>9, <2>1, <2>2, <3>1, <3>2 DEF Led
  <2>3. CASE Op(c) = "lock_lr" /\ bus.data = 0
    <3>1. code'[c] = Cons("lock_sc", Rest(c)) BY <2>3, AnswerMoves
    <3>2. code'[c] = Conditional(r) BY <1>9, <3>1, SpeechText
    <3>3. Section(code'[c]) BY <1>9, <2>3, <3>2 DEF Section, Within
    <3>4. Speech(code[c])' BY <1>3, <3>3, SpeechNext DEF Speech
    <3>5. code'[c] # <<>> /\ Head(code'[c]) = "lock_sc" BY <1>1, <1>4, <3>1, ConsFacts
    <3>6. At(c, "lock_sc")' BY <1>6, <3>5
    <3> QED BY <1>5, <2>1, <2>3, <3>4, <3>6 DEF Led
  <2>4. CASE Op(c) = "lock_swap" /\ bus.data = 0
    <3>1. code'[c] = Printing(r) BY <1>9, <2>4, AnswerMoves
    <3>2. Section(code'[c]) BY <3>1 DEF Section, Within
    <3>3. Speech(code[c])' BY <1>3, <3>2, SpeechNext DEF Speech
    <3>4. First(c)'
      <4>1. "char" \in Operation BY DEF Operation, AccessOps
      <4>2. /\ Printing(r) = Cons("char", LastChar(r)) /\ LastChar(r) = Cons("char", Unlocking(r))
            /\ LastChar(r) \in Text /\ Unlocking(r) \in Text
        BY SpeechText
      <4>3. code'[c] # <<>> /\ Head(code'[c]) = "char" /\ Tail(code'[c]) = LastChar(r) BY <3>1, <4>1, <4>2, ConsFacts
      <4>4. Head(LastChar(r)) = "char" BY <4>1, <4>2, ConsFacts
      <4> QED BY <4>3, <4>4 DEF First, At, Busy, Op, Rest
    <3> QED BY <1>5, <2>1, <2>4, <3>3, <3>4 DEF Led
  <2> QED BY <1>9, <2>2, <2>3, <2>4
<1>10. CASE Outside(code[c])
  <2>1. \/ Op(c) \in Calm
        \/ /\ Op(c) = IF program = "rte" THEN "lock_swap" ELSE "lock_lr"
           /\ \E r \in Seq(Calm) : Rest(c) = Printing(r)
    BY <1>2, <1>10, OutsideText
  <2> QED BY <1>8, <1>9, <2>1
<1>11. CASE Section(code[c])
  <2> PICK r \in Seq(Calm) :
              \/ code[c] = Conditional(r) /\ program # "rte" /\ Op(c) = "lock_sc" /\ Rest(c) = Printing(r)
              \/ code[c] = Printing(r) /\ Op(c) = "char" /\ Rest(c) = LastChar(r)
              \/ code[c] = LastChar(r) /\ Op(c) = "char" /\ Rest(c) = Unlocking(r)
              \/ code[c] = Unlocking(r) /\ program = "rte" /\ Op(c) = "unlock_swap" /\ Rest(c) = r
              \/ code[c] = Unlocking(r) /\ program # "rte" /\ Op(c) = "unlock_lr" /\ Rest(c) = Releasing(r)
              \/ code[c] = Releasing(r) /\ program # "rte" /\ Op(c) = "unlock_sc" /\ Rest(c) = r
    BY <1>2, <1>11, SectionTurns
  <2>1. /\ "char" \in Operation /\ "unlock_swap" \in Operation
        /\ Printing(r) = Cons("char", LastChar(r)) /\ LastChar(r) = Cons("char", Unlocking(r))
        /\ Unlocking(r) = IF program = "rte" THEN Cons("unlock_swap", r) ELSE Cons("unlock_lr", Releasing(r))
        /\ Releasing(r) = Cons("unlock_sc", r)
        /\ LastChar(r) \in Text /\ Unlocking(r) \in Text /\ Releasing(r) \in Text /\ r \in Text /\ Printing(r) \in Text
    <3>1. "char" \in Operation /\ "unlock_swap" \in Operation BY DEF Operation, AccessOps
    <3> QED BY <3>1, SpeechText
  <2>2. ASSUME \/ code'[c] \in {Printing(r), LastChar(r), Unlocking(r)}
               \/ code'[c] = Releasing(r) /\ program # "rte"
        PROVE  Speech(code[c])'
    <3>1. Section(code'[c]) BY <2>2 DEF Section, Within
    <3> QED BY <1>3, <3>1, SpeechNext DEF Speech
  <2>3. Head(LastChar(r)) = "char" /\ Tail(LastChar(r)) = Unlocking(r) /\ LastChar(r) # <<>> BY <2>1, ConsFacts
  <2>4. Unlocking(r) # <<>> /\ Head(Unlocking(r)) = IF program = "rte" THEN "unlock_swap" ELSE "unlock_lr"
    <3> DEFINE u == Unlocking(r)
               v == Releasing(r)
    <3>0. /\ u = IF program = "rte" THEN Cons("unlock_swap", r) ELSE Cons("unlock_lr", v)
          /\ v \in Text
      BY <2>1
    <3> HIDE DEF u, v
    <3>1. CASE program = "rte"
      <4>1. u = Cons("unlock_swap", r) BY <3>0, <3>1
      <4>2. u # <<>> /\ Head(u) = "unlock_swap" BY <2>1, <4>1, ConsFacts
      <4> QED BY <3>1, <4>2 DEF u
    <3>2. CASE program # "rte"
      <4>1. u = Cons("unlock_lr", v) BY <3>0, <3>2
      <4>2. u # <<>> /\ Head(u) = "unlock_lr" BY <1>4, <3>0, <4>1, ConsFacts
      <4> QED BY <3>2, <4>2 DEF u
    <3> QED BY <3>1, <3>2
  <2>5. Head(Printing(r)) = "char" /\ Tail(Printing(r)) = LastChar(r) /\ Printing(r) # <<>> BY <2>1, ConsFacts
  <2>6. CASE Op(c) = "lock_sc" /\ program # "rte" /\ Rest(c) = Printing(r)
    <3>1. ~First(c) /\ ~Last(c) BY <2>6 DEF First, Last, At
    <3>2. CASE Passed
      <4>1. code'[c] = Printing(r) BY <2>6, <3>2, AnswerMoves
      <4>2. First(c)' BY <2>3, <2>5, <4>1 DEF First, At, Busy, Op, Rest
      <4>3. Speech(code[c])' BY <2>2, <4>1
      <4> QED BY <1>5, <2>6, <3>1, <3>2, <4>2, <4>3 DEF Led
    <3>3. CASE ~Passed
      <4>1. code'[c] = Cons("lock_lr", Rest(c)) BY <2>6, <3>3, AnswerMoves
      <4>2. code'[c] # <<>> /\ Head(code'[c]) = "lock_lr" BY <1>1, <1>4, <4>1, ConsFacts
      <4>3. At(c, "lock_lr")' BY <1>6, <4>2
      <4>5. code'[c] = Locking(r) BY <2>6, <4>1, SpeechText
      <4>6. Outside(code'[c]) BY <4>5, OutsideLocked
      <4>7. Speech(code[c])' BY <1>3, <4>6, SpeechNext DEF Speech
      <4> QED BY <1>5, <2>6, <3>1, <3>3, <4>3, <4>7 DEF Led
    <3> QED BY <3>2, <3>3
  <2>7. CASE Op(c) = "char" /\ Rest(c) = LastChar(r)
    <3>1. First(c) /\ ~Last(c) BY <1>1, <2>3, <2>7 DEF First, Last, At
    <3>2. code'[c] = LastChar(r) BY <2>7, AnswerMoves
    <3>3. Last(c)'
      <4>1. Head(Unlocking(r)) # "char" BY <2>4
      <4> QED BY <2>3, <3>2, <4>1 DEF Last, At, Busy, Op, Rest
    <3>4. Speech(code[c])' BY <2>2, <3>2
    <3> QED BY <1>5, <2>7, <3>1, <3>3, <3>4 DEF Led
  <2>8. CASE Op(c) = "char" /\ Rest(c) = Unlocking(r)
    <3>1. ~First(c) /\ Last(c) BY <1>1, <2>4, <2>8 DEF First, Last, At
    <3>2. code'[c] = Unlocking(r) BY <2>8, AnswerMoves
    <3>3. At(c, "unlock_lr")' \/ At(c, "unlock_swap")' BY <1>6, <2>4, <3>2
    <3>4. Speech(code[c])' BY <2>2, <3>2
    <3> QED BY <1>5, <2>8, <3>1, <3>3, <3>4 DEF Led
  <2>9. CASE Op(c) = "unlock_swap" /\ Rest(c) = r
    <3>1. ~First(c) /\ ~Last(c) BY <2>9 DEF First, Last, At
    <3>2. code'[c] = r BY <2>9, AnswerMoves
    <3>3. Away(c)' /\ Speech(code[c])' BY <1>3, <1>7, <3>2, AwayNext
    <3> QED BY <1>5, <2>9, <3>1, <3>3 DEF Led
  <2>10. CASE Op(c) = "unlock_lr" /\ program # "rte" /\ Rest(c) = Releasing(r)
    <3>1. ~First(c) /\ ~Last(c) BY <2>10 DEF First, Last, At
    <3>2. code'[c] = Releasing(r) BY <2>10, AnswerMoves
    <3>3. code'[c] # <<>> /\ Head(code'[c]) = "unlock_sc" BY <1>4, <2>1, <3>2, ConsFacts
    <3>4. At(c, "unlock_sc")' BY <1>6, <3>3
    <3>5. Speech(code[c])' BY <2>2, <2>10, <3>2
    <3> QED BY <1>5, <2>10, <3>1, <3>4, <3>5 DEF Led
  <2>11. CASE Op(c) = "unlock_sc" /\ program # "rte" /\ Rest(c) = r
    <3>1. ~First(c) /\ ~Last(c) BY <2>11 DEF First, Last, At
    <3>2. CASE Passed
      <4>1. code'[c] = r BY <2>11, <3>2, AnswerMoves
      <4>2. Away(c)' /\ Speech(code[c])' BY <1>3, <1>7, <4>1, AwayNext
      <4> QED BY <1>5, <2>11, <3>1, <3>2, <4>2 DEF Led
    <3>3. CASE ~Passed
      <4>1. code'[c] = <<"unlock_lr", "unlock_sc">> \o Rest(c) BY <2>11, <3>3, AnswerMoves
      <4>2. \A t \in Text : <<"unlock_lr", "unlock_sc">> \o t = Cons("unlock_lr", <<"unlock_sc">> \o t)
        BY <1>4, Literal2
      <4>3. code'[c] = Cons("unlock_lr", Releasing(r)) BY <2>1, <2>11, <4>1, <4>2 DEF Releasing
      <4>4. code'[c] # <<>> /\ Head(code'[c]) = "unlock_lr" BY <1>4, <2>1, <4>3, ConsFacts
      <4>5. At(c, "unlock_lr")' BY <1>6, <4>4
      <4>6. code'[c] = Unlocking(r) BY <2>1, <2>11, <4>3
      <4>7. Speech(code[c])' BY <2>2, <4>6
      <4> QED BY <1>5, <2>11, <3>1, <3>3, <4>5, <4>7 DEF Led
    <3> QED BY <3>2, <3>3
  <2> QED BY <2>6, <2>7, <2>8, <2>9, <2>10, <2>11
<1>12. Op(c) \in Calm \cup {"lock_lr", "lock_swap", "lock_sc", "char", "unlock_lr", "unlock_sc", "unlock_swap"}
  <2>1. CASE Outside(code[c])
    <3>1. Op(c) \in Calm \/ Op(c) \in {"lock_lr", "lock_swap"} BY <1>2, <2>1, OutsideText
    <3> QED BY <3>1
  <2>2. CASE Section(code[c])
    <3>1. Op(c) \in {"lock_sc", "char", "unlock_swap", "unlock_lr", "unlock_sc"} BY <1>2, <2>2, SectionTurns
    <3> QED BY <3>1
  <2> QED BY <2>1, <2>2 DEF Speech
<1> QED BY <1>10, <1>11, <1>12 DEF Speech

\* Core c has the lock; the message of two characters is half written by core c.
Holding(c) ==
  \/ At(c, "char") \/ At(c, "unlock_lr")
  \/ Asked(c, "lock_sc") /\ sc_pend_pass
  \/ Asked(c, "lock_swap") /\ bus.data = 0
  \/ At(c, "unlock_sc") /\ ~(bus.id = c /\ sc_pend_pass)
  \/ At(c, "unlock_swap") /\ bus.id # c
Middle(c) == (First(c) /\ bus.id = c) \/ (Last(c) /\ bus.id # c)

\* The reservation of core c for the lock.
Reserved(c) == rsv.set /\ rsv.id = c
Reservation ==
  /\ rsv = [set |-> rsv.set, id |-> rsv.id, addr |-> Granule("locked")]
  /\ rsv.set \in BOOLEAN /\ rsv.id \in Core

\* The lock is held by one core at most; who has a reservation and is about to take
\* it read that it is free.
Held(c) ==
  /\ Holding(c) => mem.locked # 0 /\ ~Holding(1 - c)
  /\ Asked(c, "lock_lr") => bus.data = mem.locked
  /\ At(c, "lock_sc") /\ bus.id # c /\ Reserved(c) => mem.locked = 0
  /\ Asked(c, "lock_sc") \/ Asked(c, "unlock_sc") => (sc_pend_pass <=> ~sc_pend_fail)
Lock ==
  /\ Reservation
  /\ Held(0) /\ Held(1)
  /\ line \in {<<>>, <<0>>, <<1>>}
  /\ \A c \in Core : line = <<c>> <=> Middle(c)

\* The operations of a core that may speak.
Talk == Calm \cup {"lock_lr", "lock_swap", "lock_sc", "char", "unlock_lr", "unlock_sc", "unlock_swap"}

-----------------------------------------------------------------------------
\* Accesses to the lock, and the others.
LEMMA LockAccess ==
  ASSUME NEW c \in Core
  PROVE  /\ \A o \in {"lock_lr", "unlock_lr", "check_lr"} : Access(c, o) = Word("lr", "locked", 0)
         /\ Access(c, "lock_sc") = Word("sc", "locked", -1) /\ Access(c, "unlock_sc") = Word("sc", "locked", 0)
         /\ Access(c, "lock_swap") = Word("swap", "locked", -1)
         /\ Access(c, "unlock_swap") = Word("swap", "locked", 0)
         /\ \A o \in (AccessOps \ SectionOps) \cup {"char"} : o # "check_lr" =>
               Access(c, o).op \in {"ld", "st"} /\ Access(c, o).a # "locked"
<1>1. /\ \A o \in {"lock_lr", "unlock_lr", "check_lr"} : Access(c, o) = Word("lr", "locked", 0)
      /\ Access(c, "lock_sc") = Word("sc", "locked", -1) /\ Access(c, "unlock_sc") = Word("sc", "locked", 0)
      /\ Access(c, "lock_swap") = Word("swap", "locked", -1)
      /\ Access(c, "unlock_swap") = Word("swap", "locked", 0)
  BY DEF Access
<1>2. ASSUME NEW o \in (AccessOps \ SectionOps) \cup {"char"}, o # "check_lr"
      PROVE  Access(c, o).op \in {"ld", "st"} /\ Access(c, o).a # "locked"
  BY <1>2 DEF Access, Word, Clint, AccessOps, SectionOps
<1> QED BY <1>1, <1>2

\* The lock and its reservation after a strobe of core c.
LEMMA StrobeLock ==
  ASSUME LaunchInv, Reservation, NEW c \in Core, Strobe(c), Op(c) \in Talk
  PROVE  /\ Reservation'
         /\ Op(c) \notin {"lock_sc", "unlock_sc", "lock_swap", "unlock_swap"} => mem'.locked = mem.locked
         /\ Op(c) \notin {"lock_sc", "unlock_sc"} => UNCHANGED <<sc_pend_pass, sc_pend_fail>>
         /\ Op(c) \in {"lock_lr", "lock_swap"} => bus'.data = mem.locked
         /\ Op(c) = "lock_swap" => mem'.locked # 0
         /\ Op(c) = "unlock_swap" => mem'.locked = 0
         /\ Op(c) \in {"lock_sc", "unlock_sc"} =>
              IF Reserved(c) THEN sc_pend_pass' /\ ~sc_pend_fail' ELSE ~sc_pend_pass' /\ sc_pend_fail'
         /\ Op(c) \in {"lock_sc", "unlock_sc"} /\ ~Reserved(c) => mem'.locked = mem.locked
         /\ Op(c) = "lock_sc" /\ Reserved(c) => mem'.locked # 0
         /\ Op(c) = "unlock_sc" /\ Reserved(c) => mem'.locked = 0
         /\ \A d \in Core : d # c /\ Reserved(d)' => Reserved(d) /\ mem'.locked = mem.locked
<1> DEFINE r == Access(c, Op(c))
           req == [stb |-> TRUE, id |-> c, op |-> r.op, a |-> r.a, rw |-> r.op \in {"st", "sc", "swap"}]
<1>1. Clints /\ Types /\ Results BY DEF LaunchInv
<1>2. /\ bus.id = 2 /\ Busy(c) /\ Op(c) \in AccessOps /\ bus' = [id |-> c, data |-> Read(r)]
  BY <1>1, StrobeFrame
<1>3. /\ ReservationStation(req) /\ sc_result(req, [ack |-> FALSE])
      /\ mem' = IF Written(r, req) THEN [mem EXCEPT ![r.a] = r.data] ELSE mem
  BY DEF Strobe, RvsClock
<1>4. ~sc_pend_pass /\ ~sc_pend_fail /\ sc_pend_pass \in BOOLEAN /\ sc_pend_fail \in BOOLEAN
  BY <1>1, <1>2 DEF Results, Core
<1>5. "locked" \in DOMAIN mem /\ DOMAIN mem = {"locked", "shared_run", "shared_arg0", "shared_arg1"} BY <1>1 DEF Types
<1>6. rsv.set \in BOOLEAN /\ rsv.id \in Core /\ rsv.addr = Granule("locked")
      /\ rsv = [set |-> rsv.set, id |-> rsv.id, addr |-> Granule("locked")]
  <2> DEFINE q == [set |-> rsv.set, id |-> rsv.id, addr |-> Granule("locked")]
  <2>1. rsv = q /\ q.addr = Granule("locked") BY DEF Reservation
  <2> QED BY <2>1 DEF Reservation
<1>7. CASE Op(c) \in {"lock_lr", "unlock_lr", "check_lr"}
  <2>1. r = Word("lr", "locked", 0) BY <1>7, LockAccess
  <2>2. r.op = "lr" /\ r.a = "locked" BY <2>1 DEF Word
  <2>3. mem' = mem BY <1>3, <2>2 DEF Written
  <2>4. UNCHANGED <<sc_pend_pass, sc_pend_fail>> BY <1>3, <2>2 DEF sc_result, sc
  <2>5. rsv' = rsv \/ rsv' = [set |-> TRUE, id |-> c, addr |-> Granule("locked")]
    BY <1>3, <2>2 DEF ReservationStation, LoadReserved, StoreConditional, OtherAccess, lr, sc
  <2>6. Reservation' /\ \A d \in Core : d # c /\ Reserved(d)' => Reserved(d)
    <3>1. CASE rsv' = rsv BY <1>6, <3>1 DEF Reservation, Reserved
    <3>2. CASE rsv' = [set |-> TRUE, id |-> c, addr |-> Granule("locked")]
      <4>1. rsv'.set = TRUE /\ rsv'.id = c /\ rsv'.addr = Granule("locked") BY <3>2
      <4> QED BY <3>2, <4>1 DEF Reservation, Reserved
    <3> QED BY <2>5, <3>1, <3>2
  <2>7. bus'.data = mem.locked BY <1>2, <1>5, <2>2 DEF Read
  <2> QED BY <1>7, <2>3, <2>4, <2>6, <2>7
<1>8. CASE Op(c) \in {"lock_sc", "unlock_sc"}
  <2>1. r.op = "sc" /\ r.a = "locked" /\ (Op(c) = "lock_sc" => r.data # 0) /\ (Op(c) = "unlock_sc" => r.data = 0)
    <3>1. Op(c) = "lock_sc" => r = Word("sc", "locked", -1) BY LockAccess
    <3>2. Op(c) = "unlock_sc" => r = Word("sc", "locked", 0) BY LockAccess
    <3> DEFINE n == -1
    <3>3. n # 0 OBVIOUS
    <3>4. Op(c) = "lock_sc" => r = Word("sc", "locked", n) BY <3>1
    <3> HIDE DEF n
    <3> QED BY <1>8, <3>2, <3>3, <3>4 DEF Word
  <2>2. sc_valid(req) <=> Reserved(c) BY <1>6, <2>1 DEF sc_valid, Reserved
  <2>3. Written(r, req) <=> Reserved(c) BY <2>1, <2>2 DEF Written
  <2>4. IF Reserved(c) THEN sc_pend_pass' /\ ~sc_pend_fail' ELSE ~sc_pend_pass' /\ sc_pend_fail'
    <3>1. sc(req) /\ req.stb BY <2>1 DEF sc
    <3>2. IF Reserved(c) THEN sc_pend_pass' = TRUE /\ UNCHANGED sc_pend_fail
                         ELSE sc_pend_fail' = TRUE /\ UNCHANGED sc_pend_pass
      BY <1>3, <2>2, <3>1 DEF sc_result
    <3> QED BY <1>4, <3>2
  <2>5. rsv' = [rsv EXCEPT !.set = @ /\ ~(sc_valid(req) \/ rsv.id = req.id)]
    BY <1>3, <2>1 DEF ReservationStation, LoadReserved, StoreConditional, OtherAccess, lr, sc
  <2>6. /\ rsv' = [set |-> rsv'.set, id |-> rsv.id, addr |-> Granule("locked")]
        /\ rsv'.set = (rsv.set /\ rsv.id # c)
    <3> DEFINE v == rsv.set /\ rsv.id # c
    <3>1. rsv' = [rsv EXCEPT !.set = v]
      <4>1. (rsv.set /\ ~(sc_valid(req) \/ rsv.id = req.id)) = v BY <1>6 DEF sc_valid
      <4> QED BY <1>6, <2>5, <4>1
    <3> HIDE DEF v
    <3>2. rsv' = [set |-> v, id |-> rsv.id, addr |-> Granule("locked")] BY <1>6, <3>1
    <3>3. rsv'.set = v BY <3>2
    <3>4. rsv' = [set |-> rsv'.set, id |-> rsv.id, addr |-> Granule("locked")] BY <3>2, <3>3
    <3> QED BY <3>3, <3>4 DEF v
  <2>7. rsv'.id = rsv.id BY <2>6
  <2>8. Reservation' /\ \A d \in Core : d # c /\ Reserved(d)' => Reserved(d) /\ ~Reserved(c)
    <3>1. Reservation' BY <1>6, <2>6, <2>7 DEF Reservation
    <3> QED BY <2>6, <2>7, <3>1 DEF Reserved
  <2>9. ~Reserved(c) => mem' = mem BY <1>3, <2>3
  <2>10. Reserved(c) => mem'.locked = r.data BY <1>3, <1>5, <2>1, <2>3
  <2> QED BY <1>8, <2>1, <2>4, <2>8, <2>9, <2>10
<1>9. CASE Op(c) \in {"lock_swap", "unlock_swap"}
  <2>1. r.op = "swap" /\ r.a = "locked" /\ (Op(c) = "lock_swap" => r.data # 0) /\ (Op(c) = "unlock_swap" => r.data = 0)
    <3>1. Op(c) = "lock_swap" => r = Word("swap", "locked", -1) BY LockAccess
    <3>2. Op(c) = "unlock_swap" => r = Word("swap", "locked", 0) BY LockAccess
    <3> DEFINE n == -1
    <3>3. n # 0 OBVIOUS
    <3>4. Op(c) = "lock_swap" => r = Word("swap", "locked", n) BY <3>1
    <3> HIDE DEF n
    <3> QED BY <1>9, <3>2, <3>3, <3>4 DEF Word
  <2>2. mem'.locked = r.data BY <1>3, <1>5, <2>1 DEF Written
  <2>3. bus'.data = mem.locked BY <1>2, <1>5, <2>1 DEF Read
  <2>4. UNCHANGED <<sc_pend_pass, sc_pend_fail>> BY <1>3, <2>1 DEF sc_result, sc
  <2>5. rsv' = [rsv EXCEPT !.set = @ /\ ~(req.rw /\ Granule(req.a) = rsv.addr)]
    BY <1>3, <2>1 DEF ReservationStation, LoadReserved, StoreConditional, OtherAccess, lr, sc
  <2>6. rsv' = [set |-> FALSE, id |-> rsv.id, addr |-> Granule("locked")]
    <3>1. req.rw /\ Granule(req.a) = rsv.addr BY <1>6, <2>1
    <3>2. rsv' = [rsv EXCEPT !.set = FALSE] BY <2>5, <3>1
    <3> QED BY <1>6, <3>2
  <2>7. rsv'.set = FALSE /\ rsv'.id = rsv.id /\ rsv'.addr = Granule("locked") BY <2>6
  <2>8. Reservation' /\ \A d \in Core : ~Reserved(d)' BY <1>6, <2>6, <2>7 DEF Reservation, Reserved
  <2> QED BY <1>9, <2>1, <2>2, <2>3, <2>4, <2>8
<1>10. CASE Op(c) \notin {"lock_lr", "unlock_lr", "check_lr", "lock_sc", "unlock_sc", "lock_swap", "unlock_swap"}
  <2>1. r.op \in {"ld", "st"} /\ r.a # "locked"
    <3>1. Op(c) \in (AccessOps \ SectionOps) \cup {"char"} BY <1>2, <1>10 DEF Talk, Calm
    <3> QED BY <1>10, <3>1, LockAccess
  <2>2. mem'.locked = mem.locked BY <1>3, <1>5, <2>1
  <2>3. UNCHANGED <<sc_pend_pass, sc_pend_fail>> BY <1>3, <2>1 DEF sc_result, sc
  <2>4. rsv' = [rsv EXCEPT !.set = @ /\ ~(req.rw /\ Granule(req.a) = rsv.addr)]
    BY <1>3, <2>1 DEF ReservationStation, LoadReserved, StoreConditional, OtherAccess, lr, sc
  <2>5. /\ rsv' = [set |-> rsv'.set, id |-> rsv.id, addr |-> Granule("locked")]
        /\ rsv'.set \in BOOLEAN /\ (rsv'.set => rsv.set)
    <3> DEFINE v == rsv.set /\ ~(req.rw /\ Granule(req.a) = rsv.addr)
    <3>1. rsv' = [rsv EXCEPT !.set = v] BY <1>6, <2>4
    <3>2. v \in BOOLEAN /\ (v => rsv.set) OBVIOUS
    <3> HIDE DEF v
    <3>3. rsv' = [set |-> v, id |-> rsv.id, addr |-> Granule("locked")] BY <1>6, <3>1
    <3>4. rsv'.set = v BY <3>3
    <3>5. rsv' = [set |-> rsv'.set, id |-> rsv.id, addr |-> Granule("locked")] BY <3>3, <3>4
    <3> QED BY <3>2, <3>4, <3>5
  <2>6. rsv'.id = rsv.id BY <2>5
  <2>7. Reservation' /\ \A d \in Core : Reserved(d)' => Reserved(d) BY <1>6, <2>5, <2>6 DEF Reservation, Reserved
  <2> QED BY <1>10, <2>2, <2>3, <2>7
<1> QED BY <1>7, <1>8, <1>9, <1>10

\* The names of the operations of a message differ, and none is of no account.
LEMMA TalkOps ==
  /\ {"lock_lr", "lock_swap", "lock_sc", "char", "unlock_lr", "unlock_sc", "unlock_swap"} \cap Calm = {}
  BY DEF Calm, SectionOps

\* A core that is not in a message, nor waits for the lock's answer, has nothing to do with it.
LEMMA AwayFacts ==
  \A c \in Core : Away(c) /\ bus.id # c =>
      ~Holding(c) /\ ~Middle(c) /\ ~At(c, "lock_sc") /\ \A o : ~Asked(c, o)
<1> SUFFICES ASSUME NEW c \in Core, Away(c), bus.id # c
             PROVE  ~Holding(c) /\ ~Middle(c) /\ ~At(c, "lock_sc") /\ \A o : ~Asked(c, o)
  OBVIOUS
<1>1. ~At(c, "char") /\ ~At(c, "unlock_lr") /\ ~At(c, "lock_sc") /\ ~At(c, "unlock_sc") /\ ~At(c, "unlock_swap")
  BY TalkOps DEF Away, At
<1> QED BY <1>1 DEF Holding, Middle, First, Last, Asked

\* The same after a step.
LEMMA AwayFactsNext ==
  (\A c \in Core : Away(c) /\ bus.id # c =>
      ~Holding(c) /\ ~Middle(c) /\ ~At(c, "lock_sc") /\ \A o : ~Asked(c, o))'
  BY AwayFacts, PTL

\* What a core's part in the lock depends on.
LEMMA SameVoice ==
  ASSUME NEW d \in Core, code'[d] = code[d], bus.id # d, bus'.id # d
  PROVE  /\ (Holding(d)' <=> Holding(d)) /\ (Middle(d)' <=> Middle(d))
         /\ (\A o : (At(d, o)' <=> At(d, o)) /\ ~Asked(d, o) /\ ~Asked(d, o)')
<1>1. \A o : (At(d, o)' <=> At(d, o)) /\ ~Asked(d, o) /\ ~Asked(d, o)'
  BY DEF At, Busy, Op, Asked
<1>2. (First(d)' <=> First(d)) /\ (Last(d)' <=> Last(d)) BY <1>1 DEF First, Last, Rest
<1>3. Middle(d)' <=> Middle(d) BY <1>2 DEF Middle
<1>4. Holding(d)' <=> Holding(d)
  <2>1. /\ At(d, "char")' <=> At(d, "char")
        /\ At(d, "unlock_lr")' <=> At(d, "unlock_lr")
        /\ At(d, "unlock_sc")' <=> At(d, "unlock_sc")
        /\ At(d, "unlock_swap")' <=> At(d, "unlock_swap")
        /\ ~Asked(d, "lock_sc") /\ ~Asked(d, "lock_sc")' /\ ~Asked(d, "lock_swap") /\ ~Asked(d, "lock_swap")'
    BY <1>1
  <2> QED BY <2>1 DEF Holding
<1> QED BY <1>1, <1>3, <1>4

\* One core's step, seen from the other: the lock is as it was or, while the other
\* does not hold it, the other has no reservation.
LEMMA HeldOther ==
  ASSUME NEW d \in Core, Held(d), code'[d] = code[d], bus.id # d, bus'.id # d,
         Holding(d) => mem'.locked # 0 /\ ~Holding(1 - d)',
         Reserved(d)' => Reserved(d) /\ mem'.locked = mem.locked
  PROVE  Held(d)'
<1>1. /\ (Holding(d)' <=> Holding(d))
      /\ (At(d, "lock_sc")' <=> At(d, "lock_sc"))
      /\ \A o : ~Asked(d, o)'
  BY SameVoice
<1>2. (Holding(d) => mem.locked # 0 /\ ~Holding(1 - d))' BY <1>1
<1>3. (At(d, "lock_sc") /\ bus.id # d /\ Reserved(d) => mem.locked = 0)' BY <1>1 DEF Held
<1>4. ~Asked(d, "lock_lr")' /\ ~Asked(d, "lock_sc")' /\ ~Asked(d, "unlock_sc")' BY <1>1
<1> QED BY <1>2, <1>3, <1>4 DEF Held

\* There are two cores.
LEMMA OtherCore ==
  ASSUME NEW c \in Core
  PROVE  1 - c \in Core /\ 1 - c # c /\ 1 - (1 - c) = c /\ \A d \in Core : d = c \/ d = 1 - c
  BY DEF Core

\* A step without access, outside a message.
LEMMA LockAside ==
  ASSUME Lock, NEW c \in Core, bus.id # c, bus' = bus, Away(c), Away(c)', code'[1 - c] = code[1 - c],
         UNCHANGED <<rsv, mem, line, sc_pend_pass, sc_pend_fail>>
  PROVE  Lock'
<1> DEFINE d == 1 - c
<1>1. d \in Core /\ d # c /\ 1 - d = c /\ (\A x \in Core : x = c \/ x = d) BY OtherCore
<1>2. ~Holding(c) /\ ~Middle(c) BY AwayFacts
<1>3. ~Holding(c)' /\ ~Middle(c)' /\ ~At(c, "lock_sc")' /\ \A o : ~Asked(c, o)'
  BY AwayFactsNext
<1>4. code'[d] = code[d] /\ bus'.id = bus.id /\ bus'.data = bus.data OBVIOUS
<1> HIDE DEF d
<1>5. \A o : (At(d, o)' <=> At(d, o)) /\ (Asked(d, o)' <=> Asked(d, o)) BY <1>4 DEF At, Asked, Busy, Op
<1>6. (Holding(d)' <=> Holding(d)) /\ (Middle(d)' <=> Middle(d))
  <2>1. /\ At(d, "char")' <=> At(d, "char")
        /\ At(d, "unlock_lr")' <=> At(d, "unlock_lr")
        /\ At(d, "unlock_sc")' <=> At(d, "unlock_sc")
        /\ At(d, "unlock_swap")' <=> At(d, "unlock_swap")
        /\ Asked(d, "lock_sc")' <=> Asked(d, "lock_sc")
        /\ Asked(d, "lock_swap")' <=> Asked(d, "lock_swap")
    BY <1>5
  <2>2. Holding(d)' <=> Holding(d) BY <1>4, <2>1 DEF Holding
  <2>3. Middle(d)' <=> Middle(d) BY <1>4, <2>1 DEF Middle, First, Last, Rest
  <2> QED BY <2>2, <2>3
<1>7. Held(c) /\ Held(d) BY <1>1 DEF Lock, Core
<1>8. Reserved(c)' = Reserved(c) /\ Reserved(d)' = Reserved(d) /\ Reservation' BY DEF Reserved, Reservation, Lock
<1>9. Held(c)'
  <2>1. ~Holding(c)' /\ ~At(c, "lock_sc")' /\ ~Asked(c, "lock_lr")' /\ ~Asked(c, "lock_sc")' /\ ~Asked(c, "unlock_sc")'
    BY <1>3
  <2> QED BY <2>1 DEF Held
<1>10. Held(d)'
  <2>1. (Holding(d) => mem.locked # 0 /\ ~Holding(1 - d))' BY <1>1, <1>3, <1>6, <1>7 DEF Held
  <2>2. (Asked(d, "lock_lr") => bus.data = mem.locked)' BY <1>4, <1>5, <1>7 DEF Held
  <2>3. (At(d, "lock_sc") /\ bus.id # d /\ Reserved(d) => mem.locked = 0)' BY <1>4, <1>5, <1>7, <1>8 DEF Held
  <2>4. (Asked(d, "lock_sc") \/ Asked(d, "unlock_sc") => (sc_pend_pass <=> ~sc_pend_fail))' BY <1>5, <1>7 DEF Held
  <2> QED BY <2>1, <2>2, <2>3, <2>4 DEF Held
<1>11. Held(0)' /\ Held(1)' BY <1>1, <1>9, <1>10 DEF Core
<1>12. (\A x \in Core : line = <<x>> <=> Middle(x))' BY <1>1, <1>2, <1>3, <1>6 DEF Lock
<1>13. line' \in {<<>>, <<0>>, <<1>>} BY DEF Lock
<1> QED BY <1>8, <1>11, <1>12, <1>13 DEF Lock

\* A strobe: the lock is taken only while nobody holds it.
LEMMA LockStrobe ==
  ASSUME LaunchInv, Lock, NEW c \in Core, Strobe(c), Op(c) \in Talk
  PROVE  Lock'
<1> DEFINE d == 1 - c
<1>1. d \in Core /\ d # c /\ 1 - d = c /\ (\A x \in Core : x = c \/ x = d) BY OtherCore
<1>2. bus.id = 2 /\ bus'.id = c /\ Busy(c) /\ code' = code BY StrobeFrame DEF LaunchInv
<1>3. Reservation /\ Held(c) /\ Held(d) BY <1>1 DEF Lock, Core
<1>4. /\ Reservation'
      /\ Op(c) \notin {"lock_sc", "unlock_sc", "lock_swap", "unlock_swap"} => mem'.locked = mem.locked
      /\ Op(c) \in {"lock_lr", "lock_swap"} => bus'.data = mem.locked
      /\ Op(c) = "lock_swap" => mem'.locked # 0
      /\ Op(c) \in {"lock_sc", "unlock_sc"} =>
              IF Reserved(c) THEN sc_pend_pass' /\ ~sc_pend_fail' ELSE ~sc_pend_pass' /\ sc_pend_fail'
      /\ Op(c) \in {"lock_sc", "unlock_sc"} /\ ~Reserved(c) => mem'.locked = mem.locked
      /\ Op(c) = "lock_sc" /\ Reserved(c) => mem'.locked # 0
      /\ \A x \in Core : x # c /\ Reserved(x)' => Reserved(x) /\ mem'.locked = mem.locked
  BY <1>3, StrobeLock
<1> HIDE DEF d
<1>5. bus.id # c /\ bus.id # d /\ bus'.id # d BY <1>1, <1>2 DEF Core
<1>6. /\ \A o : (At(c, o) <=> Op(c) = o) /\ (At(c, o)' <=> Op(c) = o)
      /\ \A o : ~Asked(c, o) /\ (Asked(c, o)' <=> Op(c) = o)
  BY <1>2, <1>5 DEF At, Asked, Busy, Op
<1>7. /\ Holding(c) <=> Op(c) \in {"char", "unlock_lr", "unlock_sc", "unlock_swap"}
  BY <1>5, <1>6 DEF Holding
<1>8. Holding(c)' <=> \/ Op(c) \in {"char", "unlock_lr"}
                      \/ Op(c) = "lock_sc" /\ sc_pend_pass'
                      \/ Op(c) = "lock_swap" /\ bus'.data = 0
                      \/ Op(c) = "unlock_sc" /\ ~sc_pend_pass'
  <2>1. /\ At(c, "char")' <=> Op(c) = "char"
        /\ At(c, "unlock_lr")' <=> Op(c) = "unlock_lr"
        /\ At(c, "unlock_sc")' <=> Op(c) = "unlock_sc"
        /\ At(c, "unlock_swap")' <=> Op(c) = "unlock_swap"
        /\ Asked(c, "lock_sc")' <=> Op(c) = "lock_sc"
        /\ Asked(c, "lock_swap")' <=> Op(c) = "lock_swap"
    BY <1>6
  <2> QED BY <1>2, <2>1 DEF Holding
<1>9. (Holding(d)' <=> Holding(d)) /\ (Middle(d)' <=> Middle(d)) BY <1>1, <1>2, <1>5, SameVoice
<1>10. Holding(d) => mem.locked # 0 /\ ~Holding(c) BY <1>1, <1>3 DEF Held
<1>11. Holding(d) => mem'.locked # 0 /\ ~Holding(c)'
  <2> SUFFICES ASSUME Holding(d) PROVE mem'.locked # 0 /\ ~Holding(c)' OBVIOUS
  <2>1. mem.locked # 0 /\ Op(c) \notin {"char", "unlock_lr", "unlock_sc", "unlock_swap"} BY <1>7, <1>10
  <2>2. CASE Op(c) = "lock_sc"
    <3>1. ~Reserved(c)
      <4>1. At(c, "lock_sc") BY <1>6, <2>2
      <4> QED BY <1>3, <1>5, <2>1, <4>1 DEF Held
    <3>2. ~sc_pend_pass' /\ mem'.locked = mem.locked BY <1>4, <2>2, <3>1
    <3> QED BY <1>8, <2>1, <2>2, <3>2
  <2>3. CASE Op(c) = "lock_swap"
    <3>1. bus'.data # 0 /\ mem'.locked # 0 BY <1>4, <2>1, <2>3
    <3> QED BY <1>8, <2>3, <3>1
  <2>4. CASE Op(c) \notin {"lock_sc", "lock_swap"}
    <3>1. mem'.locked = mem.locked BY <1>4, <2>1, <2>4
    <3> QED BY <1>8, <2>1, <2>4, <3>1
  <2> QED BY <2>2, <2>3, <2>4
<1>12. Held(d)' BY <1>1, <1>2, <1>3, <1>4, <1>5, <1>11, HeldOther
<1>13. (Holding(c) => mem.locked # 0 /\ ~Holding(1 - c))'
  <2> SUFFICES ASSUME Holding(c)' PROVE mem'.locked # 0 /\ ~Holding(d)' BY DEF d
  <2>1. ~Holding(d)' BY <1>9, <1>11
  <2>2. CASE Op(c) \in {"char", "unlock_lr"}
    <3>1. mem'.locked = mem.locked /\ Holding(c) BY <1>4, <1>7, <2>2
    <3>2. mem.locked # 0 BY <1>3, <3>1 DEF Held
    <3> QED BY <2>1, <3>1, <3>2
  <2>3. CASE Op(c) = "lock_sc" /\ sc_pend_pass'
    <3>1. mem'.locked # 0 BY <1>4, <2>3
    <3> QED BY <2>1, <3>1
  <2>4. CASE Op(c) = "lock_swap"
    <3>1. mem'.locked # 0 BY <1>4, <2>4
    <3> QED BY <2>1, <3>1
  <2>5. CASE Op(c) = "unlock_sc" /\ ~sc_pend_pass'
    <3>1. mem'.locked = mem.locked /\ Holding(c) BY <1>4, <1>7, <2>5
    <3>2. mem.locked # 0 BY <1>3, <3>1 DEF Held
    <3> QED BY <2>1, <3>1, <3>2
  <2> QED BY <1>8, <2>2, <2>3, <2>4, <2>5
<1>14. Held(c)'
  <2>1. (Asked(c, "lock_lr") => bus.data = mem.locked)'
    <3>1. Asked(c, "lock_lr")' => Op(c) = "lock_lr" BY <1>6
    <3> QED BY <1>4, <3>1
  <2>2. (Asked(c, "lock_sc") \/ Asked(c, "unlock_sc") => (sc_pend_pass <=> ~sc_pend_fail))'
    <3>1. Asked(c, "lock_sc")' \/ Asked(c, "unlock_sc")' => Op(c) \in {"lock_sc", "unlock_sc"} BY <1>6
    <3> QED BY <1>4, <3>1
  <2> QED BY <1>2, <1>13, <2>1, <2>2 DEF Held
<1>15. (First(c)' <=> First(c)) /\ (Last(c)' <=> Last(c)) BY <1>2 DEF First, Last, At, Busy, Op, Rest
<1>16. (Middle(c) <=> Last(c)) /\ (Middle(c)' <=> First(c)) BY <1>2, <1>5, <1>15 DEF Middle
<1>17. (line = <<c>> <=> Middle(c)) /\ (line = <<d>> <=> Middle(d)) /\ line \in {<<>>, <<0>>, <<1>>}
  BY <1>1 DEF Lock
<1>18. IF Op(c) = "char" THEN Putc(c) ELSE line' = line BY DEF Strobe
<1>19. <<c>> # <<d>> /\ <<c>> # <<>> /\ <<d>> # <<>> /\ Len(<<c>>) = 1 /\ <<c>>[1] = c /\ Len(<<>>) = 0 BY <1>1
<1>20. {<<>>, <<0>>, <<1>>} = {<<>>, <<c>>, <<d>>} BY <1>1 DEF Core
<1>21. (line' = <<c>> <=> Middle(c)') /\ (line' = <<d>> <=> Middle(d)') /\ line' \in {<<>>, <<0>>, <<1>>}
  <2>1. CASE Op(c) # "char"
    <3>1. ~First(c) /\ ~Last(c) BY <2>1 DEF First, Last, At
    <3> QED BY <1>9, <1>16, <1>17, <1>18, <2>1, <3>1
  <2>2. CASE Op(c) = "char"
    <3>1. Holding(c) BY <1>7, <2>2
    <3>2. ~Middle(d)
      <4>1. Middle(d) => At(d, "char") BY DEF Middle, First, Last
      <4>2. Middle(d) => Holding(d) BY <4>1 DEF Holding
      <4> QED BY <1>10, <3>1, <4>2
    <3>3. At(c, "char") BY <1>6, <2>2
    <3>4. CASE First(c)
      <4>1. ~Last(c) BY <3>4 DEF First, Last
      <4>2. line = <<>> BY <1>16, <1>17, <1>20, <3>2, <4>1
      <4>3. line' = <<c>> BY <1>18, <1>19, <2>2, <4>2 DEF Putc
      <4> QED BY <1>9, <1>16, <1>19, <1>20, <3>2, <3>4, <4>3
    <3>5. CASE Last(c)
      <4>1. ~First(c) BY <3>5 DEF First, Last
      <4>2. line = <<c>> BY <1>16, <1>17, <3>5
      <4>3. line' = <<>> BY <1>18, <1>19, <2>2, <4>2 DEF Putc
      <4> QED BY <1>9, <1>16, <1>19, <1>20, <3>2, <4>1, <4>3
    <3> QED BY <3>3, <3>4, <3>5 DEF First, Last
  <2> QED BY <2>1, <2>2
<1>22. (\A x \in Core : line = <<x>> <=> Middle(x))'
  <2> SUFFICES ASSUME NEW x \in Core PROVE (line = <<x>> <=> Middle(x))' OBVIOUS
  <2>1. CASE x = c BY <1>21, <2>1
  <2>2. CASE x = d BY <1>21, <2>2
  <2> QED BY <1>1, <2>1, <2>2
<1>23. Held(0)' /\ Held(1)' BY <1>1, <1>12, <1>14 DEF Core
<1> QED BY <1>4, <1>21, <1>22, <1>23 DEF Lock

\* An answer: the lock is taken by who read that it is free, or stored first.
LEMMA LockAnswer ==
  ASSUME LaunchInv, Lock, NEW c \in Core, Answer(c), Op(c) \in Talk, Led(c)
  PROVE  Lock'
<1> DEFINE d == 1 - c
<1>1. d \in Core /\ d # c /\ 1 - d = c /\ (\A x \in Core : x = c \/ x = d) BY OtherCore
<1>2. bus.id = c /\ bus' = Idle /\ Busy(c) /\ mem' = mem BY AnswerFrame DEF LaunchInv
<1>3. code'[d] = code[d] BY AnswerMoves
<1>4. line' = line /\ rsv' = rsv BY DEF Answer, RvsClock, ReservationStation
<1>5. Reservation /\ Held(c) /\ Held(d) BY <1>1 DEF Lock, Core
<1> HIDE DEF d
<1>6. bus.id # d /\ bus'.id # d /\ bus'.id # c BY <1>1, <1>2 DEF Core, Idle
<1>7. Reservation' /\ \A x : Reserved(x)' = Reserved(x) BY <1>4, <1>5 DEF Reservation, Reserved
<1>8. /\ \A o : (At(c, o) <=> Op(c) = o) /\ (Asked(c, o) <=> Op(c) = o)
      /\ \A o : ~Asked(c, o)'
  BY <1>2, <1>6 DEF At, Asked
<1>9. Op(c) \in {"lock_sc", "unlock_sc"} => (sc_pend_pass <=> Passed)
  <2>1. Op(c) \in {"lock_sc", "unlock_sc"} => Asked(c, "lock_sc") \/ Asked(c, "unlock_sc") BY <1>8
  <2>2. Op(c) \in {"lock_sc", "unlock_sc"} => (sc_pend_pass <=> ~sc_pend_fail) BY <1>5, <2>1 DEF Held
  <2> QED BY <2>2 DEF Passed, response
<1>10. /\ Op(c) \in {"char", "unlock_lr"} => Holding(c)
       /\ Op(c) = "lock_sc" /\ Passed => Holding(c)
       /\ Op(c) = "lock_swap" /\ bus.data = 0 => Holding(c)
       /\ Op(c) = "unlock_sc" /\ ~Passed => Holding(c)
  <2>1. /\ At(c, "char") <=> Op(c) = "char"
        /\ At(c, "unlock_lr") <=> Op(c) = "unlock_lr"
        /\ At(c, "unlock_sc") <=> Op(c) = "unlock_sc"
        /\ Asked(c, "lock_sc") <=> Op(c) = "lock_sc"
        /\ Asked(c, "lock_swap") <=> Op(c) = "lock_swap"
    BY <1>8
  <2> QED BY <1>9, <2>1 DEF Holding
<1>11. Middle(c) <=> First(c) BY <1>2 DEF Middle
<1>12. Middle(c)' <=> Last(c)' BY <1>6 DEF Middle
<1>13. (First(c) \/ Last(c) <=> Op(c) = "char") /\ ~(First(c) /\ Last(c)) BY <1>8 DEF First, Last
<1>14. Holding(c)' <=> At(c, "char")' \/ At(c, "unlock_lr")' \/ At(c, "unlock_sc")' \/ At(c, "unlock_swap")'
  BY <1>6, <1>8 DEF Holding
<1>15. /\ (Holding(c)' => Holding(c)) /\ (Middle(c)' <=> Middle(c))
       /\ (At(c, "lock_sc")' => Op(c) = "lock_lr" /\ bus.data = 0)
  <2>1. ASSUME NEW o, At(c, o)' PROVE \A q : q # o => ~At(c, q)' BY <2>1 DEF At
  <2>2. CASE Op(c) = "lock_lr" /\ bus.data = 0
    <3>1. At(c, "lock_sc")' BY <2>2 DEF Led
    <3>2. ~At(c, "char")' /\ ~At(c, "unlock_lr")' /\ ~At(c, "unlock_sc")' /\ ~At(c, "unlock_swap")' BY <2>1, <3>1
    <3>3. ~Last(c)' BY <3>2 DEF Last
    <3> QED BY <1>11, <1>12, <1>13, <1>14, <2>2, <3>2, <3>3
  <2>3. CASE Op(c) \in {"lock_lr", "lock_swap"} /\ bus.data # 0
    <3>1. code'[c] = code[c] BY <2>3 DEF Led
    <3>2. \A o : At(c, o)' <=> Op(c) = o BY <1>2, <3>1 DEF At, Busy, Op
    <3>3. ~At(c, "char")' /\ ~At(c, "unlock_lr")' /\ ~At(c, "unlock_sc")' /\ ~At(c, "unlock_swap")' /\ ~At(c, "lock_sc")'
      BY <2>3, <3>2
    <3>4. ~Last(c)' BY <3>3 DEF Last
    <3> QED BY <1>11, <1>12, <1>13, <1>14, <2>3, <3>3, <3>4
  <2>4. CASE \/ Op(c) = "lock_sc" /\ Passed
             \/ Op(c) = "lock_swap" /\ bus.data = 0
    <3>1. First(c)' BY <2>4 DEF Led
    <3>2. At(c, "char")' /\ ~Last(c)' BY <3>1 DEF First, Last
    <3>3. ~At(c, "lock_sc")' BY <2>1, <3>2
    <3> QED BY <1>10, <1>11, <1>12, <1>13, <2>4, <3>2, <3>3
  <2>5. CASE Op(c) = "lock_sc" /\ ~Passed
    <3>1. At(c, "lock_lr")' BY <2>5 DEF Led
    <3>2. ~At(c, "char")' /\ ~At(c, "unlock_lr")' /\ ~At(c, "unlock_sc")' /\ ~At(c, "unlock_swap")' /\ ~At(c, "lock_sc")'
      BY <2>1, <3>1
    <3>3. ~Last(c)' BY <3>2 DEF Last
    <3> QED BY <1>11, <1>12, <1>13, <1>14, <2>5, <3>2, <3>3
  <2>6. CASE First(c)
    <3>1. Last(c)' BY <2>6 DEF Led
    <3>2. At(c, "char")' BY <3>1 DEF Last
    <3>3. ~At(c, "lock_sc")' BY <2>1, <3>2
    <3> QED BY <1>10, <1>11, <1>12, <1>13, <2>6, <3>1, <3>3
  <2>7. CASE Last(c)
    <3>1. At(c, "unlock_lr")' \/ At(c, "unlock_swap")' BY <2>7 DEF Led
    <3>2. ~At(c, "char")' /\ ~At(c, "lock_sc")' BY <2>1, <3>1
    <3>3. ~Last(c)' BY <3>2 DEF Last
    <3> QED BY <1>10, <1>11, <1>12, <1>13, <2>7, <3>2, <3>3
  <2>8. CASE Op(c) = "unlock_lr" \/ (Op(c) = "unlock_sc" /\ ~Passed)
    <3>1. At(c, "unlock_sc")' \/ At(c, "unlock_lr")' BY <2>8 DEF Led
    <3>2. ~At(c, "char")' /\ ~At(c, "lock_sc")' BY <2>1, <3>1
    <3>3. ~Last(c)' BY <3>2 DEF Last
    <3> QED BY <1>10, <1>11, <1>12, <1>13, <2>8, <3>2, <3>3
  <2>9. CASE (Op(c) = "unlock_sc" /\ Passed) \/ Op(c) = "unlock_swap" \/ Op(c) \in Calm
    <3>1. Away(c)' BY <2>9 DEF Led
    <3>2. ~Holding(c)' /\ ~Middle(c)' /\ ~At(c, "lock_sc")' BY <1>6, <3>1, AwayFactsNext
    <3>3. Op(c) # "char" BY <2>9, TalkOps
    <3> QED BY <1>11, <1>12, <1>13, <3>2, <3>3
  <2> QED BY <1>13, <2>2, <2>3, <2>4, <2>5, <2>6, <2>7, <2>8, <2>9 DEF Talk
<1>16. (Holding(d)' <=> Holding(d)) /\ (Middle(d)' <=> Middle(d)) BY <1>1, <1>3, <1>6, SameVoice
<1>17. Held(d)'
  <2>1. Holding(d) => mem'.locked # 0 /\ ~Holding(1 - d)' BY <1>1, <1>2, <1>5, <1>15 DEF Held
  <2>2. Reserved(d)' => Reserved(d) /\ mem'.locked = mem.locked BY <1>2, <1>7
  <2> QED BY <1>1, <1>3, <1>5, <1>6, <2>1, <2>2, HeldOther
<1>18. Held(c)'
  <2>1. (Holding(c) => mem.locked # 0 /\ ~Holding(1 - c))' BY <1>2, <1>5, <1>15, <1>16 DEF Held, d
  <2>2. (At(c, "lock_sc") /\ bus.id # c /\ Reserved(c) => mem.locked = 0)'
    <3>1. Op(c) = "lock_lr" => bus.data = mem.locked BY <1>5, <1>8 DEF Held
    <3> QED BY <1>2, <1>15, <3>1
  <2>3. ~Asked(c, "lock_lr")' /\ ~Asked(c, "lock_sc")' /\ ~Asked(c, "unlock_sc")' BY <1>8
  <2> QED BY <2>1, <2>2, <2>3 DEF Held
<1>19. (\A x \in Core : line = <<x>> <=> Middle(x))'
  <2> SUFFICES ASSUME NEW x \in Core PROVE (line = <<x>> <=> Middle(x))' OBVIOUS
  <2>1. line = <<x>> <=> Middle(x) BY DEF Lock
  <2>2. CASE x = c BY <1>4, <1>15, <2>1, <2>2
  <2>3. CASE x = d BY <1>4, <1>16, <2>1, <2>3
  <2> QED BY <1>1, <2>2, <2>3
<1>20. Held(0)' /\ Held(1)' BY <1>1, <1>17, <1>18 DEF Core
<1>21. line' \in {<<>>, <<0>>, <<1>>} BY <1>4 DEF Lock
<1> QED BY <1>7, <1>19, <1>20, <1>21 DEF Lock

\* What a core of the program rte does from the installation of each handler on.
Installing1 == <<"install_MTI", "mie_MTI", "install_MSI", "mie_MSI", "install_ecall", "ecall", "on">>
Installing2 == <<"install_MSI", "mie_MSI", "install_ecall", "ecall", "on">>
Installing3 == <<"install_ecall", "ecall", "on">>

\* Texts of one kind, joined.
LEMMA JoinKinds ==
  ASSUME NEW S, NEW s \in Seq(S), NEW t \in Seq(S)
  PROVE  s \o t \in Seq(S)
  OBVIOUS

\* The routines that the programs are built from.
LEMMA Pieces ==
  /\ Locked(printf) \in Seq(SectionOps) /\ Locked(printf) \in Text
  /\ Locked(printf) \in Seq(Early) /\ Locked(printf) \in Seq(Shut) /\ Locked(printf) \in Seq(Late)
  /\ astrarv32_clint_mtimecmp_set \in Seq(Plain \cap Late) /\ astrarv32_clint_time_set \in Seq(Plain \cap Late)
  /\ astrarv32_clint_time_get \in Seq(Plain \cap Late)
  /\ astrarv32_smp_launch \in Seq(Plain) /\ spin_check \in Seq(Plain)
<1>1. Locked(printf) \in Seq(SectionOps)
  <2>1. spin_lock \in Seq(SectionOps) /\ printf \in Seq(SectionOps) /\ spin_unlock \in Seq(SectionOps)
    <3>1. /\ <<"lock_swap">> \in Seq(SectionOps) /\ <<"lock_lr">> \in Seq(SectionOps)
          /\ <<"char", "char">> \in Seq(SectionOps)
          /\ <<"unlock_swap">> \in Seq(SectionOps) /\ <<"unlock_lr", "unlock_sc">> \in Seq(SectionOps)
      BY DEF SectionOps
    <3> QED BY <3>1 DEF spin_lock, printf, spin_unlock
  <2>2. spin_lock \o printf \in Seq(SectionOps) BY <2>1
  <2> QED BY <2>1, <2>2 DEF Locked
<1>2. /\ SectionOps \subseteq Operation /\ SectionOps \subseteq Early /\ SectionOps \subseteq Shut
  BY Kinds
<1>3. SectionOps \subseteq Late BY <1>2 DEF Late, SectionOps
<1>4. Locked(printf) \in Text BY <1>1, <1>2, SeqMonotonic DEF Text
<1>5. Locked(printf) \in Seq(Early) BY <1>1, <1>2, SeqMonotonic
<1>6. Locked(printf) \in Seq(Shut) BY <1>1, <1>2, SeqMonotonic
<1>7. Locked(printf) \in Seq(Late) BY <1>1, <1>3, SeqMonotonic
<1>8. {"get_hi", "get_lo", "get_hi2", "cmp_begin", "cmp_lo1", "cmp_hi", "cmp_lo", "time_lo0", "time_hi", "time_lo"}
        \subseteq Plain \cap Late
  <2>1. {"get_hi", "get_lo", "get_hi2", "cmp_begin", "cmp_lo1", "cmp_hi", "cmp_lo", "time_lo0", "time_hi", "time_lo"}
          \subseteq Plain
    BY PlainOps
  <2> QED BY <2>1 DEF Late, Plain
<1>9. /\ astrarv32_clint_mtimecmp_set \in Seq(Plain \cap Late) /\ astrarv32_clint_time_set \in Seq(Plain \cap Late)
      /\ astrarv32_clint_time_get \in Seq(Plain \cap Late)
  BY <1>8 DEF astrarv32_clint_mtimecmp_set, astrarv32_clint_time_set, astrarv32_clint_time_get
<1>10. astrarv32_smp_launch \in Seq(Plain)
  <2>1. __astrarv32_smp_boot \in Seq(Plain) BY PlainOps DEF __astrarv32_smp_boot
  <2>2. <<"launch">> \in Seq(Plain) BY PlainOps
  <2> QED BY <2>1, <2>2, JoinKinds DEF astrarv32_smp_launch
<1>11. spin_check \in Seq(Plain) BY PlainOps DEF spin_check
<1> QED BY <1>1, <1>4, <1>5, <1>6, <1>7, <1>9, <1>10, <1>11

\* A text before and after a message.
LEMMA OneMessage ==
  ASSUME NEW a \in Seq(Fore), NEW r \in Seq(Calm)
  PROVE  Outside(a \o (Locked(printf) \o r))
<1>1. Locked(printf) \o r = Locking(r) BY OutsideLocked
<1> QED BY <1>1 DEF Outside

\* The texts of the program message hold one message each.
LEMMA MessageTexts ==
  /\ Outside(main_message) /\ main_message \in Seq(Shut)
  /\ Outside(main_core1_message) /\ main_core1_message \in Seq(Shut)
<1> DEFINE L == Locked(printf)
           a == <<"rte_setup", "available">>
           b == astrarv32_smp_launch
           s == spin_check
           x == <<"exit">>
           y == <<"rte_setup">>
<1>1. a \in Seq(Plain) /\ b \in Seq(Plain) /\ s \in Seq(Plain) /\ x \in Seq(Plain) /\ y \in Seq(Plain)
  BY PlainOps, Pieces
<1>2. L \in Text /\ L \in Seq(Shut) BY Pieces
<1>3. main_message = (((a \o b) \o L) \o s) \o x BY DEF main_message
<1>4. main_core1_message = (y \o L) \o x BY DEF main_core1_message
<1>5. \A p \in Seq(Fore), r \in Seq(Calm) : Outside(p \o (L \o r)) BY OneMessage
<1> HIDE DEF L, a, b, s, x, y
<1>6. a \o b \in Seq(Plain) /\ s \o x \in Seq(Plain) BY <1>1, JoinKinds
<1>7. \A t \in Seq(Plain) : t \in Seq(Fore) /\ t \in Seq(Calm) /\ t \in Seq(Shut) /\ t \in Text BY KindSeqs
<1>8. main_message = (a \o b) \o (L \o (s \o x))
  <2> DEFINE g == a \o b
  <2>1. g \in Text /\ L \in Text /\ s \in Text /\ x \in Text BY <1>1, <1>2, <1>6, <1>7
  <2>2. main_message = ((g \o L) \o s) \o x BY <1>3
  <2> HIDE DEF g
  <2>3. g \o L \in Text /\ s \o x \in Text BY <2>1, JoinFacts
  <2>4. ((g \o L) \o s) \o x = (g \o L) \o (s \o x) BY <2>1, <2>3, JoinThree
  <2>5. (g \o L) \o (s \o x) = g \o (L \o (s \o x)) BY <2>1, <2>3, JoinThree
  <2> QED BY <2>2, <2>4, <2>5 DEF g
<1>9. Outside(main_message) BY <1>5, <1>6, <1>7, <1>8
<1>10. main_message \in Seq(Shut)
  <2>1. (a \o b) \o L \in Seq(Shut) BY <1>2, <1>6, <1>7, JoinKinds
  <2>2. ((a \o b) \o L) \o s \in Seq(Shut) BY <1>1, <1>7, <2>1, JoinKinds
  <2> QED BY <1>1, <1>3, <1>7, <2>2, JoinKinds
<1>11. main_core1_message = y \o (L \o x) BY <1>1, <1>2, <1>4, <1>7, JoinThree
<1>12. Outside(main_core1_message) BY <1>1, <1>5, <1>7, <1>11
<1>13. main_core1_message \in Seq(Shut)
  <2>1. y \o L \in Seq(Shut) BY <1>1, <1>2, <1>7, JoinKinds
  <2> QED BY <1>1, <1>4, <1>7, <2>1, JoinKinds
<1> QED BY <1>9, <1>10, <1>12, <1>13

\* The texts of the program primes hold none.
LEMMA PrimesTexts ==
  main_primes \in Seq(Plain) /\ core1_entry \in Seq(Plain)
<1>1. core1_entry \in Seq(Plain) BY PlainOps DEF core1_entry
<1> DEFINE a == <<"rte_setup", "available">>
           b == astrarv32_smp_launch
           d == <<"arg0", "arg1", "run", "run_check", "sum", "exit">>
<1>2. a \in Seq(Plain) /\ b \in Seq(Plain) /\ d \in Seq(Plain) BY PlainOps, Pieces
<1>3. main_primes = (a \o b) \o d BY DEF main_primes
<1> HIDE DEF a, b, d
<1>4. a \o b \in Seq(Plain) BY <1>2, JoinKinds
<1> QED BY <1>1, <1>2, <1>3, <1>4, JoinKinds

\* The operations that install the handlers.
InstallOps == {"install_MTI", "mie_MTI", "install_MSI", "mie_MSI", "install_ecall", "ecall", "on"}

\* The texts from each installation on.
LEMMA InstallText ==
  /\ InstallOps \subseteq Operation /\ InstallOps \subseteq Calm /\ InstallOps \subseteq Late
  /\ Installing1 \in Seq(InstallOps) /\ Installing2 \in Seq(InstallOps) /\ Installing3 \in Seq(InstallOps)
  /\ <<"ecall", "on">> \in Seq(InstallOps) /\ <<"on">> \in Seq(InstallOps)
  /\ Installing1 \in Text /\ Installing2 \in Text /\ Installing3 \in Text /\ <<"ecall", "on">> \in Text /\ <<"on">> \in Text
  /\ Installing1 = Cons("install_MTI", <<"mie_MTI">> \o Installing2)
  /\ Installing2 = Cons("install_MSI", <<"mie_MSI">> \o Installing3)
  /\ Installing3 = Cons("install_ecall", <<"ecall", "on">>)
  /\ <<"ecall", "on">> = Cons("ecall", <<"on">>) /\ <<"on">> = Cons("on", <<>>) /\ <<"mret">> = Cons("mret", <<>>)
<1>1. InstallOps \subseteq Operation /\ "mret" \in Operation BY DEF InstallOps, Operation, Internal
<1>2. InstallOps \subseteq Calm
  <2>1. InstallOps \cap SectionOps = {} BY DEF InstallOps, SectionOps
  <2> QED BY <1>1, <2>1 DEF Calm
<1>3. InstallOps \subseteq Late BY <1>1 DEF Late, InstallOps
<1>4. /\ Installing1 \in Seq(InstallOps) /\ Installing2 \in Seq(InstallOps) /\ Installing3 \in Seq(InstallOps)
      /\ <<"ecall", "on">> \in Seq(InstallOps) /\ <<"on">> \in Seq(InstallOps)
  BY DEF InstallOps, Installing1, Installing2, Installing3
<1>5. Seq(InstallOps) \subseteq Text BY <1>1, SeqMonotonic DEF Text
<1>6. Installing1 = Cons("install_MTI", <<"mie_MTI">> \o Installing2)
  <2> DEFINE t == <<"mie_MTI", "install_MSI", "mie_MSI", "install_ecall", "ecall", "on">>
  <2>1. Head(Installing1) = "install_MTI" /\ Tail(Installing1) = t /\ Installing1 # <<>> BY DEF Installing1
  <2>2. Head(t) = "mie_MTI" /\ Tail(t) = Installing2 /\ t # <<>> BY DEF Installing2
  <2>3. t \in Text
    <3>1. t \in Seq(InstallOps) BY DEF InstallOps
    <3> QED BY <1>5, <3>1
  <2> HIDE DEF t
  <2>4. Installing1 \in Text BY <1>4, <1>5
  <2>5. Installing1 = Cons("install_MTI", t) BY <2>1, <2>4, HeadTail
  <2>6. t = Cons("mie_MTI", Installing2) BY <2>2, <2>3, HeadTail
  <2>7. t = <<"mie_MTI">> \o Installing2 BY <2>6 DEF Cons
  <2> QED BY <2>5, <2>7
<1>7. Installing2 = Cons("install_MSI", <<"mie_MSI">> \o Installing3)
  <2> DEFINE t == <<"mie_MSI", "install_ecall", "ecall", "on">>
  <2>1. Head(Installing2) = "install_MSI" /\ Tail(Installing2) = t /\ Installing2 # <<>> BY DEF Installing2
  <2>2. Head(t) = "mie_MSI" /\ Tail(t) = Installing3 /\ t # <<>> BY DEF Installing3
  <2>3. t \in Text
    <3>1. t \in Seq(InstallOps) BY DEF InstallOps
    <3> QED BY <1>5, <3>1
  <2> HIDE DEF t
  <2>4. Installing2 \in Text BY <1>4, <1>5
  <2>5. Installing2 = Cons("install_MSI", t) BY <2>1, <2>4, HeadTail
  <2>6. t = Cons("mie_MSI", Installing3) BY <2>2, <2>3, HeadTail
  <2>7. t = <<"mie_MSI">> \o Installing3 BY <2>6 DEF Cons
  <2> QED BY <2>5, <2>7
<1>8. /\ Installing3 = Cons("install_ecall", <<"ecall", "on">>)
      /\ <<"ecall", "on">> = Cons("ecall", <<"on">>) /\ <<"on">> = Cons("on", <<>>) /\ <<"mret">> = Cons("mret", <<>>)
  <2>1. "install_ecall" \in Operation /\ "ecall" \in Operation /\ "on" \in Operation BY <1>1 DEF InstallOps
  <2>2. Installing3 = Cons("install_ecall", <<"ecall", "on">>) BY <2>1, Literal3 DEF Installing3
  <2>3. <<"ecall", "on">> = Cons("ecall", <<"on">>) BY <2>1, Literal2
  <2>4. <<"on">> = Cons("on", <<>>) /\ <<"mret">> = Cons("mret", <<>>) BY <1>1, <2>1, Literal1
  <2> QED BY <2>2, <2>3, <2>4
<1> QED BY <1>1, <1>2, <1>3, <1>4, <1>5, <1>6, <1>7, <1>8

\* The texts of the program rte: before the handlers are installed; handlers.
LEMMA AppTexts ==
  /\ Outside(app_main) /\ \E p \in Seq(Early) : app_main = p \o Installing1
  /\ Outside(main_rte) /\ \E p \in Seq(Early) : main_rte = p \o Installing1
<1> DEFINE L == Locked(printf)
           y == <<"rte_setup">>
           t == <<"target0">>
           u == astrarv32_clint_mtimecmp_set
           i == Installing1
<1>1. y \in Seq(Plain) /\ t \in Seq(Plain) /\ u \in Seq(Plain)
  <2>1. y \in Seq(Plain) /\ t \in Seq(Plain) BY PlainOps
  <2>2. u \in Seq(Plain) BY Pieces, KindSeqs
  <2> QED BY <2>1, <2>2
<1>2. L \in Text /\ L \in Seq(Early) BY Pieces
<1>3. i \in Text /\ i \in Seq(Calm)
  <2>1. InstallOps \subseteq Calm BY InstallText
  <2>2. Seq(InstallOps) \subseteq Seq(Calm) BY <2>1, SeqMonotonic
  <2> QED BY <2>2, InstallText
<1>4. app_main = (((y \o L) \o t) \o u) \o i BY DEF app_main, Installing1
<1>5. \A p \in Seq(Fore), r \in Seq(Calm) : Outside(p \o (L \o r)) BY OneMessage
<1> DEFINE m == <<"rte_setup", "available", "target0">>
           n == astrarv32_clint_time_set
           o == astrarv32_smp_launch
<1>6. m \in Seq(Plain) /\ n \in Seq(Plain) /\ o \in Seq(Plain)
  <2>1. m \in Seq(Plain) BY PlainOps
  <2>2. n \in Seq(Plain) /\ o \in Seq(Plain) BY Pieces, KindSeqs
  <2> QED BY <2>1, <2>2
<1>7. main_rte = ((m \o n) \o o) \o app_main BY DEF main_rte
<1> HIDE DEF L, y, t, u, i, m, n, o
<1>8. \A q \in Seq(Plain) : q \in Seq(Fore) /\ q \in Seq(Calm) /\ q \in Seq(Early) /\ q \in Text BY KindSeqs
<1> DEFINE r == t \o (u \o i)
<1>9. r \in Seq(Calm)
  <2>1. u \o i \in Seq(Calm) BY <1>1, <1>3, <1>8, JoinKinds
  <2> QED BY <1>1, <1>8, <2>1, JoinKinds
<1>10. app_main = y \o (L \o r)
  <2>1. y \in Text /\ L \in Text /\ t \in Text /\ u \in Text /\ i \in Text BY <1>1, <1>2, <1>3, <1>8
  <2> DEFINE a1 == y \o L
             a2 == a1 \o t
             b1 == u \o i
             b2 == t \o b1
  <2>2. a1 \in Text /\ b1 \in Text BY <2>1, JoinFacts
  <2>3. a2 \in Text /\ b2 \in Text
    <3> HIDE DEF a1, b1
    <3> QED BY <2>1, <2>2, JoinFacts
  <2>4. (a2 \o u) \o i = a2 \o b1
    <3>1. a2 \in Text /\ u \in Text /\ i \in Text BY <2>1, <2>3
    <3>2. (a2 \o u) \o i = a2 \o (u \o i)
      <4> HIDE DEF a2
      <4> QED BY <3>1, JoinThree, Z3
    <3> QED BY <3>2
  <2>5. (a1 \o t) \o b1 = a1 \o b2
    <3>1. a1 \in Text /\ t \in Text /\ b1 \in Text BY <2>1, <2>2
    <3>2. (a1 \o t) \o b1 = a1 \o (t \o b1)
      <4> HIDE DEF a1, b1
      <4> QED BY <3>1, JoinThree, Z3
    <3> QED BY <3>2
  <2>6. (y \o L) \o b2 = y \o (L \o b2)
    <3>1. y \in Text /\ L \in Text /\ b2 \in Text BY <2>1, <2>3
    <3>2. (y \o L) \o b2 = y \o (L \o b2)
      <4> HIDE DEF b2
      <4> QED BY <3>1, JoinThree, Z3
    <3> QED BY <3>2
  <2>7. (((y \o L) \o t) \o u) \o i = y \o (L \o (t \o (u \o i)))
    BY <2>4, <2>5, <2>6
  <2> QED BY <1>4, <2>7
<1>11. Outside(app_main)
  <2>1. y \in Seq(Fore) BY <1>1, <1>8
  <2> HIDE DEF r
  <2> QED BY <1>5, <1>9, <1>10, <2>1
<1> DEFINE p == ((y \o L) \o t) \o u
<1>12. p \in Seq(Early) /\ app_main = p \o i
  <2>1. y \o L \in Seq(Early) BY <1>1, <1>2, <1>8, JoinKinds
  <2>2. (y \o L) \o t \in Seq(Early) BY <1>1, <1>8, <2>1, JoinKinds
  <2>3. p \in Seq(Early) BY <1>1, <1>8, <2>2, JoinKinds
  <2> QED BY <1>4, <2>3
<1> DEFINE q == (m \o n) \o o
<1>13. q \in Seq(Plain)
  <2>1. m \o n \in Seq(Plain) BY <1>6, JoinKinds
  <2> QED BY <1>6, <2>1, JoinKinds
<1>14. main_rte = q \o app_main BY <1>7
<1> HIDE DEF p, q, r
<1>15. Outside(main_rte) BY <1>8, <1>11, <1>13, <1>14, OutsideMore
<1>16. main_rte = (q \o p) \o i
  <2>1. p \in Text /\ q \in Text BY <1>8, <1>12, <1>13, KindSeqs
  <2>2. q \o (p \o i) = (q \o p) \o i BY <1>3, <2>1, JoinThree, Z3
  <2> QED BY <1>12, <1>14, <2>2
<1>17. q \o p \in Seq(Early) BY <1>8, <1>12, <1>13, JoinKinds
<1>18. \E x \in Seq(Early) : app_main = x \o Installing1 BY <1>12 DEF i
<1>19. \E x \in Seq(Early) : main_rte = x \o Installing1 BY <1>16, <1>17 DEF i
<1> QED BY <1>11, <1>15, <1>18, <1>19

\* A handler of the program rte prints one message and returns.
LEMMA RteHandlers ==
  /\ \A n \in {"trap_handler_mtmi", "trap_handler_mswi"} :
       /\ Outside(Handler(n)) /\ Handler(n) \in Seq(Late) /\ Handler(n) \in Text
       /\ \E p \in Seq(Early) : Handler(n) = p \o <<"mret">>
  /\ Handler("trap_handler_ecall") \in Seq(Early) /\ Handler("trap_handler_ecall") \in Seq(Late)
  /\ \A r \in Seq(Calm) : Outside(Handler("trap_handler_ecall") \o r)
<1> DEFINE L == Locked(printf)
           g == astrarv32_clint_time_get
           t == <<"target_next">>
           u == astrarv32_clint_mtimecmp_set
           a == <<"msi_other">>
           b == <<"msi_clr">>
           m == <<"mret">>
           e == <<"eret">>
           aa == <<"msi_other", "mret">>
           bb == <<"msi_clr", "mret">>
<1>1. /\ g \in Seq(Plain \cap Late) /\ t \in Seq(Plain \cap Late) /\ u \in Seq(Plain \cap Late)
      /\ a \in Seq(Plain \cap Late) /\ b \in Seq(Plain \cap Late) /\ e \in Seq(Plain \cap Late)
  <2>1. {"target_next", "msi_other", "msi_clr", "eret"} \subseteq Plain BY PlainOps
  <2>2. {"target_next", "msi_other", "msi_clr", "eret"} \subseteq Plain \cap Late BY <2>1 DEF Late, Plain
  <2>3. t \in Seq(Plain \cap Late) /\ a \in Seq(Plain \cap Late) /\ b \in Seq(Plain \cap Late) /\ e \in Seq(Plain \cap Late)
    BY <2>2
  <2> QED BY <2>3, Pieces
<1>2. L \in Text /\ L \in Seq(Early) /\ L \in Seq(Late) BY Pieces
<1>3. /\ m \in Text /\ m \in Seq(Calm) /\ m \in Seq(Late)
      /\ aa = a \o m /\ bb = b \o m
  <2>1. "mret" \in Calm /\ "mret" \in Late /\ "mret" \in Operation
    <3>1. "mret" \in Calm BY Kinds DEF Marks
    <3> QED BY <3>1, Kinds DEF Late
  <2>2. "msi_other" \in Operation /\ "msi_clr" \in Operation BY DEF Operation, AccessOps
  <2>3. m \in Text /\ m \in Seq(Calm) /\ m \in Seq(Late) BY <2>1 DEF Text
  <2>4. aa = a \o m /\ bb = b \o m
    <3>1. aa \in Text /\ bb \in Text BY <2>1, <2>2 DEF Text
    <3>2. Head(aa) = "msi_other" /\ Tail(aa) = m /\ aa # <<>> OBVIOUS
    <3>3. Head(bb) = "msi_clr" /\ Tail(bb) = m /\ bb # <<>> OBVIOUS
    <3> HIDE DEF aa, bb, m
    <3>4. aa = Cons("msi_other", m) /\ bb = Cons("msi_clr", m) BY <3>1, <3>2, <3>3, HeadTail
    <3> QED BY <3>4 DEF Cons
  <2> QED BY <2>3, <2>4
<1>4. Handler("trap_handler_mtmi") = (((L \o g) \o t) \o u) \o aa BY DEF Handler, trap_handler_mtmi
<1>5. Handler("trap_handler_mswi") = L \o bb BY DEF Handler, trap_handler_mswi
<1>6. Handler("trap_handler_ecall") = L \o e BY DEF Handler, trap_handler_ecall
<1>7. \A r \in Seq(Calm) : Outside(L \o r)
  <2> TAKE r \in Seq(Calm)
  <2>1. L \o r = Locking(r) BY OutsideLocked
  <2> QED BY <2>1, OutsideLocked
<1> HIDE DEF L, g, t, u, a, b, m, e, aa, bb
<1>8. \A q \in Seq(Plain \cap Late) : q \in Seq(Calm) /\ q \in Seq(Early) /\ q \in Text /\ q \in Seq(Late)
  <2>1. Seq(Plain \cap Late) \subseteq Seq(Late) BY SeqMonotonic
  <2> QED BY <2>1, KindSeqs
<1>9. aa \in Text /\ aa \in Seq(Calm) /\ aa \in Seq(Late) /\ bb \in Text /\ bb \in Seq(Calm) /\ bb \in Seq(Late)
  <2>1. aa \in Seq(Calm) /\ aa \in Seq(Late) BY <1>1, <1>3, <1>8, JoinKinds
  <2>2. bb \in Seq(Calm) /\ bb \in Seq(Late) BY <1>1, <1>3, <1>8, JoinKinds
  <2> QED BY <2>1, <2>2, KindSeqs
<1> DEFINE x == (L \o g) \o t
           y == x \o u
<1>10. y \in Seq(Early) /\ y \in Seq(Late)
  <2>1. L \o g \in Seq(Early) /\ L \o g \in Seq(Late) BY <1>1, <1>2, <1>8, JoinKinds
  <2>2. x \in Seq(Early) /\ x \in Seq(Late) BY <1>1, <1>8, <2>1, JoinKinds
  <2> HIDE DEF x
  <2> QED BY <1>1, <1>8, <2>2, JoinKinds
<1>11. Handler("trap_handler_mtmi") = y \o aa BY <1>4
<1>12. Handler("trap_handler_mtmi") = L \o (g \o (t \o (u \o aa)))
  <2>1. L \in Text /\ g \in Text /\ t \in Text /\ u \in Text BY <1>1, <1>2, <1>8
  <2> DEFINE a1 == L \o g
             a2 == a1 \o t
             b1 == u \o aa
             b2 == t \o b1
  <2>2. a1 \in Text /\ b1 \in Text BY <1>9, <2>1, JoinFacts
  <2>3. a2 \in Text /\ b2 \in Text
    <3> HIDE DEF a1, b1
    <3> QED BY <1>9, <2>1, <2>2, JoinFacts
  <2>4. (a2 \o u) \o aa = a2 \o b1
    <3>1. a2 \in Text /\ u \in Text /\ aa \in Text BY <1>9, <2>1, <2>3
    <3>2. (a2 \o u) \o aa = a2 \o (u \o aa)
      <4> HIDE DEF a2
      <4> QED BY <3>1, JoinThree, Z3
    <3> QED BY <3>2
  <2>5. (a1 \o t) \o b1 = a1 \o b2
    <3>1. a1 \in Text /\ t \in Text /\ b1 \in Text BY <1>9, <2>1, <2>2
    <3>2. (a1 \o t) \o b1 = a1 \o (t \o b1)
      <4> HIDE DEF a1, b1
      <4> QED BY <3>1, JoinThree, Z3
    <3> QED BY <3>2
  <2>6. (L \o g) \o b2 = L \o (g \o b2)
    <3>1. L \in Text /\ g \in Text /\ b2 \in Text BY <1>9, <2>1, <2>3
    <3>2. (L \o g) \o b2 = L \o (g \o b2)
      <4> HIDE DEF b2
      <4> QED BY <3>1, JoinThree, Z3
    <3> QED BY <3>2
  <2>7. (((L \o g) \o t) \o u) \o aa = L \o (g \o (t \o (u \o aa)))
    BY <2>4, <2>5, <2>6
  <2> QED BY <1>4, <2>7
<1> HIDE DEF y
<1>13. Outside(Handler("trap_handler_mtmi"))
  <2>1. u \o aa \in Seq(Calm) BY <1>1, <1>8, <1>9, JoinKinds
  <2>2. t \o (u \o aa) \in Seq(Calm) BY <1>1, <1>8, <2>1, JoinKinds
  <2>3. g \o (t \o (u \o aa)) \in Seq(Calm) BY <1>1, <1>8, <2>2, JoinKinds
  <2> QED BY <1>7, <1>12, <2>3
<1>14. Handler("trap_handler_mtmi") \in Seq(Late) BY <1>9, <1>10, <1>11, JoinKinds
<1>15. \E p \in Seq(Early) : Handler("trap_handler_mtmi") = p \o m
  <2>1. y \in Text /\ a \in Text BY <1>1, <1>8, <1>10, KindSeqs
  <2>2. y \o (a \o m) = (y \o a) \o m BY <1>3, <2>1, JoinThree, Z3
  <2>3. y \o a \in Seq(Early) BY <1>1, <1>8, <1>10, JoinKinds
  <2> QED BY <1>3, <1>11, <2>2, <2>3
<1>16. Outside(Handler("trap_handler_mswi")) BY <1>5, <1>7, <1>9
<1>17. Handler("trap_handler_mswi") \in Seq(Late) BY <1>2, <1>5, <1>9, JoinKinds
<1>18. \E p \in Seq(Early) : Handler("trap_handler_mswi") = p \o m
  <2>1. b \in Text BY <1>1, <1>8
  <2>2. L \o (b \o m) = (L \o b) \o m BY <1>2, <1>3, <2>1, JoinThree, Z3
  <2>3. L \o b \in Seq(Early) BY <1>1, <1>2, <1>8, JoinKinds
  <2> QED BY <1>3, <1>5, <2>2, <2>3
<1>19. Handler("trap_handler_ecall") \in Seq(Early) /\ Handler("trap_handler_ecall") \in Seq(Late)
  BY <1>1, <1>2, <1>6, <1>8, JoinKinds
<1>20. \A r \in Seq(Calm) : Outside(Handler("trap_handler_ecall") \o r)
  <2> TAKE r \in Seq(Calm)
  <2>1. e \in Text /\ r \in Text BY <1>1, <1>8, KindSeqs
  <2>2. (L \o e) \o r = L \o (e \o r) BY <1>2, <2>1, JoinThree, Z3
  <2>3. e \o r \in Seq(Calm) BY <1>1, <1>8, JoinKinds
  <2> QED BY <1>6, <1>7, <2>2, <2>3
<1>21. \A n \in {"trap_handler_mtmi", "trap_handler_mswi"} : Handler(n) \in Text
  <2>1. Seq(Late) \subseteq Text
    <3>1. Late \subseteq Operation BY DEF Late
    <3> QED BY <3>1, SeqMonotonic DEF Text
  <2> QED BY <1>14, <1>17, <2>1
<1> QED BY <1>13, <1>14, <1>15, <1>16, <1>17, <1>18, <1>19, <1>20, <1>21 DEF m

\* Core c is to do s; the handlers named are in the table for good.
Ahead(c, s) == \E p \in Seq(Early) : code[c] = p \o s
Installed(S) == code[0] \in Seq(Late) /\ \A i \in S : lut[i] = handler[i]
\* A core of the program rte installs the handlers, or one of them runs.
Way(c) ==
  \/ Ahead(c, Installing1)
  \/ Ahead(c, Installing2) /\ Installed({"MTI"})
  \/ Ahead(c, Installing3) /\ Installed({"MTI", "MSI"})
  \/ Ahead(c, <<"ecall", "on">>) /\ Installed({"MTI", "MSI", "ecall"})
  \/ (Ahead(c, <<"on">>) \/ Ahead(c, <<"mret">>)) /\ Installed({"MTI", "MSI"})
Path(c) ==
  \/ ~hart[c].on /\ Way(c)
  \/ hart[c].on /\ code[c] = <<>> /\ Installed({"MTI", "MSI"})
  \/ ~hart[c].on /\ code[c] \in {<<"exit">>, <<>>}
  \/ c = 1 /\ (Asleep \/ Awake)
\* The texts of each program.
Texts ==
  /\ program = "rte" => Path(0) /\ Path(1)
  /\ program \in {"message", "retry", "primes"} =>
        /\ code[0] \in Seq(Shut) /\ code[1] \in Seq(Shut)
        /\ ~hart[0].on /\ (hart[1].on => Asleep)
  /\ program = "clock" => code[1] \in Seq(WakeOps) /\ (hart[1].on => hart[1].mtvec = "wakeup")
  /\ program # "clock" => Speech(code[0]) /\ Speech(code[1])
-----------------------------------------------------------------------------
\* What an answer puts before the operations to come.
More == (Plain \cap Late) \cup SectionOps

\* Such operations, and exit, are of every kind.
LEMMA MoreKinds ==
  /\ More \subseteq Early /\ More \subseteq Shut /\ More \subseteq Late /\ More \subseteq Operation
  /\ "exit" \in Shut /\ "exit" \in Late /\ "exit" \in Early /\ "exit" \in Calm /\ Late \subseteq Operation
<1>1. SectionOps \subseteq Late /\ "rte_setup" \notin SectionOps BY Kinds DEF Late, SectionOps
<1>2. "exit" \in Plain BY PlainOps
<1>3. "exit" \in Late BY <1>2, Kinds DEF Late, Plain
<1> QED BY <1>1, <1>2, <1>3, Kinds DEF More, Late, Early

\* An answer leaves a core where it is, gets it on, or ends the program.
LEMMA AnswerShape ==
  ASSUME LaunchInv, NEW c \in Core, Answer(c), Speech(code[c])
  PROVE  /\ Busy(c) /\ Op(c) \in AccessOps /\ code[c] \in Text /\ Rest(c) \in Text /\ code'[1 - c] = code[1 - c]
         /\ \/ code'[c] = code[c]
            \/ \E q \in Seq(More) : code'[c] = q \o Rest(c)
            \/ c = 0 /\ code'[0] = <<"exit">> /\ During(code[0])
<1>1. /\ Busy(c) /\ Op(c) \in AccessOps /\ code[c] \in Text /\ Rest(c) \in Text /\ code'[1 - c] = code[1 - c]
  BY AnswerMoves
<1> DEFINE Shape == \/ code'[c] = code[c]
                    \/ \E q \in Seq(More) : code'[c] = q \o Rest(c)
                    \/ c = 0 /\ code'[0] = <<"exit">> /\ During(code[0])
<1>2. ASSUME Op(c) \in Calm PROVE Shape
  <2>1. \/ code'[c] = code[c]
        \/ \E q \in Seq(Plain \cap Late) : code'[c] = q \o Rest(c)
        \/ c = 0 /\ code'[0] = <<"exit">> /\ During(code[0])
    BY <1>2, AnswerMoves
  <2>2. Seq(Plain \cap Late) \subseteq Seq(More)
    <3>1. Plain \cap Late \subseteq More BY DEF More
    <3> QED BY <3>1, SeqMonotonic
  <2> QED BY <2>1, <2>2
<1>3. <<>> \in Seq(More) /\ Rest(c) = <<>> \o Rest(c) BY <1>1, JoinFacts
<1>4. ASSUME code'[c] = Rest(c) PROVE Shape BY <1>3, <1>4
<1>5. \A o \in SectionOps : <<o>> \in Seq(More) BY DEF More
<1>6. ASSUME NEW o \in SectionOps, code'[c] = Cons(o, Rest(c)) PROVE Shape BY <1>5, <1>6 DEF Cons
<1>7. ASSUME code'[c] = <<"unlock_lr", "unlock_sc">> \o Rest(c) PROVE Shape
  <2>1. "unlock_lr" \in More /\ "unlock_sc" \in More BY DEF More, SectionOps
  <2>2. <<"unlock_lr", "unlock_sc">> \in Seq(More) BY <2>1
  <2> QED BY <1>7, <2>2
<1>8. Op(c) \in Calm \cup {"lock_lr", "lock_swap", "lock_sc", "char", "unlock_lr", "unlock_sc", "unlock_swap"}
  BY AnswerTurn
<1>9. "lock_sc" \in SectionOps /\ "lock_lr" \in SectionOps BY DEF SectionOps
<1>10. CASE Op(c) \in {"lock_lr", "lock_swap"} /\ bus.data # 0
  <2>1. code'[c] = code[c] BY <1>10, AnswerMoves
  <2> QED BY <1>1, <2>1
<1>11. CASE Op(c) = "lock_lr" /\ bus.data = 0
  <2>1. code'[c] = Cons("lock_sc", Rest(c)) BY <1>11, AnswerMoves
  <2> QED BY <1>1, <1>6, <1>9, <2>1
<1>12. CASE Op(c) = "lock_swap" /\ bus.data = 0
  <2>1. code'[c] = Rest(c) BY <1>12, AnswerMoves
  <2> QED BY <1>1, <1>4, <2>1
<1>13. CASE Op(c) = "lock_sc"
  <2>1. code'[c] = IF Passed THEN Rest(c) ELSE Cons("lock_lr", Rest(c)) BY <1>13, AnswerMoves
  <2> QED BY <1>1, <1>4, <1>6, <1>9, <2>1
<1>14. CASE Op(c) = "unlock_sc"
  <2>1. code'[c] = IF Passed THEN Rest(c) ELSE <<"unlock_lr", "unlock_sc">> \o Rest(c) BY <1>14, AnswerMoves
  <2> QED BY <1>1, <1>4, <1>7, <2>1
<1>15. CASE Op(c) \in {"char", "unlock_lr", "unlock_swap"}
  <2>1. code'[c] = Rest(c) BY <1>15, AnswerMoves
  <2> QED BY <1>1, <1>4, <2>1
<1>16. CASE Op(c) \in Calm BY <1>1, <1>2, <1>16
<1> QED BY <1>8, <1>10, <1>11, <1>12, <1>13, <1>14, <1>15, <1>16

\* An answer keeps what a core may still do.
LEMMA AnswerKinds ==
  ASSUME LaunchInv, NEW c \in Core, Answer(c), Speech(code[c]), NEW S \in {Shut, Late}, code[c] \in Seq(S)
  PROVE  code'[c] \in Seq(S)
<1>1. /\ Busy(c)
      /\ \/ code'[c] = code[c]
         \/ \E q \in Seq(More) : code'[c] = q \o Rest(c)
         \/ c = 0 /\ code'[0] = <<"exit">> /\ During(code[0])
  BY AnswerShape
<1>2. Rest(c) \in Seq(S) BY <1>1 DEF Rest, Busy
<1>3. Seq(More) \subseteq Seq(S)
  <2>1. More \subseteq S BY MoreKinds
  <2> QED BY <2>1, SeqMonotonic
<1>4. \A q \in Seq(More) : q \o Rest(c) \in Seq(S) BY <1>2, <1>3, JoinKinds
<1>5. <<"exit">> \in Seq(S)
  <2>1. "exit" \in S BY MoreKinds
  <2> QED BY <2>1
<1> QED BY <1>1, <1>4, <1>5

\* It does not get past what is to be done next inside the core.
LEMMA AnswerAhead ==
  ASSUME LaunchInv, NEW c \in Core, Answer(c), Speech(code[c]), NEW s \in Text, s # <<>>, Head(s) \in Internal,
         Ahead(c, s)
  PROVE  (c = 0 /\ code'[0] = <<"exit">> /\ During(code[0])) \/ \E p \in Seq(Early) : code'[c] = p \o s
<1>1. PICK p \in Seq(Early) : code[c] = p \o s BY DEF Ahead
<1>2. /\ Busy(c) /\ Op(c) \in AccessOps /\ Rest(c) \in Text
      /\ \/ code'[c] = code[c]
         \/ \E q \in Seq(More) : code'[c] = q \o Rest(c)
         \/ c = 0 /\ code'[0] = <<"exit">> /\ During(code[0])
  BY AnswerShape
<1>3. p \in Text BY KindSeqs
<1>4. p # <<>>
  <2>1. AccessOps \cap Internal = {} BY DEF AccessOps, Internal
  <2>2. ASSUME p = <<>> PROVE FALSE
    <3>1. <<>> \o s = s BY JoinFacts
    <3>2. code[c] = s BY <1>1, <2>2, <3>1
    <3>3. Op(c) = Head(s) BY <3>2 DEF Op
    <3> QED BY <1>2, <2>1, <3>3
  <2> QED BY <2>2
<1>5. Tail(p) \in Seq(Early) BY <1>4
<1>6. Rest(c) = Tail(p) \o s
  <2>1. Head(p) \in Operation /\ Tail(p) \in Text /\ p = Cons(Head(p), Tail(p)) BY <1>3, <1>4, HeadTail
  <2> DEFINE h == Head(p)
             t == Tail(p)
  <2>2. h \in Operation /\ t \in Text /\ p = Cons(h, t) BY <2>1
  <2> HIDE DEF h, t
  <2>3. p \o s = Cons(h, t \o s) BY <2>2, JoinFacts
  <2>4. t \o s \in Text BY <2>2, JoinFacts
  <2>5. Tail(Cons(h, t \o s)) = t \o s BY <2>2, <2>4, ConsFacts
  <2>6. Rest(c) = t \o s BY <1>1, <2>3, <2>5 DEF Rest
  <2> QED BY <2>6 DEF t
<1>7. ASSUME NEW q \in Seq(More), code'[c] = q \o Rest(c)
      PROVE  \E u \in Seq(Early) : code'[c] = u \o s
  <2> DEFINE t == Tail(p)
  <2>1. q \in Seq(Early)
    <3>1. Seq(More) \subseteq Seq(Early) BY MoreKinds, SeqMonotonic
    <3> QED BY <3>1
  <2>2. t \in Seq(Early) /\ code'[c] = q \o (t \o s) BY <1>5, <1>6, <1>7
  <2> HIDE DEF t
  <2>3. q \o t \in Seq(Early) BY <2>1, <2>2, JoinKinds
  <2>4. q \in Text /\ t \in Text BY <2>1, <2>2, KindSeqs
  <2>5. (q \o t) \o s = q \o (t \o s) BY <2>4, JoinThree, Z3
  <2> QED BY <2>2, <2>3, <2>5
<1> QED BY <1>1, <1>2, <1>7

\* What a core is to do next inside it, in the program rte.
Stages == {Installing1, Installing2, Installing3, <<"ecall", "on">>, <<"on">>, <<"mret">>}

\* Each stage is a text that begins inside the core.
LEMMA StageTexts ==
  /\ \A s \in Stages : s \in Text /\ s # <<>> /\ Head(s) \in Internal
  /\ Head(Installing1) = "install_MTI" /\ Tail(Installing1) = <<"mie_MTI">> \o Installing2
  /\ Head(Installing2) = "install_MSI" /\ Tail(Installing2) = <<"mie_MSI">> \o Installing3
  /\ Head(Installing3) = "install_ecall" /\ Tail(Installing3) = <<"ecall", "on">>
  /\ Head(<<"ecall", "on">>) = "ecall" /\ Tail(<<"ecall", "on">>) = <<"on">>
  /\ Head(<<"on">>) = "on" /\ Tail(<<"on">>) = <<>> /\ Head(<<"mret">>) = "mret" /\ Tail(<<"mret">>) = <<>>
<1>1. {"install_MTI", "install_MSI", "install_ecall", "ecall", "on", "mret"} \subseteq Internal BY DEF Internal
<1>2. {"install_MTI", "install_MSI", "install_ecall", "ecall", "on", "mret", "mie_MTI", "mie_MSI"} \subseteq Operation
  BY DEF Internal, Operation
<1>3. <<"mie_MTI">> \o Installing2 \in Text /\ <<"mie_MSI">> \o Installing3 \in Text /\ <<"ecall", "on">> \in Text
      /\ <<"on">> \in Text /\ <<>> \in Text
  <2>1. <<"mie_MTI">> \in Text /\ <<"mie_MSI">> \in Text BY <1>2 DEF Text
  <2>2. Installing2 \in Text /\ Installing3 \in Text /\ <<"ecall", "on">> \in Text /\ <<"on">> \in Text BY InstallText
  <2> QED BY <2>1, <2>2, JoinFacts, EmptyFacts
<1>4. /\ Installing1 = Cons("install_MTI", <<"mie_MTI">> \o Installing2)
      /\ Installing2 = Cons("install_MSI", <<"mie_MSI">> \o Installing3)
      /\ Installing3 = Cons("install_ecall", <<"ecall", "on">>)
      /\ <<"ecall", "on">> = Cons("ecall", <<"on">>) /\ <<"on">> = Cons("on", <<>>) /\ <<"mret">> = Cons("mret", <<>>)
  BY InstallText
<1> DEFINE a == <<"mie_MTI">> \o Installing2
           b == <<"mie_MSI">> \o Installing3
<1>5. /\ Cons("install_MTI", a) \in Text /\ Cons("install_MTI", a) # <<>>
      /\ Head(Cons("install_MTI", a)) = "install_MTI" /\ Tail(Cons("install_MTI", a)) = a
  <2>1. a \in Text /\ "install_MTI" \in Operation BY <1>2, <1>3
  <2> HIDE DEF a
  <2> QED BY <2>1, ConsFacts
<1>6. /\ Cons("install_MSI", b) \in Text /\ Cons("install_MSI", b) # <<>>
      /\ Head(Cons("install_MSI", b)) = "install_MSI" /\ Tail(Cons("install_MSI", b)) = b
  <2>1. b \in Text /\ "install_MSI" \in Operation BY <1>2, <1>3
  <2> HIDE DEF b
  <2> QED BY <2>1, ConsFacts
<1>7. \A o \in Operation, s \in Text :
        Cons(o, s) \in Text /\ Cons(o, s) # <<>> /\ Head(Cons(o, s)) = o /\ Tail(Cons(o, s)) = s
  BY ConsFacts
<1> HIDE DEF a, b
<1>8. /\ Installing1 \in Text /\ Installing1 # <<>> /\ Head(Installing1) = "install_MTI"
      /\ Tail(Installing1) = a
  BY <1>4, <1>5 DEF a
<1>9. /\ Installing2 \in Text /\ Installing2 # <<>> /\ Head(Installing2) = "install_MSI"
      /\ Tail(Installing2) = b
  BY <1>4, <1>6 DEF b
<1>10. /\ Installing3 \in Text /\ Installing3 # <<>> /\ Head(Installing3) = "install_ecall"
       /\ Tail(Installing3) = <<"ecall", "on">>
  BY <1>2, <1>3, <1>4, <1>7
<1>11. /\ <<"ecall", "on">> \in Text /\ <<"ecall", "on">> # <<>> /\ Head(<<"ecall", "on">>) = "ecall"
       /\ Tail(<<"ecall", "on">>) = <<"on">>
  BY <1>2, <1>3, <1>4, <1>7
<1>12. \A o \in {"on", "mret"} : <<o>> \in Text /\ <<o>> # <<>> /\ Head(<<o>>) = o /\ Tail(<<o>>) = <<>>
  BY <1>2 DEF Text
<1>13. \A s \in Stages : s \in Text /\ s # <<>> /\ Head(s) \in Internal
  BY <1>1, <1>8, <1>9, <1>10, <1>11, <1>12 DEF Stages
<1> QED BY <1>8, <1>9, <1>10, <1>11, <1>12, <1>13 DEF a, b

\* What is known of a core after a step.
LEMMA AheadNext ==
  ASSUME NEW c \in Core, NEW s, \E p \in Seq(Early) : code'[c] = p \o s
  PROVE  Ahead(c, s)'
BY DEF Ahead

\* Sets of handlers; a step that leaves the installed ones in the table.
Handled == SUBSET {"MTI", "MSI", "ecall"}
Kept == \A S \in Handled : Installed(S) => Installed(S)'

\* A step that leaves the table alone is one.
LEMMA KeptTable ==
  ASSUME program' = program, lut' = lut, code[0] \in Seq(Late) => code'[0] \in Seq(Late)
  PROVE  Kept
BY DEF Kept, Installed, handler

\* What such a step keeps, by name.
LEMMA KeptStages ==
  ASSUME Kept
  PROVE  /\ Installed({"MTI"}) => Installed({"MTI"})'
         /\ Installed({"MTI", "MSI"}) => Installed({"MTI", "MSI"})'
         /\ Installed({"MTI", "MSI", "ecall"}) => Installed({"MTI", "MSI", "ecall"})'
<1>1. {"MTI"} \in Handled /\ {"MTI", "MSI"} \in Handled /\ {"MTI", "MSI", "ecall"} \in Handled BY DEF Handled
<1>2. \A S \in Handled : Installed(S) => Installed(S)' BY DEF Kept
<1> QED BY <1>1, <1>2

\* The other core's path is kept with the table.
LEMMA PathOther ==
  ASSUME NEW d \in Core, Path(d), Kept, code'[d] = code[d], hart'[d] = hart[d]
  PROVE  Path(d)'
<1>1. /\ Installed({"MTI"}) => Installed({"MTI"})'
      /\ Installed({"MTI", "MSI"}) => Installed({"MTI", "MSI"})'
      /\ Installed({"MTI", "MSI", "ecall"}) => Installed({"MTI", "MSI", "ecall"})'
  BY KeptStages
<1>2. \A s : Ahead(d, s) => \E p \in Seq(Early) : code'[d] = p \o s BY DEF Ahead
<1>3. ASSUME Way(d) PROVE Way(d)'
  <2>1. Ahead(d, Installing1) => Ahead(d, Installing1)' BY <1>2, AheadNext
  <2>2. Ahead(d, Installing2) => Ahead(d, Installing2)' BY <1>2, AheadNext
  <2>3. Ahead(d, Installing3) => Ahead(d, Installing3)' BY <1>2, AheadNext
  <2>4. Ahead(d, <<"ecall", "on">>) => Ahead(d, <<"ecall", "on">>)' BY <1>2, AheadNext
  <2>5. Ahead(d, <<"on">>) => Ahead(d, <<"on">>)' BY <1>2, AheadNext
  <2>6. Ahead(d, <<"mret">>) => Ahead(d, <<"mret">>)' BY <1>2, AheadNext
  <2> QED BY <1>1, <1>3, <2>1, <2>2, <2>3, <2>4, <2>5, <2>6 DEF Way
<1>4. ASSUME d = 1, Asleep \/ Awake PROVE (Asleep \/ Awake)' BY <1>4 DEF Asleep, Awake
<1> QED BY <1>1, <1>3, <1>4 DEF Path

\* An answer of a core that installs the handlers, or runs one.
LEMMA WayAnswer ==
  ASSUME LaunchInv, NEW c \in Core, Answer(c), Speech(code[c]), Way(c), Kept
  PROVE  (c = 0 /\ code'[0] = <<"exit">>) \/ Way(c)'
<1>1. /\ Installed({"MTI"}) => Installed({"MTI"})'
      /\ Installed({"MTI", "MSI"}) => Installed({"MTI", "MSI"})'
      /\ Installed({"MTI", "MSI", "ecall"}) => Installed({"MTI", "MSI", "ecall"})'
  BY KeptStages
<1> DEFINE Given == c = 0 /\ code'[0] = <<"exit">>
<1>2. ASSUME NEW s \in Stages, Ahead(c, s) PROVE Given \/ Ahead(c, s)'
  <2>1. s \in Text /\ s # <<>> /\ Head(s) \in Internal BY StageTexts
  <2>2. Given \/ \E p \in Seq(Early) : code'[c] = p \o s BY <1>2, <2>1, AnswerAhead
  <2> HIDE DEF Given
  <2> QED BY <2>2, AheadNext
<1>3. /\ Installing1 \in Stages /\ Installing2 \in Stages /\ Installing3 \in Stages
      /\ <<"ecall", "on">> \in Stages /\ <<"on">> \in Stages /\ <<"mret">> \in Stages
  BY DEF Stages
<1> HIDE DEF Given
<1>4. /\ Ahead(c, Installing1) => Given \/ Ahead(c, Installing1)'
      /\ Ahead(c, Installing2) => Given \/ Ahead(c, Installing2)'
      /\ Ahead(c, Installing3) => Given \/ Ahead(c, Installing3)'
  BY <1>2, <1>3
<1>5. /\ Ahead(c, <<"ecall", "on">>) => Given \/ Ahead(c, <<"ecall", "on">>)'
      /\ Ahead(c, <<"on">>) => Given \/ Ahead(c, <<"on">>)'
      /\ Ahead(c, <<"mret">>) => Given \/ Ahead(c, <<"mret">>)'
  BY <1>2, <1>3
<1>6. Given \/ Way(c)' BY <1>1, <1>4, <1>5 DEF Way
<1> QED BY <1>6 DEF Given

\* An answer of any core of the program rte.
LEMMA PathAnswer ==
  ASSUME LaunchInv, NEW c \in Core, Answer(c), Speech(code[c]), Path(c), Kept
  PROVE  Path(c)'
<1>1. Busy(c) /\ Op(c) \in AccessOps /\ hart' = hart
  <2>1. Busy(c) /\ Op(c) \in AccessOps BY AnswerMoves
  <2> QED BY <2>1 DEF Answer
<1>2. AccessOps \cap Internal = {} /\ "exit" \in Internal BY DEF AccessOps, Internal
<1>3. CASE ~hart[c].on /\ Way(c)
  <2>1. (c = 0 /\ code'[0] = <<"exit">>) \/ Way(c)' BY <1>3, WayAnswer
  <2> QED BY <1>1, <1>3, <2>1 DEF Path
<1>4. CASE hart[c].on /\ code[c] = <<>> BY <1>1, <1>4 DEF Busy
<1>5. CASE code[c] \in {<<"exit">>, <<>>}
  <2>1. code[c] = <<"exit">> BY <1>1, <1>5 DEF Busy
  <2>2. Op(c) = "exit" BY <2>1 DEF Op
  <2> QED BY <1>1, <1>2, <2>2
<1>6. CASE c = 1 /\ Asleep BY <1>1, <1>6 DEF Asleep, Busy
<1>7. CASE c = 1 /\ Awake
  <2>1. /\ Op(1) \in WakeOps
        /\ Op(1) = "wake_sp" => Rest(1) = <<"wake_entry", "wake_ack", "main_entry">>
        /\ Op(1) = "wake_entry" => Rest(1) = <<"wake_ack", "main_entry">>
        /\ Op(1) = "wake_ack" => Rest(1) = <<"main_entry">>
    BY <1>7, AwakeText
  <2>2. Op(1) # "main_entry" BY <1>1, <1>2, <1>7 DEF Internal
  <2>3. Op(1) \in {"wake_sp", "wake_entry", "wake_ack"} BY <2>1, <2>2 DEF WakeOps
  <2>4. code'[1] = Rest(1) BY <1>7, <2>3, AnswerExact
  <2>5. Waking(code'[1]) BY <2>1, <2>3, <2>4 DEF Waking
  <2>6. Awake' BY <1>1, <1>7, <2>5 DEF Awake, Waking
  <2> QED BY <1>7, <2>6 DEF Path
<1> QED BY <1>3, <1>4, <1>5, <1>6, <1>7 DEF Path

\* The texts after an answer.
LEMMA TextsAnswer ==
  ASSUME LaunchInv, Texts, NEW c \in Core, Answer(c)
  PROVE  Texts'
<1>1. /\ UNCHANGED <<program, hart, lut>> /\ code'[1 - c] = code[1 - c] /\ Busy(c) /\ Op(c) \in AccessOps
      /\ code[c] \in Text
  <2>1. code'[1 - c] = code[1 - c] /\ Busy(c) /\ Op(c) \in AccessOps /\ code[c] \in Text BY AnswerMoves
  <2> QED BY <2>1 DEF Answer
<1>2. 1 - c \in Core /\ 1 - c # c /\ 1 - (1 - c) = c /\ \A d \in Core : d = c \/ d = 1 - c BY OtherCore
<1>3. ASSUME program # "clock" PROVE (Speech(code[0]) /\ Speech(code[1]))'
  <2>1. Speech(code[c]) /\ Speech(code[1 - c]) BY <1>2, <1>3 DEF Texts, Core
  <2>2. Speech(code[c])' BY <2>1, AnswerTurn DEF Led
  <2>3. Speech(code'[1 - c]) BY <1>1, <2>1
  <2>4. Speech(code[1 - c])' BY <1>1, <1>2, <2>3, SpeechNext
  <2> QED BY <1>2, <2>2, <2>4 DEF Core
<1>4. CASE program = "rte"
  <2>1. Speech(code[c]) /\ Path(c) /\ Path(1 - c) BY <1>2, <1>4 DEF Texts, Core
  <2>2. ASSUME code[0] \in Seq(Late) PROVE code'[0] \in Seq(Late)
    <3>1. CASE c = 0 BY <2>1, <2>2, <3>1, AnswerKinds
    <3>2. CASE c = 1 BY <1>1, <2>2, <3>2
    <3> QED BY <3>1, <3>2 DEF Core
  <2>3. Kept BY <1>1, <2>2, KeptTable
  <2>4. Path(c)' BY <2>1, <2>3, PathAnswer
  <2>5. Path(1 - c)' BY <1>1, <1>2, <2>1, <2>3, PathOther
  <2> QED BY <1>1, <1>2, <1>3, <1>4, <2>4, <2>5 DEF Texts, Core
<1>5. CASE program \in {"message", "retry", "primes"}
  <2>1. code[c] \in Seq(Shut) /\ code[1 - c] \in Seq(Shut) /\ Speech(code[c]) BY <1>2, <1>5 DEF Texts, Core
  <2>2. code'[c] \in Seq(Shut) BY <2>1, AnswerKinds
  <2>3. code'[1 - c] \in Seq(Shut) BY <1>1, <2>1
  <2>4. ~hart[0].on /\ (hart[1].on => Asleep) BY <1>5 DEF Texts
  <2>5. hart[1].on => Asleep'
    <3>1. ASSUME hart[1].on PROVE Asleep'
      <4>1. Asleep /\ code[1] = <<>> BY <2>4, <3>1 DEF Asleep
      <4>2. c # 1 BY <1>1, <4>1 DEF Busy
      <4>3. code'[1] = code[1] BY <1>1, <1>2, <4>2 DEF Core
      <4> QED BY <1>1, <4>1, <4>3 DEF Asleep
    <3> QED BY <3>1
  <2>6. code'[0] \in Seq(Shut) /\ code'[1] \in Seq(Shut) BY <1>2, <2>2, <2>3 DEF Core
  <2> QED BY <1>1, <1>3, <1>5, <2>4, <2>5, <2>6 DEF Texts
<1>6. CASE program = "clock"
  <2>1. code[1] \in Seq(WakeOps) /\ (hart[1].on => hart[1].mtvec = "wakeup") BY <1>6 DEF Texts
  <2>2. code'[1] \in Seq(WakeOps)
    <3>1. CASE c = 0 BY <1>1, <2>1, <3>1
    <3>2. CASE c = 1
      <4>1. Op(1) \in WakeOps /\ Rest(1) \in Seq(WakeOps) BY <1>1, <2>1, <3>2 DEF Busy, Op, Rest
      <4>2. Op(1) # "main_entry" BY <1>1, <3>2 DEF AccessOps
      <4>3. code'[1] = Rest(1) BY <3>2, <4>1, <4>2, AnswerExact DEF WakeOps
      <4> QED BY <4>1, <4>3
    <3> QED BY <3>1, <3>2 DEF Core
  <2> QED BY <1>1, <1>6, <2>1, <2>2 DEF Texts
<1>7. program \in {"message", "retry", "primes", "rte", "clock"} BY DEF LaunchInv, Types
<1> QED BY <1>4, <1>5, <1>6, <1>7

\* A strobe changes neither the texts nor the interrupt control.
LEMMA TextsSame ==
  ASSUME Texts, UNCHANGED <<program, code, hart, lut>>
  PROVE  Texts'
<1>1. Kept BY KeptTable
<1>2. CASE program = "rte"
  <2>1. 0 \in Core /\ 1 \in Core BY DEF Core
  <2>2. Path(0)' /\ Path(1)' BY <1>1, <1>2, <2>1, PathOther DEF Texts
  <2>3. Speech(code[0])' /\ Speech(code[1])' BY <1>2, <2>1, SpeechNext DEF Texts
  <2> QED BY <1>2, <2>2, <2>3 DEF Texts
<1>3. CASE program # "rte"
  <2>1. 0 \in Core /\ 1 \in Core BY DEF Core
  <2>2. program # "clock" => Speech(code[0])' /\ Speech(code[1])'
    <3>1. program # "clock" => Speech(code'[0]) /\ Speech(code'[1]) BY DEF Texts
    <3> QED BY <2>1, <3>1, SpeechNext
  <2> QED BY <1>3, <2>2 DEF Texts, Asleep
<1> QED BY <1>2, <1>3

\* A step inside a core: the operations to come, the handler table, and when the
\* core lets interrupts in.
LEMMA InsideMoves ==
  ASSUME LaunchInv, NEW c \in Core, Inside(c)
  PROVE  /\ bus.id # c /\ Busy(c) /\ Op(c) \in Internal /\ code[c] \in Text /\ Rest(c) \in Text
         /\ UNCHANGED <<rvsVars, program, bus, mem, boot, line>>
         /\ code'[1 - c] = code[1 - c] /\ hart'[1 - c] = hart[1 - c]
         /\ Op(c) = "main_entry" => c = 1 /\ Awake /\ boot.entry \in {crt0_entry, main_core1}
         /\ \/ Op(c) = "available" /\ code'[c] = <<"exit">>
            \/ Op(c) = "ecall" /\ code'[c] = Handler(lut.ecall) \o Rest(c)
            \/ Op(c) = "main_entry" /\ boot.entry = main_core1 /\ code'[c] = entry_point
            \/ Op(c) # "ecall" /\ (Op(c) = "main_entry" => boot.entry # main_core1) /\ code'[c] = Rest(c)
<1>1. /\ bus.id # c /\ Busy(c) /\ Op(c) \in Internal /\ SetCode(c) /\ SetHart(c)
      /\ UNCHANGED <<rvsVars, program, bus, mem, boot, line>>
  BY DEF Inside
<1>2. code \in [Core -> Text] /\ Types BY DEF LaunchInv, Types
<1>3. code[c] \in Text /\ Rest(c) \in Text
  <2>1. code[c] \in Text /\ code[c] # <<>> BY <1>1, <1>2 DEF Busy
  <2> QED BY <2>1, HeadTail DEF Rest
<1>4. hart'[1 - c] = hart[1 - c] BY <1>1, <1>2, HartType
<1>5. 1 - c \in Core /\ 1 - c # c BY OtherCore
<1>6. /\ code'[1 - c] = code[1 - c]
      /\ \/ Op(c) = "available" /\ code'[c] = <<"exit">>
         \/ Op(c) = "ecall" /\ code'[c] = Handler(lut.ecall) \o Rest(c)
         \/ Op(c) = "main_entry" /\ boot.entry = main_core1 /\ code'[c] = entry_point
         \/ Op(c) # "ecall" /\ (Op(c) = "main_entry" => boot.entry # main_core1) /\ code'[c] = Rest(c)
  <2>1. CASE Op(c) = "available" /\ code' = [code EXCEPT ![c] = <<"exit">>] BY <1>2, <1>5, <2>1
  <2>2. CASE Op(c) = "ecall" /\ code' = Again(c, Handler(lut.ecall))
    <3>1. code' = [code EXCEPT ![c] = Handler(lut.ecall) \o Rest(c)] BY <2>2 DEF Again
    <3> DEFINE n == Handler(lut.ecall) \o Rest(c)
    <3> HIDE DEF n
    <3>2. code' = [code EXCEPT ![c] = n] BY <3>1 DEF n
    <3>3. code'[c] = n /\ code'[1 - c] = code[1 - c] BY <1>2, <1>5, <3>2
    <3> QED BY <2>2, <3>3 DEF n
  <2>3. CASE Op(c) = "main_entry" /\ boot.entry = main_core1 /\ code' = [code EXCEPT ![c] = entry_point]
    BY <1>2, <1>5, <2>3
  <2>4. CASE Op(c) # "ecall" /\ ~(Op(c) = "main_entry" /\ boot.entry = main_core1) /\ code' = Done(c)
    BY <1>2, <1>5, <2>4 DEF Done
  <2>5. \/ Op(c) = "available" /\ code' = [code EXCEPT ![c] = <<"exit">>]
        \/ Op(c) = "ecall" /\ code' = Again(c, Handler(lut.ecall))
        \/ Op(c) = "main_entry" /\ boot.entry = main_core1 /\ code' = [code EXCEPT ![c] = entry_point]
        \/ Op(c) # "ecall" /\ ~(Op(c) = "main_entry" /\ boot.entry = main_core1) /\ code' = Done(c)
    <3>1. CASE Op(c) = "available" /\ code' = [code EXCEPT ![c] = <<"exit">>] BY <3>1
    <3>2. CASE code' = CASE Op(c) = "ecall" -> Again(c, Handler(lut.ecall))
                         [] Op(c) = "main_entry" /\ boot.entry = main_core1 -> [code EXCEPT ![c] = entry_point]
                         [] OTHER -> Done(c)
      <4>1. CASE Op(c) = "ecall" BY <3>2, <4>1
      <4>2. CASE Op(c) = "main_entry" /\ boot.entry = main_core1 BY <3>2, <4>2
      <4>3. CASE Op(c) # "ecall" /\ ~(Op(c) = "main_entry" /\ boot.entry = main_core1) BY <3>2, <4>3
      <4> QED BY <4>1, <4>2, <4>3
    <3> QED BY <1>1, <3>1, <3>2 DEF SetCode
  <2> QED BY <2>1, <2>2, <2>3, <2>4, <2>5
<1>7. ASSUME Op(c) = "main_entry" PROVE c = 1 /\ Awake /\ boot.entry \in {crt0_entry, main_core1}
  <2>1. c # 0 BY <1>7, InsideZeroFrame
  <2>2. c = 1 BY <2>1 DEF Core
  <2>3. Asleep \/ Awake \/ Started BY DEF LaunchInv, Sleeper
  <2>4. ~Asleep BY <1>1, <2>2 DEF Asleep, Busy
  <2>5. ~Started
    <3>1. "main_entry" \in WakeOps BY DEF WakeOps
    <3>2. code[1] \in Seq(Work) /\ code[1] # <<>> => Head(code[1]) \notin WakeOps BY CalmText
    <3> QED BY <1>1, <1>7, <2>2, <3>1, <3>2 DEF Started, Busy, Op
  <2>6. Awake BY <2>3, <2>4, <2>5
  <2>7. At(1, "main_entry") BY <1>1, <1>7, <2>2 DEF At
  <2>8. boot.entry \in {crt0_entry, main_core1} BY <2>6, <2>7 DEF LaunchInv, Sleeper, Entered
  <2> QED BY <2>2, <2>6, <2>8
<1> QED BY <1>1, <1>3, <1>4, <1>6, <1>7

\* What a step inside a core does to its interrupts and the table.
LEMMA InsideControl ==
  ASSUME LaunchInv, NEW c \in Core, Inside(c)
  PROVE  /\ Op(c) \in {"on", "mret"} => hart'[c].on
         /\ Op(c) \notin {"main_entry", "on", "mret"} => (hart'[c].on => hart[c].on)
         /\ Op(c) = "main_entry" => hart' = IF boot.entry = crt0_entry
                                            THEN [hart EXCEPT ![c] = __crt0_smp_setup] ELSE hart
         /\ c = 1 \/ Op(c) # "rte_setup" =>
               \A i \in {"MTI", "MSI", "ecall"} : lut[i] = handler[i] => lut'[i] = handler'[i]
         /\ Op(c) = "install_MTI" => lut'.MTI = handler'.MTI
         /\ Op(c) = "install_MSI" => lut'.MSI = handler'.MSI
         /\ Op(c) = "install_ecall" => lut'.ecall = handler'.ecall
<1>1. SetHart(c) /\ SetLut(c) /\ program' = program BY DEF Inside
<1>2. Types BY DEF LaunchInv
<1>3. hart \in [Core -> Harts] BY <1>2 DEF Types, Harts
<1>4. /\ Op(c) \notin {"main_entry", "on", "mret"} => (hart'[c].on => hart[c].on)
      /\ Op(c) = "main_entry" => hart' = IF boot.entry = crt0_entry
                                         THEN [hart EXCEPT ![c] = __crt0_smp_setup] ELSE hart
  BY <1>1, <1>2, HartType
<1>5. ASSUME Op(c) \in {"on", "mret"} PROVE hart'[c].on
  <2>1. hart' = [hart EXCEPT ![c].on = TRUE] BY <1>1, <1>5 DEF SetHart
  <2> QED BY <1>3, <2>1 DEF Harts
<1>6. handler' = handler BY <1>1 DEF handler
<1>7. lut = [MTI |-> lut.MTI, MSI |-> lut.MSI, ecall |-> lut.ecall] BY <1>2 DEF Types
<1>8. \/ Op(c) = "rte_setup" /\ c = 0
      \/ Op(c) = "install_MTI" /\ lut' = [lut EXCEPT !.MTI = handler.MTI]
      \/ Op(c) = "install_MSI" /\ lut' = [lut EXCEPT !.MSI = handler.MSI]
      \/ Op(c) = "install_ecall" /\ lut' = [lut EXCEPT !.ecall = handler.ecall]
      \/ Op(c) \notin {"install_MTI", "install_MSI", "install_ecall"} /\ lut' = lut
  BY <1>1 DEF SetLut
<1> DEFINE h == handler
<1>9. handler' = h /\ h = handler BY <1>6
<1> HIDE DEF h
<1>10. CASE Op(c) = "rte_setup" /\ c = 0 BY <1>4, <1>5, <1>10
<1>11. CASE Op(c) = "install_MTI" /\ lut' = [lut EXCEPT !.MTI = h.MTI]
  <2>1. lut' = [MTI |-> h.MTI, MSI |-> lut.MSI, ecall |-> lut.ecall] BY <1>7, <1>11
  <2> QED BY <1>4, <1>5, <1>9, <1>11, <2>1
<1>12. CASE Op(c) = "install_MSI" /\ lut' = [lut EXCEPT !.MSI = h.MSI]
  <2>1. lut' = [MTI |-> lut.MTI, MSI |-> h.MSI, ecall |-> lut.ecall] BY <1>7, <1>12
  <2> QED BY <1>4, <1>5, <1>9, <1>12, <2>1
<1>13. CASE Op(c) = "install_ecall" /\ lut' = [lut EXCEPT !.ecall = h.ecall]
  <2>1. lut' = [MTI |-> lut.MTI, MSI |-> lut.MSI, ecall |-> h.ecall] BY <1>7, <1>13
  <2> QED BY <1>4, <1>5, <1>9, <1>13, <2>1
<1>14. CASE Op(c) \notin {"install_MTI", "install_MSI", "install_ecall"} /\ lut' = lut
  BY <1>4, <1>5, <1>9, <1>14
<1> QED BY <1>8, <1>9, <1>10, <1>11, <1>12, <1>13, <1>14

\* The next operation of a core that is to do s inside it.
LEMMA AheadTurn ==
  ASSUME NEW c \in Core, NEW s \in Text, s # <<>>, Ahead(c, s)
  PROVE  \/ Op(c) \in Early /\ \E p \in Seq(Early) : Rest(c) = p \o s
         \/ Op(c) = Head(s) /\ Rest(c) = Tail(s)
<1>1. PICK p \in Seq(Early) : code[c] = p \o s BY DEF Ahead
<1>2. p \in Text BY KindSeqs
<1>3. CASE p = <<>>
  <2>1. <<>> \o s = s BY JoinFacts
  <2>2. code[c] = s BY <1>1, <1>3, <2>1
  <2> QED BY <2>2 DEF Op, Rest
<1>4. CASE p # <<>>
  <2>1. Head(p) \in Early /\ Tail(p) \in Seq(Early) BY <1>4
  <2>2. Head(p) \in Operation /\ Tail(p) \in Text /\ p = Cons(Head(p), Tail(p)) BY <1>2, <1>4, HeadTail
  <2> DEFINE h == Head(p)
             t == Tail(p)
  <2>3. h \in Early /\ t \in Seq(Early) /\ h \in Operation /\ t \in Text /\ p = Cons(h, t) BY <2>1, <2>2
  <2> HIDE DEF h, t
  <2>4. p \o s = Cons(h, t \o s) BY <2>3, JoinFacts
  <2>5. t \o s \in Text BY <2>3, JoinFacts
  <2>6. Head(Cons(h, t \o s)) = h /\ Tail(Cons(h, t \o s)) = t \o s BY <2>3, <2>5, ConsFacts
  <2>7. Op(c) = h /\ Rest(c) = t \o s BY <1>1, <2>4, <2>6 DEF Op, Rest
  <2> QED BY <2>3, <2>7
<1> QED BY <1>3, <1>4

\* The next operation in the program rte.
LEMMA WayTurn ==
  ASSUME NEW c \in Core, Way(c)
  PROVE  \/ /\ Op(c) \in Early
            /\ \/ \E p \in Seq(Early) : Rest(c) = p \o Installing1
               \/ (\E p \in Seq(Early) : Rest(c) = p \o Installing2) /\ Installed({"MTI"})
               \/ (\E p \in Seq(Early) : Rest(c) = p \o Installing3) /\ Installed({"MTI", "MSI"})
               \/ (\E p \in Seq(Early) : Rest(c) = p \o <<"ecall", "on">>) /\ Installed({"MTI", "MSI", "ecall"})
               \/ /\ (\E p \in Seq(Early) : Rest(c) = p \o <<"on">>) \/ (\E p \in Seq(Early) : Rest(c) = p \o <<"mret">>)
                  /\ Installed({"MTI", "MSI"})
         \/ Op(c) = "install_MTI" /\ Rest(c) = <<"mie_MTI">> \o Installing2
         \/ Op(c) = "install_MSI" /\ Rest(c) = <<"mie_MSI">> \o Installing3 /\ Installed({"MTI"})
         \/ Op(c) = "install_ecall" /\ Rest(c) = <<"ecall", "on">> /\ Installed({"MTI", "MSI"})
         \/ Op(c) = "ecall" /\ Rest(c) = <<"on">> /\ Installed({"MTI", "MSI", "ecall"})
         \/ Op(c) \in {"on", "mret"} /\ Rest(c) = <<>> /\ Installed({"MTI", "MSI"})
<1>1. \A s \in Stages : s \in Text /\ s # <<>> BY StageTexts
<1>2. \A s \in Stages : Ahead(c, s) =>
        \/ Op(c) \in Early /\ \E p \in Seq(Early) : Rest(c) = p \o s
        \/ Op(c) = Head(s) /\ Rest(c) = Tail(s)
  BY <1>1, AheadTurn
<1>3. /\ Installing1 \in Stages /\ Installing2 \in Stages /\ Installing3 \in Stages
      /\ <<"ecall", "on">> \in Stages /\ <<"on">> \in Stages /\ <<"mret">> \in Stages
  BY DEF Stages
<1>4. /\ Head(Installing1) = "install_MTI" /\ Tail(Installing1) = <<"mie_MTI">> \o Installing2
      /\ Head(Installing2) = "install_MSI" /\ Tail(Installing2) = <<"mie_MSI">> \o Installing3
      /\ Head(Installing3) = "install_ecall" /\ Tail(Installing3) = <<"ecall", "on">>
      /\ Head(<<"ecall", "on">>) = "ecall" /\ Tail(<<"ecall", "on">>) = <<"on">>
      /\ Head(<<"on">>) = "on" /\ Tail(<<"on">>) = <<>> /\ Head(<<"mret">>) = "mret" /\ Tail(<<"mret">>) = <<>>
  BY StageTexts
<1>5. CASE Ahead(c, Installing1)
  <2>1. \/ Op(c) \in Early /\ \E p \in Seq(Early) : Rest(c) = p \o Installing1
        \/ Op(c) = Head(Installing1) /\ Rest(c) = Tail(Installing1)
    BY <1>2, <1>3, <1>5
  <2> QED BY <1>4, <2>1
<1>6. CASE Ahead(c, Installing2) /\ Installed({"MTI"})
  <2>1. \/ Op(c) \in Early /\ \E p \in Seq(Early) : Rest(c) = p \o Installing2
        \/ Op(c) = Head(Installing2) /\ Rest(c) = Tail(Installing2)
    BY <1>2, <1>3, <1>6
  <2> QED BY <1>4, <1>6, <2>1
<1>7. CASE Ahead(c, Installing3) /\ Installed({"MTI", "MSI"})
  <2>1. \/ Op(c) \in Early /\ \E p \in Seq(Early) : Rest(c) = p \o Installing3
        \/ Op(c) = Head(Installing3) /\ Rest(c) = Tail(Installing3)
    BY <1>2, <1>3, <1>7
  <2> QED BY <1>4, <1>7, <2>1
<1>8. CASE Ahead(c, <<"ecall", "on">>) /\ Installed({"MTI", "MSI", "ecall"})
  <2>1. \/ Op(c) \in Early /\ \E p \in Seq(Early) : Rest(c) = p \o <<"ecall", "on">>
        \/ Op(c) = Head(<<"ecall", "on">>) /\ Rest(c) = Tail(<<"ecall", "on">>)
    BY <1>2, <1>3, <1>8
  <2> QED BY <1>4, <1>8, <2>1
<1>9. CASE Ahead(c, <<"on">>) /\ Installed({"MTI", "MSI"})
  <2>1. \/ Op(c) \in Early /\ \E p \in Seq(Early) : Rest(c) = p \o <<"on">>
        \/ Op(c) = Head(<<"on">>) /\ Rest(c) = Tail(<<"on">>)
    BY <1>2, <1>3, <1>9
  <2> QED BY <1>4, <1>9, <2>1
<1>10. CASE Ahead(c, <<"mret">>) /\ Installed({"MTI", "MSI"})
  <2>1. \/ Op(c) \in Early /\ \E p \in Seq(Early) : Rest(c) = p \o <<"mret">>
        \/ Op(c) = Head(<<"mret">>) /\ Rest(c) = Tail(<<"mret">>)
    BY <1>2, <1>3, <1>10
  <2> QED BY <1>4, <1>10, <2>1
<1> QED BY <1>5, <1>6, <1>7, <1>8, <1>9, <1>10 DEF Way

\* What core c does in a step inside it, in the program rte.
LEMMA PathTurn ==
  ASSUME LaunchInv, NEW c \in Core, Path(c), Inside(c)
  PROVE  \/ ~hart[c].on /\ Way(c)
         \/ ~hart[c].on /\ code[c] = <<"exit">>
         \/ c = 1 /\ Awake /\ Op(c) = "main_entry"
<1>1. Busy(c) /\ Op(c) \in Internal BY InsideMoves
<1>2. ~(code[c] = <<>>) /\ ~(c = 1 /\ Asleep) BY <1>1 DEF Busy, Asleep
<1>3. ASSUME c = 1, Awake PROVE Op(c) = "main_entry"
  <2>1. Op(1) \in WakeOps BY <1>3, AwakeText
  <2> QED BY <1>1, <1>3, <2>1 DEF WakeOps, Internal
<1> QED BY <1>2, <1>3 DEF Path

\* What the installed handlers are.
LEMMA Handlers ==
  ASSUME program = "rte"
  PROVE  /\ Installed({"MTI", "MSI", "ecall"}) => Handler(lut.ecall) = Handler("trap_handler_ecall")
         /\ Installed({"MTI", "MSI"}) =>
               \A i \in {"MTI", "MSI"} : \E n \in {"trap_handler_mtmi", "trap_handler_mswi"} : lut[i] = n
<1>1. handler = [MTI |-> "trap_handler_mtmi", MSI |-> "trap_handler_mswi", ecall |-> "trap_handler_ecall"]
  BY DEF handler
<1>2. handler.MTI = "trap_handler_mtmi" /\ handler.MSI = "trap_handler_mswi" /\ handler.ecall = "trap_handler_ecall"
  BY <1>1
<1>3. Installed({"MTI", "MSI", "ecall"}) => lut.ecall = handler.ecall BY DEF Installed
<1>4. Installed({"MTI", "MSI"}) => \A i \in {"MTI", "MSI"} : lut[i] = handler[i] BY DEF Installed
<1> QED BY <1>2, <1>3, <1>4

\* The environment call is made when its handler is in the table.
LEMMA PathEcall ==
  ASSUME LaunchInv, NEW c \in Core, Path(c), Inside(c), Op(c) = "ecall"
  PROVE  Installed({"MTI", "MSI", "ecall"}) /\ Rest(c) = <<"on">>
<1>1. CASE Way(c)
  <2>1. "ecall" \notin Early BY DEF Early, Marks
  <2> QED BY <1>1, <2>1, WayTurn
<1>2. CASE code[c] = <<"exit">>
  <2>1. Op(c) = "exit" BY <1>2 DEF Op
  <2> QED BY <2>1
<1> QED BY <1>1, <1>2, PathTurn

\* What is in the table for good stays there.
LEMMA KeptInside ==
  ASSUME LaunchInv, program = "rte", NEW c \in Core, Path(c), Inside(c)
  PROVE  Kept
<1>1. /\ Busy(c) /\ Op(c) \in Internal /\ code'[1 - c] = code[1 - c] /\ program' = program
      /\ Op(c) = "main_entry" => c = 1
      /\ \/ Op(c) = "available" /\ code'[c] = <<"exit">>
         \/ Op(c) = "ecall" /\ code'[c] = Handler(lut.ecall) \o Rest(c)
         \/ Op(c) = "main_entry" /\ boot.entry = main_core1 /\ code'[c] = entry_point
         \/ Op(c) # "ecall" /\ (Op(c) = "main_entry" => boot.entry # main_core1) /\ code'[c] = Rest(c)
  BY InsideMoves
<1>2. ASSUME code[0] \in Seq(Late) PROVE code'[0] \in Seq(Late) /\ (c = 1 \/ Op(c) # "rte_setup")
  <2>1. CASE c = 1 BY <1>1, <1>2, <2>1
  <2>2. CASE c = 0
    <3>1. Op(0) \in Late /\ Rest(0) \in Seq(Late) BY <1>1, <1>2, <2>2 DEF Op, Rest, Busy
    <3>2. Op(0) # "rte_setup" BY <3>1 DEF Late
    <3>3. <<"exit">> \in Seq(Late)
      <4>1. "exit" \in Late BY MoreKinds
      <4> QED BY <4>1
    <3>4. ASSUME Op(0) = "ecall" PROVE Handler(lut.ecall) \o Rest(0) \in Seq(Late)
      <4>1. Handler(lut.ecall) = Handler("trap_handler_ecall") BY <2>2, <3>4, PathEcall, Handlers
      <4>2. Handler(lut.ecall) \in Seq(Late) BY <4>1, RteHandlers
      <4> QED BY <3>1, <4>2, JoinKinds
    <3>5. \/ code'[0] = <<"exit">>
          \/ Op(0) = "ecall" /\ code'[0] = Handler(lut.ecall) \o Rest(0)
          \/ code'[0] = Rest(0)
      <4>1. Op(0) # "main_entry" BY <1>1, <2>2
      <4> QED BY <1>1, <2>2, <4>1
    <3>6. code'[0] \in Seq(Late)
      <4> DEFINE h == Handler(lut.ecall) \o Rest(0)
                 e == <<"exit">>
                 r == Rest(0)
                 C == code'[0]
      <4>1. C = e \/ (Op(0) = "ecall" /\ C = h) \/ C = r BY <3>5
      <4>2. r \in Seq(Late) /\ e \in Seq(Late) /\ (Op(0) = "ecall" => h \in Seq(Late)) BY <3>1, <3>3, <3>4
      <4> HIDE DEF h, e, r, C
      <4>3. C \in Seq(Late) BY <4>1, <4>2
      <4> QED BY <4>3 DEF C
    <3> QED BY <2>2, <3>2, <3>6
  <2> QED BY <2>1, <2>2 DEF Core
<1>3. c = 1 \/ Op(c) # "rte_setup" =>
        \A i \in {"MTI", "MSI", "ecall"} : lut[i] = handler[i] => lut'[i] = handler'[i]
  BY InsideControl
<1> QED BY <1>2, <1>3 DEF Kept, Handled, Installed

\* Core 1 installs its handlers after core 0 has reset the table.
LEMMA TableReady ==
  ASSUME LaunchInv, NEW c \in Core, Inside(c), Op(c) = "install_MTI", Rest(c) = <<"mie_MTI">> \o Installing2
  PROVE  code'[0] \in Seq(Late)
<1>1. /\ code'[1 - c] = code[1 - c] /\ GreetingTakesLonger(c)
      /\ Op(c) # "available" /\ Op(c) # "ecall" /\ Op(c) # "main_entry" => code'[c] = Rest(c)
  <2>1. GreetingTakesLonger(c) BY DEF Inside
  <2> QED BY <2>1, InsideMoves
<1>2. CASE c = 0
  <2>1. code'[0] = <<"mie_MTI">> \o Installing2 BY <1>1, <1>2
  <2>2. InstallOps \subseteq Late /\ Installing2 \in Seq(InstallOps) BY InstallText
  <2>3. <<"mie_MTI">> \in Seq(InstallOps)
    <3>1. "mie_MTI" \in InstallOps BY DEF InstallOps
    <3> QED BY <3>1
  <2>4. <<"mie_MTI">> \o Installing2 \in Seq(InstallOps) BY <2>2, <2>3, JoinKinds
  <2>5. Seq(InstallOps) \subseteq Seq(Late) BY <2>2, SeqMonotonic
  <2> QED BY <2>1, <2>4, <2>5
<1>3. CASE c = 1
  <2>1. code'[0] = code[0] BY <1>1, <1>3
  <2>2. \A i \in DOMAIN code[0] : code[0][i] # "rte_setup"
    <3>1. \A i \in DOMAIN code[1 - 1] : code[1 - 1][i] # "rte_setup" BY <1>1, <1>3 DEF GreetingTakesLonger
    <3>2. 1 - 1 = 0 OBVIOUS
    <3> QED BY <3>1, <3>2
  <2>3. code[0] \in Seq(Operation) BY DEF LaunchInv, Types, Text, Core
  <2> DEFINE s == code[0]
  <2>4. s \in Seq(Operation) /\ \A i \in DOMAIN s : s[i] # "rte_setup" BY <2>2, <2>3
  <2> HIDE DEF s
  <2>5. DOMAIN s = 1 .. Len(s) /\ Len(s) \in Nat /\ \A i \in 1 .. Len(s) : s[i] \in Operation
    BY <2>4, ElementOfSeq, LenProperties
  <2>6. \A i \in 1 .. Len(s) : s[i] \in Late BY <2>4, <2>5 DEF Late
  <2>7. s = [i \in 1 .. Len(s) |-> s[i]] BY <2>4, <2>5
  <2>8. s \in Seq(Late) BY <2>5, <2>6, <2>7
  <2> QED BY <2>1, <2>8 DEF s
<1> QED BY <1>2, <1>3 DEF Core

\* A core that installs the handlers gets further.
LEMMA WayInside ==
  ASSUME LaunchInv, program = "rte", NEW c \in Core, Inside(c), Way(c), ~hart[c].on, Kept
  PROVE  \/ ~hart'[c].on /\ (code'[c] = <<"exit">> \/ Way(c)')
         \/ hart'[c].on /\ code'[c] = <<>> /\ Installed({"MTI", "MSI"})'
<1>1. /\ \/ Op(c) = "available" /\ code'[c] = <<"exit">>
         \/ Op(c) = "ecall" /\ code'[c] = Handler(lut.ecall) \o Rest(c)
         \/ Op(c) = "main_entry" /\ boot.entry = main_core1 /\ code'[c] = entry_point
         \/ Op(c) # "ecall" /\ (Op(c) = "main_entry" => boot.entry # main_core1) /\ code'[c] = Rest(c)
      /\ program' = program
  BY InsideMoves
<1>2. /\ Op(c) \in {"on", "mret"} => hart'[c].on
      /\ Op(c) \notin {"main_entry", "on", "mret"} => ~hart'[c].on
      /\ Op(c) = "install_MTI" => lut'.MTI = handler'.MTI
      /\ Op(c) = "install_MSI" => lut'.MSI = handler'.MSI
      /\ Op(c) = "install_ecall" => lut'.ecall = handler'.ecall
  BY InsideControl
<1>3. /\ Installed({"MTI"}) => Installed({"MTI"})'
      /\ Installed({"MTI", "MSI"}) => Installed({"MTI", "MSI"})'
      /\ Installed({"MTI", "MSI", "ecall"}) => Installed({"MTI", "MSI", "ecall"})'
  BY KeptStages
<1>4. "mie_MTI" \in Early /\ "mie_MSI" \in Early
  <2>1. {"mie_MTI", "mie_MSI"} \subseteq Plain BY PlainOps
  <2> QED BY <2>1, Kinds
<1>5. ASSUME Op(c) \in Early PROVE Op(c) \notin {"ecall", "main_entry", "on", "mret"}
  BY <1>5 DEF Early, Marks, WakeOps
<1>6. CASE Op(c) = "available" /\ code'[c] = <<"exit">> BY <1>2, <1>6
<1>7. CASE Op(c) \in Early /\ code'[c] = Rest(c)
  <2>1. ~hart'[c].on BY <1>2, <1>5, <1>7
  <2>2. Op(c) \notin {"install_MTI", "install_MSI", "install_ecall", "ecall", "on", "mret"}
    BY <1>7 DEF Early, Marks
  <2>3. \/ \E p \in Seq(Early) : code'[c] = p \o Installing1
        \/ (\E p \in Seq(Early) : code'[c] = p \o Installing2) /\ Installed({"MTI"})
        \/ (\E p \in Seq(Early) : code'[c] = p \o Installing3) /\ Installed({"MTI", "MSI"})
        \/ (\E p \in Seq(Early) : code'[c] = p \o <<"ecall", "on">>) /\ Installed({"MTI", "MSI", "ecall"})
        \/ /\ (\E p \in Seq(Early) : code'[c] = p \o <<"on">>) \/ (\E p \in Seq(Early) : code'[c] = p \o <<"mret">>)
           /\ Installed({"MTI", "MSI"})
    BY <1>7, <2>2, WayTurn
  <2>4. \A s \in Stages : (\E p \in Seq(Early) : code'[c] = p \o s) => Ahead(c, s)' BY AheadNext
  <2>5. /\ Installing1 \in Stages /\ Installing2 \in Stages /\ Installing3 \in Stages
        /\ <<"ecall", "on">> \in Stages /\ <<"on">> \in Stages /\ <<"mret">> \in Stages
    BY DEF Stages
  <2>6. \/ Ahead(c, Installing1)'
        \/ Ahead(c, Installing2)' /\ Installed({"MTI"})
        \/ Ahead(c, Installing3)' /\ Installed({"MTI", "MSI"})
        \/ Ahead(c, <<"ecall", "on">>)' /\ Installed({"MTI", "MSI", "ecall"})
        \/ (Ahead(c, <<"on">>)' \/ Ahead(c, <<"mret">>)') /\ Installed({"MTI", "MSI"})
    <3> HIDE DEF Stages
    <3> QED BY <2>3, <2>4, <2>5
  <2>7. Way(c)' BY <1>3, <2>6 DEF Way
  <2> QED BY <2>1, <2>7
<1>8. CASE Op(c) = "install_MTI" /\ Rest(c) = <<"mie_MTI">> \o Installing2
  <2>1. code'[c] = <<"mie_MTI">> \o Installing2 BY <1>1, <1>8
  <2>2. <<"mie_MTI">> \in Seq(Early) BY <1>4
  <2>3. Ahead(c, Installing2)' BY <2>1, <2>2, AheadNext
  <2>4. code'[0] \in Seq(Late) BY <1>8, TableReady
  <2>5. Installed({"MTI"})' BY <1>2, <1>8, <2>4 DEF Installed
  <2> QED BY <1>2, <1>8, <2>3, <2>5 DEF Way
<1>9. CASE Op(c) = "install_MSI" /\ Rest(c) = <<"mie_MSI">> \o Installing3 /\ Installed({"MTI"})
  <2>1. code'[c] = <<"mie_MSI">> \o Installing3 BY <1>1, <1>9
  <2>2. <<"mie_MSI">> \in Seq(Early) BY <1>4
  <2>3. Ahead(c, Installing3)' BY <2>1, <2>2, AheadNext
  <2>4. Installed({"MTI", "MSI"})' BY <1>2, <1>3, <1>9 DEF Installed
  <2> QED BY <1>2, <1>9, <2>3, <2>4 DEF Way
<1>10. CASE Op(c) = "install_ecall" /\ Rest(c) = <<"ecall", "on">> /\ Installed({"MTI", "MSI"})
  <2>1. code'[c] = <<>> \o <<"ecall", "on">> BY <1>1, <1>10
  <2>2. <<>> \in Seq(Early) OBVIOUS
  <2>3. Ahead(c, <<"ecall", "on">>)' BY <2>1, <2>2, AheadNext
  <2>4. Installed({"MTI", "MSI", "ecall"})' BY <1>2, <1>3, <1>10 DEF Installed
  <2> QED BY <1>2, <1>10, <2>3, <2>4 DEF Way
<1>11. CASE Op(c) = "ecall" /\ Rest(c) = <<"on">> /\ Installed({"MTI", "MSI", "ecall"})
  <2>1. code'[c] = Handler("trap_handler_ecall") \o <<"on">> BY <1>1, <1>11, Handlers
  <2>2. Handler("trap_handler_ecall") \in Seq(Early) BY RteHandlers
  <2>3. Ahead(c, <<"on">>)' BY <2>1, <2>2, AheadNext
  <2>4. Installed({"MTI", "MSI", "ecall"})' BY <1>3, <1>11
  <2>5. Installed({"MTI", "MSI"})' BY <2>4 DEF Installed
  <2> QED BY <1>2, <1>11, <2>3, <2>5 DEF Way
<1>12. CASE Op(c) \in {"on", "mret"} /\ Rest(c) = <<>> /\ Installed({"MTI", "MSI"})
  <2>1. code'[c] = <<>> BY <1>1, <1>12
  <2> QED BY <1>2, <1>3, <1>12, <2>1
<1>13. \/ Op(c) \in Early
       \/ Op(c) = "install_MTI" /\ Rest(c) = <<"mie_MTI">> \o Installing2
       \/ Op(c) = "install_MSI" /\ Rest(c) = <<"mie_MSI">> \o Installing3 /\ Installed({"MTI"})
       \/ Op(c) = "install_ecall" /\ Rest(c) = <<"ecall", "on">> /\ Installed({"MTI", "MSI"})
       \/ Op(c) = "ecall" /\ Rest(c) = <<"on">> /\ Installed({"MTI", "MSI", "ecall"})
       \/ Op(c) \in {"on", "mret"} /\ Rest(c) = <<>> /\ Installed({"MTI", "MSI"})
  BY WayTurn
<1>14. Op(c) \in Early => (Op(c) = "available" /\ code'[c] = <<"exit">>) \/ code'[c] = Rest(c)
  BY <1>1, <1>5
<1> QED BY <1>6, <1>7, <1>8, <1>9, <1>10, <1>11, <1>12, <1>13, <1>14

\* What core 1 is launched for, in each program.
LEMMA EntryPoints ==
  /\ program = "rte" => entry_point = app_main
  /\ program \in {"message", "retry", "primes"} => entry_point \in Seq(Shut) /\ Outside(entry_point)
  /\ program = "clock" => entry_point = <<>>
<1>1. program = "rte" => entry_point = app_main BY DEF entry_point
<1>2. program \in {"message", "retry"} => entry_point = main_core1_message BY DEF entry_point
<1>3. program = "primes" => entry_point = core1_entry BY DEF entry_point
<1>4. program = "clock" => entry_point = <<>> BY DEF entry_point
<1>5. main_core1_message \in Seq(Shut) /\ Outside(main_core1_message) BY MessageTexts
<1>6. core1_entry \in Seq(Shut) /\ Outside(core1_entry)
  <2>1. core1_entry \in Seq(Shut) /\ core1_entry \in Seq(Calm) BY PrimesTexts, KindSeqs
  <2> QED BY <2>1 DEF Outside
<1> DEFINE e == entry_point
<1> HIDE DEF e
<1>7. /\ program = "rte" => e = app_main
      /\ program \in {"message", "retry", "primes"} => e \in Seq(Shut) /\ Outside(e)
      /\ program = "clock" => e = <<>>
  BY <1>1, <1>2, <1>3, <1>4, <1>5, <1>6 DEF e
<1> QED BY <1>7 DEF e

\* A step inside core 1 that ends its start-up code.
LEMMA EntryInside ==
  ASSUME LaunchInv, Inside(1), Op(1) = "main_entry"
  PROVE  \/ boot.entry = crt0_entry /\ Asleep'
         \/ boot.entry = main_core1 /\ code'[1] = entry_point /\ hart' = hart /\ ~hart[1].on
<1>1. Awake /\ boot.entry \in {crt0_entry, main_core1} BY InsideMoves DEF Core
<1>2. 1 \in Core BY DEF Core
<1>3. hart' = IF boot.entry = crt0_entry THEN [hart EXCEPT ![1] = __crt0_smp_setup] ELSE hart
  BY <1>2, InsideControl
<1>4. crt0_entry # main_core1 BY DEF crt0_entry, main_core1
<1>5. \/ Op(1) = "available" /\ code'[1] = <<"exit">>
      \/ Op(1) = "ecall" /\ code'[1] = Handler(lut.ecall) \o Rest(1)
      \/ Op(1) = "main_entry" /\ boot.entry = main_core1 /\ code'[1] = entry_point
      \/ Op(1) # "ecall" /\ (Op(1) = "main_entry" => boot.entry # main_core1) /\ code'[1] = Rest(1)
  BY <1>2, InsideMoves
<1>6. CASE boot.entry = crt0_entry
  <2>1. Rest(1) = <<>> BY <1>1, AwakeText
  <2>2. code'[1] = <<>> BY <1>4, <1>5, <1>6, <2>1
  <2>3. hart \in [Core -> Harts] BY DEF LaunchInv, Types, Harts
  <2>4. hart'[1] = __crt0_smp_setup BY <1>2, <1>3, <1>6, <2>3
  <2> QED BY <1>6, <2>2, <2>4 DEF Asleep, __crt0_smp_setup
<1>7. CASE boot.entry = main_core1
  <2>1. code'[1] = entry_point BY <1>5, <1>7
  <2>2. hart' = hart BY <1>3, <1>4, <1>7
  <2> QED BY <1>1, <1>7, <2>1, <2>2 DEF Awake
<1> QED BY <1>1, <1>6, <1>7

\* A step inside any core of the program rte.
LEMMA PathInside ==
  ASSUME LaunchInv, program = "rte", NEW c \in Core, Inside(c), Path(c), Kept
  PROVE  Path(c)'
<1>1. CASE ~hart[c].on /\ Way(c)
  <2>1. \/ ~hart'[c].on /\ (code'[c] = <<"exit">> \/ Way(c)')
        \/ hart'[c].on /\ code'[c] = <<>> /\ Installed({"MTI", "MSI"})'
    BY <1>1, WayInside
  <2> QED BY <2>1 DEF Path
<1>2. CASE ~hart[c].on /\ code[c] = <<"exit">>
  <2>1. Op(c) = "exit" /\ Rest(c) = <<>> BY <1>2 DEF Op, Rest
  <2>2. code'[c] = Rest(c) BY <2>1, InsideMoves
  <2>3. ~hart'[c].on BY <1>2, <2>1, InsideControl
  <2> QED BY <2>1, <2>2, <2>3 DEF Path
<1>3. CASE c = 1 /\ Awake /\ Op(c) = "main_entry"
  <2>1. \/ boot.entry = crt0_entry /\ Asleep'
        \/ boot.entry = main_core1 /\ code'[1] = entry_point /\ hart' = hart /\ ~hart[1].on
    BY <1>3, EntryInside
  <2>2. ASSUME code'[1] = entry_point, hart' = hart, ~hart[1].on PROVE Path(1)'
    <3>1. \E p \in Seq(Early) : code'[1] = p \o Installing1 BY <2>2, EntryPoints, AppTexts
    <3>2. Ahead(1, Installing1)'
      <4>1. 1 \in Core BY DEF Core
      <4> QED BY <3>1, <4>1, AheadNext
    <3>3. Way(1)' BY <3>2 DEF Way
    <3> QED BY <2>2, <3>3 DEF Path
  <2>3. Asleep' => Path(1)' BY DEF Path
  <2> QED BY <1>3, <2>1, <2>2, <2>3
<1> QED BY <1>1, <1>2, <1>3, PathTurn

\* A step inside a core is no part of a message.
LEMMA InsideOutside ==
  ASSUME LaunchInv, program # "clock", NEW c \in Core, Inside(c), Speech(code[c]),
         Op(c) = "ecall" => Handler(lut.ecall) = Handler("trap_handler_ecall")
  PROVE  Outside(code[c]) /\ Outside(code'[c])
<1>1. /\ Busy(c) /\ Op(c) \in Internal
      /\ Op(c) = "main_entry" => c = 1
      /\ \/ Op(c) = "available" /\ code'[c] = <<"exit">>
         \/ Op(c) = "ecall" /\ code'[c] = Handler(lut.ecall) \o Rest(c)
         \/ Op(c) = "main_entry" /\ boot.entry = main_core1 /\ code'[c] = entry_point
         \/ Op(c) # "ecall" /\ (Op(c) = "main_entry" => boot.entry # main_core1) /\ code'[c] = Rest(c)
  BY InsideMoves
<1>2. SectionOps \cap Internal = {} BY DEF SectionOps, Internal
<1>3. Outside(code[c])
  <2>1. Head(code[c]) \notin SectionOps BY <1>1, <1>2 DEF Op
  <2> QED BY <2>1, QuietText
<1>4. Outside(Rest(c)) /\ (Op(c) = "ecall" => Rest(c) \in Seq(Calm))
  <2>1. \/ /\ Head(code[c]) \in Calm /\ Outside(Tail(code[c]))
           /\ (Head(code[c]) = "ecall" => Tail(code[c]) \in Seq(Calm))
        \/ Head(code[c]) = IF program = "rte" THEN "lock_swap" ELSE "lock_lr"
    BY <1>1, <1>3, OutsideText DEF Busy
  <2>2. "lock_swap" \in SectionOps /\ "lock_lr" \in SectionOps BY DEF SectionOps
  <2> QED BY <1>1, <1>2, <2>1, <2>2 DEF Op, Rest
<1>5. Outside(<<"exit">>)
  <2>1. "exit" \in Calm BY MoreKinds
  <2>2. <<"exit">> \in Seq(Calm) BY <2>1
  <2> QED BY <2>2 DEF Outside
<1>6. ASSUME Op(c) = "ecall" PROVE Outside(Handler(lut.ecall) \o Rest(c))
  <2>1. Outside(Handler("trap_handler_ecall") \o Rest(c)) BY <1>4, <1>6, RteHandlers
  <2> QED BY <1>6, <2>1
<1>7. Outside(entry_point)
  <2>1. program \in {"message", "retry", "primes", "rte", "clock"} BY DEF LaunchInv, Types
  <2> QED BY <2>1, EntryPoints, AppTexts
<1> DEFINE C == code'[c]
           h == Handler(lut.ecall) \o Rest(c)
           r == Rest(c)
           x == <<"exit">>
           n == entry_point
<1>8. \/ C = x \/ C = n \/ C = r
      \/ Op(c) = "ecall" /\ C = h
  BY <1>1
<1>9. Outside(x) /\ Outside(n) /\ Outside(r) /\ (Op(c) = "ecall" => Outside(h)) BY <1>4, <1>5, <1>6, <1>7
<1> HIDE DEF C, h, r, x, n
<1>10. Outside(C) BY <1>8, <1>9
<1> QED BY <1>3, <1>10 DEF C

\* The texts after a step inside a core, which is in no message.
LEMMA TextsInside ==
  ASSUME LaunchInv, Texts, NEW c \in Core, Inside(c)
  PROVE  /\ Texts'
         /\ program # "clock" => Away(c) /\ Away(c)'
<1>1. /\ Busy(c) /\ Op(c) \in Internal /\ code[c] \in Text /\ program' = program
      /\ code'[1 - c] = code[1 - c] /\ hart'[1 - c] = hart[1 - c]
      /\ Op(c) = "main_entry" => c = 1
      /\ \/ Op(c) = "available" /\ code'[c] = <<"exit">>
         \/ Op(c) = "ecall" /\ code'[c] = Handler(lut.ecall) \o Rest(c)
         \/ Op(c) = "main_entry" /\ boot.entry = main_core1 /\ code'[c] = entry_point
         \/ Op(c) # "ecall" /\ (Op(c) = "main_entry" => boot.entry # main_core1) /\ code'[c] = Rest(c)
  BY InsideMoves
<1>2. 1 - c \in Core /\ 1 - c # c /\ 1 - (1 - c) = c /\ \A d \in Core : d = c \/ d = 1 - c BY OtherCore
<1>3. ASSUME program # "clock", Op(c) = "ecall" => Handler(lut.ecall) = Handler("trap_handler_ecall")
      PROVE  Speech(code[0])' /\ Speech(code[1])' /\ Away(c) /\ Away(c)'
  <2>1. Speech(code[c]) /\ Speech(code[1 - c]) BY <1>2, <1>3 DEF Texts, Core
  <2>2. Outside(code[c]) /\ Outside(code'[c]) BY <1>3, <2>1, InsideOutside
  <2>3. Away(c) BY <2>2, AwayText
  <2>4. Away(c)' /\ Speech(code[c])' BY <1>1, <2>2, AwayNext
  <2>5. Speech(code'[1 - c]) BY <1>1, <2>1
  <2>6. Speech(code[1 - c])' BY <1>1, <1>2, <2>5, SpeechNext
  <2> QED BY <1>2, <2>3, <2>4, <2>6 DEF Core
<1>4. CASE program = "rte"
  <2>1. Path(c) /\ Path(1 - c) BY <1>2, <1>4 DEF Texts, Core
  <2>2. Kept BY <1>4, <2>1, KeptInside
  <2>3. Path(c)' BY <1>4, <2>1, <2>2, PathInside
  <2>4. Path(1 - c)' BY <1>1, <1>2, <2>1, <2>2, PathOther
  <2>5. Op(c) = "ecall" => Handler(lut.ecall) = Handler("trap_handler_ecall") BY <1>4, <2>1, PathEcall, Handlers
  <2>6. Speech(code[0])' /\ Speech(code[1])' /\ Away(c) /\ Away(c)' BY <1>3, <1>4, <2>5
  <2> QED BY <1>1, <1>2, <1>4, <2>3, <2>4, <2>6 DEF Texts, Core
<1>5. CASE program \in {"message", "retry", "primes"}
  <2>1. /\ code[0] \in Seq(Shut) /\ code[1] \in Seq(Shut) /\ ~hart[0].on /\ (hart[1].on => Asleep)
    BY <1>5 DEF Texts
  <2>2. code[c] \in Seq(Shut) BY <2>1 DEF Core
  <2>3. Op(c) \in Shut /\ Rest(c) \in Seq(Shut) BY <1>1, <2>2 DEF Busy, Op, Rest
  <2>4. Op(c) \notin {"ecall", "on", "mret"} BY <2>3 DEF Shut
  <2>5. <<"exit">> \in Seq(Shut)
    <3>1. "exit" \in Shut BY MoreKinds
    <3> QED BY <3>1
  <2>6. code'[c] \in Seq(Shut)
    <3> DEFINE C == code'[c]
               r == Rest(c)
               x == <<"exit">>
               n == entry_point
    <3>1. C = x \/ C = n \/ C = r BY <1>1, <2>4
    <3>2. x \in Seq(Shut) /\ n \in Seq(Shut) /\ r \in Seq(Shut) BY <1>5, <2>3, <2>5, EntryPoints
    <3> HIDE DEF C, r, x, n
    <3>3. C \in Seq(Shut) BY <3>1, <3>2
    <3> QED BY <3>3 DEF C
  <2>7. code'[1 - c] \in Seq(Shut) BY <1>1, <1>2, <2>1 DEF Core
  <2>8. Speech(code[0])' /\ Speech(code[1])' /\ Away(c) /\ Away(c)' BY <1>3, <1>5, <2>4
  <2>9. ~hart'[0].on
    <3>1. CASE c = 0
      <4>1. Op(0) # "main_entry" BY <1>1, <3>1
      <4> QED BY <2>1, <2>4, <3>1, <4>1, InsideControl
    <3>2. CASE c = 1 BY <1>1, <2>1, <3>2
    <3> QED BY <3>1, <3>2 DEF Core
  <2>10. hart'[1].on => Asleep'
    <3>1. CASE c = 0
      <4>1. hart'[1] = hart[1] /\ code'[1] = code[1] BY <1>1, <3>1
      <4> QED BY <2>1, <4>1 DEF Asleep
    <3>2. CASE c = 1 /\ Op(1) = "main_entry"
      <4>1. \/ Asleep'
            \/ hart' = hart /\ ~hart[1].on
        BY <3>2, EntryInside
      <4> QED BY <4>1
    <3>3. CASE c = 1 /\ Op(1) # "main_entry"
      <4>1. hart'[1].on => hart[1].on BY <2>4, <3>3, InsideControl
      <4>2. ~hart[1].on BY <1>1, <2>1, <3>3 DEF Asleep, Busy
      <4> QED BY <4>1, <4>2
    <3> QED BY <3>1, <3>2, <3>3 DEF Core
  <2>11. code'[0] \in Seq(Shut) /\ code'[1] \in Seq(Shut) BY <1>2, <2>6, <2>7 DEF Core
  <2> QED BY <1>1, <1>5, <2>8, <2>9, <2>10, <2>11 DEF Texts
<1>6. CASE program = "clock"
  <2>1. code[1] \in Seq(WakeOps) /\ (hart[1].on => hart[1].mtvec = "wakeup") BY <1>6 DEF Texts
  <2>2. CASE c = 0
    <3>1. hart'[1] = hart[1] /\ code'[1] = code[1] BY <1>1, <2>2
    <3> QED BY <1>1, <1>6, <2>1, <3>1 DEF Texts
  <2>3. CASE c = 1
    <3>1. Op(1) \in WakeOps /\ Rest(1) \in Seq(WakeOps) BY <1>1, <2>1, <2>3 DEF Busy, Op, Rest
    <3>2. Op(1) = "main_entry" BY <1>1, <2>3, <3>1 DEF WakeOps, Internal
    <3>3. \/ Asleep'
          \/ code'[1] = entry_point /\ hart' = hart /\ ~hart[1].on
      BY <2>3, <3>2, EntryInside
    <3>4. <<>> \in Seq(WakeOps) OBVIOUS
    <3>5. ASSUME Asleep' PROVE code'[1] \in Seq(WakeOps) /\ (hart'[1].on => hart'[1].mtvec = "wakeup")
      BY <3>4, <3>5 DEF Asleep, __crt0_smp_setup
    <3>6. ASSUME code'[1] = entry_point, hart' = hart, ~hart[1].on
          PROVE  code'[1] \in Seq(WakeOps) /\ (hart'[1].on => hart'[1].mtvec = "wakeup")
      BY <1>6, <3>4, <3>6, EntryPoints
    <3>7. code'[1] \in Seq(WakeOps) /\ (hart'[1].on => hart'[1].mtvec = "wakeup") BY <3>3, <3>5, <3>6
    <3> QED BY <1>1, <1>6, <3>7 DEF Texts
  <2> QED BY <1>6, <2>2, <2>3 DEF Core
<1>7. program \in {"message", "retry", "primes", "rte", "clock"} BY DEF LaunchInv, Types
<1> QED BY <1>4, <1>5, <1>6, <1>7

\* The start-up code is in no message.
LEMMA WakeupText ==
  /\ __crt0_smp_wakeup \in Seq(WakeOps) /\ __crt0_smp_wakeup \in Seq(Shut) /\ Outside(__crt0_smp_wakeup)
  /\ Waking(__crt0_smp_wakeup)
<1>1. __crt0_smp_wakeup \in Seq(WakeOps)
  <2>1. {"wake_sp", "wake_entry", "wake_ack", "main_entry"} \subseteq WakeOps BY DEF WakeOps
  <2> QED BY <2>1 DEF __crt0_smp_wakeup
<1>2. __crt0_smp_wakeup \in Seq(Shut) /\ __crt0_smp_wakeup \in Seq(Calm) BY <1>1, KindSeqs
<1> QED BY <1>1, <1>2 DEF Outside, Waking

\* The texts after a trap, which is not taken in a message.
LEMMA TextsTrap ==
  ASSUME LaunchInv, Texts, NEW c \in Core, Trap(c)
  PROVE  /\ Texts'
         /\ program # "clock" => Away(c) /\ Away(c)'
<1>1. /\ hart[c].on /\ UNCHANGED <<program, lut>>
      /\ code'[1 - c] = code[1 - c] /\ hart'[1 - c] = hart[1 - c] /\ ~hart'[c].on
      /\ hart[c].mtvec = "wakeup" => code'[c] = __crt0_smp_wakeup /\ hart'[c].mtvec = "panic"
      /\ hart[c].mtvec # "wakeup" => \E i \in {"MTI", "MSI"} : code'[c] = Handler(lut[i]) \o code[c]
  BY TrapFrame DEF LaunchInv
<1>2. 1 - c \in Core /\ 1 - c # c /\ 1 - (1 - c) = c /\ \A d \in Core : d = c \/ d = 1 - c BY OtherCore
<1>3. ASSUME program # "clock", Outside(code[c]), Outside(code'[c])
      PROVE  Speech(code[0])' /\ Speech(code[1])' /\ Away(c) /\ Away(c)'
  <2>1. Speech(code[1 - c]) BY <1>2, <1>3 DEF Texts, Core
  <2>2. Away(c) BY <1>3, AwayText
  <2>3. Away(c)' /\ Speech(code[c])' BY <1>1, <1>3, AwayNext
  <2>4. Speech(code'[1 - c]) BY <1>1, <2>1
  <2>5. Speech(code[1 - c])' BY <1>1, <1>2, <2>4, SpeechNext
  <2> QED BY <1>2, <2>2, <2>3, <2>5 DEF Core
<1>4. ASSUME c = 1, Asleep PROVE Awake' /\ code'[1] = __crt0_smp_wakeup
  <2>1. hart[1].mtvec = "wakeup" BY <1>4 DEF Asleep, __crt0_smp_setup
  <2>2. code'[1] = __crt0_smp_wakeup /\ hart'[1].mtvec = "panic" /\ ~hart'[1].on BY <1>1, <1>4, <2>1
  <2> QED BY <2>2 DEF Awake, Waking
<1>5. Outside(<<>>)
  <2>1. <<>> \in Seq(Calm) OBVIOUS
  <2> QED BY <2>1 DEF Outside
<1>6. CASE program = "rte"
  <2>1. Path(c) /\ Path(1 - c) BY <1>2, <1>6 DEF Texts, Core
  <2>2. \/ code[c] = <<>> /\ Installed({"MTI", "MSI"})
        \/ c = 1 /\ Asleep
    <3>1. ~(c = 1 /\ Awake) BY <1>1 DEF Awake
    <3> QED BY <1>1, <2>1, <3>1 DEF Path
  <2>3. CASE c = 1 /\ Asleep
    <3>1. Awake' /\ code'[1] = __crt0_smp_wakeup BY <1>4, <2>3
    <3>2. Path(1)' BY <3>1 DEF Path
    <3>3. Kept BY <1>1, <2>3, KeptTable
    <3>4. Path(1 - c)' BY <1>1, <1>2, <2>1, <3>3, PathOther
    <3>5. Outside(code[c]) /\ Outside(code'[c]) BY <1>5, <2>3, <3>1, WakeupText DEF Asleep
    <3>6. Speech(code[0])' /\ Speech(code[1])' /\ Away(c) /\ Away(c)' BY <1>3, <1>6, <3>5
    <3>7. Path(0)' /\ Path(1)' BY <2>3, <3>2, <3>4
    <3> QED BY <1>1, <1>6, <3>6, <3>7 DEF Texts
  <2>4. CASE ~(c = 1 /\ Asleep)
    <3>1. code[c] = <<>> /\ Installed({"MTI", "MSI"}) BY <2>2, <2>4
    <3>2. hart[c].mtvec # "wakeup"
      <4>1. CASE c = 0 BY <4>1 DEF LaunchInv, Launcher
      <4>2. CASE c = 1
        <5>1. Asleep \/ Awake \/ Started BY DEF LaunchInv, Sleeper
        <5> QED BY <1>1, <2>4, <4>2, <5>1 DEF Awake, Started
      <4> QED BY <4>1, <4>2 DEF Core
    <3>3. PICK i \in {"MTI", "MSI"} : code'[c] = Handler(lut[i]) \o code[c] BY <1>1, <3>2
    <3>4. PICK n \in {"trap_handler_mtmi", "trap_handler_mswi"} : lut[i] = n BY <1>6, <3>1, Handlers
    <3>5. /\ Outside(Handler(n)) /\ Handler(n) \in Seq(Late) /\ Handler(n) \in Text
          /\ \E p \in Seq(Early) : Handler(n) = p \o <<"mret">>
      BY RteHandlers
    <3>6. code'[c] = Handler(n)
      <4> DEFINE h == Handler(n)
      <4>1. code'[c] = h \o <<>> /\ h \in Text BY <3>1, <3>3, <3>4, <3>5
      <4> HIDE DEF h
      <4>2. h \o <<>> = h BY <4>1, JoinFacts
      <4> QED BY <4>1, <4>2 DEF h
    <3>7. code[0] \in Seq(Late) => code'[0] \in Seq(Late)
      <4>1. CASE c = 0 BY <3>5, <3>6, <4>1
      <4>2. CASE c = 1 BY <1>1, <4>2
      <4> QED BY <4>1, <4>2 DEF Core
    <3>8. Kept BY <1>1, <3>7, KeptTable
    <3>9. Path(1 - c)' BY <1>1, <1>2, <2>1, <3>8, PathOther
    <3>10. \E p \in Seq(Early) : code'[c] = p \o <<"mret">> BY <3>5, <3>6
    <3>11. Ahead(c, <<"mret">>)' BY <3>10, AheadNext
    <3>12. Installed({"MTI", "MSI"})' BY <3>1, <3>8, KeptStages
    <3>13. Path(c)' BY <1>1, <3>11, <3>12 DEF Path, Way
    <3>14. Outside(code[c]) /\ Outside(code'[c]) BY <1>5, <3>1, <3>5, <3>6
    <3>15. Speech(code[0])' /\ Speech(code[1])' /\ Away(c) /\ Away(c)' BY <1>3, <1>6, <3>14
    <3> QED BY <1>1, <1>2, <1>6, <3>9, <3>13, <3>15 DEF Texts, Core
  <2> QED BY <2>3, <2>4
<1>7. CASE program \in {"message", "retry", "primes"}
  <2>1. /\ code[0] \in Seq(Shut) /\ code[1] \in Seq(Shut) /\ ~hart[0].on /\ (hart[1].on => Asleep)
    BY <1>7 DEF Texts
  <2>2. c = 1 /\ Asleep BY <1>1, <2>1 DEF Core
  <2>3. code'[1] = __crt0_smp_wakeup BY <1>4, <2>2
  <2>4. Outside(code[c]) /\ Outside(code'[c]) BY <1>5, <2>2, <2>3, WakeupText DEF Asleep
  <2>5. Speech(code[0])' /\ Speech(code[1])' /\ Away(c) /\ Away(c)' BY <1>3, <1>7, <2>4
  <2>6. code'[1] \in Seq(Shut) BY <2>3, WakeupText
  <2>7. code'[0] = code[0] /\ hart'[0] = hart[0] /\ ~hart'[1].on BY <1>1, <2>2
  <2> QED BY <1>1, <1>7, <2>1, <2>5, <2>6, <2>7 DEF Texts
<1>8. CASE program = "clock"
  <2>1. code[1] \in Seq(WakeOps) /\ (hart[1].on => hart[1].mtvec = "wakeup") BY <1>8 DEF Texts
  <2>2. CASE c = 0
    <3>1. hart'[1] = hart[1] /\ code'[1] = code[1] BY <1>1, <2>2
    <3> QED BY <1>1, <1>8, <2>1, <3>1 DEF Texts
  <2>3. CASE c = 1
    <3>1. code'[1] = __crt0_smp_wakeup /\ ~hart'[1].on BY <1>1, <2>1, <2>3
    <3>2. code'[1] \in Seq(WakeOps) BY <3>1, WakeupText
    <3> QED BY <1>1, <1>8, <3>1, <3>2 DEF Texts
  <2> QED BY <1>8, <2>2, <2>3 DEF Core
<1>9. program \in {"message", "retry", "primes", "rte", "clock"} BY DEF LaunchInv, Types
<1> QED BY <1>6, <1>7, <1>8, <1>9

\* The inductive invariant: the texts, and the lock or, where core 1 never
\* writes, the author of the line.
VoiceInv ==
  /\ Texts
  /\ program # "clock" => Lock
  /\ program = "clock" => line \in {<<>>, <<0>>}

\* A core that speaks does so with the operations of a message.
LEMMA SpeechTalk ==
  ASSUME NEW s, Speech(s), s # <<>>
  PROVE  Head(s) \in Talk
<1>1. CASE Outside(s)
  <2>1. \/ Head(s) \in Calm
        \/ Head(s) = IF program = "rte" THEN "lock_swap" ELSE "lock_lr"
    BY <1>1, OutsideText
  <2> QED BY <2>1 DEF Talk
<1>2. CASE Section(s)
  <2>1. Head(s) \in {"lock_sc", "char", "unlock_swap", "unlock_lr", "unlock_sc"} BY <1>2, SectionTurns
  <2> QED BY <2>1 DEF Talk
<1> QED BY <1>1, <1>2 DEF Speech

\* A core starts an access.
LEMMA VoiceStrobe ==
  ASSUME LaunchInv, VoiceInv, NEW c \in Core, Strobe(c)
  PROVE  VoiceInv'
<1>1. UNCHANGED <<program, code, hart, lut>> /\ Busy(c) BY DEF Strobe
<1>2. Texts' BY <1>1, TextsSame DEF VoiceInv
<1>3. ASSUME program # "clock" PROVE Lock'
  <2>1. Speech(code[c]) BY <1>3 DEF VoiceInv, Texts, Core
  <2>2. Op(c) \in Talk BY <1>1, <2>1, SpeechTalk DEF Busy, Op
  <2> QED BY <1>3, <2>2, LockStrobe DEF VoiceInv
<1>4. ASSUME program = "clock" PROVE line' \in {<<>>, <<0>>}
  <2>1. IF Op(c) = "char" THEN Putc(c) ELSE UNCHANGED line BY DEF Strobe
  <2>2. line \in {<<>>, <<0>>} BY <1>4 DEF VoiceInv
  <2>3. CASE c = 0
    <3>1. Len(<<>>) = 0 /\ Len(<<0>>) = 1 /\ <<0>>[1] = 0 OBVIOUS
    <3> QED BY <2>1, <2>2, <2>3, <3>1 DEF Putc
  <2>4. CASE c = 1
    <3>1. code[1] \in Seq(WakeOps) /\ code[1] # <<>> BY <1>1, <1>4, <2>4 DEF VoiceInv, Texts, Busy
    <3>2. Op(1) \in WakeOps BY <3>1 DEF Op
    <3>3. Op(1) # "char" BY <3>2 DEF WakeOps
    <3> QED BY <2>1, <2>2, <2>4, <3>3
  <2> QED BY <2>3, <2>4 DEF Core
<1> QED BY <1>1, <1>2, <1>3, <1>4 DEF VoiceInv

\* A core gets an answer.
LEMMA VoiceAnswer ==
  ASSUME LaunchInv, VoiceInv, NEW c \in Core, Answer(c)
  PROVE  VoiceInv'
<1>1. program' = program /\ line' = line /\ Busy(c)
  <2>1. Busy(c) BY AnswerMoves
  <2> QED BY <2>1 DEF Answer
<1>2. Texts' BY TextsAnswer DEF VoiceInv
<1>3. ASSUME program # "clock" PROVE Lock'
  <2>1. Speech(code[c]) BY <1>3 DEF VoiceInv, Texts, Core
  <2>2. Op(c) \in Talk BY <1>1, <2>1, SpeechTalk DEF Busy, Op
  <2>3. Led(c) BY <2>1, AnswerTurn
  <2> QED BY <1>3, <2>2, <2>3, LockAnswer DEF VoiceInv
<1> QED BY <1>1, <1>2, <1>3 DEF VoiceInv

\* A core does a step without access.
LEMMA VoiceInside ==
  ASSUME LaunchInv, VoiceInv, NEW c \in Core, Inside(c)
  PROVE  VoiceInv'
<1>1. /\ UNCHANGED <<rvsVars, program, bus, mem, line>> /\ bus.id # c /\ code'[1 - c] = code[1 - c]
  BY InsideMoves
<1>2. Texts' /\ (program # "clock" => Away(c) /\ Away(c)') BY TextsInside DEF VoiceInv
<1>3. UNCHANGED <<rsv, sc_pend_pass, sc_pend_fail>> BY <1>1 DEF rvsVars
<1>4. program # "clock" => Lock' BY <1>1, <1>2, <1>3, LockAside DEF VoiceInv
<1> QED BY <1>1, <1>2, <1>4 DEF VoiceInv

\* A core is interrupted.
LEMMA VoiceTrap ==
  ASSUME LaunchInv, VoiceInv, NEW c \in Core, Trap(c)
  PROVE  VoiceInv'
<1>1. UNCHANGED <<rvsVars, program, bus, mem, line>> /\ bus.id # c BY DEF Trap
<1>2. code'[1 - c] = code[1 - c] BY TrapFrame DEF LaunchInv
<1>3. Texts' /\ (program # "clock" => Away(c) /\ Away(c)') BY TextsTrap DEF VoiceInv
<1>4. UNCHANGED <<rsv, sc_pend_pass, sc_pend_fail>> BY <1>1 DEF rvsVars
<1>5. program # "clock" => Lock' BY <1>1, <1>2, <1>3, <1>4, LockAside DEF VoiceInv
<1> QED BY <1>1, <1>3, <1>5 DEF VoiceInv

\* The clock ticks, or nothing happens.
LEMMA VoiceTick ==
  ASSUME VoiceInv, Tick \/ UNCHANGED vars
  PROVE  VoiceInv'
<1>1. UNCHANGED <<rvsVars, softVars>> BY DEF Tick, vars
<1>2. UNCHANGED <<program, code, hart, lut, bus, mem, line, rsv, sc_pend_pass, sc_pend_fail>>
  BY <1>1 DEF rvsVars, softVars
<1>3. Texts' BY <1>2, TextsSame DEF VoiceInv
<1>4. ASSUME Lock PROVE Lock'
  <2>1. ASSUME NEW d \in Core
        PROVE  /\ (Holding(d)' <=> Holding(d)) /\ (Middle(d)' <=> Middle(d)) /\ (Reserved(d)' <=> Reserved(d))
               /\ \A o : (At(d, o)' <=> At(d, o)) /\ (Asked(d, o)' <=> Asked(d, o))
    <3>1. /\ \A o : (At(d, o)' <=> At(d, o)) /\ (Asked(d, o)' <=> Asked(d, o))
      BY <1>2 DEF Asked, At, Busy, Op
    <3>2. (First(d)' <=> First(d)) /\ (Last(d)' <=> Last(d)) BY <1>2 DEF First, Last, At, Busy, Op, Rest
    <3>3. (Holding(d)' <=> Holding(d)) /\ (Reserved(d)' <=> Reserved(d)) /\ (Middle(d)' <=> Middle(d))
      BY <1>2, <3>1, <3>2 DEF Holding, Reserved, Middle
    <3> QED BY <3>1, <3>3
  <2>2. Reservation' BY <1>2, <1>4 DEF Lock, Reservation
  <2>3. ASSUME NEW d \in Core PROVE Held(d)'
    <3>1. Held(d) BY <1>4 DEF Lock, Core
    <3>2. 1 - d \in Core BY OtherCore
    <3> QED BY <1>2, <2>1, <3>1, <3>2 DEF Held
  <2>4. line' \in {<<>>, <<0>>, <<1>>} /\ \A d \in Core : line' = <<d>> <=> Middle(d)'
    BY <1>2, <1>4, <2>1 DEF Lock
  <2> QED BY <2>2, <2>3, <2>4 DEF Lock, Core
<1> QED BY <1>2, <1>3, <1>4 DEF VoiceInv

\* The invariant of the messages holds initially.
LEMMA VoiceInit ==
  ASSUME Init
  PROVE  VoiceInv
<1> USE DEF Init, Core
<1>1. program \in {"message", "retry", "primes", "rte", "clock"} BY DualCoreAssumption
<1>2. code[0] = main /\ code[1] = <<>> /\ bus.id = 2 /\ line = <<>> BY DEF Idle
<1>3. hart[0] = [on |-> FALSE, mie |-> {}, mtvec |-> "panic"] /\ hart[1] = __crt0_smp_setup OBVIOUS
<1>4. Asleep BY <1>2, <1>3 DEF Asleep
<1>5. Outside(<<>>) /\ <<>> \in Seq(Shut) /\ <<>> \in Seq(WakeOps)
  <2>1. <<>> \in Seq(Calm) OBVIOUS
  <2> QED BY <2>1 DEF Outside
<1>6. program \in {"message", "retry", "primes"} => main \in Seq(Shut) /\ Outside(main)
  <2>1. program \in {"message", "retry"} => main = main_message BY DEF main
  <2>2. program = "primes" => main = main_primes BY DEF main
  <2>3. main_message \in Seq(Shut) /\ Outside(main_message) BY MessageTexts
  <2>4. main_primes \in Seq(Shut) /\ Outside(main_primes)
    <3>1. main_primes \in Seq(Shut) /\ main_primes \in Seq(Calm) BY PrimesTexts, KindSeqs
    <3> QED BY <3>1 DEF Outside
  <2> DEFINE m == main
  <2> HIDE DEF m
  <2>5. program \in {"message", "retry", "primes"} => m \in Seq(Shut) /\ Outside(m)
    BY <2>1, <2>2, <2>3, <2>4 DEF m
  <2> QED BY <2>5 DEF m
<1>7. program = "rte" => Outside(main) /\ \E p \in Seq(Early) : main = p \o Installing1
  <2>1. program = "rte" => main = main_rte BY DEF main
  <2> QED BY <2>1, AppTexts
<1>8. program = "rte" => Path(0) /\ Path(1)
  <2>1. program = "rte" => Ahead(0, Installing1) BY <1>2, <1>7 DEF Ahead
  <2>2. ~hart[0].on BY <1>3
  <2> QED BY <1>4, <2>1, <2>2 DEF Path, Way
<1>9. program # "clock" => Outside(code[0]) /\ Outside(code[1]) BY <1>1, <1>2, <1>5, <1>6, <1>7
<1>10. Texts
  <2>1. ~hart[0].on /\ hart[1].mtvec = "wakeup" BY <1>3 DEF __crt0_smp_setup
  <2>2. program \in {"message", "retry", "primes"} => code[0] \in Seq(Shut) /\ code[1] \in Seq(Shut)
    BY <1>2, <1>5, <1>6
  <2>3. code[1] \in Seq(WakeOps) BY <1>2, <1>5
  <2> QED BY <1>1, <1>4, <1>8, <1>9, <2>1, <2>2, <2>3 DEF Texts, Speech
<1>11. ASSUME program # "clock" PROVE Lock
  <2>1. Away(0) /\ Away(1) BY <1>9, <1>11, AwayText
  <2>2. \A c \in Core : ~Holding(c) /\ ~Middle(c) /\ ~At(c, "lock_sc") /\ \A o : ~Asked(c, o)
    BY <1>2, <2>1, AwayFacts
  <2>3. Reservation
    <3>1. rsv = [set |-> FALSE, id |-> 0, addr |-> Granule("locked")] BY DEF RvsInit
    <3> QED BY <3>1 DEF Reservation
  <2>4. Held(0) /\ Held(1) BY <2>2 DEF Held
  <2>5. line \in {<<>>, <<0>>, <<1>>} /\ \A c \in Core : line = <<c>> <=> Middle(c)
    <3>1. line = <<>> BY <1>2
    <3>2. <<>> # <<0>> /\ <<>> # <<1>> OBVIOUS
    <3> QED BY <2>2, <3>1, <3>2
  <2> QED BY <2>3, <2>4, <2>5 DEF Lock
<1> QED BY <1>2, <1>10, <1>11 DEF VoiceInv

\* Every step keeps it.
LEMMA VoiceNext ==
  ASSUME LaunchInv, VoiceInv, [Next]_vars
  PROVE  VoiceInv'
<1>1. CASE Tick \/ UNCHANGED vars BY <1>1, VoiceTick
<1>2. ASSUME NEW c \in Core, Step(c) PROVE VoiceInv'
  BY <1>2, VoiceStrobe, VoiceAnswer, VoiceInside, VoiceTrap DEF Step
<1> QED BY <1>1, <1>2 DEF Next

\* It implies that no message is mixed.
LEMMA VoiceWhole ==
  ASSUME VoiceInv
  PROVE  MessagesWhole
<1>1. line \in {<<>>, <<0>>, <<1>>} BY DEF VoiceInv, Lock
<1>2. \A a : DOMAIN <<a>> = {1} /\ <<a>>[1] = a OBVIOUS
<1>3. CASE line = <<>>
  <2>1. DOMAIN line = {} BY <1>3
  <2> QED BY <2>1 DEF MessagesWhole
<1>4. CASE line \in {<<0>>, <<1>>}
  <2>1. PICK a : line = <<a>> BY <1>4
  <2>2. DOMAIN line = {1} BY <1>2, <2>1
  <2> QED BY <2>2 DEF MessagesWhole
<1> QED BY <1>1, <1>3, <1>4

\* The divisors of a number.
Divisors(n) == {d \in 1 .. n : n % d = 0}

\* Divisible means a multiple.
LEMMA Division ==
  ASSUME NEW n \in Nat, NEW d \in Nat \ {0}
  PROVE  n % d = 0 <=> \E q \in Nat : n = d * q
<1>1. ASSUME n % d = 0 PROVE \E q \in Nat : n = d * q
  <2>1. n = (d * (n \div d)) + (n % d) /\ n \div d \in Int BY Z3
  <2>2. n \div d >= 0 BY Z3
  <2> DEFINE q == n \div d
             r == n % d
  <2>3. n = (d * q) + r /\ r = 0 /\ q \in Nat /\ d \in Nat BY <1>1, <2>1, <2>2
  <2> HIDE DEF q, r
  <2>4. d * q \in Nat BY <2>3
  <2>5. n = d * q BY <2>3, <2>4
  <2> QED BY <2>3, <2>5
<1>2. ASSUME NEW q \in Nat, n = d * q PROVE n % d = 0
  BY <1>2, Z3
<1> QED BY <1>1, <1>2

\* What is_prime accepts has the divisors 1 and itself.
LEMMA PrimeDivisors ==
  ASSUME NEW n \in Nat, is_prime(n)
  PROVE  Divisors(n) = {1, n} /\ n # 1 /\ n \in Nat \ {0}
<1>1. n >= 2 /\ \A i \in 2 .. n : i * i <= n => n % i # 0 BY DEF is_prime
<1>2. 1 \in Divisors(n) /\ n \in Divisors(n)
  <2>1. n = 1 * n /\ n = n * 1 OBVIOUS
  <2>2. n % 1 = 0 /\ n % n = 0 BY <1>1, <2>1, Division
  <2> QED BY <1>1, <2>2 DEF Divisors
<1>3. ASSUME NEW d \in Divisors(n), d # 1, d # n PROVE FALSE
  <2>1. d \in Nat /\ 2 <= d /\ d < n /\ n % d = 0 BY <1>3 DEF Divisors
  <2>2. PICK q \in Nat : n = d * q BY <2>1, Division
  <2>3. q >= 2 /\ q <= n
    <3>1. q # 0 /\ q # 1 BY <1>1, <2>1, <2>2
    <3>2. q * 1 <= q * d BY <2>1, <2>2, <3>1
    <3> QED BY <2>1, <2>2, <3>1, <3>2
  <2>4. CASE d <= q
    <3>1. d * d <= d * q BY <2>1, <2>3, <2>4
    <3> QED BY <1>1, <2>1, <2>2, <3>1
  <2>5. CASE q <= d
    <3>1. q * q <= d * q BY <2>1, <2>3, <2>5
    <3>2. n = q * d BY <2>1, <2>2
    <3>3. n % q = 0 BY <2>1, <2>3, <3>2, Division
    <3> QED BY <1>1, <2>2, <2>3, <3>1, <3>3
  <2> QED BY <2>1, <2>4, <2>5
<1> QED BY <1>1, <1>2, <1>3

\* What it refuses is 1 or has another one.
LEMMA OtherDivisors ==
  ASSUME NEW n \in Nat \ {0}, ~is_prime(n)
  PROVE  n = 1 \/ \E i \in Divisors(n) : i # 1 /\ i # n /\ 1 # n
<1>1. CASE n >= 2
  <2>1. PICK i \in 2 .. n : i * i <= n /\ n % i = 0 BY <1>1 DEF is_prime
  <2>2. i < n
    <3>1. 2 * i <= i * i BY <2>1
    <3> QED BY <2>1, <3>1
  <2>3. i \in Divisors(n) /\ i # 1 /\ i # n /\ 1 # n BY <1>1, <2>1, <2>2 DEF Divisors
  <2> QED BY <2>3
<1>2. CASE n = 1 BY <1>2
<1> QED BY <1>1, <1>2

\* is_prime accepts the numbers with two divisors.
LEMMA PrimeNumber ==
  ASSUME NEW n \in Nat \ {0}
  PROVE  is_prime(n) <=> Cardinality(Divisors(n)) = 2
<1>1. IsFiniteSet(Divisors(n)) /\ 1 \in Divisors(n) /\ n \in Divisors(n)
  <2>1. IsFiniteSet(1 .. n) BY FS_Interval
  <2>2. Divisors(n) \in SUBSET (1 .. n) BY DEF Divisors
  <2>3. n = 1 * n /\ n = n * 1 OBVIOUS
  <2>4. n % 1 = 0 /\ n % n = 0 BY <2>3, Division
  <2>5. IsFiniteSet(Divisors(n)) BY <2>1, <2>2, FS_Subset
  <2> QED BY <2>4, <2>5 DEF Divisors
<1>2. \A a, b : a # b => IsFiniteSet({a, b}) /\ Cardinality({a, b}) = 2
  <2> TAKE a, b
  <2>1. IsFiniteSet({a}) /\ Cardinality({a}) = 1 BY FS_Singleton
  <2>2. IsFiniteSet({a} \cup {b}) /\ Cardinality({a} \cup {b}) = IF b \in {a} THEN 1 ELSE 1 + 1
    BY <2>1, FS_AddElement
  <2>3. {a, b} = {a} \cup {b} OBVIOUS
  <2> QED BY <2>2, <2>3
<1>3. ASSUME is_prime(n) PROVE Cardinality(Divisors(n)) = 2
  <2>1. Divisors(n) = {1, n} /\ n # 1 BY <1>3, PrimeDivisors
  <2> QED BY <1>2, <2>1
<1>4. ASSUME ~is_prime(n) PROVE Cardinality(Divisors(n)) # 2
  <2>1. CASE n = 1
    <3>1. Divisors(n) = {1} BY <1>1, <2>1 DEF Divisors
    <3> QED BY <3>1, FS_Singleton
  <2>2. CASE \E i \in Divisors(n) : i # 1 /\ i # n /\ 1 # n
    <3>1. PICK i \in Divisors(n) : i # 1 /\ i # n /\ 1 # n BY <2>2
    <3> DEFINE P == {1, n}
    <3>2. IsFiniteSet(P) /\ Cardinality(P) = 2 /\ i \notin P BY <1>2, <3>1
    <3> HIDE DEF P
    <3>3. Cardinality(P \cup {i}) = 3 BY <3>2, FS_AddElement
    <3>4. P \cup {i} \in SUBSET Divisors(n) BY <1>1, <3>1 DEF P
    <3>5. Cardinality(P \cup {i}) <= Cardinality(Divisors(n)) BY <1>1, <3>4, FS_Subset
    <3>6. Cardinality(Divisors(n)) \in Nat BY <1>1, FS_CardinalityType
    <3> QED BY <3>3, <3>5, <3>6
  <2> QED BY <1>4, <2>1, <2>2, OtherDivisors
<1> QED BY <1>3, <1>4

\* The prime numbers below N, counted in two parts.
LEMMA PrimesCounted ==
  ASSUME NEW N \in Nat
  PROVE  count_primes(0, N \div 2) + count_primes(N \div 2, N)
           = Cardinality({n \in 1 .. N - 1 : Cardinality({d \in 1 .. n : n % d = 0}) = 2})
<1> DEFINE h == N \div 2
           A == {i \in 0 .. h - 1 : is_prime(i)}
           B == {i \in h .. N - 1 : is_prime(i)}
           P == {n \in 1 .. N - 1 : Cardinality({d \in 1 .. n : n % d = 0}) = 2}
<1>1. h \in Nat /\ h <= N OBVIOUS
<1>2. IsFiniteSet(A) /\ IsFiniteSet(B)
  <2>1. IsFiniteSet(0 .. h - 1) /\ IsFiniteSet(h .. N - 1)
    <3> HIDE DEF h
    <3> QED BY <1>1, FS_Interval
  <2>2. A \in SUBSET (0 .. h - 1) /\ B \in SUBSET (h .. N - 1) OBVIOUS
  <2> HIDE DEF A, B
  <2> QED BY <2>1, <2>2, FS_Subset
<1>3. A \cap B = {}
  <2> HIDE DEF h
  <2> QED BY <1>1
<1>4. A \cup B = P
  <2>1. ~is_prime(0) BY DEF is_prime
  <2>2. \A n \in Nat \ {0} : is_prime(n) <=> Cardinality({d \in 1 .. n : n % d = 0}) = 2 BY PrimeNumber DEF Divisors
  <2>3. P = {n \in 1 .. N - 1 : is_prime(n)} BY <2>2
  <2>4. A \cup B = {n \in 0 .. N - 1 : is_prime(n)}
    <3> HIDE DEF h
    <3> QED BY <1>1
  <2>5. {n \in 0 .. N - 1 : is_prime(n)} = {n \in 1 .. N - 1 : is_prime(n)} BY <2>1
  <2> QED BY <2>3, <2>4, <2>5
<1>5. Cardinality(P) = Cardinality(A) + Cardinality(B)
  <2> HIDE DEF A, B, P
  <2>1. Cardinality(A \cup B) = Cardinality(A) + Cardinality(B) - Cardinality(A \cap B) BY <1>2, FS_Union
  <2>2. Cardinality(A \cap B) = 0 BY <1>3, FS_EmptySet
  <2>3. Cardinality(A) \in Nat /\ Cardinality(B) \in Nat BY <1>2, FS_CardinalityType
  <2>4. Cardinality(A \cup B) = Cardinality(P) BY <1>4
  <2> DEFINE a == Cardinality(A)
             b == Cardinality(B)
             p == Cardinality(P)
  <2>5. p = a + b - 0 /\ a \in Nat /\ b \in Nat BY <2>1, <2>2, <2>3, <2>4
  <2> HIDE DEF a, b, p
  <2>6. p = a + b BY <2>5
  <2> QED BY <2>6 DEF a, b, p
<1> QED BY <1>5 DEF count_primes

\* The program primes on core 0, from the first shared variable on, and on core 1.
Prep == {"rte_setup", "available"} \cup LaunchOps
Count0 == <<"arg0", "arg1", "run", "run_check", "sum", "exit">>
Count1 == <<"arg1", "run", "run_check", "sum", "exit">>
Count2 == <<"run", "run_check", "sum", "exit">>
Count3 == <<"run_check", "sum", "exit">>
Count4 == <<"sum", "exit">>
Finish == <<"exit">>
Part1 == <<"run_wait", "arg_beg", "arg_end", "result", "run_done", "exit">>
Part2 == <<"arg_beg", "arg_end", "result", "run_done", "exit">>
Part3 == <<"arg_end", "result", "run_done", "exit">>
Part4 == <<"result", "run_done", "exit">>
Part5 == <<"run_done", "exit">>
\* Where core 1 begins to count; what it finds.
Share == NUM_MAX \div 2
Theirs == count_primes(Share, NUM_MAX)
\* Core 0 before the shared variables, and given up; core 1 before it is to count,
\* at the end, and past the wait.
Opening == <<"available">> \o (astrarv32_smp_launch \o Count0)
Preparing ==
  \/ code[0] \in {main_primes, Opening} /\ launch.rc # 0
  \/ \E p \in Seq(LaunchOps) : code[0] = p \o Count0
GaveUp == code[0] \in {Finish, <<>>} /\ launch.rc # 0
Waiting == Asleep \/ Awake \/ code[1] \in {core1_entry, Part1}
Ended == code[1] \in {Finish, <<>>} /\ ~Asleep
Taken == code[1] \in {Part2, Part3, Part4, Part5} \/ Ended
\* Which shared variables are set.
RunSet == Asked(0, "run") \/ code[0] \in {Count3, Count4, Finish, <<>>}
Arg0Set == Asked(0, "arg0") \/ code[0] \in {Count1, Count2} \/ RunSet
Arg1Set == Asked(0, "arg1") \/ code[0] = Count2 \/ RunSet
ResultSet == Asked(1, "result") \/ code[1] = Part5 \/ Ended
DoneSet == Asked(1, "run_done") \/ Ended
\* The two cores hand over the range and the result: each reads what the other
\* stored for it.
Places ==
  /\ Preparing \/ code[0] \in {Count1, Count2, Count3, Count4, Finish, <<>>}
  /\ Waiting \/ Taken
Shared ==
  /\ mem.shared_run = IF RunSet /\ ~DoneSet THEN 1 ELSE 0
  /\ Arg0Set => mem.shared_arg0 = IF ResultSet THEN Theirs ELSE Share
  /\ Arg1Set => mem.shared_arg1 = NUM_MAX
OneCounts ==
  /\ Taken => RunSet
  /\ Asked(1, "run_wait") /\ bus.data # 0 => RunSet
  /\ Asked(1, "arg_beg") => bus.data = Share
  /\ code[1] \in {Part3, Part4} => loc[1].t = Share
  /\ Asked(1, "arg_end") => bus.data = NUM_MAX
  /\ code[1] = Part4 => loc[1].u = NUM_MAX
ZeroCounts ==
  /\ Asked(0, "run_check") /\ bus.data = 0 => DoneSet
  /\ code[0] \in {Count4, Finish, <<>>} => DoneSet
  /\ Asked(0, "sum") => bus.data = Theirs
  /\ code[0] \in {Finish, <<>>} => loc[0].u = count_primes(0, Share) + Theirs
Sharing == Places /\ Shared /\ OneCounts /\ ZeroCounts
-----------------------------------------------------------------------------
Parts == {core1_entry, Part1, Part2, Part3, Part4, Part5, Finish}

\* The texts, from each operation on; they differ.
LEMMA CountTexts ==
  /\ Count0 # <<>> /\ Head(Count0) = "arg0" /\ Tail(Count0) = Count1
  /\ Count1 # <<>> /\ Head(Count1) = "arg1" /\ Tail(Count1) = Count2
  /\ Count2 # <<>> /\ Head(Count2) = "run" /\ Tail(Count2) = Count3
  /\ Count3 # <<>> /\ Head(Count3) = "run_check" /\ Tail(Count3) = Count4
  /\ Count4 # <<>> /\ Head(Count4) = "sum" /\ Tail(Count4) = Finish
  /\ Finish # <<>> /\ Head(Finish) = "exit" /\ Tail(Finish) = <<>>
<1>1. Count0 # <<>> /\ Head(Count0) = "arg0" /\ Tail(Count0) = Count1 BY DEF Count0, Count1
<1>2. Count1 # <<>> /\ Head(Count1) = "arg1" /\ Tail(Count1) = Count2 BY DEF Count1, Count2
<1>3. Count2 # <<>> /\ Head(Count2) = "run" /\ Tail(Count2) = Count3 BY DEF Count2, Count3
<1>4. Count3 # <<>> /\ Head(Count3) = "run_check" /\ Tail(Count3) = Count4 BY DEF Count3, Count4
<1>5. Count4 # <<>> /\ Head(Count4) = "sum" /\ Tail(Count4) = Finish BY DEF Count4, Finish
<1>6. Finish # <<>> /\ Head(Finish) = "exit" /\ Tail(Finish) = <<>> BY DEF Finish
<1> QED BY <1>1, <1>2, <1>3, <1>4, <1>5, <1>6

\* The texts of core 1, from each operation on.
LEMMA PartTexts ==
  /\ core1_entry # <<>> /\ Head(core1_entry) = "rte_setup" /\ Tail(core1_entry) = Part1
  /\ Part1 # <<>> /\ Head(Part1) = "run_wait" /\ Tail(Part1) = Part2
  /\ Part2 # <<>> /\ Head(Part2) = "arg_beg" /\ Tail(Part2) = Part3
  /\ Part3 # <<>> /\ Head(Part3) = "arg_end" /\ Tail(Part3) = Part4
  /\ Part4 # <<>> /\ Head(Part4) = "result" /\ Tail(Part4) = Part5
  /\ Part5 # <<>> /\ Head(Part5) = "run_done" /\ Tail(Part5) = Finish
<1>1. core1_entry # <<>> /\ Head(core1_entry) = "rte_setup" /\ Tail(core1_entry) = Part1 BY DEF core1_entry, Part1
<1>2. Part1 # <<>> /\ Head(Part1) = "run_wait" /\ Tail(Part1) = Part2 BY DEF Part1, Part2
<1>3. Part2 # <<>> /\ Head(Part2) = "arg_beg" /\ Tail(Part2) = Part3 BY DEF Part2, Part3
<1>4. Part3 # <<>> /\ Head(Part3) = "arg_end" /\ Tail(Part3) = Part4 BY DEF Part3, Part4
<1>5. Part4 # <<>> /\ Head(Part4) = "result" /\ Tail(Part4) = Part5 BY DEF Part4, Part5
<1>6. Part5 # <<>> /\ Head(Part5) = "run_done" /\ Tail(Part5) = Finish BY DEF Part5, Finish
<1> QED BY <1>1, <1>2, <1>3, <1>4, <1>5, <1>6

\* The texts of core 0 differ.
LEMMA CountsDiffer ==
  /\ Count1 \notin {Count0, Count2, Count3, Count4, Finish, <<>>}
  /\ Count2 \notin {Count0, Count1, Count3, Count4, Finish, <<>>}
  /\ Count3 \notin {Count0, Count1, Count2, Count4, Finish, <<>>}
  /\ Count4 \notin {Count0, Count1, Count2, Count3, Finish, <<>>}
  /\ Finish \notin {Count0, Count1, Count2, Count3, Count4, <<>>}
  /\ Count0 # <<>>
BY CountTexts

\* The texts of core 1 differ.
LEMMA PartsDiffer ==
  /\ core1_entry \notin {Part1, Part2, Part3, Part4, Part5, Finish, <<>>}
  /\ Part1 \notin {core1_entry, Part2, Part3, Part4, Part5, Finish, <<>>}
  /\ Part2 \notin {core1_entry, Part1, Part3, Part4, Part5, Finish, <<>>}
  /\ Part3 \notin {core1_entry, Part1, Part2, Part4, Part5, Finish, <<>>}
  /\ Part4 \notin {core1_entry, Part1, Part2, Part3, Part5, Finish, <<>>}
  /\ Part5 \notin {core1_entry, Part1, Part2, Part3, Part4, Finish, <<>>}
  /\ Finish \notin {core1_entry, Part1, Part2, Part3, Part4, Part5, <<>>}
BY PartTexts, CountTexts

\* The texts of core 0 before it sets the shared variables.
LEMMA StartTexts ==
  /\ Count0 \in Text /\ LaunchOps \subseteq Operation /\ Seq(LaunchOps) \subseteq Text
  /\ astrarv32_smp_launch \in Seq(LaunchOps)
  /\ main_primes # <<>> /\ Head(main_primes) = "rte_setup" /\ Tail(main_primes) = Opening
  /\ Opening # <<>> /\ Head(Opening) = "available" /\ Tail(Opening) = astrarv32_smp_launch \o Count0
<1>1. LaunchOps \subseteq Operation BY DEF LaunchOps, Operation, AccessOps, Internal
<1>2. Seq(LaunchOps) \subseteq Text BY <1>1, SeqMonotonic DEF Text
<1>3. Count0 \in Text
  <2>1. {"arg0", "arg1", "run", "run_check", "sum", "exit"} \subseteq Operation BY DEF Operation, AccessOps, Internal
  <2> QED BY <2>1 DEF Text, Count0
<1>4. astrarv32_smp_launch \in Seq(LaunchOps)
  <2>1. __astrarv32_smp_boot \in Seq(LaunchOps) BY DEF __astrarv32_smp_boot, LaunchOps
  <2>2. <<"launch">> \in Seq(LaunchOps) BY DEF LaunchOps
  <2> QED BY <2>1, <2>2, JoinKinds DEF astrarv32_smp_launch
<1> DEFINE b == astrarv32_smp_launch
           a == <<"rte_setup", "available">>
           t == b \o Count0
<1>5. b \in Text BY <1>2, <1>4
<1>6. {"rte_setup", "available"} \subseteq Operation BY DEF Operation, Internal
<1>7. a \in Text /\ \A s \in Text : a \o s = Cons("rte_setup", <<"available">> \o s) BY <1>6, Literal2
<1>8. <<"available">> \in Text /\ \A s \in Text : <<"available">> \o s = Cons("available", s) BY <1>6, Literal1
<1>9. main_primes = (a \o b) \o Count0 BY DEF main_primes, Count0
<1>10. Opening = <<"available">> \o t BY DEF Opening
<1> HIDE DEF a, b
<1>11. a \in Text /\ b \in Text /\ Count0 \in Text BY <1>3, <1>5, <1>7
<1>12. (a \o b) \o Count0 = a \o (b \o Count0) BY <1>11, JoinThree, Z3
<1>13. t \in Text BY <1>11, JoinFacts
<1>14. main_primes = a \o t BY <1>9, <1>12
<1> HIDE DEF t
<1>15. Opening = Cons("available", t) BY <1>8, <1>10, <1>13
<1>16. main_primes = Cons("rte_setup", Opening) BY <1>7, <1>10, <1>13, <1>14
<1>17. Opening # <<>> /\ Head(Opening) = "available" /\ Tail(Opening) = t /\ Opening \in Text
  BY <1>6, <1>13, <1>15, ConsFacts
<1>18. main_primes # <<>> /\ Head(main_primes) = "rte_setup" /\ Tail(main_primes) = Opening
  BY <1>6, <1>16, <1>17, ConsFacts
<1> QED BY <1>1, <1>2, <1>3, <1>4, <1>17, <1>18 DEF t, b

\* Where core 0 is, told from its next operation.
LEMMA PrepSteps ==
  ASSUME Preparing
  PROVE  \/ /\ code[0] = main_primes /\ launch.rc # 0
            /\ Busy(0) /\ Op(0) = "rte_setup" /\ Rest(0) = Opening
         \/ /\ code[0] = Opening /\ launch.rc # 0
            /\ Busy(0) /\ Op(0) = "available" /\ Rest(0) = astrarv32_smp_launch \o Count0
         \/ Busy(0) /\ Op(0) \in LaunchOps /\ \E p \in Seq(LaunchOps) : Rest(0) = p \o Count0
         \/ code[0] = Count0
<1>1. CASE code[0] = main_primes /\ launch.rc # 0 BY <1>1, StartTexts DEF Busy, Op, Rest
<1>2. CASE code[0] = Opening /\ launch.rc # 0 BY <1>2, StartTexts DEF Busy, Op, Rest
<1>3. ASSUME NEW p \in Seq(LaunchOps), code[0] = p \o Count0
      PROVE  \/ Busy(0) /\ Op(0) \in LaunchOps /\ \E q \in Seq(LaunchOps) : Rest(0) = q \o Count0
             \/ code[0] = Count0
  <2>1. Count0 \in Text /\ p \in Text BY StartTexts
  <2>2. CASE p = <<>>
    <3>1. <<>> \o Count0 = Count0 BY <2>1, JoinFacts
    <3> QED BY <1>3, <2>2, <3>1
  <2>3. CASE p # <<>>
    <3>1. Head(p) \in LaunchOps /\ Tail(p) \in Seq(LaunchOps) BY <2>3
    <3>2. Head(p) \in Operation /\ Tail(p) \in Text /\ p = Cons(Head(p), Tail(p)) BY <2>1, <2>3, HeadTail
    <3> DEFINE h == Head(p)
               t == Tail(p)
    <3>3. h \in LaunchOps /\ t \in Seq(LaunchOps) /\ h \in Operation /\ t \in Text /\ p = Cons(h, t) BY <3>1, <3>2
    <3> HIDE DEF h, t
    <3>4. p \o Count0 = Cons(h, t \o Count0) BY <2>1, <3>3, JoinFacts
    <3>5. t \o Count0 \in Text BY <2>1, <3>3, JoinFacts
    <3>6. Head(Cons(h, t \o Count0)) = h /\ Tail(Cons(h, t \o Count0)) = t \o Count0 /\ Cons(h, t \o Count0) # <<>>
      BY <3>3, <3>5, ConsFacts
    <3>7. Op(0) = h /\ Rest(0) = t \o Count0 /\ Busy(0) BY <1>3, <3>4, <3>6 DEF Op, Rest, Busy
    <3> QED BY <3>3, <3>7
  <2> QED BY <2>2, <2>3
<1> QED BY <1>1, <1>2, <1>3 DEF Preparing

\* Before it sets the shared variables, core 0 accesses none of them.
LEMMA PrepTurn ==
  ASSUME Preparing
  PROVE  /\ Busy(0) /\ code[0] \notin {Count1, Count2, Count3, Count4, Finish, <<>>}
         /\ Op(0) \in Prep \/ code[0] = Count0
<1>1. CASE code[0] = Count0 BY <1>1, CountsDiffer DEF Busy
<1>2. CASE Busy(0) /\ Op(0) \in Prep
  <2>1. {"arg0", "arg1", "run", "run_check", "sum", "exit"} \cap Prep = {}
    BY DEF Prep, LaunchOps
  <2>2. code[0] \notin {Count1, Count2, Count3, Count4, Finish, <<>>} BY <1>2, <2>1, CountTexts DEF Busy, Op
  <2> QED BY <1>2, <2>2
<1> QED BY <1>1, <1>2, PrepSteps DEF Prep

\* The next operation of core 0 while it counts.
LEMMA ZeroTurn ==
  /\ code[0] = Count0 => Busy(0) /\ Op(0) = "arg0" /\ Rest(0) = Count1
  /\ code[0] = Count1 => Busy(0) /\ Op(0) = "arg1" /\ Rest(0) = Count2
  /\ code[0] = Count2 => Busy(0) /\ Op(0) = "run" /\ Rest(0) = Count3
  /\ code[0] = Count3 => Busy(0) /\ Op(0) = "run_check" /\ Rest(0) = Count4
  /\ code[0] = Count4 => Busy(0) /\ Op(0) = "sum" /\ Rest(0) = Finish
  /\ code[0] = Finish => Busy(0) /\ Op(0) = "exit" /\ Rest(0) = <<>>
BY CountTexts DEF Busy, Op, Rest

\* Which access core 0 is at tells its text.
LEMMA ZeroPlace ==
  ASSUME Preparing \/ code[0] \in {Count1, Count2, Count3, Count4, Finish, <<>>}
  PROVE  /\ At(0, "arg0") <=> code[0] = Count0
         /\ At(0, "arg1") <=> code[0] = Count1
         /\ At(0, "run") <=> code[0] = Count2
         /\ At(0, "run_check") <=> code[0] = Count3
         /\ At(0, "sum") <=> code[0] = Count4
<1>1. {"arg0", "arg1", "run", "run_check", "sum"} \cap Prep = {} BY DEF Prep, LaunchOps
<1>2. CASE Preparing
  <2>1. CASE code[0] = Count0 BY <2>1, ZeroTurn, CountsDiffer DEF At
  <2>2. CASE Op(0) \in Prep
    <3>1. code[0] # Count0 BY <1>1, <2>2, ZeroTurn
    <3>2. Op(0) \notin {"arg0", "arg1", "run", "run_check", "sum"} BY <1>1, <2>2
    <3> QED BY <1>2, <3>1, <3>2, PrepTurn DEF At
  <2> QED BY <1>2, <2>1, <2>2, PrepTurn
<1>3. CASE code[0] = <<>> BY <1>3, CountsDiffer DEF At, Busy
<1>4. CASE code[0] \in {Count1, Count2, Count3, Count4, Finish}
  <2>1. CASE code[0] = Count1 BY <2>1, ZeroTurn, CountsDiffer DEF At
  <2>2. CASE code[0] = Count2 BY <2>2, ZeroTurn, CountsDiffer DEF At
  <2>3. CASE code[0] = Count3 BY <2>3, ZeroTurn, CountsDiffer DEF At
  <2>4. CASE code[0] = Count4 BY <2>4, ZeroTurn, CountsDiffer DEF At
  <2>5. CASE code[0] = Finish BY <2>5, ZeroTurn, CountsDiffer DEF At
  <2> QED BY <1>4, <2>1, <2>2, <2>3, <2>4, <2>5
<1> QED BY <1>2, <1>3, <1>4

\* Where core 1 is.
LEMMA OneTurn ==
  /\ code[1] = core1_entry => Busy(1) /\ Op(1) = "rte_setup" /\ Rest(1) = Part1
  /\ code[1] = Part1 => Busy(1) /\ Op(1) = "run_wait" /\ Rest(1) = Part2
  /\ code[1] = Part2 => Busy(1) /\ Op(1) = "arg_beg" /\ Rest(1) = Part3
  /\ code[1] = Part3 => Busy(1) /\ Op(1) = "arg_end" /\ Rest(1) = Part4
  /\ code[1] = Part4 => Busy(1) /\ Op(1) = "result" /\ Rest(1) = Part5
  /\ code[1] = Part5 => Busy(1) /\ Op(1) = "run_done" /\ Rest(1) = Finish
  /\ code[1] = Finish => Busy(1) /\ Op(1) = "exit" /\ Rest(1) = <<>>
BY PartTexts, CountTexts DEF Busy, Op, Rest

\* Awake, core 1 has none of the texts of the program.
LEMMA AwakePlace ==
  ASSUME Awake
  PROVE  /\ Busy(1) /\ Op(1) \in WakeOps
         /\ code[1] \notin {core1_entry, Part1, Part2, Part3, Part4, Part5, Finish, <<>>}
<1>1. Busy(1) /\ Op(1) \in WakeOps BY AwakeText
<1>2. WakeOps \cap {"rte_setup", "run_wait", "arg_beg", "arg_end", "result", "run_done", "exit"} = {} BY DEF WakeOps
<1>3. code[1] \notin {core1_entry, Part1, Part2, Part3, Part4, Part5, Finish}
  BY <1>1, <1>2, OneTurn
<1> QED BY <1>1, <1>3 DEF Busy

\* Which access core 1 is at tells its text.
LEMMA OnePlace ==
  ASSUME Waiting \/ Taken
  PROVE  /\ ~(Waiting /\ Taken)
         /\ At(1, "run_wait") <=> code[1] = Part1
         /\ At(1, "arg_beg") <=> code[1] = Part2
         /\ At(1, "arg_end") <=> code[1] = Part3
         /\ At(1, "result") <=> code[1] = Part4
         /\ At(1, "run_done") <=> code[1] = Part5
<1>1. CASE Asleep
  <2>1. code[1] = <<>> BY <1>1 DEF Asleep
  <2>2. ~Taken BY <1>1, <2>1, PartsDiffer DEF Taken, Ended
  <2> QED BY <2>1, <2>2, PartsDiffer DEF At, Busy
<1>2. CASE Awake
  <2>1. /\ Busy(1) /\ Op(1) \in WakeOps
        /\ code[1] \notin {core1_entry, Part1, Part2, Part3, Part4, Part5, Finish, <<>>}
    BY <1>2, AwakePlace
  <2>2. WakeOps \cap {"run_wait", "arg_beg", "arg_end", "result", "run_done"} = {} BY DEF WakeOps
  <2>3. ~Taken BY <2>1 DEF Taken, Ended
  <2> QED BY <2>1, <2>2, <2>3 DEF At
<1>3. CASE ~Asleep /\ ~Awake /\ code[1] = <<>>
  <2>1. ~Waiting BY <1>3, PartsDiffer DEF Waiting
  <2> QED BY <1>3, <2>1, PartsDiffer DEF At, Busy
<1>4. CASE ~Asleep /\ ~Awake /\ code[1] \in Parts
  <2>1. ~(Waiting /\ Taken) BY <1>4, PartsDiffer DEF Waiting, Taken, Ended
  <2>2. CASE code[1] = core1_entry BY <2>1, <2>2, OneTurn, PartsDiffer DEF At
  <2>3. CASE code[1] = Part1 BY <2>1, <2>3, OneTurn, PartsDiffer DEF At
  <2>4. CASE code[1] = Part2 BY <2>1, <2>4, OneTurn, PartsDiffer DEF At
  <2>5. CASE code[1] = Part3 BY <2>1, <2>5, OneTurn, PartsDiffer DEF At
  <2>6. CASE code[1] = Part4 BY <2>1, <2>6, OneTurn, PartsDiffer DEF At
  <2>7. CASE code[1] = Part5 BY <2>1, <2>7, OneTurn, PartsDiffer DEF At
  <2>8. CASE code[1] = Finish BY <2>1, <2>8, OneTurn, PartsDiffer DEF At
  <2> QED BY <1>4, <2>2, <2>3, <2>4, <2>5, <2>6, <2>7, <2>8 DEF Parts
<1> QED BY <1>1, <1>2, <1>3, <1>4 DEF Waiting, Taken, Ended, Parts

\* The accesses of the program primes.
Counting == {"run_wait", "run_check", "run", "run_done", "arg_beg", "sum", "arg_end", "arg0", "arg1", "result"}

\* What the accesses of the program are.
LEMMA SharedAccess ==
  ASSUME NEW c \in Core
  PROVE  /\ Access(c, "run_wait") = Word("ld", "shared_run", 0) /\ Access(c, "run_check") = Word("ld", "shared_run", 0)
         /\ Access(c, "run") = Word("st", "shared_run", 1) /\ Access(c, "run_done") = Word("st", "shared_run", 0)
         /\ Access(c, "arg_beg") = Word("ld", "shared_arg0", 0) /\ Access(c, "sum") = Word("ld", "shared_arg0", 0)
         /\ Access(c, "arg_end") = Word("ld", "shared_arg1", 0)
         /\ Access(c, "arg0") = Word("st", "shared_arg0", Share) /\ Access(c, "arg1") = Word("st", "shared_arg1", NUM_MAX)
         /\ Access(c, "result") = Word("st", "shared_arg0", count_primes(loc[c].t, loc[c].u))
         /\ \A o \in (Prep \cup WakeOps) \cap AccessOps : Access(c, o).a \in {"mtimecmp", "mswi"} /\ Access(c, o).op # "sc"
<1>1. Access(c, "run_wait") = Word("ld", "shared_run", 0) BY DEF Access
<1>2. Access(c, "run_check") = Word("ld", "shared_run", 0) BY DEF Access
<1>3. Access(c, "run") = Word("st", "shared_run", 1) BY DEF Access
<1>4. Access(c, "run_done") = Word("st", "shared_run", 0) BY DEF Access
<1>5. Access(c, "arg_beg") = Word("ld", "shared_arg0", 0) BY DEF Access
<1>6. Access(c, "sum") = Word("ld", "shared_arg0", 0) BY DEF Access
<1>7. Access(c, "arg_end") = Word("ld", "shared_arg1", 0) BY DEF Access
<1>8. Access(c, "arg0") = Word("st", "shared_arg0", Share) BY DEF Access, Share
<1>9. Access(c, "arg1") = Word("st", "shared_arg1", NUM_MAX) BY DEF Access
<1>10. Access(c, "result") = Word("st", "shared_arg0", count_primes(loc[c].t, loc[c].u))
  <2> DEFINE n == count_primes(loc[c].t, loc[c].u)
  <2>1. Access(c, "result") = Word("st", "shared_arg0", n) BY DEF Access
  <2> QED BY <2>1
<1>11. \A o \in (Prep \cup WakeOps) \cap AccessOps :
         o \in {"boot_stack", "boot_entry", "msi_launch", "boot_poll", "wake_sp", "wake_entry", "wake_ack"}
  BY DEF Prep, LaunchOps, WakeOps, AccessOps
<1>12. Access(c, "boot_stack") = Clint("st", "mtimecmp", 1, "lo", StackTop) BY DEF Access
<1>13. Access(c, "boot_entry") = Clint("st", "mtimecmp", 1, "hi", IF launch.stage = 1 THEN crt0_entry ELSE main_core1)
  BY DEF Access
<1>14. Access(c, "msi_launch") = Clint("st", "mswi", 1, "lo", 1) BY DEF Access
<1>15. Access(c, "boot_poll") = Clint("ld", "mswi", 1, "lo", 0) BY DEF Access
<1>16. Access(c, "wake_sp") = Clint("ld", "mtimecmp", 1, "lo", 0) BY DEF Access
<1>17. Access(c, "wake_entry") = Clint("ld", "mtimecmp", 1, "hi", 0) BY DEF Access
<1>18. Access(c, "wake_ack") = Clint("st", "mswi", 1, "lo", 0) BY DEF Access
<1>19. ASSUME NEW o, NEW p, NEW a, NEW h, NEW f, NEW d, Access(c, o) = Clint(p, a, h, f, d), p \in {"ld", "st"},
              a \in {"mtimecmp", "mswi"}
       PROVE  Access(c, o).a \in {"mtimecmp", "mswi"} /\ Access(c, o).op # "sc"
  BY <1>19 DEF Clint
<1>20. \A o \in {"boot_stack", "boot_entry", "msi_launch", "boot_poll", "wake_sp", "wake_entry", "wake_ack"} :
         Access(c, o).a \in {"mtimecmp", "mswi"} /\ Access(c, o).op # "sc"
  <2>1. Access(c, "boot_stack").a \in {"mtimecmp", "mswi"} /\ Access(c, "boot_stack").op # "sc" BY <1>12, <1>19
  <2>2. Access(c, "boot_entry").a \in {"mtimecmp", "mswi"} /\ Access(c, "boot_entry").op # "sc" BY <1>13, <1>19
  <2>3. Access(c, "msi_launch").a \in {"mtimecmp", "mswi"} /\ Access(c, "msi_launch").op # "sc" BY <1>14, <1>19
  <2>4. Access(c, "boot_poll").a \in {"mtimecmp", "mswi"} /\ Access(c, "boot_poll").op # "sc" BY <1>15, <1>19
  <2>5. Access(c, "wake_sp").a \in {"mtimecmp", "mswi"} /\ Access(c, "wake_sp").op # "sc" BY <1>16, <1>19
  <2>6. Access(c, "wake_entry").a \in {"mtimecmp", "mswi"} /\ Access(c, "wake_entry").op # "sc" BY <1>17, <1>19
  <2>7. Access(c, "wake_ack").a \in {"mtimecmp", "mswi"} /\ Access(c, "wake_ack").op # "sc" BY <1>18, <1>19
  <2> QED BY <2>1, <2>2, <2>3, <2>4, <2>5, <2>6, <2>7
<1> QED BY <1>1, <1>2, <1>3, <1>4, <1>5, <1>6, <1>7, <1>8, <1>9, <1>10, <1>11, <1>20

\* A strobe of the program primes: the shared variables, and what is read.
LEMMA SharedStrobe ==
  ASSUME LaunchInv, NEW c \in Core, Strobe(c), Op(c) \in Counting \cup Prep \cup WakeOps
  PROVE  /\ bus.id = 2 /\ bus'.id = c /\ UNCHANGED <<program, code, hart, loc, launch>>
         /\ Op(c) \in {"run_wait", "run_check"} => bus'.data = mem.shared_run
         /\ Op(c) \in {"arg_beg", "sum"} => bus'.data = mem.shared_arg0
         /\ Op(c) = "arg_end" => bus'.data = mem.shared_arg1
         /\ mem'.shared_run = IF Op(c) = "run" THEN 1 ELSE IF Op(c) = "run_done" THEN 0 ELSE mem.shared_run
         /\ mem'.shared_arg0 = IF Op(c) = "arg0" THEN Share
                               ELSE IF Op(c) = "result" THEN count_primes(loc[c].t, loc[c].u) ELSE mem.shared_arg0
         /\ mem'.shared_arg1 = IF Op(c) = "arg1" THEN NUM_MAX ELSE mem.shared_arg1
<1> DEFINE r == Access(c, Op(c))
           req == [stb |-> TRUE, id |-> c, op |-> r.op, a |-> r.a, rw |-> r.op \in {"st", "sc", "swap"}]
           n == count_primes(loc[c].t, loc[c].u)
<1>1. /\ bus = Idle /\ Op(c) \notin Internal /\ bus' = [id |-> c, data |-> Read(r)]
      /\ mem' = IF Written(r, req) THEN [mem EXCEPT ![r.a] = r.data] ELSE mem
      /\ UNCHANGED <<program, code, hart, loc, launch>>
  BY DEF Strobe, BusFree
<1>2. bus.id = 2 /\ bus'.id = c /\ bus'.data = Read(r) BY <1>1 DEF Idle
<1>3. DOMAIN mem = {"locked", "shared_run", "shared_arg0", "shared_arg1"} BY DEF LaunchInv, Types
<1>4. Op(c) \in Counting \/ Op(c) \in (Prep \cup WakeOps) \cap AccessOps
  <2>1. Op(c) \in Operation
    <3>1. Counting \subseteq Operation /\ Prep \subseteq Operation /\ WakeOps \subseteq Operation
      BY DEF Counting, Prep, LaunchOps, WakeOps, Operation, AccessOps, Internal
    <3> QED BY <3>1
  <2> QED BY <1>1, <2>1 DEF Operation
<1> HIDE DEF r, req, n
<1>5. ASSUME NEW a \in {"shared_run", "shared_arg0", "shared_arg1"}, r = Word("ld", a, 0)
      PROVE  mem' = mem /\ bus'.data = mem[a]
  <2>1. r.op = "ld" /\ r.a = a BY <1>5 DEF Word
  <2>2. ~Written(r, req) BY <2>1 DEF Written
  <2>3. Read(r) = mem[a] BY <1>3, <2>1 DEF Read
  <2> QED BY <1>1, <1>2, <2>2, <2>3
<1>6. ASSUME NEW a \in {"shared_run", "shared_arg0", "shared_arg1"}, NEW d, r = Word("st", a, d)
      PROVE  mem' = [mem EXCEPT ![a] = d]
  <2>1. r.op = "st" /\ r.a = a /\ r.data = d BY <1>6 DEF Word
  <2>2. Written(r, req) BY <1>3, <2>1 DEF Written
  <2> QED BY <1>1, <2>1, <2>2
<1>7. CASE Op(c) \in {"run_wait", "run_check"}
  <2>1. r = Word("ld", "shared_run", 0) BY <1>7, SharedAccess DEF r
  <2>2. mem' = mem /\ bus'.data = mem.shared_run BY <1>5, <2>1
  <2> QED BY <1>1, <1>2, <1>7, <2>2
<1>8. CASE Op(c) \in {"arg_beg", "sum"}
  <2>1. r = Word("ld", "shared_arg0", 0) BY <1>8, SharedAccess DEF r
  <2>2. mem' = mem /\ bus'.data = mem.shared_arg0 BY <1>5, <2>1
  <2> QED BY <1>1, <1>2, <1>8, <2>2
<1>9. CASE Op(c) = "arg_end"
  <2>1. r = Word("ld", "shared_arg1", 0) BY <1>9, SharedAccess DEF r
  <2>2. mem' = mem /\ bus'.data = mem.shared_arg1 BY <1>5, <2>1
  <2> QED BY <1>1, <1>2, <1>9, <2>2
<1>10. CASE Op(c) = "run"
  <2>1. r = Word("st", "shared_run", 1) BY <1>10, SharedAccess DEF r
  <2>2. mem' = [mem EXCEPT !["shared_run"] = 1] BY <1>6, <2>1
  <2> QED BY <1>1, <1>2, <1>3, <1>10, <2>2
<1>11. CASE Op(c) = "run_done"
  <2>1. r = Word("st", "shared_run", 0) BY <1>11, SharedAccess DEF r
  <2>2. mem' = [mem EXCEPT !["shared_run"] = 0] BY <1>6, <2>1
  <2> QED BY <1>1, <1>2, <1>3, <1>11, <2>2
<1>12. CASE Op(c) = "arg0"
  <2>1. r = Word("st", "shared_arg0", Share) BY <1>12, SharedAccess DEF r
  <2>2. mem' = [mem EXCEPT !["shared_arg0"] = Share] BY <1>6, <2>1
  <2> QED BY <1>1, <1>2, <1>3, <1>12, <2>2
<1>13. CASE Op(c) = "arg1"
  <2>1. r = Word("st", "shared_arg1", NUM_MAX) BY <1>13, SharedAccess DEF r
  <2>2. mem' = [mem EXCEPT !["shared_arg1"] = NUM_MAX] BY <1>6, <2>1
  <2> QED BY <1>1, <1>2, <1>3, <1>13, <2>2
<1>14. CASE Op(c) = "result"
  <2>1. r = Word("st", "shared_arg0", n) BY <1>14, SharedAccess DEF r, n
  <2>2. mem' = [mem EXCEPT !["shared_arg0"] = n] BY <1>6, <2>1
  <2>3. mem'.shared_arg0 = n /\ mem'.shared_run = mem.shared_run /\ mem'.shared_arg1 = mem.shared_arg1 BY <1>3, <2>2
  <2> QED BY <1>1, <1>2, <1>14, <2>3 DEF n
<1>15. CASE Op(c) \in (Prep \cup WakeOps) \cap AccessOps
  <2>1. r.a \in {"mtimecmp", "mswi"} /\ r.op # "sc" BY <1>15, SharedAccess DEF r
  <2>2. ~Written(r, req) BY <1>3, <2>1 DEF Written
  <2>3. mem' = mem BY <1>1, <2>2
  <2>4. Counting \cap (Prep \cup WakeOps) = {} BY DEF Counting, Prep, LaunchOps, WakeOps
  <2>5. Op(c) \notin Counting BY <1>15, <2>4
  <2> QED BY <1>1, <1>2, <2>3, <2>5 DEF Counting
<1> QED BY <1>4, <1>7, <1>8, <1>9, <1>10, <1>11, <1>12, <1>13, <1>14, <1>15 DEF Counting

\* The accesses of the two cores, told from their texts.
PlaceZero ==
  /\ At(0, "arg0") <=> code[0] = Count0
  /\ At(0, "arg1") <=> code[0] = Count1
  /\ At(0, "run") <=> code[0] = Count2
  /\ At(0, "run_check") <=> code[0] = Count3
  /\ At(0, "sum") <=> code[0] = Count4
PlaceOne ==
  /\ ~(Waiting /\ Taken)
  /\ At(1, "run_wait") <=> code[1] = Part1
  /\ At(1, "arg_beg") <=> code[1] = Part2
  /\ At(1, "arg_end") <=> code[1] = Part3
  /\ At(1, "result") <=> code[1] = Part4
  /\ At(1, "run_done") <=> code[1] = Part5

\* Where the cores are is told by their accesses, and the other way round.
LEMMA PlacesTold ==
  Places => PlaceZero /\ PlaceOne
<1> SUFFICES ASSUME Places PROVE PlaceZero /\ PlaceOne OBVIOUS
<1>2. PlaceZero BY ZeroPlace DEF Places, PlaceZero
<1>3. PlaceOne BY OnePlace DEF Places, PlaceOne
<1> QED BY <1>2, <1>3

\* The same after a step.
LEMMA PlacesToldNext ==
  (Places => PlaceZero /\ PlaceOne)'
BY PlacesTold, PTL

\* Before the text is through, core 0 is in it.
LEMMA PreparingPlace ==
  Preparing => code[0] \notin {Count1, Count2, Count3, Count4, Finish, <<>>}
BY PrepTurn

\* The same after a step.
LEMMA PreparingPlaceNext ==
  (Preparing => code[0] \notin {Count1, Count2, Count3, Count4, Finish, <<>>})'
BY PreparingPlace, PTL

\* A strobe leaves the places of the two cores.
LEMMA PlacesStrobe ==
  ASSUME Places, UNCHANGED <<code, hart, launch>>
  PROVE  /\ Places' /\ (Preparing' <=> Preparing) /\ (Taken' <=> Taken) /\ (Ended' <=> Ended)
         /\ (Waiting' <=> Waiting)
<1>1. Preparing' <=> Preparing BY DEF Preparing, main_primes, astrarv32_smp_launch, Opening
<1>2. (Asleep' <=> Asleep) /\ (Awake' <=> Awake) BY DEF Asleep, Awake, Waking
<1>3. (Ended' <=> Ended) /\ (Waiting' <=> Waiting) BY <1>2 DEF Ended, Waiting, core1_entry
<1>4. Taken' <=> Taken BY <1>3 DEF Taken
<1> QED BY <1>1, <1>3, <1>4 DEF Places

\* The first and the last operation of core 0, before it counts.
LEMMA KindsDiffer ==
  /\ Prep \cap Counting = {} /\ WakeOps \cap Counting = {}
  /\ "exit" \notin Prep \cup Counting \cup WakeOps /\ "exit" \in Internal
BY DEF Prep, LaunchOps, Counting, WakeOps, Internal

\* Core 0 starts an access: it sets the range before it starts core 1, and
\* reads the result after the end.
LEMMA SharingStrobeZero ==
  ASSUME LaunchInv, Sharing, Strobe(0)
  PROVE  Sharing'
<1>1. Busy(0) /\ Op(0) \notin Internal BY DEF Strobe
<1>2. Places BY DEF Sharing
<1>3. code[0] \notin {Finish, <<>>} BY <1>1, ZeroTurn, KindsDiffer DEF Busy
<1>4. \/ code[0] \in {Count0, Count1, Count2, Count3, Count4}
      \/ Preparing /\ Op(0) \in Prep
  BY <1>2, <1>3, PrepTurn DEF Places
<1>5. Op(0) \in Counting \cup Prep \cup WakeOps
  BY <1>4, ZeroTurn DEF Counting
<1>6. 0 \in Core BY DEF Core
<1>7. /\ bus.id = 2 /\ bus'.id = 0 /\ UNCHANGED <<program, code, hart, loc, launch>>
      /\ Op(0) \in {"run_wait", "run_check"} => bus'.data = mem.shared_run
      /\ Op(0) \in {"arg_beg", "sum"} => bus'.data = mem.shared_arg0
      /\ Op(0) = "arg_end" => bus'.data = mem.shared_arg1
      /\ mem'.shared_run = IF Op(0) = "run" THEN 1 ELSE IF Op(0) = "run_done" THEN 0 ELSE mem.shared_run
      /\ mem'.shared_arg0 = IF Op(0) = "arg0" THEN Share
                            ELSE IF Op(0) = "result" THEN count_primes(loc[0].t, loc[0].u) ELSE mem.shared_arg0
      /\ mem'.shared_arg1 = IF Op(0) = "arg1" THEN NUM_MAX ELSE mem.shared_arg1
  BY <1>5, <1>6, SharedStrobe
<1>8. /\ Places' /\ (Preparing' <=> Preparing) /\ (Taken' <=> Taken) /\ (Ended' <=> Ended)
      /\ (Waiting' <=> Waiting)
  BY <1>2, <1>7, PlacesStrobe
<1>9. PlaceZero /\ PlaceOne /\ PlaceZero' /\ PlaceOne' BY <1>2, <1>8, PlacesTold, PlacesToldNext
<1>10. code[0] \in {Count0, Count1, Count2, Count3, Count4} \/ (Preparing /\ Op(0) \in Prep /\ code[0] # Count0)
  <2>1. CASE code[0] = Count0 BY <2>1
  <2> QED BY <1>4, <2>1
<1>11. Share' = Share /\ Theirs' = Theirs BY DEF Share, Theirs, count_primes
<1>12. CASE code[0] = Count0
  <2>1. Op(0) = "arg0" BY <1>12, ZeroTurn
  <2>2. Preparing /\ ~RunSet /\ ~Taken
    BY <1>7, <1>9, <1>12, CountsDiffer, PlacesTold DEF Places, Sharing, RunSet, OneCounts, Asked, PlaceZero
  <2>3. ~RunSet' /\ ~Taken' /\ ~DoneSet /\ ~DoneSet' /\ ~ResultSet' /\ ~ResultSet
    BY <1>7, <1>8, <1>9, <1>12, <2>2, CountsDiffer DEF RunSet, Taken, ResultSet, DoneSet, Asked, PlaceZero, PlaceOne
  <2> QED
    BY <1>7, <1>8, <1>9, <1>12, <2>1, <2>2, <2>3, CountsDiffer
    DEF Sharing, Shared, OneCounts, ZeroCounts, RunSet, Arg0Set, Arg1Set, Asked, PlaceZero, PlaceOne, Taken
<1>13. CASE code[0] = Count1
  <2>1. Op(0) = "arg1" BY <1>13, ZeroTurn
  <2>2. ~RunSet /\ ~Taken
    BY <1>7, <1>9, <1>13, CountsDiffer DEF Sharing, RunSet, OneCounts, Asked, PlaceZero
  <2>3. ~RunSet' /\ ~Taken' /\ ~DoneSet /\ ~DoneSet' /\ ~ResultSet' /\ ~ResultSet
    BY <1>7, <1>8, <1>9, <1>13, <2>2, CountsDiffer DEF RunSet, Taken, ResultSet, DoneSet, Asked, PlaceZero, PlaceOne
  <2> QED
    BY <1>7, <1>8, <1>9, <1>13, <2>1, <2>2, <2>3, CountsDiffer
    DEF Sharing, Shared, OneCounts, ZeroCounts, RunSet, Arg0Set, Arg1Set, Asked, PlaceZero, PlaceOne, Taken
<1>14. CASE code[0] = Count2
  <2>1. Op(0) = "run" BY <1>14, ZeroTurn
  <2>2. ~RunSet /\ ~Taken
    BY <1>7, <1>9, <1>14, CountsDiffer DEF Sharing, RunSet, OneCounts, Asked, PlaceZero
  <2>3. RunSet' /\ ~Taken' /\ ~DoneSet /\ ~DoneSet' /\ ~ResultSet' /\ ~ResultSet
    BY <1>7, <1>8, <1>9, <1>14, <2>2, CountsDiffer DEF RunSet, Taken, ResultSet, DoneSet, Asked, PlaceZero, PlaceOne
  <2> QED
    BY <1>7, <1>8, <1>9, <1>14, <2>1, <2>2, <2>3, CountsDiffer
    DEF Sharing, Shared, OneCounts, ZeroCounts, Arg0Set, Arg1Set, Asked, PlaceZero, PlaceOne, Taken
<1>15. CASE code[0] = Count3
  <2>1. Op(0) = "run_check" BY <1>15, ZeroTurn
  <2>2. RunSet /\ RunSet' BY <1>7, <1>15 DEF RunSet
  <2>3. (DoneSet' <=> DoneSet) /\ (ResultSet' <=> ResultSet)
    BY <1>7, <1>8 DEF ResultSet, DoneSet, Asked
  <2>4. bus'.data = 0 => DoneSet' BY <1>7, <2>1, <2>2, <2>3 DEF Sharing, Shared
  <2> QED
    BY <1>7, <1>8, <1>9, <1>15, <2>1, <2>2, <2>3, <2>4, CountsDiffer
    DEF Sharing, Shared, OneCounts, ZeroCounts, Arg0Set, Arg1Set, Asked, PlaceZero, PlaceOne, Taken
<1>16. CASE code[0] = Count4
  <2>1. Op(0) = "sum" BY <1>16, ZeroTurn
  <2>2. RunSet /\ RunSet' BY <1>7, <1>16 DEF RunSet
  <2>3. (DoneSet' <=> DoneSet) /\ (ResultSet' <=> ResultSet)
    BY <1>7, <1>8 DEF ResultSet, DoneSet, Asked
  <2>4. DoneSet /\ Arg0Set BY <1>16, <2>2 DEF Sharing, ZeroCounts, Arg0Set
  <2>5. ResultSet BY <1>7, <2>4 DEF DoneSet, ResultSet, Asked
  <2>6. bus'.data = Theirs BY <1>7, <2>1, <2>4, <2>5 DEF Sharing, Shared
  <2> QED
    BY <1>7, <1>8, <1>9, <1>11, <1>16, <2>1, <2>2, <2>3, <2>4, <2>6, CountsDiffer
    DEF Sharing, Shared, OneCounts, ZeroCounts, Arg0Set, Arg1Set, Asked, PlaceZero, PlaceOne, Taken
<1>17. CASE Preparing /\ Op(0) \in Prep /\ code[0] # Count0
  <2>1. code[0] \notin {Count0, Count1, Count2, Count3, Count4, Finish, <<>>} BY <1>17, PreparingPlace
  <2>2. UNCHANGED <<mem.shared_run, mem.shared_arg0, mem.shared_arg1>>
    BY <1>7, <1>17, KindsDiffer DEF Counting
  <2>3. ~RunSet /\ ~Taken
    BY <1>7, <1>9, <2>1 DEF Sharing, RunSet, OneCounts, Asked, PlaceZero
  <2>4. ~RunSet' /\ ~Arg0Set' /\ ~Arg1Set' /\ ~Taken' /\ ~DoneSet /\ ~DoneSet'
    BY <1>7, <1>8, <1>9, <2>1, <2>3
    DEF RunSet, Arg0Set, Arg1Set, Taken, ResultSet, DoneSet, Asked, PlaceZero, PlaceOne
  <2> QED
    BY <1>7, <1>8, <1>9, <2>1, <2>2, <2>3, <2>4
    DEF Sharing, Shared, OneCounts, ZeroCounts, Asked, PlaceZero, PlaceOne, Taken
<1> QED BY <1>10, <1>12, <1>13, <1>14, <1>15, <1>16, <1>17

\* Core 1 starts an access: it reads the range core 0 set, and stores the result
\* before it signals the end.
LEMMA SharingStrobeOne ==
  ASSUME LaunchInv, Sharing, Strobe(1)
  PROVE  Sharing'
<1>1. Busy(1) /\ Op(1) \notin Internal BY DEF Strobe
<1>2. Places BY DEF Sharing
<1>3. "rte_setup" \in Internal BY DEF Internal
<1>4. code[1] \notin {core1_entry, Finish, <<>>} BY <1>1, <1>3, OneTurn, KindsDiffer DEF Busy
<1>5. \/ code[1] \in {Part1, Part2, Part3, Part4, Part5}
      \/ Awake /\ Op(1) \in WakeOps /\ code[1] \notin {core1_entry, Part1, Part2, Part3, Part4, Part5, Finish, <<>>}
  BY <1>2, <1>4, AwakePlace DEF Places, Waiting, Taken, Ended, Asleep
<1>6. Op(1) \in Counting \cup Prep \cup WakeOps
  BY <1>5, OneTurn DEF Counting
<1>7. 1 \in Core BY DEF Core
<1>8. /\ bus.id = 2 /\ bus'.id = 1 /\ UNCHANGED <<program, code, hart, loc, launch>>
      /\ Op(1) \in {"run_wait", "run_check"} => bus'.data = mem.shared_run
      /\ Op(1) \in {"arg_beg", "sum"} => bus'.data = mem.shared_arg0
      /\ Op(1) = "arg_end" => bus'.data = mem.shared_arg1
      /\ mem'.shared_run = IF Op(1) = "run" THEN 1 ELSE IF Op(1) = "run_done" THEN 0 ELSE mem.shared_run
      /\ mem'.shared_arg0 = IF Op(1) = "arg0" THEN Share
                            ELSE IF Op(1) = "result" THEN count_primes(loc[1].t, loc[1].u) ELSE mem.shared_arg0
      /\ mem'.shared_arg1 = IF Op(1) = "arg1" THEN NUM_MAX ELSE mem.shared_arg1
  BY <1>6, <1>7, SharedStrobe
<1>9. /\ Places' /\ (Preparing' <=> Preparing) /\ (Taken' <=> Taken) /\ (Ended' <=> Ended)
      /\ (Waiting' <=> Waiting)
  BY <1>2, <1>8, PlacesStrobe
<1>10. PlaceZero /\ PlaceOne /\ PlaceZero' /\ PlaceOne' BY <1>2, <1>9, PlacesTold, PlacesToldNext
<1>11. Share' = Share /\ Theirs' = Theirs BY DEF Share, Theirs, count_primes
\* What core 0 has set stays set.
<1>12. (RunSet' <=> RunSet) /\ (Arg0Set' <=> Arg0Set) /\ (Arg1Set' <=> Arg1Set)
  BY <1>8 DEF RunSet, Arg0Set, Arg1Set, Asked
<1>13. RunSet => Arg0Set /\ Arg1Set BY DEF Arg0Set, Arg1Set
<1>14. (DoneSet <=> Ended) /\ (DoneSet' <=> Ended \/ code[1] = Part5)
  BY <1>8, <1>9, <1>10 DEF DoneSet, Asked, PlaceOne
<1>15. (ResultSet <=> code[1] = Part5 \/ Ended) /\ (ResultSet' <=> code[1] \in {Part4, Part5} \/ Ended)
  BY <1>8, <1>9, <1>10 DEF ResultSet, Asked, PlaceOne
<1>16. ~Ended BY <1>4 DEF Ended
<1>17. CASE code[1] = Part1
  <2>1. Op(1) = "run_wait" BY <1>17, OneTurn
  <2>2. ~Taken BY <1>16, <1>17, PartsDiffer DEF Taken
  <2>3. bus'.data # 0 => RunSet BY <1>8, <2>1 DEF Sharing, Shared
  <2> QED
    BY <1>8, <1>9, <1>10, <1>12, <1>13, <1>14, <1>15, <1>16, <1>17, <2>1, <2>2, <2>3, PartsDiffer
    DEF Sharing, Shared, OneCounts, ZeroCounts, Asked, PlaceZero, PlaceOne
<1>18. CASE code[1] = Part2
  <2>1. Op(1) = "arg_beg" BY <1>18, OneTurn
  <2>2. Taken /\ RunSet BY <1>18 DEF Taken, Sharing, OneCounts
  <2>3. bus'.data = Share BY <1>8, <1>13, <1>15, <1>16, <1>18, <2>1, <2>2, PartsDiffer DEF Sharing, Shared
  <2> QED
    BY <1>8, <1>9, <1>10, <1>11, <1>12, <1>13, <1>14, <1>15, <1>16, <1>18, <2>1, <2>2, <2>3, PartsDiffer
    DEF Sharing, Shared, OneCounts, ZeroCounts, Asked, PlaceZero, PlaceOne
<1>19. CASE code[1] = Part3
  <2>1. Op(1) = "arg_end" BY <1>19, OneTurn
  <2>2. Taken /\ RunSet BY <1>19 DEF Taken, Sharing, OneCounts
  <2>3. bus'.data = NUM_MAX BY <1>8, <1>13, <2>1, <2>2 DEF Sharing, Shared
  <2> QED
    BY <1>8, <1>9, <1>10, <1>11, <1>12, <1>13, <1>14, <1>15, <1>16, <1>19, <2>1, <2>2, <2>3, PartsDiffer
    DEF Sharing, Shared, OneCounts, ZeroCounts, Asked, PlaceZero, PlaceOne
<1>20. CASE code[1] = Part4
  <2>1. Op(1) = "result" BY <1>20, OneTurn
  <2>2. Taken /\ RunSet BY <1>20 DEF Taken, Sharing, OneCounts
  <2>3. loc[1].t = Share /\ loc[1].u = NUM_MAX BY <1>20 DEF Sharing, OneCounts
  <2>4. mem'.shared_arg0 = Theirs BY <1>8, <2>1, <2>3 DEF Theirs
  <2> QED
    BY <1>8, <1>9, <1>10, <1>11, <1>12, <1>13, <1>14, <1>15, <1>16, <1>20, <2>1, <2>2, <2>3, <2>4, PartsDiffer
    DEF Sharing, Shared, OneCounts, ZeroCounts, Asked, PlaceZero, PlaceOne
<1>21. CASE code[1] = Part5
  <2>1. Op(1) = "run_done" BY <1>21, OneTurn
  <2>2. Taken /\ RunSet BY <1>21 DEF Taken, Sharing, OneCounts
  <2> QED
    BY <1>8, <1>9, <1>10, <1>11, <1>12, <1>13, <1>14, <1>15, <1>16, <1>21, <2>1, <2>2, PartsDiffer
    DEF Sharing, Shared, OneCounts, ZeroCounts, Asked, PlaceZero, PlaceOne
<1>22. CASE /\ Awake /\ Op(1) \in WakeOps
            /\ code[1] \notin {core1_entry, Part1, Part2, Part3, Part4, Part5, Finish, <<>>}
  <2>1. ~Taken BY <1>16, <1>22 DEF Taken
  <2>2. UNCHANGED <<mem.shared_run, mem.shared_arg0, mem.shared_arg1>>
    BY <1>8, <1>22, KindsDiffer DEF Counting
  <2> QED
    BY <1>8, <1>9, <1>10, <1>11, <1>12, <1>13, <1>14, <1>15, <1>16, <1>22, <2>1, <2>2
    DEF Sharing, Shared, OneCounts, ZeroCounts, Asked, PlaceZero, PlaceOne
<1> QED BY <1>5, <1>17, <1>18, <1>19, <1>20, <1>21, <1>22

\* Each core has its local variables.
Slots == DOMAIN loc = Core /\ \A c \in Core : DOMAIN loc[c] = {"t", "u", "time", "target"}

\* One local variable is set.
LEMMA SlotExcept ==
  ASSUME Slots, NEW c \in Core, NEW f \in {"t", "u", "time", "target"}, NEW d, loc' = [loc EXCEPT ![c][f] = d]
  PROVE  /\ Slots' /\ loc'[c][f] = d /\ loc'[1 - c] = loc[1 - c]
         /\ \A g \in {"t", "u", "time", "target"} : g # f => loc'[c][g] = loc[c][g]
<1>1. DOMAIN loc = Core /\ DOMAIN loc[c] = {"t", "u", "time", "target"} BY DEF Slots
<1>2. 1 - c \in Core /\ 1 - c # c BY OtherCore
<1>3. DOMAIN loc' = Core BY <1>1
<1>4. loc'[c] = [loc[c] EXCEPT ![f] = d] BY <1>1
<1>5. \A x \in Core : x # c => loc'[x] = loc[x] BY <1>1
<1>6. DOMAIN loc'[c] = {"t", "u", "time", "target"} BY <1>1, <1>4
<1>7. \A x \in Core : DOMAIN loc'[x] = {"t", "u", "time", "target"} BY <1>5, <1>6 DEF Slots
<1>8. Slots' BY <1>3, <1>7 DEF Slots
<1>9. loc'[c][f] = d /\ \A g \in {"t", "u", "time", "target"} : g # f => loc'[c][g] = loc[c][g] BY <1>1, <1>4
<1> QED BY <1>2, <1>5, <1>8, <1>9

\* What an answer leaves in the local variables.
LEMMA AnswerLocals ==
  ASSUME LaunchInv, Slots, NEW c \in Core, Answer(c)
  PROVE  /\ Slots' /\ loc'[1 - c] = loc[1 - c]
         /\ Op(c) = "arg_beg" => loc'[c].t = bus.data /\ loc'[c].u = loc[c].u
         /\ Op(c) = "arg_end" => loc'[c].u = bus.data /\ loc'[c].t = loc[c].t
         /\ Op(c) = "sum" => loc'[c].u = count_primes(0, Share) + bus.data
         /\ Op(c) \notin {"get_hi", "get_lo", "cmp_get_lo", "cmp_get_hi", "arg_beg", "arg_end", "sum"} => loc' = loc
<1> DEFINE data == response([data |-> bus.data]).data
           n == count_primes(0, Share) + data
<1>1. Locals(c, data) BY DEF Answer
<1>2. Op(c) \notin {"lock_sc", "unlock_sc"} => data = bus.data BY AnswerFrame DEF LaunchInv
<1> HIDE DEF data
<1>3. CASE Op(c) = "get_hi"
  <2>1. loc' = [loc EXCEPT ![c]["t"] = data] BY <1>1, <1>3 DEF Locals
  <2> QED BY <1>3, <2>1, SlotExcept
<1>4. CASE Op(c) = "get_lo"
  <2> DEFINE v == loc[c].t * Half + data
  <2>1. loc' = [loc EXCEPT ![c]["time"] = v] BY <1>1, <1>4 DEF Locals
  <2> HIDE DEF v
  <2> QED BY <1>4, <2>1, SlotExcept
<1>5. CASE Op(c) = "cmp_get_lo"
  <2>1. loc' = [loc EXCEPT ![c]["u"] = data] BY <1>1, <1>5 DEF Locals
  <2> QED BY <1>5, <2>1, SlotExcept
<1>6. CASE Op(c) = "cmp_get_hi"
  <2> DEFINE v == data * Half + loc[c].u
  <2>1. loc' = [loc EXCEPT ![c]["time"] = v] BY <1>1, <1>6 DEF Locals
  <2> HIDE DEF v
  <2> QED BY <1>6, <2>1, SlotExcept
<1>7. CASE Op(c) = "arg_beg"
  <2>1. loc' = [loc EXCEPT ![c]["t"] = data] BY <1>1, <1>7 DEF Locals
  <2>2. Slots' /\ loc'[c].t = data /\ loc'[1 - c] = loc[1 - c] /\ loc'[c].u = loc[c].u BY <2>1, SlotExcept
  <2> QED BY <1>2, <1>7, <2>2
<1>8. CASE Op(c) = "arg_end"
  <2>1. loc' = [loc EXCEPT ![c]["u"] = data] BY <1>1, <1>8 DEF Locals
  <2>2. Slots' /\ loc'[c].u = data /\ loc'[1 - c] = loc[1 - c] /\ loc'[c].t = loc[c].t BY <2>1, SlotExcept
  <2> QED BY <1>2, <1>8, <2>2
<1>9. CASE Op(c) = "sum"
  <2>1. loc' = [loc EXCEPT ![c]["u"] = n] BY <1>1, <1>9 DEF Locals, Share
  <2> HIDE DEF n
  <2>2. Slots' /\ loc'[c].u = n /\ loc'[1 - c] = loc[1 - c] BY <2>1, SlotExcept
  <2>3. n = count_primes(0, Share) + bus.data BY <1>2, <1>9 DEF n
  <2> QED BY <1>9, <2>2, <2>3
<1>10. CASE Op(c) \notin {"get_hi", "get_lo", "cmp_get_lo", "cmp_get_hi", "arg_beg", "arg_end", "sum"}
  <2>1. loc' = loc BY <1>1, <1>10 DEF Locals
  <2>2. Slots' BY <2>1 DEF Slots
  <2> QED BY <1>10, <2>1, <2>2
<1> QED BY <1>3, <1>4, <1>5, <1>6, <1>7, <1>8, <1>9, <1>10

\* An answer before core 0 sets the shared variables: it goes on, asks once
\* more, launches the second time, or gives up.
LEMMA AnswerPrep ==
  ASSUME LaunchInv, program = "primes", Preparing, Op(0) \in Prep, Answer(0)
  PROVE  Preparing' \/ GaveUp'
<1>1. Clints /\ Types /\ Results BY DEF LaunchInv
<1>2. 0 \in Core BY DEF Core
<1>3. code \in [Core -> Text] BY <1>1 DEF Types
<1>4. Op(0) \in AccessOps BY <1>1, <1>2, AnswerFrame
<1>5. PICK p \in Seq(LaunchOps) : Rest(0) = p \o Count0
  <2>1. code[0] # Count0 BY ZeroTurn, KindsDiffer DEF Counting
  <2>2. Op(0) \notin {"rte_setup", "available"} BY <1>4 DEF AccessOps
  <2> QED BY <2>1, <2>2, PrepSteps
<1>6. ASSUME NEW q \in Seq(LaunchOps), code'[0] = q \o Count0 PROVE Preparing'
  BY <1>6 DEF Preparing
<1>7. CASE Op(0) \in {"boot_stack", "boot_entry", "msi_launch"}
  <2>1. code' = [code EXCEPT ![0] = Rest(0)] BY <1>1, <1>7, AnswerPlain
  <2>2. code'[0] = Rest(0) BY <1>2, <1>3, <2>1
  <2> QED BY <1>5, <1>6, <2>2
<1>8. CASE Op(0) = "boot_poll"
  <2>1. Polled(bus.data) BY <1>1, <1>8, AnswerPoll
  <2>2. CASE code' = code
    <3>1. code[0] \notin {main_primes, Opening} BY <1>4, StartTexts DEF Op, AccessOps
    <3> QED BY <2>2, <3>1 DEF Preparing
  <2>3. CASE code' = Done(0)
    <3>1. code'[0] = Rest(0) BY <1>2, <1>3, <2>3 DEF Done
    <3> QED BY <1>5, <1>6, <3>1
  <2>4. CASE code' = Again(0, __astrarv32_smp_boot)
    <3> DEFINE b == __astrarv32_smp_boot
               x == b \o Rest(0)
    <3>1. code' = [code EXCEPT ![0] = x] BY <2>4 DEF Again
    <3>2. x = b \o (p \o Count0) BY <1>5
    <3>3. b \in Seq(LaunchOps) BY DEF __astrarv32_smp_boot, LaunchOps
    <3>4. Seq(LaunchOps) \subseteq Text BY StartTexts
    <3>5. Count0 \in Text BY StartTexts
    <3> HIDE DEF b
    <3>6. b \in Text /\ p \in Text /\ Count0 \in Text BY <3>3, <3>4, <3>5
    <3>7. (b \o p) \o Count0 = b \o (p \o Count0) BY <3>6, JoinThree, Z3
    <3>8. b \o p \in Seq(LaunchOps) BY <3>3, JoinKinds
    <3> HIDE DEF x
    <3>9. code'[0] = x BY <1>2, <1>3, <3>1
    <3> QED BY <1>6, <3>2, <3>7, <3>8, <3>9
  <2>5. CASE launch' = [launch EXCEPT !.rc = -2] /\ code' = [code EXCEPT ![0] = <<"exit">>]
    <3>1. code'[0] = Finish BY <1>2, <1>3, <2>5 DEF Finish
    <3>2. launch = [stage |-> launch.stage, polls |-> launch.polls, rc |-> launch.rc, tries |-> launch.tries]
      BY <1>1 DEF Types
    <3>3. launch'.rc = -2 BY <2>5, <3>2
    <3> QED BY <3>1, <3>3 DEF GaveUp
  <2> QED BY <2>1, <2>2, <2>3, <2>4, <2>5 DEF Polled
<1> QED BY <1>4, <1>7, <1>8 DEF Prep, LaunchOps, AccessOps

\* What a step of core 0 leaves of the place of core 1.
LEMMA OneStays ==
  ASSUME code'[1] = code[1], hart'[1] = hart[1]
  PROVE  /\ (Taken' <=> Taken) /\ (Ended' <=> Ended) /\ (Waiting' <=> Waiting) /\ (Asleep' <=> Asleep)
<1>1. (Asleep' <=> Asleep) /\ (Awake' <=> Awake) BY DEF Asleep, Awake, Waking
<1>2. (Ended' <=> Ended) /\ (Waiting' <=> Waiting) BY <1>1 DEF Ended, Waiting, core1_entry
<1>3. Taken' <=> Taken BY <1>2 DEF Taken
<1> QED BY <1>1, <1>2, <1>3

\* The answer to core 0: it goes on only past the end of core 1's part, and adds
\* the result it read.
LEMMA SharingAnswerZero ==
  ASSUME LaunchInv, Slots, program = "primes", Sharing, Answer(0)
  PROVE  GaveUp' \/ Sharing'
<1>1. Clints /\ Types /\ Results BY DEF LaunchInv
<1>2. 0 \in Core /\ 1 \in Core /\ 1 - 0 = 1 BY DEF Core
<1>3. Places BY DEF Sharing
<1>4. /\ bus.id = 0 /\ bus' = Idle /\ Busy(0) /\ Op(0) \in AccessOps
      /\ UNCHANGED <<program, hart, mem, lut>>
  BY <1>1, <1>2, AnswerFrame
<1>5. bus'.id = 2 BY <1>4 DEF Idle
<1>6. code'[1] = code[1] BY <1>2, AnswerMoves
<1>7. hart'[1] = hart[1] BY <1>4
<1>8. /\ (Taken' <=> Taken) /\ (Ended' <=> Ended) /\ (Waiting' <=> Waiting)
  BY <1>6, <1>7, OneStays
<1>9. "exit" \notin AccessOps BY DEF AccessOps
<1>10. code[0] \notin {Finish, <<>>} BY <1>4, <1>9, ZeroTurn DEF Busy
<1>11. \/ code[0] \in {Count0, Count1, Count2, Count3, Count4}
       \/ Preparing /\ Op(0) \in Prep /\ code[0] # Count0
  <2>1. CASE code[0] = Count0 BY <2>1
  <2> QED BY <1>3, <1>10, <2>1, PrepTurn DEF Places
<1>12. /\ Slots' /\ loc'[1] = loc[1]
       /\ Op(0) = "sum" => loc'[0].u = count_primes(0, Share) + bus.data
  BY <1>2, AnswerLocals
<1>13. Share' = Share /\ Theirs' = Theirs /\ count_primes(0, Share)' = count_primes(0, Share)
  BY DEF Share, Theirs, count_primes
<1>14. PlaceZero /\ PlaceOne BY <1>3, PlacesTold
<1>15. Places' => PlaceZero' /\ PlaceOne' BY PlacesToldNext
<1>16. (DoneSet' <=> Ended) /\ (DoneSet <=> Ended) BY <1>4, <1>5, <1>8 DEF DoneSet, Asked
<1>17. (ResultSet' <=> ResultSet) BY <1>4, <1>5, <1>6, <1>8 DEF ResultSet, Asked
<1>18. \A o : ~Asked(1, o)' /\ ~Asked(0, o)' BY <1>5 DEF Asked
<1>19. CASE code[0] = Count0
  <2>1. code'[0] = Count1 BY <1>2, <1>19, AnswerExact, ZeroTurn
  <2>2. Places' BY <1>3, <1>8, <2>1 DEF Places
  <2>3. ~RunSet /\ ~RunSet' /\ ~Arg1Set' /\ Arg0Set
    BY <1>4, <1>14, <1>18, <1>19, <2>1, CountsDiffer DEF RunSet, Arg0Set, Arg1Set, Asked, PlaceZero
  <2>4. ~Taken BY <2>3 DEF Sharing, OneCounts
  <2> QED
    BY <1>4, <1>6, <1>8, <1>12, <1>13, <1>16, <1>17, <1>18, <2>1, <2>2, <2>3, <2>4, CountsDiffer
    DEF Sharing, Shared, OneCounts, ZeroCounts, Taken
<1>20. CASE code[0] = Count1
  <2>1. code'[0] = Count2 BY <1>2, <1>20, AnswerExact, ZeroTurn
  <2>2. Places' BY <1>3, <1>8, <2>1 DEF Places
  <2>3. ~RunSet /\ ~RunSet' /\ Arg1Set /\ Arg0Set
    BY <1>4, <1>14, <1>18, <1>20, <2>1, CountsDiffer DEF RunSet, Arg0Set, Arg1Set, Asked, PlaceZero
  <2>4. ~Taken BY <2>3 DEF Sharing, OneCounts
  <2> QED
    BY <1>4, <1>6, <1>8, <1>12, <1>13, <1>16, <1>17, <1>18, <2>1, <2>2, <2>3, <2>4, CountsDiffer
    DEF Sharing, Shared, OneCounts, ZeroCounts, Taken
<1>21. CASE code[0] = Count2
  <2>1. code'[0] = Count3 BY <1>2, <1>21, AnswerExact, ZeroTurn
  <2>2. Places' BY <1>3, <1>8, <2>1 DEF Places
  <2>3. RunSet /\ RunSet' /\ Arg1Set /\ Arg0Set
    BY <1>4, <1>14, <1>21, <2>1 DEF RunSet, Arg0Set, Arg1Set, Asked, PlaceZero
  <2> QED
    BY <1>4, <1>6, <1>8, <1>12, <1>13, <1>16, <1>17, <1>18, <2>1, <2>2, <2>3, CountsDiffer
    DEF Sharing, Shared, OneCounts, ZeroCounts, Taken
<1>22. CASE code[0] = Count3
  <2>1. code'[0] = IF bus.data = 0 THEN Count4 ELSE Count3 BY <1>2, <1>22, AnswerExact, ZeroTurn
  <2>2. Places' BY <1>3, <1>8, <2>1 DEF Places
  <2>3. RunSet /\ RunSet' /\ Arg1Set /\ Arg0Set
    BY <1>22, <2>1 DEF RunSet, Arg0Set, Arg1Set
  <2>4. Asked(0, "run_check") BY <1>4, <1>14, <1>22 DEF Asked, PlaceZero
  <2>5. bus.data = 0 => DoneSet BY <2>4 DEF Sharing, ZeroCounts
  <2> QED
    BY <1>4, <1>6, <1>8, <1>12, <1>13, <1>16, <1>17, <1>18, <2>1, <2>2, <2>3, <2>5, CountsDiffer
    DEF Sharing, Shared, OneCounts, ZeroCounts, Taken
<1>23. CASE code[0] = Count4
  <2>1. code'[0] = Finish BY <1>2, <1>23, AnswerExact, ZeroTurn
  <2>2. Places' BY <1>3, <1>8, <2>1 DEF Places
  <2>3. RunSet /\ RunSet' /\ Arg1Set /\ Arg0Set
    BY <1>23, <2>1 DEF RunSet, Arg0Set, Arg1Set
  <2>4. Asked(0, "sum") BY <1>4, <1>14, <1>23 DEF Asked, PlaceZero
  <2>5. bus.data = Theirs /\ DoneSet BY <1>23, <2>4 DEF Sharing, ZeroCounts
  <2>6. loc'[0].u = count_primes(0, Share) + Theirs BY <1>12, <1>23, <2>5, ZeroTurn
  <2> QED
    BY <1>4, <1>6, <1>8, <1>12, <1>13, <1>16, <1>17, <1>18, <2>1, <2>2, <2>3, <2>5, <2>6, CountsDiffer
    DEF Sharing, Shared, OneCounts, ZeroCounts, Taken
<1>24. CASE Preparing /\ Op(0) \in Prep /\ code[0] # Count0
  <2>1. CASE GaveUp' BY <2>1
  <2>2. CASE Preparing'
    <3>1. code[0] \notin {Count1, Count2, Count3, Count4, Finish, <<>>} BY <1>24, PreparingPlace
    <3>2. code'[0] \notin {Count1, Count2, Count3, Count4, Finish, <<>>} BY <2>2, PreparingPlaceNext
    <3>3. Places' BY <1>3, <1>8, <2>2 DEF Places
    <3>4. ~RunSet /\ ~RunSet' /\ ~Arg0Set' /\ ~Arg1Set'
      BY <1>14, <1>18, <1>24, <3>1, <3>2 DEF RunSet, Arg0Set, Arg1Set, Asked, PlaceZero
    <3>5. ~Taken BY <3>4 DEF Sharing, OneCounts
    <3> QED
      BY <1>4, <1>6, <1>8, <1>12, <1>13, <1>16, <1>17, <1>18, <3>2, <3>3, <3>4, <3>5
      DEF Sharing, Shared, OneCounts, ZeroCounts, Taken
  <2> QED BY <1>24, <2>1, <2>2, AnswerPrep
<1> QED BY <1>11, <1>19, <1>20, <1>21, <1>22, <1>23, <1>24

\* What a step of core 1 leaves of the place of core 0.
LEMMA ZeroStays ==
  ASSUME code'[0] = code[0], launch' = launch
  PROVE  Preparing' <=> Preparing
BY DEF Preparing, main_primes, astrarv32_smp_launch, Opening

\* The answer to core 1: it counts only after core 0 has set the range.
LEMMA SharingAnswerOne ==
  ASSUME LaunchInv, Slots, Sharing, Answer(1)
  PROVE  Sharing'
<1>1. Clints /\ Types /\ Results BY DEF LaunchInv
<1>2. 0 \in Core /\ 1 \in Core /\ 1 - 1 = 0 BY DEF Core
<1>3. Places BY DEF Sharing
<1>4. /\ bus.id = 1 /\ bus' = Idle /\ Busy(1) /\ Op(1) \in AccessOps
      /\ UNCHANGED <<program, hart, mem, lut>>
  BY <1>1, <1>2, AnswerFrame
<1>5. bus'.id = 2 BY <1>4 DEF Idle
<1>6. code'[0] = code[0] BY <1>2, AnswerMoves
<1>7. Op(1) = "boot_poll" \/ launch' = launch BY DEF Answer
<1>8. "exit" \notin AccessOps /\ "rte_setup" \notin AccessOps /\ "main_entry" \notin AccessOps BY DEF AccessOps
<1>9. code[1] \notin {core1_entry, Finish, <<>>} BY <1>4, <1>8, OneTurn DEF Busy
<1>10. \/ code[1] \in {Part1, Part2, Part3, Part4, Part5}
       \/ Awake /\ Op(1) \in WakeOps /\ code[1] \notin {core1_entry, Part1, Part2, Part3, Part4, Part5, Finish, <<>>}
  BY <1>3, <1>9, AwakePlace DEF Places, Waiting, Taken, Ended, Asleep
<1>11. /\ Slots' /\ loc'[0] = loc[0]
       /\ Op(1) = "arg_beg" => loc'[1].t = bus.data /\ loc'[1].u = loc[1].u
       /\ Op(1) = "arg_end" => loc'[1].u = bus.data /\ loc'[1].t = loc[1].t
       /\ Op(1) \notin {"get_hi", "get_lo", "cmp_get_lo", "cmp_get_hi", "arg_beg", "arg_end", "sum"} => loc' = loc
  BY <1>2, AnswerLocals
<1>12. Preparing' <=> Preparing
  <2>1. Op(1) # "boot_poll" BY <1>10, OneTurn DEF WakeOps
  <2> QED BY <1>6, <1>7, <2>1, ZeroStays
<1>13. Share' = Share /\ Theirs' = Theirs /\ count_primes(0, Share)' = count_primes(0, Share)
  BY DEF Share, Theirs, count_primes
<1>14. PlaceZero /\ PlaceOne BY <1>3, PlacesTold
<1>15. \A o : ~Asked(1, o)' /\ ~Asked(0, o)' /\ ~Asked(0, o) BY <1>4, <1>5 DEF Asked
<1>16. (RunSet' <=> RunSet) /\ (Arg0Set' <=> Arg0Set) /\ (Arg1Set' <=> Arg1Set)
  BY <1>6, <1>15 DEF RunSet, Arg0Set, Arg1Set
<1>17. ~Ended BY <1>9 DEF Ended
<1>18. ASSUME code'[1] \in {Part1, Part2, Part3, Part4, Part5, Finish}
       PROVE  /\ Ended' <=> code'[1] = Finish
              /\ Places' /\ (Taken' <=> code'[1] # Part1)
  <2>1. Asleep' => code'[1] = <<>> BY DEF Asleep
  <2>2. ~Asleep' BY <1>18, <2>1, PartsDiffer
  <2>3. Ended' <=> code'[1] = Finish BY <1>18, <2>2, PartsDiffer DEF Ended
  <2>4. Taken' <=> code'[1] # Part1 BY <1>18, <2>3, PartsDiffer DEF Taken
  <2>5. Places' BY <1>3, <1>6, <1>12, <1>18, <2>4 DEF Places, Waiting
  <2> QED BY <2>3, <2>4, <2>5
<1>19. CASE code[1] = Part1
  <2>1. Op(1) = "run_wait" BY <1>19, OneTurn
  <2>2. code'[1] = IF bus.data = 0 THEN Part1 ELSE Part2 BY <1>2, <1>19, <2>1, AnswerExact, OneTurn
  <2>3. Asked(1, "run_wait") BY <1>4, <1>14, <1>19 DEF Asked, PlaceOne
  <2>4. bus.data # 0 => RunSet BY <2>3 DEF Sharing, OneCounts
  <2>5. loc' = loc BY <1>11, <2>1
  <2>6. ~DoneSet /\ ~ResultSet BY <1>14, <1>17, <1>19, PartsDiffer DEF DoneSet, ResultSet, Asked, PlaceOne
  <2>7. ~DoneSet' /\ ~ResultSet' BY <1>15, <1>18, <2>2, PartsDiffer DEF DoneSet, ResultSet
  <2>8. Taken' => RunSet' BY <1>16, <1>18, <2>2, <2>4
  <2>9. Places' BY <1>18, <2>2
  <2> QED
    BY <1>4, <1>6, <1>13, <1>15, <1>16, <2>2, <2>5, <2>6, <2>7, <2>8, <2>9, PartsDiffer
    DEF Sharing, Shared, OneCounts, ZeroCounts
<1>20. CASE code[1] = Part2
  <2>1. Op(1) = "arg_beg" BY <1>20, OneTurn
  <2>2. code'[1] = Part3 BY <1>2, <1>20, <2>1, AnswerExact, OneTurn
  <2>3. Asked(1, "arg_beg") BY <1>4, <1>14, <1>20 DEF Asked, PlaceOne
  <2>4. RunSet /\ bus.data = Share BY <1>20, <2>3 DEF Sharing, OneCounts, Taken
  <2>5. loc'[1].t = Share BY <1>11, <2>1, <2>4
  <2>6. ~DoneSet /\ ~ResultSet BY <1>14, <1>17, <1>20, PartsDiffer DEF DoneSet, ResultSet, Asked, PlaceOne
  <2>7. ~DoneSet' /\ ~ResultSet' BY <1>15, <1>18, <2>2, PartsDiffer DEF DoneSet, ResultSet
  <2>8. Places' BY <1>18, <2>2
  <2> QED
    BY <1>4, <1>6, <1>11, <1>13, <1>15, <1>16, <2>2, <2>4, <2>5, <2>6, <2>7, <2>8, PartsDiffer
    DEF Sharing, Shared, OneCounts, ZeroCounts
<1>21. CASE code[1] = Part3
  <2>1. Op(1) = "arg_end" BY <1>21, OneTurn
  <2>2. code'[1] = Part4 BY <1>2, <1>21, <2>1, AnswerExact, OneTurn
  <2>3. Asked(1, "arg_end") BY <1>4, <1>14, <1>21 DEF Asked, PlaceOne
  <2>4. RunSet /\ bus.data = NUM_MAX /\ loc[1].t = Share BY <1>21, <2>3 DEF Sharing, OneCounts, Taken
  <2>5. loc'[1].t = Share /\ loc'[1].u = NUM_MAX BY <1>11, <2>1, <2>4
  <2>6. ~DoneSet /\ ~ResultSet BY <1>14, <1>17, <1>21, PartsDiffer DEF DoneSet, ResultSet, Asked, PlaceOne
  <2>7. ~DoneSet' /\ ~ResultSet' BY <1>15, <1>18, <2>2, PartsDiffer DEF DoneSet, ResultSet
  <2>8. Places' BY <1>18, <2>2
  <2> QED
    BY <1>4, <1>6, <1>11, <1>13, <1>15, <1>16, <2>2, <2>4, <2>5, <2>6, <2>7, <2>8, PartsDiffer
    DEF Sharing, Shared, OneCounts, ZeroCounts
<1>22. CASE code[1] = Part4
  <2>1. Op(1) = "result" BY <1>22, OneTurn
  <2>2. code'[1] = Part5 BY <1>2, <1>22, <2>1, AnswerExact, OneTurn
  <2>3. Asked(1, "result") BY <1>4, <1>14, <1>22 DEF Asked, PlaceOne
  <2>4. RunSet BY <1>22 DEF Sharing, OneCounts, Taken
  <2>5. loc' = loc BY <1>11, <2>1
  <2>6. ~DoneSet /\ ResultSet BY <1>14, <1>17, <1>22, <2>3, PartsDiffer DEF DoneSet, ResultSet, Asked, PlaceOne
  <2>7. ~DoneSet' /\ ResultSet' BY <1>15, <1>18, <2>2, PartsDiffer DEF DoneSet, ResultSet
  <2>8. Places' BY <1>18, <2>2
  <2> QED
    BY <1>4, <1>6, <1>13, <1>15, <1>16, <2>2, <2>4, <2>5, <2>6, <2>7, <2>8, PartsDiffer
    DEF Sharing, Shared, OneCounts, ZeroCounts
<1>23. CASE code[1] = Part5
  <2>1. Op(1) = "run_done" BY <1>23, OneTurn
  <2>2. code'[1] = Finish BY <1>2, <1>23, <2>1, AnswerExact, OneTurn
  <2>3. Asked(1, "run_done") BY <1>4, <1>14, <1>23 DEF Asked, PlaceOne
  <2>4. RunSet BY <1>23 DEF Sharing, OneCounts, Taken
  <2>5. loc' = loc BY <1>11, <2>1
  <2>6. DoneSet /\ ResultSet BY <1>23, <2>3 DEF DoneSet, ResultSet
  <2>7. DoneSet' /\ ResultSet' BY <1>18, <2>2 DEF DoneSet, ResultSet
  <2>8. Places' BY <1>18, <2>2
  <2> QED
    BY <1>4, <1>6, <1>13, <1>15, <1>16, <2>2, <2>4, <2>5, <2>6, <2>7, <2>8, PartsDiffer
    DEF Sharing, Shared, OneCounts, ZeroCounts
<1>24. CASE /\ Awake /\ Op(1) \in WakeOps
            /\ code[1] \notin {core1_entry, Part1, Part2, Part3, Part4, Part5, Finish, <<>>}
  <2>1. Op(1) \in {"wake_sp", "wake_entry", "wake_ack"} BY <1>4, <1>8, <1>24 DEF WakeOps
  <2>2. code'[1] = Rest(1) BY <1>2, <2>1, AnswerExact
  <2>3. Waking(code'[1]) BY <1>24, <2>1, <2>2, AwakeText DEF Waking
  <2>4. Awake' BY <1>4, <1>24, <2>3 DEF Awake, Waking
  <2>5. Places' BY <1>3, <1>6, <1>12, <2>4 DEF Places, Waiting
  <2>6. ~Taken' BY <2>4, <2>5, PlacesToldNext DEF PlaceOne, Waiting
  <2>7. loc' = loc BY <1>11, <2>1
  <2>8. ~Ended' /\ code'[1] \notin {Part2, Part3, Part4, Part5} BY <2>6 DEF Taken
  <2>9. ~DoneSet /\ ~ResultSet BY <1>14, <1>17, <1>24 DEF DoneSet, ResultSet, Asked, PlaceOne
  <2>10. ~DoneSet' /\ ~ResultSet' BY <1>15, <2>8 DEF DoneSet, ResultSet
  <2> QED
    BY <1>4, <1>6, <1>13, <1>15, <1>16, <2>5, <2>6, <2>7, <2>8, <2>9, <2>10
    DEF Sharing, Shared, OneCounts, ZeroCounts
<1> QED BY <1>10, <1>19, <1>20, <1>21, <1>22, <1>23, <1>24

\* Only core 0 launches.
LEMMA OneNeverLaunches ==
  ASSUME LaunchInv, Busy(1)
  PROVE  Op(1) \notin LaunchOps
<1>1. Types /\ (Asleep \/ Awake \/ Started) BY DEF LaunchInv, Sleeper
<1>2. CASE Asleep BY <1>2 DEF Asleep, Busy
<1>3. CASE Awake
  <2>1. Op(1) \in WakeOps BY <1>3, AwakeText
  <2> QED BY <2>1 DEF WakeOps, LaunchOps
<1>4. CASE Started
  <2>1. code[1] \in Seq(Work) /\ code[1] # <<>> BY <1>4 DEF Started, Busy
  <2>2. Head(code[1]) \in Work BY <2>1
  <2> QED BY <2>2 DEF Op, Work
<1> QED BY <1>1, <1>2, <1>3, <1>4

\* No other step changes the state of the launch.
LEMMA LaunchStays ==
  ASSUME LaunchInv, NEW c \in Core, Strobe(c) \/ Answer(c) \/ Inside(c) \/ Trap(c), c = 0 => Op(0) \notin LaunchOps
  PROVE  launch' = launch
<1>1. Clints /\ Types /\ Results BY DEF LaunchInv
<1>2. CASE Strobe(c) BY <1>2 DEF Strobe
<1>3. CASE Trap(c) BY <1>3 DEF Trap
<1>4. CASE Answer(c) \/ Inside(c)
  <2>1. Busy(c) BY <1>1, <1>4, AnswerFrame DEF Inside
  <2>2. Op(c) \notin LaunchOps BY <2>1, OneNeverLaunches DEF Core
  <2>3. Op(c) # "boot_poll" /\ Op(c) # "launch" BY <2>2 DEF LaunchOps
  <2>4. CASE Answer(c) BY <2>3, <2>4 DEF Answer
  <2>5. CASE Inside(c) BY <2>3, <2>5 DEF Inside
  <2> QED BY <1>4, <2>4, <2>5
<1> QED BY <1>2, <1>3, <1>4

\* A core that gave up ends.
LEMMA GaveUpStays ==
  ASSUME LaunchInv, Texts, program = "primes", GaveUp, NEW c \in Core, Step(c)
  PROVE  GaveUp'
<1>1. Clints /\ Types /\ Results BY DEF LaunchInv
<1>2. 0 \in Core /\ 1 - 1 = 0 /\ 1 \in Core BY DEF Core
<1>3. code[0] = <<>> => ~Busy(0) BY DEF Busy
<1>4. code[0] = Finish => Op(0) = "exit" /\ Rest(0) = <<>> BY ZeroTurn
<1>5. Strobe(c) \/ Answer(c) \/ Inside(c) \/ Trap(c) BY DEF Step
<1>6. CASE c = 1
  <2>1. launch' = launch BY <1>5, <1>6, LaunchStays
  <2>2. code'[0] = code[0]
    <3>1. CASE Strobe(1) BY <3>1 DEF Strobe
    <3>2. CASE Answer(1) BY <1>2, <3>2, AnswerMoves
    <3>3. CASE Inside(1)
      <4>1. code'[1 - 1] = code[1 - 1] BY <1>1, <1>2, <3>3, InsideFrame
      <4> QED BY <1>2, <4>1
    <3>4. CASE Trap(1)
      <4>1. code'[1 - 1] = code[1 - 1] BY <1>1, <1>2, <3>4, TrapFrame
      <4> QED BY <1>2, <4>1
    <3> QED BY <1>5, <1>6, <3>1, <3>2, <3>3, <3>4
  <2> QED BY <2>1, <2>2 DEF GaveUp
<1>7. CASE c = 0
  <2>1. ~hart[0].on BY DEF Texts
  <2>2. ~Trap(0) BY <2>1 DEF Trap
  <2>3. ~Strobe(0)
    <3>1. ASSUME Strobe(0) PROVE FALSE
      <4>1. Busy(0) /\ Op(0) \notin Internal BY <3>1 DEF Strobe
      <4> QED BY <1>3, <1>4, <4>1, KindsDiffer DEF GaveUp
    <3> QED BY <3>1
  <2>4. ~Answer(0)
    <3>1. ASSUME Answer(0) PROVE FALSE
      <4>1. Busy(0) /\ Op(0) \in AccessOps BY <1>1, <1>2, <3>1, AnswerFrame
      <4> QED BY <1>3, <1>4, <4>1 DEF GaveUp, AccessOps
    <3> QED BY <3>1
  <2>5. Inside(0) BY <1>5, <1>7, <2>2, <2>3, <2>4
  <2>6. code[0] = Finish BY <1>3, <2>5 DEF Inside, GaveUp
  <2>7. code'[0] = <<>> BY <1>2, <1>4, <2>5, <2>6, InsideMoves
  <2>8. launch' = launch BY <1>2, <1>4, <2>5, <2>6, LaunchStays DEF LaunchOps
  <2> QED BY <2>7, <2>8 DEF GaveUp
<1> QED BY <1>6, <1>7 DEF Core

\* A step inside a core leaves the numbers it counts with.
LEMMA InsideLocals ==
  ASSUME Slots, NEW c \in Core, Inside(c)
  PROVE  /\ Slots' /\ loc'[0].u = loc[0].u /\ loc'[1].u = loc[1].u /\ loc'[1].t = loc[1].t
<1> DEFINE v == Target(c)
<1>1. loc' = [loc EXCEPT ![c]["target"] = v] BY DEF Inside
<1> HIDE DEF v
<1>2. /\ Slots' /\ loc'[1 - c] = loc[1 - c]
      /\ \A g \in {"t", "u", "time", "target"} : g # "target" => loc'[c][g] = loc[c][g]
  BY <1>1, SlotExcept
<1>3. loc'[c].t = loc[c].t /\ loc'[c].u = loc[c].u BY <1>2
<1>4. (c = 0 /\ loc'[1] = loc[1]) \/ (c = 1 /\ loc'[0] = loc[0]) BY <1>2 DEF Core
<1> QED BY <1>2, <1>3, <1>4

\* A step inside core 0: on to the launch and through it, or it ends.
LEMMA SharingInsideZero ==
  ASSUME LaunchInv, Slots, program = "primes", Sharing, Inside(0)
  PROVE  GaveUp' \/ Sharing'
<1>1. 0 \in Core /\ 1 \in Core /\ 1 - 0 = 1 BY DEF Core
<1>2. Places BY DEF Sharing
<1>3. /\ bus.id # 0 /\ Busy(0) /\ Op(0) \in Internal /\ bus' = bus /\ mem' = mem
      /\ code'[1] = code[1] /\ hart'[1] = hart[1] /\ Op(0) # "main_entry"
      /\ \/ Op(0) = "available" /\ code'[0] = <<"exit">>
         \/ Op(0) = "ecall"
         \/ code'[0] = Rest(0)
  BY <1>1, InsideMoves
<1>4. /\ (Taken' <=> Taken) /\ (Ended' <=> Ended) /\ (Waiting' <=> Waiting)
  BY <1>3, OneStays
<1>5. Slots' /\ loc'[0].u = loc[0].u /\ loc'[1].u = loc[1].u /\ loc'[1].t = loc[1].t BY <1>1, InsideLocals
<1>6. Share' = Share /\ Theirs' = Theirs /\ count_primes(0, Share)' = count_primes(0, Share)
  BY DEF Share, Theirs, count_primes
<1>7. PlaceZero /\ PlaceOne BY <1>2, PlacesTold
<1>8. \A o : (Asked(1, o)' <=> Asked(1, o)) /\ ~Asked(0, o)' /\ ~Asked(0, o)
  BY <1>3 DEF Asked, At, Busy, Op
<1>9. (DoneSet' <=> DoneSet) /\ (ResultSet' <=> ResultSet) BY <1>3, <1>4, <1>8 DEF DoneSet, ResultSet
<1>10. CASE code[0] = Finish
  <2>1. Op(0) = "exit" /\ Rest(0) = <<>> BY <1>10, ZeroTurn
  <2>2. code'[0] = <<>> BY <1>3, <2>1
  <2>3. Places' BY <1>2, <1>4, <2>2 DEF Places
  <2>4. RunSet /\ RunSet' /\ Arg0Set /\ Arg0Set' /\ Arg1Set /\ Arg1Set' BY <1>10, <2>2 DEF RunSet, Arg0Set, Arg1Set
  <2> QED
    BY <1>3, <1>4, <1>5, <1>6, <1>8, <1>9, <1>10, <2>2, <2>3, <2>4
    DEF Sharing, Shared, OneCounts, ZeroCounts
<1>11. CASE Preparing
  <2>1. code[0] \notin {Count1, Count2, Count3, Count4, Finish, <<>>} BY <1>11, PreparingPlace
  <2>2. code[0] # Count0
    <3>1. "arg0" \notin Internal BY DEF Internal
    <3> QED BY <1>3, <3>1, ZeroTurn
  <2>3. ~RunSet BY <1>8, <2>1 DEF RunSet
  <2>4. ~Taken BY <2>3 DEF Sharing, OneCounts
  <2>5. CASE code'[0] = <<"exit">> /\ Op(0) = "available"
    <3>1. launch.rc # 0 BY <1>11, <2>2, <2>5, PrepSteps DEF LaunchOps
    <3>2. launch' = launch BY <1>1, <2>5, LaunchStays DEF LaunchOps
    <3>3. code'[0] = Finish BY <2>5 DEF Finish
    <3> QED BY <3>1, <3>2, <3>3 DEF GaveUp
  <2>6. CASE code'[0] = Rest(0)
    <3>1. Preparing'
      <4>1. CASE code[0] = main_primes /\ launch.rc # 0 /\ Op(0) = "rte_setup" /\ Rest(0) = Opening
        <5>1. launch' = launch BY <1>1, <4>1, LaunchStays DEF LaunchOps
        <5>2. code'[0] = Opening BY <2>6, <4>1
        <5> QED BY <4>1, <5>1, <5>2 DEF Preparing, Opening, astrarv32_smp_launch
      <4>2. CASE Rest(0) = astrarv32_smp_launch \o Count0
        <5>1. astrarv32_smp_launch \in Seq(LaunchOps) BY StartTexts
        <5>2. \E p \in Seq(LaunchOps) : code'[0] = p \o Count0 BY <2>6, <4>2, <5>1
        <5> QED BY <5>2 DEF Preparing
      <4>3. CASE \E p \in Seq(LaunchOps) : Rest(0) = p \o Count0
        <5>1. \E p \in Seq(LaunchOps) : code'[0] = p \o Count0 BY <2>6, <4>3
        <5> QED BY <5>1 DEF Preparing
      <4> QED BY <1>11, <2>2, <4>1, <4>2, <4>3, PrepSteps
    <3>2. code'[0] \notin {Count1, Count2, Count3, Count4, Finish, <<>>} BY <3>1, PreparingPlaceNext
    <3>3. Places' BY <1>2, <1>4, <3>1 DEF Places
    <3>4. ~RunSet' /\ ~Arg0Set' /\ ~Arg1Set' BY <1>8, <3>2 DEF RunSet, Arg0Set, Arg1Set
    <3> QED
      BY <1>3, <1>4, <1>5, <1>6, <1>8, <1>9, <2>3, <2>4, <3>2, <3>3, <3>4
      DEF Sharing, Shared, OneCounts, ZeroCounts
  <2>7. Op(0) # "ecall"
    <3>1. Op(0) \in Prep BY <1>11, <2>2, PrepTurn
    <3> QED BY <3>1 DEF Prep, LaunchOps
  <2> QED BY <1>3, <2>5, <2>6, <2>7
<1>12. code[0] \notin {Count1, Count2, Count3, Count4, <<>>}
  <2>1. {"arg1", "run", "run_check", "sum"} \cap Internal = {} BY DEF Internal
  <2> QED BY <1>3, <2>1, ZeroTurn DEF Busy
<1> QED BY <1>2, <1>10, <1>11, <1>12 DEF Places

\* A step inside core 1: its part begins when it is started, and ends.
LEMMA SharingInsideOne ==
  ASSUME LaunchInv, Slots, program = "primes", Sharing, Inside(1)
  PROVE  Sharing'
<1>1. 0 \in Core /\ 1 \in Core /\ 1 - 1 = 0 BY DEF Core
<1>2. Places BY DEF Sharing
<1>3. /\ bus.id # 1 /\ Busy(1) /\ Op(1) \in Internal /\ bus' = bus /\ mem' = mem
      /\ code'[1 - 1] = code[1 - 1]
      /\ \/ Op(1) = "available"
         \/ Op(1) = "ecall"
         \/ Op(1) = "main_entry"
         \/ code'[1] = Rest(1)
  BY <1>1, InsideMoves
<1>4. code'[0] = code[0] BY <1>1, <1>3
<1>5. launch' = launch
  <2>1. 1 # 0 OBVIOUS
  <2> QED BY <1>1, <2>1, LaunchStays
<1>6. Preparing' <=> Preparing BY <1>4, <1>5, ZeroStays
<1>7. Slots' /\ loc'[0].u = loc[0].u /\ loc'[1].u = loc[1].u /\ loc'[1].t = loc[1].t BY <1>1, InsideLocals
<1>8. Share' = Share /\ Theirs' = Theirs /\ count_primes(0, Share)' = count_primes(0, Share)
  BY DEF Share, Theirs, count_primes
<1>9. PlaceZero /\ PlaceOne BY <1>2, PlacesTold
<1>10. \A o : (Asked(0, o)' <=> Asked(0, o)) /\ ~Asked(1, o)' /\ ~Asked(1, o)
  BY <1>3, <1>4 DEF Asked, At, Busy, Op
<1>11. (RunSet' <=> RunSet) /\ (Arg0Set' <=> Arg0Set) /\ (Arg1Set' <=> Arg1Set)
  BY <1>4, <1>10 DEF RunSet, Arg0Set, Arg1Set
<1>12. code[1] \notin {Part1, Part2, Part3, Part4, Part5, <<>>}
  <2>1. {"run_wait", "arg_beg", "arg_end", "result", "run_done"} \cap Internal = {} BY DEF Internal
  <2> QED BY <1>3, <2>1, OneTurn DEF Busy
<1>13. ASSUME ~Taken, Waiting', ~Taken'
       PROVE  Sharing'
  <2>1. Places' BY <1>2, <1>4, <1>6, <1>13 DEF Places
  <2>2. ~DoneSet /\ ~DoneSet' /\ ~ResultSet /\ ~ResultSet'
    BY <1>10, <1>13 DEF DoneSet, ResultSet, Taken
  <2> QED
    BY <1>3, <1>4, <1>7, <1>8, <1>10, <1>11, <1>13, <2>1, <2>2
    DEF Sharing, Shared, OneCounts, ZeroCounts, Taken
<1>14. ASSUME code'[1] \in {core1_entry, Part1} PROVE Waiting' /\ ~Taken'
  <2>1. Waiting' BY <1>14 DEF Waiting, core1_entry
  <2>2. Places' BY <1>2, <1>4, <1>6, <2>1 DEF Places
  <2> QED BY <2>1, <2>2, PlacesToldNext DEF PlaceOne
<1>15. CASE code[1] = core1_entry
  <2>1. Op(1) = "rte_setup" /\ Rest(1) = Part1 BY <1>15, OneTurn
  <2>2. code'[1] = Part1 BY <1>3, <2>1
  <2>3. ~Taken BY <1>9, <1>15 DEF PlaceOne, Waiting
  <2> QED BY <1>13, <1>14, <2>2, <2>3
<1>16. CASE Awake
  <2>1. Op(1) = "main_entry" BY <1>3, <1>16, AwakePlace DEF WakeOps, Internal
  <2>2. ~Taken BY <1>9, <1>16 DEF PlaceOne, Waiting
  <2>3. CASE Asleep'
    <3>1. Waiting' BY <2>3 DEF Waiting
    <3>2. Places' BY <1>2, <1>4, <1>6, <3>1 DEF Places
    <3>3. ~Taken' BY <3>1, <3>2, PlacesToldNext DEF PlaceOne
    <3> QED BY <1>13, <2>2, <3>1, <3>3
  <2>4. CASE code'[1] = entry_point
    <3>1. entry_point = core1_entry BY DEF entry_point
    <3> QED BY <1>13, <1>14, <2>2, <2>4, <3>1
  <2> QED BY <2>1, <2>3, <2>4, EntryInside
<1>17. CASE code[1] = Finish
  <2>1. Op(1) = "exit" /\ Rest(1) = <<>> BY <1>17, OneTurn
  <2>2. code'[1] = <<>> BY <1>3, <2>1
  <2>3. Ended BY <1>17, PartsDiffer DEF Ended, Asleep
  <2>4. ~Asleep'
    <3>1. SetHart(1) BY DEF Inside
    <3>2. hart' = [hart EXCEPT ![1] = [on |-> FALSE, mie |-> {}, mtvec |-> "panic"]] BY <2>1, <3>1 DEF SetHart
    <3>3. DOMAIN hart = Core BY DEF LaunchInv, Types
    <3>4. hart'[1].on = FALSE BY <1>1, <3>2, <3>3
    <3>5. __crt0_smp_setup.on = TRUE BY DEF __crt0_smp_setup
    <3> QED BY <3>4, <3>5 DEF Asleep
  <2>5. Ended' BY <2>2, <2>4 DEF Ended
  <2>6. Taken /\ Taken' BY <2>3, <2>5 DEF Taken
  <2>7. Places' BY <1>2, <1>4, <1>6, <2>6 DEF Places
  <2>8. DoneSet /\ DoneSet' /\ ResultSet /\ ResultSet' BY <2>3, <2>5 DEF DoneSet, ResultSet
  <2> QED
    BY <1>3, <1>4, <1>7, <1>8, <1>10, <1>11, <2>2, <2>6, <2>7, <2>8, PartsDiffer
    DEF Sharing, Shared, OneCounts, ZeroCounts
<1>18. \/ code[1] \in {core1_entry, Finish} \/ Awake
  BY <1>2, <1>12 DEF Places, Waiting, Taken, Ended, Asleep
<1> QED BY <1>15, <1>16, <1>17, <1>18

\* A trap: core 1 wakes up.
LEMMA SharingTrap ==
  ASSUME LaunchInv, Slots, Texts, program = "primes", Sharing, NEW c \in Core, Trap(c)
  PROVE  Sharing'
<1>1. Clints /\ Types /\ Results BY DEF LaunchInv
<1>2. Places BY DEF Sharing
<1>3. ~hart[0].on /\ (hart[1].on => Asleep) BY DEF Texts
<1>4. hart[c].on BY DEF Trap
<1>5. c = 1 /\ Asleep BY <1>3, <1>4 DEF Core
<1>6. 1 \in Core /\ 1 - 1 = 0 BY DEF Core
<1>7. /\ bus.id # 1 /\ bus' = bus /\ mem' = mem /\ launch' = launch /\ loc' = loc /\ program' = program
  BY <1>5 DEF Trap
<1>8. /\ code'[1 - 1] = code[1 - 1] /\ ~hart'[1].on
      /\ hart[1].mtvec = "wakeup" => code'[1] = __crt0_smp_wakeup /\ hart'[1].mtvec = "panic"
  BY <1>1, <1>5, <1>6, TrapFrame
<1>9. hart[1].mtvec = "wakeup" BY <1>5 DEF Asleep, __crt0_smp_setup
<1>10. code'[0] = code[0] BY <1>6, <1>8
<1>11. Awake' BY <1>8, <1>9 DEF Awake, Waking
<1>12. Preparing' <=> Preparing BY <1>7, <1>10, ZeroStays
<1>13. Waiting /\ Waiting' BY <1>5, <1>11 DEF Waiting
<1>14. Places' BY <1>2, <1>10, <1>12, <1>13 DEF Places
<1>15. ~Taken /\ ~Taken' BY <1>2, <1>13, <1>14, PlacesTold, PlacesToldNext DEF PlaceOne
<1>16. \A o : (Asked(0, o)' <=> Asked(0, o)) /\ ~Asked(1, o)' /\ ~Asked(1, o)
  BY <1>7, <1>10 DEF Asked, At, Busy, Op
<1>17. (RunSet' <=> RunSet) /\ (Arg0Set' <=> Arg0Set) /\ (Arg1Set' <=> Arg1Set)
  BY <1>10, <1>16 DEF RunSet, Arg0Set, Arg1Set
<1>18. ~DoneSet /\ ~DoneSet' /\ ~ResultSet /\ ~ResultSet' BY <1>15, <1>16 DEF DoneSet, ResultSet, Taken
<1>19. Share' = Share /\ Theirs' = Theirs /\ count_primes(0, Share)' = count_primes(0, Share)
  BY DEF Share, Theirs, count_primes
<1> QED
  BY <1>7, <1>10, <1>14, <1>15, <1>16, <1>17, <1>18, <1>19
  DEF Sharing, Shared, OneCounts, ZeroCounts, Taken

\* The inductive invariant of the program primes.
PrimesInv == Slots /\ (program = "primes" => GaveUp \/ Sharing)

\* Every step leaves the local variables and the program.
LEMMA SlotsStep ==
  ASSUME LaunchInv, Slots, NEW c \in Core, Step(c)
  PROVE  Slots' /\ program' = program
<1>1. CASE Strobe(c) \/ Trap(c) BY <1>1 DEF Strobe, Trap, Slots
<1>2. CASE Answer(c)
  <2>1. program' = program BY <1>2 DEF Answer
  <2> QED BY <1>2, <2>1, AnswerLocals
<1>3. CASE Inside(c)
  <2>1. program' = program BY <1>3 DEF Inside
  <2> QED BY <1>3, <2>1, InsideLocals
<1> QED BY <1>1, <1>2, <1>3 DEF Step

\* Every step keeps the protocol, or core 0 gives up.
LEMMA SharingStep ==
  ASSUME LaunchInv, Texts, Slots, program = "primes", Sharing, NEW c \in Core, Step(c)
  PROVE  GaveUp' \/ Sharing'
<1>1. CASE c = 0
  BY <1>1, SharingStrobeZero, SharingAnswerZero, SharingInsideZero, SharingTrap DEF Step
<1>2. CASE c = 1
  BY <1>2, SharingStrobeOne, SharingAnswerOne, SharingInsideOne, SharingTrap DEF Step
<1> QED BY <1>1, <1>2 DEF Core

\* A tick changes nothing of this.
LEMMA PrimesTick ==
  ASSUME PrimesInv, Tick \/ UNCHANGED vars
  PROVE  PrimesInv'
<1>1. UNCHANGED <<program, code, hart, loc, bus, mem, launch>> BY DEF Tick, vars, softVars
<1>2. Slots' BY <1>1 DEF PrimesInv, Slots
<1>3. GaveUp => GaveUp' BY <1>1 DEF GaveUp
<1>4. ASSUME Sharing PROVE Sharing'
  <2>1. Places BY <1>4 DEF Sharing
  <2>2. /\ Places' /\ (Preparing' <=> Preparing) /\ (Taken' <=> Taken) /\ (Ended' <=> Ended)
        /\ (Waiting' <=> Waiting)
    BY <1>1, <2>1, PlacesStrobe
  <2>3. \A c, o : Asked(c, o)' <=> Asked(c, o) BY <1>1 DEF Asked, At, Busy, Op
  <2>4. (RunSet' <=> RunSet) /\ (DoneSet' <=> DoneSet) /\ (ResultSet' <=> ResultSet)
    BY <1>1, <2>2, <2>3 DEF RunSet, DoneSet, ResultSet
  <2>5. (Arg0Set' <=> Arg0Set) /\ (Arg1Set' <=> Arg1Set) BY <1>1, <2>3, <2>4 DEF Arg0Set, Arg1Set
  <2>6. Share' = Share /\ Theirs' = Theirs /\ count_primes(0, Share)' = count_primes(0, Share)
    BY DEF Share, Theirs, count_primes
  <2> QED
    BY <1>1, <1>4, <2>2, <2>3, <2>4, <2>5, <2>6 DEF Sharing, Shared, OneCounts, ZeroCounts
<1> QED BY <1>1, <1>2, <1>3, <1>4 DEF PrimesInv

\* Every step keeps the invariant of the program primes.
LEMMA PrimesNext ==
  ASSUME LaunchInv, Texts, PrimesInv, [Next]_vars
  PROVE  PrimesInv'
<1>1. CASE Tick \/ UNCHANGED vars BY <1>1, PrimesTick
<1>2. ASSUME NEW c \in Core, Step(c) PROVE PrimesInv'
  <2>1. Slots' /\ program' = program BY <1>2, SlotsStep DEF PrimesInv
  <2>2. ASSUME program = "primes" PROVE GaveUp' \/ Sharing'
    BY <1>2, <2>2, GaveUpStays, SharingStep DEF PrimesInv
  <2> QED BY <2>1, <2>2 DEF PrimesInv
<1> QED BY <1>1, <1>2 DEF Next

\* It holds initially.
LEMMA PrimesInit ==
  ASSUME Init
  PROVE  PrimesInv
<1>1. /\ code = [c \in Core |-> IF c = 0 THEN main ELSE <<>>]
      /\ hart = [c \in Core |-> IF c = 1 THEN __crt0_smp_setup
                              ELSE [on |-> FALSE, mie |-> {}, mtvec |-> "panic"]]
      /\ loc = [c \in Core |-> [t |-> 0, u |-> 0, time |-> 0, target |-> 0]]
      /\ bus = Idle /\ launch.rc = -3
      /\ mem.shared_run = 0
  BY DEF Init
<1>2. 0 \in Core /\ 1 \in Core BY DEF Core
<1>3. Slots BY <1>1 DEF Slots
<1>4. bus.id = 2 BY <1>1 DEF Idle
<1> DEFINE m == main
<1>5. program = "primes" => m = main_primes BY DEF main
<1>6. code = [c \in Core |-> IF c = 0 THEN m ELSE <<>>] BY <1>1
<1> HIDE DEF m
<1>7. code[0] = m /\ code[1] = <<>> BY <1>2, <1>6
<1>8. Asleep BY <1>1, <1>2, <1>7 DEF Asleep
<1>9. ASSUME program = "primes" PROVE Sharing
  <2>1. Preparing BY <1>1, <1>5, <1>7, <1>9 DEF Preparing
  <2>2. Places BY <1>8, <2>1 DEF Places, Waiting
  <2>3. ~Taken BY <1>8, <2>2, PlacesTold DEF PlaceOne, Waiting
  <2>4. code[0] \notin {Count1, Count2, Count3, Count4, Finish, <<>>} BY <2>1, PreparingPlace
  <2>5. \A c \in Core : \A o : ~Asked(c, o) BY <1>4 DEF Asked, Core
  <2>6. ~RunSet /\ ~Arg0Set /\ ~Arg1Set BY <1>2, <2>4, <2>5 DEF RunSet, Arg0Set, Arg1Set
  <2> QED
    BY <1>1, <1>2, <2>2, <2>3, <2>4, <2>5, <2>6 DEF Sharing, Shared, OneCounts, ZeroCounts, Taken
<1> QED BY <1>3, <1>9 DEF PrimesInv

\* Core 0 reports the number of primes below NUM_MAX.
LEMMA PrimesWhole ==
  ASSUME PrimesInv
  PROVE  PrimesRight
<1>1. ASSUME program = "primes", code[0] = <<>>, launch.rc = 0
      PROVE  loc[0].u = count_primes(0, Share) + Theirs
  <2>1. Sharing BY <1>1 DEF PrimesInv, GaveUp
  <2> QED BY <1>1, <2>1 DEF Sharing, ZeroCounts
<1>2. NUM_MAX \in Nat BY DualCoreAssumption
<1> DEFINE n == count_primes(0, Share) + Theirs
           k == Cardinality({i \in 1 .. NUM_MAX - 1 : Cardinality({d \in 1 .. i : i % d = 0}) = 2})
<1>3. n = k BY <1>2, PrimesCounted DEF Share, Theirs
<1>4. program = "primes" /\ code[0] = <<>> /\ launch.rc = 0 => loc[0].u = n BY <1>1
<1> HIDE DEF n
<1>5. program = "primes" /\ code[0] = <<>> /\ launch.rc = 0 => loc[0].u = k BY <1>3, <1>4
<1> QED BY <1>5 DEF PrimesRight

\* What the cores share stays whole: under either spin lock, also across interrupt
\* handlers that print, the two characters of a message follow one another; and the
\* program demo_dual_core_primes reports the number of prime numbers below NUM_MAX.
THEOREM SharedWhole == Spec => []SharedDataWhole
<1>1. Init => LaunchInv /\ VoiceInv /\ PrimesInv BY LaunchInit, VoiceInit, PrimesInit
<1>2. LaunchInv /\ VoiceInv /\ PrimesInv /\ [Next]_vars => LaunchInv' /\ VoiceInv' /\ PrimesInv'
  BY LaunchNext, VoiceNext, PrimesNext DEF VoiceInv
<1>3. LaunchInv /\ VoiceInv /\ PrimesInv => SharedDataWhole BY VoiceWhole, PrimesWhole DEF SharedDataWhole
<1> QED BY <1>1, <1>2, <1>3, PTL DEF Spec
=============================================================================
