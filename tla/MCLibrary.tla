------------------------------- MODULE MCLibrary ------------------------------
(* Bounded domains for the library. *)
EXTENDS Library

\* Floating point: every number of the format as the first operand; as the
\* second those with the mantissas that decide exactness, sticky bits and
\* carries, of every exponent and sign; the timing tests repeat operations with
\* numbers at the format's boundaries.
Seconds == {x \in Floats : x.m \in {0, 1, Hidden - 1}}
Boundary == [s : {0, 1}, e : {0, 1, Bias, ExpOnes - 1, ExpOnes}, m : {0, Hidden - 1}]
BoundaryInts == {0, 1, IntMin - 1, IntMin, 2^IntBits - 1}

\* Protection: every mode, locked and not, a reserved configuration.
MCConfig(p, a, l) == [r |-> "r" \in p, w |-> "w" \in p, x |-> "x" \in p, a |-> a, l |-> l]
MCConfigs == {MCConfig({"r"}, TOR, TRUE), MCConfig({"x"}, TOR, FALSE), MCConfig({"r", "w"}, NAPOT, FALSE),
              MCConfig({"x"}, NAPOT, TRUE), MCConfig({"w"}, NA4, FALSE)}

\* Counters and triggers: none, one, all; a width below, at and above a half.
MCHpms == [zihpm : BOOLEAN, num : {0, 1, 29}, width : {1, 4, 5, 7, 8}, words : {4},
           sdtrig : BOOLEAN, triggers : {1, 2, 3, 4, 16}]

MCTyped == [u \in {0, 1} |-> IF u = 0 THEN <<"a", "\r", "~", " ", "\n", "\n">> ELSE <<"~", "~", "a", "\r">>]
MCIncrements == -6 .. 8
MCYears == 1970 .. 2110
MCClocks == {1000000, 12000000, 25000000, 27000000, 50000000, 100000000, 200000000}
MCBauds == {300, 1200, 9600, 19200, 57600, 115200, 921600, 1000000}
MCWords == 0 .. 2^WordBits - 1
MCBases == 0 .. 17
MCMHz == 4 .. 220
MCTicks == {1000, 5000, 10000, 40000, 200000}
MCRaws == UNION {[1 .. n -> {0, 3}] : n \in 1 .. 7} \cup UNION {[1 .. n -> 0 .. 3] : n \in 1 .. 4}
Desc(src, dst, num, bswap, st, dt) ==
    [src |-> src, dst |-> dst, num |-> num, bswap |-> bswap, src_type |-> st, dst_type |-> dt]

Types == 0 .. 3
Single == {<<Desc(s, 8 + t, n, b, st, dt)>> :
              s \in {0, 3}, t \in {0, 3}, n \in {1, 3}, b \in BOOLEAN, st \in Types, dt \in Types}
\* Transfers that run out of memory, one with a descriptor after it.
Beyond == {<<Desc(0, 8, 4, FALSE, IncByte, IncWord), Desc(0, 4, 1, TRUE, ConstWord, ConstWord)>>,
           <<Desc(8, 0, 4, FALSE, IncWord, IncByte)>>}
Chain == {<<Desc(0, 8, 2, FALSE, IncByte, IncByte), Desc(8, 12, 3, TRUE, ConstByte, IncByte)>>,
          <<Desc(8, 8, 2, FALSE, IncWord, IncWord), Desc(0, 4, 1, TRUE, ConstWord, ConstWord)>>}

\* What software writes to the FIFO: addresses and configuration words.
MCData == 0 .. 32 * NumValues - 1

As(descs, how) == [descs |-> descs, how |-> how]
MCJobs == {<<As(d, "poll")>> : d \in Single}
          \cup {<<As(d, "poll"), As(e, "irq")>> : d \in Chain \cup Beyond, e \in Chain}
          \cup {<<As(<<d>>, "abort"), As(e, "poll")>> :
                  d \in {Desc(0, 8, 6, FALSE, IncByte, IncByte), Desc(8, 0, 4, FALSE, IncWord, IncByte)},
                  e \in Chain}
          \cup {<<As(d \o d, how), As(e, "poll")>> : d \in Chain, how \in {"poll", "nocheck"}, e \in Chain}
Together == {{"TWD", "TWI"}, {"ZALRSC", "ZAAMO"}, {"sim", "XBUS"}}
Alone == {{f} : f \in P!Features \ {"U", "TWD", "TWI", "ZALRSC", "ZAAMO", "XBUS"}}
MCProcessors ==
    {P!Features \ F : F \in Together \cup Alone}
        \cup {P!Features, {"U"}, {"U", "UART0", "UART1"}, {"U", "CLINT", "XBUS", "UART0", "UART1"},
              {"U", "C", "CLINT", "PMP", "UART0", "UART1", "TRNG"}}
=============================================================================
