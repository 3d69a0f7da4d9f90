-------------------------------- MODULE Library -------------------------------
(* The software library and the programs that exercise it, each with the    *)
(* hardware it drives: functions called with every argument of a bounded     *)
(* domain; the console and the heap (Console); the protection registers and  *)
(* counters (CpuCsr); the floating-point unit with its test program          *)
(* (FloatCheck); the processor check (SelfTest); the DMA with its driver     *)
(* (Dma).  They do not interact: a behaviour runs one of these suites.       *)
EXTENDS LibAux, CpuCsr, FloatCheck, Console, Dma

CONSTANTS Years,          \* the calendar is walked through
          TimesOfDay,     \* seconds of the day
          Clocks, Bauds,  \* system clocks (Hz) and baud rates
          MHz, Ticks,     \* system clocks (MHz) and base ticks of the 1-wire bus (ns)
          Numbers, Bases, \* numbers printed, and bases
          Raws,           \* flat binaries
          MemorySize, ImmBits,    \* of unaligned loads: addresses, bits of an offset
          Hpms,           \* counter and trigger configurations
          Processors      \* features of the processors that are checked

VARIABLES suite,          \* which of them runs
          calendar,       \* month walked to: year, month, day number and weekday of its first
          call,           \* the last function called and its arguments
          has, tst, instr, hart, dev, core1       \* the processor check

libraryVars == <<calendar, call>>

P == INSTANCE ProcessorTests
Tests == P!Program
S == INSTANCE SelfTest WITH Program <- Tests, Configs <- Processors, t <- tst, k <- instr, m <- hart

I == INSTANCE ImageFormats
U == INSTANCE Unaligned

-----------------------------------------------------------------------------
(* The calendar the dates are compared with. *)

Leap(y) == y % 4 = 0 /\ (y % 100 # 0 \/ y % 400 = 0)
MonthLength(y, m) == IF m = 2 THEN (IF Leap(y) THEN 29 ELSE 28) ELSE IF m \in {4, 6, 9, 11} THEN 30 ELSE 31

NextMonth ==
    LET length == MonthLength(calendar.year, calendar.month)
    IN  /\ calendar.year \in Years
        /\ calendar' = [year |-> IF calendar.month = 12 THEN calendar.year + 1 ELSE calendar.year,
                        month |-> (calendar.month % 12) + 1,
                        first |-> calendar.first + length,
                        weekday |-> ((calendar.weekday + length - 1) % 7) + 1]

-----------------------------------------------------------------------------
NoCall == [fn |-> "none"]
LibraryIdle == calendar = [year |-> 0, month |-> 1, first |-> 0, weekday |-> 4] /\ call = NoCall
CsrIdle == ProtectionIdle /\ CounterIdle
FloatIdle == test = Len(Plan) + 1 /\ i = 0 /\ case = None /\ err_cnt = 0 /\ err_cnt_total = 0 /\ verdict = "off"

\* January 1st, 1970 was a Thursday.
LibraryInit ==
    \/ calendar = [year |-> 1970, month |-> 1, first |-> 0, weekday |-> 4] /\ call = NoCall
    \/ calendar = [year |-> 0, month |-> 1, first |-> 0, weekday |-> 4] /\ call = [fn |-> "ready"]

Call ==
    /\ call.fn = "ready"
    /\ \/ \E n \in Numbers, b \in Bases : call' = [fn |-> "itoa", n |-> n, base |-> b]
       \/ \E n \in Numbers, c \in {"d", "I", "u", "U", "X", "p"} : call' = [fn |-> "printf", n |-> n, c |-> c]
       \/ \E clock \in Clocks, baud \in Bauds : call' = [fn |-> "uart_setup", clock |-> clock, baud |-> baud]
       \/ \E f \in MHz, t \in Ticks : call' = [fn |-> "onewire_setup", f |-> f, t |-> t]
       \/ \E f \in MHz : call' = [fn |-> "setup_ws2812", f |-> f]
       \/ \E raw \in Raws : call' = [fn |-> "image_gen", raw |-> raw]
       \/ \E inst \in U!Loads, ctx \in [1 .. 2 -> 0 .. MemorySize - 1] :
             call' = [fn |-> "emulate", inst |-> inst, ctx |-> ctx]
       \/ \E hw \in Hpms : call' = [fn |-> "probe", hw |-> hw]

LibraryNext == (NextMonth /\ UNCHANGED call) \/ (Call /\ UNCHANGED calendar)

-----------------------------------------------------------------------------
checkVars == <<has, tst, instr, hart, dev, core1>>
deviceVars == <<checkVars, dmaVars>>
suiteVars == <<libraryVars, csrVars, consoleVars, floatVars>>
allVars == <<suite, suiteVars, deviceVars>>

SelfTestIdle == has = {} /\ S!Begins
DmaIdle == DmaBegins /\ sw = [jobs |-> <<>>, pc |-> "finished", k |-> 1, gap |-> FALSE,
                                before |-> mem, result |-> "none"]

AllInit ==
    \/ suite = "library" /\ LibraryInit /\ ConsoleIdle /\ CsrIdle /\ FloatIdle /\ SelfTestIdle /\ DmaIdle
    \/ suite = "console" /\ LibraryIdle /\ ConsoleInit /\ CsrIdle /\ FloatIdle /\ SelfTestIdle /\ DmaIdle
    \/ suite = "csr" /\ LibraryIdle /\ ConsoleIdle /\ CsrInit /\ FloatIdle /\ SelfTestIdle /\ DmaIdle
    \/ suite = "float" /\ LibraryIdle /\ ConsoleIdle /\ CsrIdle /\ FloatInit /\ SelfTestIdle /\ DmaIdle
    \/ suite = "check" /\ LibraryIdle /\ ConsoleIdle /\ CsrIdle /\ FloatIdle /\ S!Init /\ DmaIdle
    \/ suite = "dma" /\ LibraryIdle /\ ConsoleIdle /\ CsrIdle /\ FloatIdle /\ SelfTestIdle /\ DmaInit

AllNext ==
    /\ UNCHANGED suite
    /\ \/ suite = "library" /\ LibraryNext /\ UNCHANGED <<csrVars, consoleVars, floatVars, deviceVars>>
       \/ suite = "console" /\ ConsoleNext /\ UNCHANGED <<libraryVars, csrVars, floatVars, deviceVars>>
       \/ suite = "csr" /\ CsrNext /\ UNCHANGED <<libraryVars, consoleVars, floatVars, deviceVars>>
       \/ suite = "float" /\ FloatNext /\ UNCHANGED <<libraryVars, consoleVars, csrVars, deviceVars>>
       \/ suite = "check" /\ S!Next /\ UNCHANGED <<suiteVars, dmaVars>>
       \/ suite = "dma" /\ DmaNext /\ UNCHANGED <<suiteVars, checkVars>>

\* The hart and the software of the DMA go on, what was started ends.
Fairness ==
    /\ WF_checkVars(suite = "check" /\ (S!Interrupt \/ S!Instruction))
    /\ WF_checkVars(suite = "check" /\ S!core1_main)
    /\ \A d \in S!Devices : WF_checkVars(suite = "check" /\ S!Finish(d))
    /\ WF_dmaVars(suite = "dma" /\ NoAccess(TRUE))
    /\ SF_dmaVars(suite = "dma" /\ ~sw.gap /\ \E ack \in BOOLEAN : Software(ack))
    /\ SF_dmaVars(suite = "dma" /\ DmaNext /\ Answered)

AllSpec == AllInit /\ [][AllNext]_allVars /\ Fairness

-----------------------------------------------------------------------------
(* Texts read back. *)

Decimal(text) == FoldLeft(LAMBDA res, c : 10 * res + DigitValue(c), 0, text)
Reading(text) == IF text[1] = "-" THEN -Decimal(Tail(text)) ELSE Decimal(text)
FromBase(text, base) == FoldLeft(LAMBDA res, c : base * res + DigitValue(c), 0, text)
AsSigned(n) == IF n >= 2^(WordBits - 1) THEN n - 2^WordBits ELSE n

\* Every time of the calendar has its date and weekday, and the date gives the
\* time stamp back if its seconds fit in 32 bits (until February 2106).
CalendarRight ==
    calendar.year # 0 =>
       \A d \in 1 .. MonthLength(calendar.year, calendar.month), s \in TimesOfDay :
          LET t == <<calendar.first + d - 1, s>>
              date == astrarv32_aux_unixtime2date(t)
          IN  /\ date = [year |-> calendar.year, month |-> calendar.month, day |-> d,
                         weekday |-> ((calendar.weekday + d - 2) % 7) + 1,
                         hours |-> s \div 3600, minutes |-> (s \div 60) % 60, seconds |-> s % 60]
              /\ In32Bits(t) => astrarv32_aux_date2unixtime(date) = t

\* A printed number reads as the number, in any base and conversion, the
\* hexadecimal ones with all their digits; text around it is kept.
TextRight ==
    /\ call.fn = "itoa" =>
          LET text == astrarv32_aux_itoa(call.n, call.base)
          IN  /\ IF call.base \in 2 .. 16 THEN FromBase(text, call.base) = call.n ELSE text = <<>>
              /\ call.base = 16 => astrarv32_aux_hexstr2uint64(Append(text, "NUL"), 36) = call.n
              /\ Len(text) <= 32
    /\ call.fn = "printf" =>
          LET out == astrarv32_uart_vprintf(<<"<", "%", "%", "%", call.c, "\n", "%", "s">>, <<call.n, <<">">> >>)
              number == SubSeq(out, 3, Len(out) - 3)
          IN  /\ SubSeq(out, 1, 2) = <<"<", "%">> /\ SubSeq(out, Len(out) - 2, Len(out)) = <<"\r", "\n", ">">>
              /\ call.c \in {"d", "I"} => Reading(number) = AsSigned(call.n)
              /\ call.c \in {"u", "U"} => Decimal(number) = call.n
              /\ call.c \in {"X", "p"} => /\ astrarv32_aux_hexstr2uint64(number, 16) = call.n
                                          /\ Len(number) = WordBits \div 4

\* A bit of the UART lasts at most one prescaled clock less than it should, and
\* the divider keeps the precision the prescaler allows.  A tick of the 1-wire
\* bus is at most one prescaled clock short.  The pulses of an LED keep their
\* order and its counters do not overflow.
ClocksRight ==
    /\ call.fn = "uart_setup" /\ call.clock >= 2 * call.baud =>
          LET s == astrarv32_uart_setup(call.clock, call.baud)
              prsc == Prescaler[s.prsc + 1]
              cycles == prsc * (s.baud + 1)
          IN  /\ cycles <= call.clock \div call.baud /\ call.clock \div call.baud < cycles + prsc
              /\ s.prsc > 0 => s.baud + 1 >= 128
    /\ call.fn = "onewire_setup" =>
          LET s == astrarv32_onewire_setup(call.f, call.t)
              quarter == 4000 \div call.f
          IN  s.rc # 0 => /\ s.ticks * quarter <= 4 * call.t
                          /\ 4 * call.t < s.ticks * quarter + 64 * quarter
                          /\ s.rc <= call.t
    /\ call.fn = "setup_ws2812" /\ call.f >= 5 =>
          LET s == astrarv32_neoled_setup_ws2812(call.f)
          IN  0 < s.t_high_zero /\ s.t_high_zero < s.t_high_one /\ s.t_high_one < s.t_total /\ s.t_total < 32

\* What the probing functions find is what is implemented.
ProbesRight ==
    call.fn = "probe" =>
       /\ astrarv32_cpu_hpm_get_num_counters(call.hw) = IF call.hw.zihpm THEN call.hw.num ELSE 0
       /\ astrarv32_cpu_hpm_get_size(call.hw) = IF call.hw.zihpm /\ call.hw.num > 0 THEN call.hw.width ELSE 0
       /\ astrarv32_cpu_hwtrig_get_number(call.hw) = IF call.hw.sdtrig THEN call.hw.triggers ELSE 0

\* Calls give what they are documented to give: dates, texts, divisors, the
\* probed sizes, image files, emulated loads.  Three cases are not covered:
\* time stamps of dates that do not fit in 32 bits (CalendarRight), negative
\* offsets of an emulated load (Emulated), VHDL images of one word (ImageHeld).
CallsRight == suite = "library" =>
    /\ CalendarRight /\ TextRight /\ ClocksRight /\ ProbesRight
    /\ call.fn = "image_gen" => I!ImageHeld(call.raw)
    /\ call.fn = "emulate" => U!Emulated(call.inst, call.ctx) /\ U!DemoRight

\* The console shows what is in the buffer, copies what was typed, and the
\* heap stays within its section.
ConsoleRight == suite = "console" => ScreenShows /\ StreamWhole /\ HeapInside

\* The unit's answers, their directed rounding and their flags are those of
\* IEEE 754; the operands of which nothing is said are named at Agree and
\* Directed.
FloatRight == suite = "float" => Agree /\ Directed /\ Flags

\* The regions decide every access as configured, and the driver's calls do
\* what they say they do where they say so.
ProtectionRight == suite = "csr" => Protected /\ Configured /\ Probed

\* No test of the processor check fails because of another one, nor is it
\* disturbed by one.
TestsIndependent == suite = "check" => S!TestsIndependent

\* The processor check gets to its report, but for the lost wake-up of its
\* two-wire test; without UARTs it ends in the panic loop.
Completes == suite = "check" => S!Completes
=============================================================================
