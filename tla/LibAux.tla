-------------------------------- MODULE LibAux --------------------------------
(* Helper functions of the software library: dates and number formats        *)
(* (sw/lib/source/astrarv32_aux.c), formatted output (astrarv32_uart.c) and  *)
(* the setup of bit timings from the clock frequency (astrarv32_uart.c,      *)
(* astrarv32_onewire.c, astrarv32_neoled.c).  All are pure.                  *)
EXTENDS Integers, Sequences, SequencesExt

CONSTANT WordBits         \* bits of an int, scaled

ASSUME LibAuxAssumption == WordBits \in {4, 8, 12, 16, 20, 24, 28}

-----------------------------------------------------------------------------
(* Dates.  A time is a pair of days and seconds of the day since the epoch.  *)

Between(n, low, high, default) == IF n \in low .. high THEN n ELSE default

\* January and February are counted as months 13 and 14 of the year before.
Shifted(y, m) == IF m <= 2 THEN [y |-> y - 1, m |-> m + 12] ELSE [y |-> y, m |-> m]

\* The 32 bits of the seconds hold 49710 days and 23296 seconds.
In32Bits(t) == t[1] < 49710 \/ (t[1] = 49710 /\ t[2] < 23296)
Modulo32Bits(t) == LET s == t[2] - 23296
                   IN  IF In32Bits(t) THEN t ELSE IF s < 0 THEN <<t[1] - 49711, s + 86400>> ELSE <<t[1] - 49710, s>>

\* Fault: the days before a month are those of months starting in January.
MonthDaysFlat(m) == 30 * m + (3 * m) \div 5
MonthDays(m) == 30 * m + (3 * (m + 1)) \div 5

astrarv32_aux_date2unixtime(date) ==
    LET year == IF date.year < 1970 THEN 1970 ELSE date.year
        s == Shifted(year, Between(date.month, 1, 12, 1))
        days == 365 * s.y + s.y \div 4 - s.y \div 100 + s.y \div 400
                + MonthDays(s.m) + Between(date.day, 1, 31, 1) - 719561
    IN  Modulo32Bits(<<days, 3600 * (date.hours % 24) + 60 * (date.minutes % 60) + (date.seconds % 60)>>)

Zeller(y, m, d) ==
    LET s == Shifted(y, m)
        j == s.y \div 100
        k == s.y % 100
        h == d + (26 * (s.m + 1)) \div 10 + k + k \div 4 + 5 * j + j \div 4
    IN  ((h + 5) % 7) + 1

astrarv32_aux_unixtime2date(t) ==
    LET a == (4 * t[1] + 102032) \div 146097 + 15
        b == t[1] + 2442113 + a - a \div 4
        c == (20 * b - 2442) \div 7305
        d == b - 365 * c - c \div 4
        e == (d * 1000) \div 30601
        f == d - e * 30 - (e * 601) \div 1000
        year == IF e <= 13 THEN c - 4716 ELSE c - 4715
        month == IF e <= 13 THEN e - 1 ELSE e - 13
    IN  [year |-> year, month |-> month, day |-> f, weekday |-> Zeller(year, month, f),
         hours |-> t[2] \div 3600, minutes |-> (t[2] \div 60) % 60, seconds |-> t[2] % 60]

-----------------------------------------------------------------------------
(* Numbers as text.  A text is a sequence of characters. *)

Digits == <<"0", "1", "2", "3", "4", "5", "6", "7", "8", "9", "a", "b", "c", "d", "e", "f">>
Capitals == <<"A", "B", "C", "D", "E", "F">>
DigitValue(c) ==
    IF \E d \in 1 .. 16 : Digits[d] = c THEN (CHOOSE d \in 1 .. 16 : Digits[d] = c) - 1
    ELSE IF \E d \in 1 .. 6 : Capitals[d] = c THEN (CHOOSE d \in 1 .. 6 : Capitals[d] = c) + 9
    ELSE 0

astrarv32_aux_hexstr2uint64(buffer, length) ==
    LET end == SelectInSeq(buffer, LAMBDA c : c = "NUL")
        text == IF end = 0 THEN buffer ELSE SubSeq(buffer, 1, end - 1)
        taken == Min({length, 16, Len(text)})
    IN  FoldLeft(LAMBDA res, c : 16 * res + DigitValue(c), 0, SubSeq(text, 1, taken))

astrarv32_aux_itoa(num, base) ==
    LET length == CHOOSE n \in 1 .. WordBits : num < base^n /\ (n = 1 \/ num >= base^(n - 1))
    IN  IF base \notin 2 .. 16 THEN <<>>
        ELSE [i \in 1 .. length |-> Digits[((num \div base^(length - i)) % base) + 1]]

\* Line feeds are preceded by a carriage return.
astrarv32_uart_puts(s) == FlattenSeq([i \in 1 .. Len(s) |-> IF s[i] = "\n" THEN <<"\r", "\n">> ELSE <<s[i]>>])

Unsigned(n) == n % 2^WordBits
Signed(n) == IF Unsigned(n) >= 2^(WordBits - 1)
             THEN <<"-">> \o astrarv32_aux_itoa(Unsigned(-n), 10) ELSE astrarv32_aux_itoa(Unsigned(n), 10)
\* Fault: no leading zeros.
HexadecimalShort(n) == astrarv32_aux_itoa(Unsigned(n), 16)
Hexadecimal(n) == LET digits == astrarv32_aux_itoa(Unsigned(n), 16)
                  IN  [i \in 1 .. WordBits \div 4 - Len(digits) |-> "0"] \o digits

\* One conversion c with its argument; whether it takes one.
Converted(c, arg) ==
    CASE c = "s" -> astrarv32_uart_puts(arg)
      [] c = "c" -> <<arg>>
      [] c \in {"d", "i"} -> Signed(arg)
      [] c = "u" -> astrarv32_aux_itoa(Unsigned(arg), 10)
      [] c \in {"x", "p"} -> Hexadecimal(arg)
      [] c = "%" -> <<"%">>
      [] OTHER -> <<"%", c>>
Takes(c) == c \in {"s", "c", "d", "i", "u", "x", "p"}

Lower == [S |-> "s", C |-> "c", D |-> "d", I |-> "i", U |-> "u", X |-> "x", P |-> "p"]
tolower(c) == IF c \in DOMAIN Lower THEN Lower[c] ELSE c

\* The format has a conversion character after each percent sign.
astrarv32_uart_vprintf(format, args) ==
    LET Step(p, c) ==
            CASE p.percent -> LET k == tolower(c)
                              IN  [percent |-> FALSE, used |-> IF Takes(k) THEN p.used + 1 ELSE p.used,
                                   out |-> p.out \o Converted(k, IF Takes(k) THEN args[p.used + 1] ELSE 0)]
              [] ~p.percent /\ c = "%" -> [p EXCEPT !.percent = TRUE]
              [] OTHER -> [p EXCEPT !.out = @ \o astrarv32_uart_puts(<<c>>)]
    IN  FoldLeft(Step, [percent |-> FALSE, used |-> 0, out |-> <<>>], format).out

-----------------------------------------------------------------------------
(* Bit timings.  The clock is in Hz for the UART and in MHz otherwise.       *)

Prescaler == <<2, 4, 8, 64, 128, 1024, 2048, 4096>>     \* of the clock generator

\* Fault: the shift by three comes one step too early.
UartShiftEarly(sel) == IF sel \in {1, 3} THEN 8 ELSE 2
UartShift(sel) == IF sel \in {2, 4} THEN 8 ELSE 2

astrarv32_uart_setup(clock, baudrate) ==
    LET raw == clock \div (2 * baudrate)
        div[sel \in 0 .. 16] == IF sel = 0 THEN raw ELSE div[sel - 1] \div UartShift(sel - 1)
        prsc_sel == CHOOSE sel \in 0 .. 16 : div[sel] < 1024 /\ \A s \in 0 .. sel - 1 : div[s] >= 1024
    IN  [prsc |-> prsc_sel % 8, baud |-> (div[prsc_sel] - 1) % 1024]

astrarv32_onewire_setup(mhz, t_base) ==
    LET PRSC_LUT == <<2, 4, 8, 64>>
        t_clock_x250ps == 4000 \div mhz
        clkdiv(sel) == (4 * t_base) \div (t_clock_x250ps * PRSC_LUT[sel])
        fits == {sel \in 1 .. 4 : clkdiv(sel) \in 1 .. 255}
        sel == Min(fits)
    IN  IF fits = {} THEN [rc |-> 0, ticks |-> 0]
        ELSE [rc |-> (t_clock_x250ps \div 4) * PRSC_LUT[sel] * clkdiv(sel), ticks |-> PRSC_LUT[sel] * clkdiv(sel)]

astrarv32_neoled_setup_ws2812(mhz) ==
    LET t_base(sel) == (2000 \div mhz) * Prescaler[sel + 1]
        Setting(sel) == [prsc |-> sel, t_total |-> 2400 \div t_base(sel),
                         t_high_zero |-> 800 \div t_base(sel), t_high_one |-> 1600 \div t_base(sel)]
        Good(s) == s.t_total < 32 /\ s.t_high_zero # 0 /\ s.t_high_one # 0
        good == {sel \in 0 .. 6 : Good(Setting(sel))}
    IN  IF good = {} THEN [Setting(6) EXCEPT !.prsc = 7] ELSE Setting(Min(good))
=============================================================================
