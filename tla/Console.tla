-------------------------------- MODULE Console -------------------------------
(* A program talking to its terminal, and its heap: line input with echo     *)
(* (sw/lib/source/astrarv32_uart.c) and the system calls the C library       *)
(* rests on (sw/lib/source/astrarv32_newlib.c).  One task makes the calls,   *)
(* so a call is a step; line input is a step per received character.         *)
EXTENDS Integers, Sequences, SequencesExt

CONSTANTS Typed,          \* what is typed at each UART, 0 and 1: a sequence
          Uarts,          \* sets of UARTs that may be implemented
          Lengths,        \* lengths a program asks for
          MaxSize,        \* size of the line buffer
          HEAP_BEGIN, HEAP_END, AddressSpace,
          Increments      \* of the heap; they do not wrap around the address space

ASSUME ConsoleAssumption ==
    /\ MaxSize \in Nat \ {0} /\ Lengths \subseteq Nat /\ HEAP_BEGIN <= HEAP_END
    /\ \A incr \in Increments, p \in HEAP_BEGIN .. HEAP_END : p + incr \in 0 .. AddressSpace - 1

VARIABLES line,           \* line input: pc, echo, buffer, screen and cursor
          stream,         \* uarts, per UART the input left and the output, per copy its chunk
          heap            \* curr_heap and the last answer

consoleVars == <<line, stream, heap>>

Printable == {" ", "a", "~"}
LineEnd == {"\r", "\n"}
Key == Printable \cup LineEnd \cup {"BS", "ESC"}

-----------------------------------------------------------------------------
(* The terminal: backspace moves left, a printable character is put over     *)
(* what stood at the cursor.                                                 *)

Display(t, c) ==
    CASE c = "BS" -> [t EXCEPT !.cursor = IF @ = 1 THEN 1 ELSE @ - 1]
      [] c \in Printable -> [screen |-> [k \in 1 .. Max({t.cursor, Len(t.screen)}) |->
                                          IF k = t.cursor THEN c ELSE t.screen[k]],
                             cursor |-> t.cursor + 1]
Displayed(t, text) == FoldLeft(Display, t, text)

Echo(l, text) == IF l.echo THEN Displayed([screen |-> l.screen, cursor |-> l.cursor], text)
                 ELSE [screen |-> l.screen, cursor |-> l.cursor]
Echoed(l, text, buffer) ==
    LET t == Echo(l, text) IN [l EXCEPT !.buffer = buffer, !.screen = t.screen, !.cursor = t.cursor]

\* Fault: the deleted character stays on the screen.
DeleteLeft == <<"BS">>
Delete == <<"BS", " ", "BS">>

\* One character received while astrarv32_uart_scan waits for a line.
astrarv32_uart_scan(c) ==
    /\ line.pc = "scan"
    /\ \/ c = "BS" /\ Len(line.buffer) # 0 /\ line' = Echoed(line, Delete, Front(line.buffer))
       \/ c = "BS" /\ Len(line.buffer) = 0 /\ UNCHANGED line
       \/ c \in LineEnd /\ line' = [line EXCEPT !.pc = "done"]
       \/ /\ c \in Printable /\ Len(line.buffer) < MaxSize - 1
          /\ line' = Echoed(line, <<c>>, Append(line.buffer, c))
       \/ c \notin LineEnd \cup {"BS"} /\ ~(c \in Printable /\ Len(line.buffer) < MaxSize - 1)
          /\ UNCHANGED line

-----------------------------------------------------------------------------
(* Streams.  File 0 is the standard input, 1 and 2 are the standard and the  *)
(* error output; any other file is the second UART.  Two copies run in turn: *)
(* copy 0 from standard input to output, copy 1 from and to other files.     *)

\* Fault: the end of a line does not end a call.
TakenAll(in, len) == Min({len, Len(in)})
Taken(in, len) ==
    LET end == SelectInSubSeq(in, 1, Min({len, Len(in)}), LAMBDA c : c \in LineEnd)
    IN  IF end = 0 THEN Min({len, Len(in)}) ELSE end

\* The call waits until it has what it needs.
_read(file, len, copy) ==
    LET port == IF file = 0 /\ 0 \in stream.uarts THEN 0 ELSE 1
        in == stream.in[port]
        n == Taken(in, len)
    IN  \/ /\ port \in stream.uarts
           /\ n = len \/ (n > 0 /\ in[n] \in LineEnd)
           /\ stream' = [stream EXCEPT !.in[port] = SubSeq(in, n + 1, Len(in)),
                                       !.chunk[copy] = SubSeq(in, 1, n), !.rc = n]
        \/ port \notin stream.uarts /\ stream' = [stream EXCEPT !.rc = -1]

_write(file, copy) ==
    LET port == IF file \in {1, 2} THEN 0 ELSE 1
        text == stream.chunk[copy]
    IN  \/ /\ port \in stream.uarts
           /\ stream' = [stream EXCEPT !.out[port] = @ \o text, !.chunk[copy] = <<>>, !.rc = Len(text)]
        \/ /\ port \notin stream.uarts
           /\ stream' = [stream EXCEPT !.chunk[copy] = <<>>, !.rc = -1]

Copy(k) ==
    \/ /\ stream.chunk[k] = <<>>
       /\ \E len \in Lengths : _read(IF k = 0 THEN 0 ELSE 3, len, k)
    \/ /\ stream.chunk[k] # <<>>
       /\ _write(IF k = 0 THEN 1 ELSE 4, k)

-----------------------------------------------------------------------------
(* The heap.  curr_heap of -1 is the null pointer; rc is -1 for an error.    *)

\* Fault: only growing is checked.
UnderrunIgnored(curr, incr) == FALSE
Underrun(curr, incr) == incr < 0 /\ curr + incr < HEAP_BEGIN

_sbrk(incr) ==
    LET curr == IF heap.curr_heap = -1 THEN HEAP_BEGIN ELSE heap.curr_heap
        refused == HEAP_BEGIN = HEAP_END \/ curr + incr >= HEAP_END \/ Underrun(curr, incr)
    IN  heap' = IF refused THEN [heap EXCEPT !.curr_heap = curr, !.rc = -1]
                ELSE [heap EXCEPT !.curr_heap = curr + incr, !.rc = curr]

-----------------------------------------------------------------------------
LineIdle == line = [pc |-> "off", echo |-> FALSE, buffer |-> <<>>, screen |-> <<>>, cursor |-> 1]
Nothing == [u \in {0, 1} |-> <<>>]
StreamIdle == stream = [uarts |-> {}, in |-> Nothing, out |-> Nothing, chunk |-> Nothing, rc |-> 0]
HeapIdle == heap = [pc |-> "off", curr_heap |-> -1, rc |-> -1]
ConsoleIdle == LineIdle /\ StreamIdle /\ HeapIdle

ConsoleInit ==
    \/ /\ \E echo \in BOOLEAN : line = [pc |-> "scan", echo |-> echo, buffer |-> <<>>,
                                        screen |-> <<>>, cursor |-> 1]
       /\ StreamIdle /\ HeapIdle
    \/ /\ \E uarts \in Uarts : stream = [uarts |-> uarts, in |-> Typed, out |-> Nothing,
                                         chunk |-> Nothing, rc |-> 0]
       /\ LineIdle /\ HeapIdle
    \/ LineIdle /\ StreamIdle /\ heap = [pc |-> "on", curr_heap |-> -1, rc |-> -1]

ConsoleNext ==
    \/ /\ \E c \in Key : astrarv32_uart_scan(c)
       /\ UNCHANGED <<stream, heap>>
    \/ /\ stream.uarts # {} /\ \E k \in {0, 1} : Copy(k)
       /\ UNCHANGED <<line, heap>>
    \/ /\ heap.pc = "on" /\ \E incr \in Increments : _sbrk(incr)
       /\ UNCHANGED <<line, stream>>

-----------------------------------------------------------------------------
\* With echo, the terminal shows the line in the buffer, and blanks where
\* characters were deleted; the line and its terminator fit into the buffer.
ScreenShows ==
    /\ Len(line.buffer) <= MaxSize - 1
    /\ line.echo =>
          /\ SubSeq(line.screen, 1, line.cursor - 1) = line.buffer
          /\ \A k \in line.cursor .. Len(line.screen) : line.screen[k] = " "

\* With both UARTs, what a copy has sent, holds and has not read yet is what
\* was typed, in order, and it never holds text beyond the end of a line.
StreamWhole ==
    \A u \in {0, 1} :
       /\ stream.uarts = {0, 1} => stream.out[u] \o stream.chunk[u] \o stream.in[u] = Typed[u]
       /\ \A k \in 1 .. Len(stream.chunk[u]) - 1 : stream.chunk[u][k] \notin LineEnd

\* The heap handed out ends inside the heap, so does every block.
HeapInside ==
    /\ heap.curr_heap \in {-1} \cup HEAP_BEGIN .. Max({HEAP_END - 1, HEAP_BEGIN})
    /\ heap.rc \in {-1} \cup HEAP_BEGIN .. HEAP_END - 1
=============================================================================
