---------------------------- MODULE ImageFormats -----------------------------
(* Memory images other than the boot loader's executable, as the image       *)
(* generator (sw/image_gen/image_gen.c) writes them: what is in the file,    *)
(* without layout, and what a reader of the format takes from it.            *)
EXTENDS BootImage

Numbered(words) == [n \in 1 .. Len(words) |-> <<n - 1, words[n]>>]

\* The array has a power of two of words.
ext_exe_size(words) == LET k == CHOOSE k \in 0 .. Len(words) : 2^k >= Len(words)
                                                       /\ \A j \in 0 .. k - 1 : 2^j < Len(words)
                       IN  2^k

\* Fault: no comma before the others.
MoreInImage(n, words) == n < Len(words)
MoreEntries(n, words) == n < ext_exe_size(words)

OP_VHD(raw) ==
    LET words == ImageWords(raw)
    IN  [high |-> ext_exe_size(words) - 1, size |-> BytesPerWord * Len(words),
         items |-> [n \in 1 .. Len(words) |-> <<words[n], MoreEntries(n, words)>>],
         others |-> Len(words) < ext_exe_size(words)]
OP_BIN(raw) == ToBytes(ImageWords(raw))
OP_HEX(raw) == ImageWords(raw)
OP_COE(raw) == LET words == ImageWords(raw)
               IN  [n \in 1 .. Len(words) |-> <<words[n], IF n = Len(words) THEN ";" ELSE ",">>]
OP_MEM(raw) == Numbered(ImageWords(raw))
OP_MIF(raw) == [depth |-> Len(ImageWords(raw)), content |-> Numbered(ImageWords(raw))]

-----------------------------------------------------------------------------
(* Readers. *)

\* An aggregate has a comma between its elements and covers the array; with a
\* single positional element it would be an expression in parentheses.
VhdLegal(f) ==
    LET n == Len(f.items)
    IN  /\ \A k \in 1 .. n - 1 : f.items[k][2]
        /\ f.items[n][2] <=> f.others
        /\ f.others \/ (n = f.high + 1 /\ n > 1)
VhdWord(f, k) == IF k + 1 <= Len(f.items) THEN f.items[k + 1][1] ELSE 0
CoeLegal(f) == \A k \in 1 .. Len(f) : f[k][2] = ";" <=> k = Len(f)
FromNumbered(content) == [k \in 1 .. Len(content) |->
                            content[CHOOSE j \in 1 .. Len(content) : content[j][1] = k - 1][2]]
FromBytes(bytes) == [k \in 1 .. Len(bytes) \div BytesPerWord |->
                       read32(SubSeq(bytes, BytesPerWord * k - 1, BytesPerWord * k))]

\* Every format holds the image, padded with zeros to whole words; the VHDL
\* array holds it followed by zeros (an image of one word is left out: its
\* array cannot be written as the generator does it).
ImageHeld(raw) ==
    LET words == ImageWords(raw)
        vhd == OP_VHD(raw)
    IN  /\ Len(words) > 1 => /\ VhdLegal(vhd)
                             /\ \A k \in 0 .. vhd.high :
                                   VhdWord(vhd, k) = IF k < Len(words) THEN words[k + 1] ELSE 0
        /\ SubSeq(OP_BIN(raw), 1, Len(raw)) = raw /\ FromBytes(OP_BIN(raw)) = words
        /\ OP_HEX(raw) = words
        /\ CoeLegal(OP_COE(raw)) /\ [k \in 1 .. Len(words) |-> OP_COE(raw)[k][1]] = words
        /\ FromNumbered(OP_MEM(raw)) = words
        /\ OP_MIF(raw).depth = Len(words) /\ FromNumbered(OP_MIF(raw).content) = words
=============================================================================
