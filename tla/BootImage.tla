------------------------------ MODULE BootImage ------------------------------
(* Executable images: what the image generator (image_gen.c) writes and what *)
(* the boot loader's header (system.h) says.  The data path is scaled: a     *)
(* byte has ByteSize values, a word two bytes, low byte first.               *)
EXTENDS Integers, Sequences, SequencesExt

ByteSize == 4
ByteValues == 0 .. ByteSize - 1
WordSize == ByteSize * ByteSize
Words == 0 .. WordSize - 1
BytesPerWord == 2

BIN_SIGNATURE == 9
HeaderWords == 4
BIN_OFFSET_DATA == HeaderWords * BytesPerWord

(* read32 / write32 and the bytes of a word. *)
read32(p) == p[1] + ByteSize * p[2]
write32(w) == <<w % ByteSize, w \div ByteSize>>

(* Fault: the checksum keeps its carry. *)
SumCarry(a, b) == a + b
SumMod(a, b) == (a + b) % WordSize
Complement(w) == WordSize - 1 - w
Sum(words) == FoldSeq(SumMod, 0, words)

(* main, operation OP_EXE: zero padding to whole words, then the header.     *)
Padded(raw) == IF Len(raw) % BytesPerWord = 0 THEN raw ELSE Append(raw, 0)
ImageWords(raw) == [n \in 1 .. Len(Padded(raw)) \div BytesPerWord |->
                read32(SubSeq(Padded(raw), BytesPerWord * n - 1, BytesPerWord * n))]
Header(base, words) ==
  <<BIN_SIGNATURE, base, BytesPerWord * Len(words), Complement(Sum(words))>>
Executable(base, raw) == Header(base, ImageWords(raw)) \o ImageWords(raw)
ToBytes(words) == FlattenSeq([n \in 1 .. Len(words) |-> write32(words[n])])

(* The fields of an image and what makes it whole. *)
Base(image) == image[2]
Payload(image) == SubSeq(image, HeaderWords + 1, Len(image))
=============================================================================
