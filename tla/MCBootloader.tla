---------------------------- MODULE MCBootloader ----------------------------
(* Instances of the boot loader: small executables, uploads with and without *)
(* errors, and cards with sound, damaged and foreign volumes.                *)
EXTENDS Bootloader

ImageA == Executable(2, <<1, 2, 1, 2>>)   \* two words at 2
ImageB == Executable(2, <<2, 1, 1>>)      \* three bytes, padded, at 2
(* Images that with their header need a second sector: of six words, whose   *)
(* erasure reaches that sector, and of three, whose erasure does not.        *)
LongA == Executable(2, <<2, 1, 1, 2, 0, 1, 1, 1, 2, 2, 0, 1>>)
LongB == Executable(2, <<2, 0, 1, 1, 0, 2, 2, 1, 1, 2, 0, 1>>)
OddA == Executable(2, <<1, 2, 1, 2, 1, 2>>)
OddB == Executable(2, <<2, 1, 2, 1, 2, 1>>)
Replace(im, k, w) == [im EXCEPT ![k] = w]
Uploads(S) == S \cup {Replace(im, 1, 0) : im \in S}     \* bad signature
                \cup {Replace(im, 5, 4) : im \in S}     \* bad data
                \cup {SubSeq(im, 1, 5) : im \in S}      \* the host stops

(* A volume: cluster contents cl (a sequence of sectors each), links fat.    *)
Entry(name, dir, clust, size) ==
  [name |-> name, vol |-> FALSE, dir |-> dir, clust |-> clust, size |-> size]
End == Entry("end", FALSE, 0, 0)
Label == [Entry("boot.bin", FALSE, 0, 0) EXCEPT !.vol = TRUE]
Boot(fat32, csize, first) ==
  [signature |-> TRUE, fat32 |-> fat32, partition |-> [used |-> TRUE, first |-> first],
   bpb |-> [FATSz |-> 2, NumFATs |-> 1, RsvdSecCnt |-> 1, SecPerClus |-> csize,
            TotSec |-> 3 + 6 * csize, RootClus |-> 2]]
Layout(first, csize, fat, cl) ==
  [n \in first + 1 .. first + 2 + 6 * csize |->
     IF n - first <= 2 THEN [k \in 1 .. 4 |-> fat[4 * (n - first - 1) + k]]
     ELSE LET d == n - first - 3 c == cl[d \div csize + 1]
          IN IF Len(c) > d % csize THEN c[(d % csize) + 1] ELSE <<0, 0, 0, 0>>]
Volume(mbr, csize, fat, cl, file) ==
  [file |-> file,
   sectors |-> Layout(IF mbr THEN 1 ELSE 0, csize, fat, cl) @@
     (IF mbr THEN (0 :> Boot(FALSE, 1, 1)) @@ (1 :> Boot(TRUE, csize, 99))
             ELSE (0 :> Boot(TRUE, csize, 99)))]
Part(s, k) == SubSeq(s, SectorBytes * (k - 1) + 1, SectorBytes * k)

FileA == ToBytes(ImageA)
Eoc == 15
(* fragmented file in a directory, one sector per cluster *)
Fragmented(fat, size) ==
  Volume(FALSE, 1, fat,
         <<<<<<Label, Entry("fw", TRUE, 4, 0)>>>>,
           <<Part(FileA, 2)>>,
           <<<<Entry("other", FALSE, 3, 4), Entry("other", TRUE, 3, 4)>>>>,
           <<Part(FileA, 1)>>,
           <<<<Entry("boot.bin", FALSE, 5, size), End>>>>,
           <<Part(FileA, 3)>>>>, SubSeq(FileA, 1, size))
(* clusters 2.. : links of cluster numbers 0..7 *)
GoodFat == <<0, 0, Eoc, 7, 6, 3, Eoc, Eoc>>
BrokenFat == <<0, 0, Eoc, 1, 6, 3, Eoc, Eoc>>
RunawayFat == <<0, 0, Eoc, Eoc, 6, 3, Eoc, Eoc>>
Partitioned ==
  Volume(TRUE, 2, <<0, 0, 3, Eoc, Eoc, 7, Eoc, Eoc>>,
         <<<<<<Label, Label>>, <<Label, Entry("x", FALSE, 0, 0)>>>>,
           <<<<Entry("fw", TRUE, 6, 0), End>>>>,
           <<>>, <<Part(FileA, 1), Part(FileA, 2)>>,
           <<<<Label, Entry("boot.bin", FALSE, 5, 12)>>>>,
           <<Part(FileA, 3)>>>>, FileA)
Missing == Volume(FALSE, 1, GoodFat, [k \in 1 .. 6 |-> <<<<End, End>>>>], <<>>)
Unformatted == [file |-> <<>>, sectors |-> (0 :> [Boot(FALSE, 1, 99) EXCEPT !.signature = FALSE])]
Small == LET v == Fragmented(GoodFat, 12) IN
         [v EXCEPT !.sectors[0].bpb.TotSec = 5, !.file = <<>>]

Volumes == {Fragmented(GoodFat, 12), Fragmented(GoodFat, 11), Fragmented(BrokenFat, 12),
            Fragmented(RunawayFat, 12), Partitioned, Missing, Unformatted, Small}
TheFile == <<"fw", "boot.bin">>

Setup(k, v, s, t, on, im) ==
  [kind |-> k, volume |-> v, spi |-> s, twi |-> t, present |-> on, sends |-> im]
MCStreams == Uploads({ImageB})
CardSetups == {Setup("SDHC", v, <<>>, <<>>, {}, MCStreams) : v \in Volumes}
                \cup {Setup(k, Partitioned, <<>>, <<>>, {}, MCStreams) : k \in Kinds}
FlashSetups == {Setup("none", Missing, s, ImageA, on, MCStreams) : s \in {<<>>, ImageA},
                                                                  on \in {{"spi"}, {"twi"}}}
LongSetups == {Setup("none", Missing, LongA, <<>>, {"spi"}, {LongB})}
MCSetups == CardSetups \cup FlashSetups \cup LongSetups
MCWhole == {ImageA, ImageB, LongA, LongB}
OddSetups == {Setup("none", Missing, OddA, <<>>, {"spi"}, {OddB})}
OddWhole == {OddA, OddB}
=============================================================================
