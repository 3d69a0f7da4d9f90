------------------------------ MODULE PetitFat ------------------------------
(* The file system of the boot loader (pff.c) as it is configured: FAT32,    *)
(* reading only.  The routines are unrolled to one disk access per step; any *)
(* access may fail.  A volume is a function from sector numbers to contents: *)
(* boot records, arrays of FAT entries, arrays of directory entries, bytes.  *)
EXTENDS SdCard

CONSTANTS WordBytes,   \* bytes asked for by one pf_read (4 in the code)
          FatPerSec,   \* FAT entries of a sector (128)
          DirPerSec,   \* directory entries of a sector (16)
          MinEntries,  \* clusters that make a volume FAT32 (0xFFF7)
          Path         \* the file looked for, a sequence of names
ASSUME FatAssumption == /\ {WordBytes, FatPerSec, DirPerSec, MinEntries} \subseteq Nat \ {0}
                        /\ SectorBytes % WordBytes = 0
                        /\ Path # <<>>

VARIABLES volume,   \* the card's sectors, and the bytes of the file on it
          fs,       \* FATFS; enabled stands for FatFs # 0, flag for FA_OPENED
          dj,       \* DIR: index, clust, sect; seg is the path segment in fn (NoDir
                    \* outside pf_open)
          fpc,      \* access the routine in progress does next, or "idle"
          bsect,    \* local of pf_mount: first sector of the volume
          res,      \* FRESULT of the last routine
          got       \* bytes delivered by the last pf_read
fatVars == <<cardVars, volume, fs, dj, fpc, bsect, res, got>>
fatLocals == <<dj, bsect>>

NoFs == [enabled |-> FALSE, flag |-> FALSE, fatbase |-> 0, csize |-> 1, n_fatent |-> 0,
         dirbase |-> 0, database |-> 0, org_clust |-> 0, curr_clust |-> 0,
         fptr |-> 0, fsize |-> 0, dsect |-> 0]
NoDir == [index |-> 0, clust |-> 0, sect |-> 0, seg |-> 1]

FatInit == /\ CardInit
           /\ fs = NoFs /\ dj = NoDir
           /\ fpc = "idle" /\ bsect = 0
           /\ res = "FR_OK" /\ got = <<>>

Return(r) == /\ fpc' = "idle"
             /\ res' = r

(* ABORT: the file is closed when an access to it fails. *)
Abort == /\ Return("FR_DISK_ERR")
         /\ fs' = [fs EXCEPT !.flag = FALSE]
         /\ got' = <<>>

(* disk_readp of sector s gets what is in the sector that the card takes for *)
(* s; it fails when there is no such sector or the access goes wrong.        *)
Reads(s, ok) == ok /\ disk_readp(s) \in DOMAIN volume.sectors
Sector(s) == volume.sectors[disk_readp(s)]

clust2sect(f, c) == IF c < 2 \/ c >= f.n_fatent THEN 0
                    ELSE (c - 2) * f.csize + f.database

(* get_fat: 1 stands for a number out of range and for a failed access. *)
get_fat(c, ok) ==
  IF c < 2 \/ c >= fs.n_fatent THEN 1
  ELSE LET s == fs.fatbase + c \div FatPerSec
       IN IF Reads(s, ok) THEN Sector(s)[(c % FatPerSec) + 1] ELSE 1

-----------------------------------------------------------------------------
(* pf_mount: the card first, then sector 0 as a volume, then the first       *)
(* partition of sector 0.                                                    *)
pf_mount == /\ fpc = "idle"
            /\ fs' = [fs EXCEPT !.enabled = FALSE]
            /\ fpc' = "card"
            /\ StartCard
            /\ UNCHANGED <<volume, dj, bsect, res, got>>

CardStep == /\ fpc = "card"
            /\ disk_initialize
            /\ UNCHANGED <<volume, fs, dj, fpc, bsect, res, got>>

CardDone == /\ fpc = "card" /\ cmd = "none"
            /\ IF CardType = {} THEN Return("FR_NOT_READY")
                                ELSE fpc' = "sfd" /\ UNCHANGED res
            /\ bsect' = 0
            /\ UNCHANGED <<cardVars, volume, fs, dj, got>>

(* check_fs: two reads of the same sector; the first decides between 3 (not  *)
(* readable) and 2 (no boot record), a failure of the second gives 1.        *)
check_fs(s, ok1, ok2) ==
  IF ~Reads(s, ok1) THEN 3
  ELSE IF ~Sector(s).signature THEN 2
  ELSE IF Reads(s, ok2) /\ Sector(s).fat32 THEN 0 ELSE 1

AfterCheck(fmt, next1) ==
  CASE fmt = 0 -> fpc' = "bpb" /\ UNCHANGED res
    [] fmt = 1 /\ next1 # "idle" -> fpc' = next1 /\ UNCHANGED res
    [] fmt = 3 -> Return("FR_DISK_ERR")
    [] OTHER -> Return("FR_NO_FILESYSTEM")

CheckSector0 == \E ok1, ok2 \in BOOLEAN :
  /\ fpc = "sfd"
  /\ AfterCheck(check_fs(0, ok1, ok2), "mbr")
  /\ UNCHANGED <<cardVars, volume, fs, dj, bsect, got>>

ReadPartition == \E ok \in BOOLEAN :
  /\ fpc = "mbr"
  /\ IF ~Reads(0, ok) THEN Return("FR_DISK_ERR") /\ UNCHANGED bsect
     ELSE IF ~Sector(0).partition.used THEN Return("FR_NO_FILESYSTEM") /\ UNCHANGED bsect
     ELSE bsect' = Sector(0).partition.first /\ fpc' = "partition" /\ UNCHANGED res
  /\ UNCHANGED <<cardVars, volume, fs, dj, got>>

CheckPartition == \E ok1, ok2 \in BOOLEAN :
  /\ fpc = "partition"
  /\ AfterCheck(check_fs(bsect, ok1, ok2), "idle")
  /\ UNCHANGED <<cardVars, volume, fs, dj, bsect, got>>

(* The geometry; a volume with few clusters is not FAT32 and refused. *)
Geometry(b) ==
  LET fat == b.FATSz * b.NumFATs
      mclst == (b.TotSec - b.RsvdSecCnt - fat) \div b.SecPerClus + 2
  IN [fs EXCEPT !.enabled = mclst >= MinEntries, !.flag = FALSE,
                !.fatbase = bsect + b.RsvdSecCnt, !.csize = b.SecPerClus,
                !.n_fatent = mclst, !.dirbase = b.RootClus,
                !.database = bsect + b.RsvdSecCnt + fat]

ReadBpb == \E ok \in BOOLEAN :
  /\ fpc = "bpb"
  /\ bsect' = 0
  /\ IF ~Reads(bsect, ok) THEN Return("FR_DISK_ERR") /\ UNCHANGED fs
     ELSE LET g == Geometry(Sector(bsect).bpb)
          IN /\ fs' = g
             /\ Return(IF g.enabled THEN "FR_OK" ELSE "FR_NO_FILESYSTEM")
  /\ UNCHANGED <<cardVars, volume, dj, got>>

-----------------------------------------------------------------------------
(* pf_open: follow_path looks every segment up in the directory of the one   *)
(* before, beginning at the root (cluster 0 stands for it).                  *)
dir_rewind(sclust, seg) ==
  LET clst == IF sclust = 0 THEN fs.dirbase ELSE sclust
  IN IF sclust = 1 \/ sclust >= fs.n_fatent THEN Return("FR_DISK_ERR") /\ dj' = NoDir
     ELSE /\ dj' = [index |-> 0, clust |-> clst, sect |-> clust2sect(fs, clst), seg |-> seg]
          /\ fpc' = "find"
          /\ UNCHANGED res

pf_open == /\ fpc = "idle"
           /\ IF ~fs.enabled
                THEN Return("FR_NOT_ENABLED") /\ UNCHANGED <<fs, dj>>
                ELSE /\ fs' = [fs EXCEPT !.flag = FALSE]
                     /\ dir_rewind(0, 1)
           /\ got' = <<>>
           /\ UNCHANGED <<cardVars, volume, bsect>>

(* The entry looked for: a directory on the way, a file at the end. *)
Found(e) ==
  IF dj.seg < Len(Path)
    THEN /\ UNCHANGED fs
         /\ IF e.dir THEN dir_rewind(e.clust, dj.seg + 1)
                     ELSE Return("FR_NO_FILE") /\ dj' = NoDir
    ELSE /\ dj' = NoDir
         /\ IF e.dir THEN Return("FR_NO_FILE") /\ UNCHANGED fs
            ELSE /\ fs' = [fs EXCEPT !.org_clust = e.clust, !.fsize = e.size,
                                     !.fptr = 0, !.flag = TRUE]
                 /\ Return("FR_OK")

(* dir_next: the next entry, the next sector of the cluster, or the next     *)
(* cluster of the directory ("chain").                                       *)
dir_next ==
  LET i == dj.index + 1 sec == i \div DirPerSec
  IN /\ UNCHANGED fs
     /\ IF dj.sect = 0 THEN Return("FR_NO_FILE") /\ dj' = NoDir
        ELSE IF i % DirPerSec # 0 THEN dj' = [dj EXCEPT !.index = i] /\ UNCHANGED <<fpc, res>>
        ELSE IF sec % fs.csize # 0
          THEN dj' = [dj EXCEPT !.index = i, !.sect = @ + 1] /\ UNCHANGED <<fpc, res>>
        ELSE fpc' = "chain" /\ UNCHANGED <<dj, res>>

dir_find == \E ok \in BOOLEAN :
  /\ fpc = "find"
  /\ IF ~Reads(dj.sect, ok) THEN Return("FR_DISK_ERR") /\ dj' = NoDir /\ UNCHANGED fs
     ELSE LET e == Sector(dj.sect)[(dj.index % DirPerSec) + 1]
          IN IF e.name = "end" THEN Return("FR_NO_FILE") /\ dj' = NoDir /\ UNCHANGED fs
             ELSE IF ~e.vol /\ e.name = Path[dj.seg] THEN Found(e)
             ELSE dir_next
  /\ UNCHANGED <<cardVars, volume, bsect, got>>

NextDirCluster == \E ok \in BOOLEAN : LET c == get_fat(dj.clust, ok) IN
  /\ fpc = "chain"
  /\ IF c <= 1 THEN Return("FR_DISK_ERR") /\ dj' = NoDir
     ELSE IF c >= fs.n_fatent THEN Return("FR_NO_FILE") /\ dj' = NoDir
     ELSE /\ dj' = [dj EXCEPT !.index = @ + 1, !.clust = c, !.sect = clust2sect(fs, c)]
          /\ fpc' = "find" /\ UNCHANGED res
  /\ UNCHANGED <<cardVars, volume, fs, bsect, got>>

-----------------------------------------------------------------------------
(* pf_read of WordBytes bytes.  They never straddle a sector, so one round   *)
(* of its loop is enough.                                                    *)
Remaining == fs.fsize - fs.fptr
btr == IF WordBytes > Remaining THEN Remaining ELSE WordBytes
InSector == fs.fptr % SectorBytes
InCluster == (fs.fptr \div SectorBytes) % fs.csize

pf_read == /\ fpc = "idle"
           /\ IF ~fs.enabled THEN Return("FR_NOT_ENABLED")
              ELSE IF ~fs.flag THEN Return("FR_NOT_OPENED")
              ELSE IF btr = 0 THEN Return("FR_OK")
              ELSE /\ fpc' = IF InSector = 0 THEN "locate" ELSE "data"
                   /\ UNCHANGED res
           /\ got' = <<>>
           /\ UNCHANGED <<cardVars, volume, fs, dj, bsect>>

(* On a sector boundary: the sector, of the next cluster when needed. *)
(* Fault: the chain is followed from the file's first cluster every time. *)
NextOfFirst(ok) == IF InCluster # 0 THEN fs.curr_clust
                   ELSE IF fs.fptr = 0 THEN fs.org_clust
                   ELSE get_fat(fs.org_clust, ok)
NextCluster(ok) == IF InCluster # 0 THEN fs.curr_clust
                   ELSE IF fs.fptr = 0 THEN fs.org_clust
                   ELSE get_fat(fs.curr_clust, ok)
Locate == \E ok \in BOOLEAN : LET c == NextCluster(ok) s == clust2sect(fs, c) IN
  /\ fpc = "locate"
  /\ IF c <= 1 \/ s = 0 THEN Abort
     ELSE /\ fs' = [fs EXCEPT !.curr_clust = c, !.dsect = s + InCluster]
          /\ fpc' = "data"
          /\ UNCHANGED <<res, got>>
  /\ UNCHANGED <<cardVars, volume, dj, bsect>>

ReadData == \E ok \in BOOLEAN :
  /\ fpc = "data"
  /\ IF ~Reads(fs.dsect, ok) THEN Abort
     ELSE /\ got' = SubSeq(Sector(fs.dsect), InSector + 1, InSector + btr)
          /\ fs' = [fs EXCEPT !.fptr = @ + btr]
          /\ Return("FR_OK")
  /\ UNCHANGED <<cardVars, volume, dj, bsect>>

(* A restart of the program: its variables are cleared, the card stays. *)
FatReset == /\ fs' = NoFs /\ dj' = NoDir
            /\ fpc' = "idle" /\ bsect' = 0
            /\ res' = "FR_OK" /\ got' = <<>>
            /\ CardType' = {} /\ ty' = {} /\ tmr' = 0 /\ cmd' = "none"
            /\ UNCHANGED <<volume, kind>>

FatStep == \/ CardStep \/ CardDone \/ CheckSector0 \/ ReadPartition \/ CheckPartition
           \/ ReadBpb \/ dir_find \/ NextDirCluster \/ Locate \/ ReadData

FatTypeOK == /\ CardTypeOK
             /\ fpc \in {"idle", "card", "sfd", "mbr", "partition", "bpb",
                         "find", "chain", "locate", "data"}
             /\ res \in {"FR_OK", "FR_DISK_ERR", "FR_NOT_READY", "FR_NO_FILE",
                         "FR_NOT_OPENED", "FR_NOT_ENABLED", "FR_NO_FILESYSTEM"}
             /\ fs.fptr \in 0 .. fs.fsize
             /\ Len(got) \in 0 .. WordBytes

(* Whatever the card answered while it was identified, the driver addresses  *)
(* the sector it means: a byte-addressed card is never given block numbers   *)
(* nor the other way round (disk_initialize, disk_readp).                    *)
AddressesAgree == CardType # {} => \A s \in DOMAIN volume.sectors : disk_readp(s) = s

(* Every byte pf_read delivers is the byte of the file at that position,     *)
(* over sector and cluster boundaries, fragmented chains, nested directories *)
(* and failed accesses in between.                                           *)
ReadsFile == got # <<>> => /\ fs.fptr <= Len(volume.file)
                           /\ got = SubSeq(volume.file, fs.fptr - Len(got) + 1, fs.fptr)
=============================================================================
