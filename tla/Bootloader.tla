----------------------------- MODULE Bootloader -----------------------------
(* The boot loader (sw/bootloader): the auto-boot sequence, the console, and *)
(* loading, storing and starting executables from and to the UART, an SPI    *)
(* flash, a TWI EEPROM and a file on an SD card.  One step is one word read  *)
(* from a device, one byte written to it, one disk access, or one decision   *)
(* of the control flow.  The power may fail between any two steps.  The      *)
(* memories, the host at the UART and the user are external.                 *)
EXTENDS PetitFat, BootImage, FiniteSets

CONSTANTS Enabled,     \* devices compiled in, of twi, spi, sd and direct
          RamBytes,    \* bytes of memory; accesses beyond it trap
          SectorSize,  \* SPI_FLASH_SECTOR_SIZE in scaled bytes
          FlashBytes,  \* bytes of the SPI flash and of the TWI memory
          Whole,       \* the complete images there are
          Setups,      \* cards, volumes and memory contents there may be at first,
                       \* and what the host may send: sequences of words
          MaxCuts,     \* power failures (bound)
          MaxNacks     \* bytes a TWI memory fails to acknowledge (bound)
ASSUME LoaderAssumption == /\ Enabled \subseteq {"twi", "spi", "sd", "direct"}
                           /\ {RamBytes, SectorSize, FlashBytes} \subseteq Nat \ {0}
                           /\ {MaxCuts, MaxNacks} \subseteq Nat

VARIABLES boot,  \* the program: pc, device in use, globals and locals
          ram, spi, twi,  \* main memory, SPI flash, TWI memory
          ext,   \* connected memories, host's words, key, time-out, bounds
          hist   \* history: started unchecked, what the last store wrote
loaderVars == <<boot, ram, spi, twi, ext, hist>>
vars == <<loaderVars, fatVars>>

And(a, b) == (a % 2) * (b % 2) + 2 * ((a \div 2) * (b \div 2))
Erased == ByteSize - 1
FlashAddr == 0 .. FlashBytes - 1
Contents(im) == [a \in FlashAddr |-> IF a < BytesPerWord * Len(im)
                                       THEN ToBytes(im)[a + 1] ELSE Erased]
WordAt(mem, a) == read32([k \in 1 .. 2 |-> mem[(a + k - 1) % FlashBytes]])

(* What every start sets: crt0 clears the globals.  auto is the rest of the  *)
(* auto-boot sequence.                                                       *)
AutoSequence == SelectSeq(<<"twi", "spi", "sd", "direct">>, LAMBDA d : d \in Enabled)
Start == [pc |-> "setup", dev |-> "none", auto |-> AutoSequence, console |-> FALSE,
          g_exe_base |-> 0, g_exe_size |-> 0, g_flash_addr |-> 0,
          hdr |-> <<>>, i |-> 0, rc |-> FALSE, sum |-> 0, out |-> <<>>, left |-> 0,
          reading |-> FALSE]

Init == /\ boot = Start
        /\ ram = [a \in 0 .. RamBytes \div BytesPerWord - 1 |-> 0]
        /\ FatInit
        /\ \E s \in Setups :
             /\ kind = s.kind /\ volume = s.volume
             /\ spi = [mem |-> Contents(s.spi), busy |-> "no", at |-> 0, data |-> 0]
             /\ twi = Contents(s.twi)
             /\ ext = [present |-> s.present, sends |-> s.sends, host |-> <<>>,
                       key |-> FALSE, expired |-> FALSE, cuts |-> 0, nacks |-> 0]
        /\ hist = [forced |-> FALSE, stored |-> <<>>, on |-> "none"]

At(p) == boot.pc = p
Memories == <<ram, spi, twi>>
(* A step of the program that touches nothing but its own variables. *)
Local(b) == boot' = b /\ UNCHANGED <<Memories, ext, hist, fatVars>>
Goto(p) == Local([boot EXCEPT !.pc = p])

(* The locals of system_app_load and system_app_store are gone outside them. *)
Left(b) == [b EXCEPT !.hdr = <<>>, !.i = 0, !.rc = FALSE, !.sum = 0, !.out = <<>>,
                     !.left = 0, !.g_flash_addr = 0]
LeaveTo(p) == Local([Left(boot) EXCEPT !.pc = p])

(* Where a call returns to: the console or the next device of the sequence;  *)
(* a failed upload ends the program.                                         *)
Back == IF boot.console THEN "console" ELSE "auto"
Failed == IF boot.dev = "uart" THEN "halt" ELSE Back

-----------------------------------------------------------------------------
(* main: set-up, the wait for a key or the time-out, the auto-boot sequence. *)
system_setup == /\ At("setup")
                /\ boot' = [boot EXCEPT !.pc = "key"]
                /\ ext' = [ext EXCEPT !.key = FALSE, !.expired = FALSE]
                /\ UNCHANGED <<Memories, hist, fatVars>>

CheckKey == /\ At("key")
            /\ boot' = IF ext.key THEN [boot EXCEPT !.pc = "console", !.console = TRUE]
                                  ELSE [boot EXCEPT !.pc = "time"]
            /\ ext' = [ext EXCEPT !.key = FALSE]
            /\ UNCHANGED <<Memories, hist, fatVars>>

(* Fault: only a key ends the wait. *)
CheckTimeNever == At("time") /\ Goto("key")
CheckTime == At("time") /\ Goto(IF ext.expired THEN "auto" ELSE "key")

(* The entry of system_app_load, and direct boot, whose size passes the test *)
(* of system_app_boot.                                                       *)
(* Fault: the size of the executable loaded before survives. *)
LoadKeepsSize(b, d) == [b EXCEPT !.pc = "dev_init", !.dev = d,
                                 !.hdr = <<>>, !.i = 0, !.rc = FALSE, !.sum = 0,
                                 !.reading = FALSE]
LoadFrom(b, d) == [b EXCEPT !.pc = "dev_init", !.dev = d, !.g_exe_size = 0,
                            !.hdr = <<>>, !.i = 0, !.rc = FALSE, !.sum = 0,
                            !.reading = FALSE]
DirectBoot(b) == [b EXCEPT !.pc = "boot", !.dev = "direct", !.g_exe_base = 0,
                           !.g_exe_size = WordSize - 1]
Enter(b, d) == IF d = "direct" THEN DirectBoot(b) ELSE LoadFrom(b, d)

NextDevice == /\ At("auto")
              /\ Local(IF boot.auto = <<>>
                         THEN [boot EXCEPT !.pc = "console", !.console = TRUE]
                         ELSE Enter([boot EXCEPT !.auto = Tail(@)], Head(boot.auto)))

(* The console: restart, upload, start, exit, load, store and direct boot.   *)
Restart == /\ At("console")
           /\ boot' = Start
           /\ FatReset
           /\ UNCHANGED <<Memories, ext, hist>>
Upload == /\ At("console")
          /\ boot' = LoadFrom(boot, "uart")
          /\ \E s \in ext.sends : ext' = [ext EXCEPT !.host = s]
          /\ UNCHANGED <<Memories, hist, fatVars>>
StartExecutable == At("console") /\ Goto("boot")
Exit == At("console") /\ Goto("halt")
LoadCommand == At("console") /\ \E d \in Enabled : Local(Enter(boot, d))
StoreCommand == /\ At("console")
                /\ \E d \in Enabled \cap {"spi", "twi"} : 
                     Local([boot EXCEPT !.pc = IF boot.g_exe_size = 0 THEN "console" ELSE "store_init",
                                        !.dev = d])
Console == \/ Restart \/ Upload \/ StartExecutable \/ Exit \/ LoadCommand \/ StoreCommand

-----------------------------------------------------------------------------
(* spi_flash_setup, twi_flash_setup, uart_setup: there or not. *)
Initialized(next) ==
  IF boot.dev = "uart" \/ boot.dev \in ext.present
    THEN [boot EXCEPT !.pc = next, !.g_flash_addr = 0]
    ELSE [Left(boot) EXCEPT !.pc = Failed]

DeviceInit == /\ At("dev_init") /\ boot.dev # "sd"
              /\ Local(Initialized("header"))

(* sdcard_setup: mount the card, open the file. *)
FatCall(p, call) == /\ call
                    /\ boot' = [boot EXCEPT !.pc = p]
                    /\ UNCHANGED <<Memories, ext, hist>>
SdSetup == \/ At("dev_init") /\ boot.dev = "sd" /\ FatCall("mount", pf_mount)
           \/ At("mount") /\ fpc = "idle" /\ res = "FR_OK" /\ FatCall("open", pf_open)
           \/ At("mount") /\ fpc = "idle" /\ res # "FR_OK" /\ LeaveTo(Failed)
           \/ At("open") /\ fpc = "idle" /\ Goto(IF res = "FR_OK" THEN "header" ELSE Failed)

Disk == FatStep /\ UNCHANGED loaderVars

(* What becomes of a word w, received with error e: the header first ...     *)
HeaderWord(w, e) == [boot EXCEPT !.hdr = Append(@, w), !.rc = @ \/ e,
                                 !.pc = IF Len(boot.hdr) = 3 THEN "signature" ELSE "header"]

(* ... then the data.  It is stored even when the device reported an error;  *)
(* a store beyond the memory or to an odd address traps.                     *)
Target == (boot.g_exe_base + boot.i) % WordSize
Mapped(a) == a < RamBytes /\ a % BytesPerWord = 0
DataWord(w, e) == [boot EXCEPT !.rc = @ \/ e, !.sum = SumMod(@, w),
                               !.i = (@ + BytesPerWord) % WordSize,
                               !.pc = IF Mapped(Target) THEN "data" ELSE "panic"]

Wanted == \/ At("header")
          \/ At("data") /\ boot.i < boot.hdr[3] /\ ~boot.rc
Receive(w, e, addr) ==
  LET b == IF At("header") THEN HeaderWord(w, e) ELSE DataWord(w, e)
  IN /\ boot' = [b EXCEPT !.g_flash_addr = addr, !.reading = FALSE]
     /\ ram' = IF At("data") /\ Mapped(Target) THEN [ram EXCEPT ![Target \div BytesPerWord] = w]
                                               ELSE ram
     /\ UNCHANGED <<spi, twi, hist>>

uart_stream_get == /\ Wanted /\ boot.dev = "uart" /\ ext.host # <<>>
                   /\ Receive(Head(ext.host), FALSE, boot.g_flash_addr)
                   /\ ext' = [ext EXCEPT !.host = Tail(@)]
                   /\ UNCHANGED fatVars

NextAddr == boot.g_flash_addr + BytesPerWord
spi_flash_stream_get == /\ Wanted /\ boot.dev = "spi"
                        /\ Receive(WordAt(spi.mem, boot.g_flash_addr), FALSE, NextAddr)
                        /\ UNCHANGED <<ext, fatVars>>

(* Bytes that are not acknowledged (miss) keep their zero. *)
Glitches(miss) == /\ ext.nacks + Cardinality(miss) <= MaxNacks
                  /\ ext' = [ext EXCEPT !.nacks = @ + Cardinality(miss)]
Received(w, miss) == read32([k \in 1 .. 2 |-> IF k \in miss THEN 0 ELSE write32(w)[k]])
twi_flash_stream_get ==
  \E miss \in SUBSET {1, 2} :
    /\ Wanted /\ boot.dev = "twi"
    /\ Glitches(miss)
    /\ Receive(Received(WordAt(twi, boot.g_flash_addr), miss), miss # {}, NextAddr)
    /\ UNCHANGED fatVars

(* sdcard_stream_get: a read that fails or ends early is an error. *)
SdWord == CASE Len(got) = 0 -> 0
            [] Len(got) = 1 -> got[1]
            [] OTHER -> read32(got)
SdError == res # "FR_OK" \/ Len(got) # BytesPerWord
sdcard_stream_get ==
  /\ Wanted /\ boot.dev = "sd" /\ fpc = "idle"
  /\ UNCHANGED ext
  /\ \/ /\ ~boot.reading
        /\ pf_read
        /\ boot' = [boot EXCEPT !.reading = TRUE]
        /\ UNCHANGED <<Memories, hist>>
     \/ /\ boot.reading
        /\ Receive(SdWord, SdError, boot.g_flash_addr)
        /\ UNCHANGED fatVars

(* The rest of system_app_load.  Signature and errors are tested after the   *)
(* whole header has been read; the base address is taken over even when the  *)
(* test fails.                                                               *)
CheckSignature ==
  /\ At("signature")
  /\ IF boot.hdr[1] = BIN_SIGNATURE
       THEN Local([boot EXCEPT !.g_exe_base = boot.hdr[2], !.pc = "data"])
       ELSE Local([Left(boot) EXCEPT !.g_exe_base = boot.hdr[2], !.pc = Failed])

(* Fault: the checksum alone decides. *)
SoundIgnoresErrors == SumMod(SumMod(boot.hdr[4], boot.sum), 1) = 0
Sound == ~boot.rc /\ SumMod(SumMod(boot.hdr[4], boot.sum), 1) = 0
CheckSum == /\ At("data") /\ ~Wanted
            /\ Local(IF ~Sound THEN [Left(boot) EXCEPT !.pc = Failed]
                     ELSE [Left(boot) EXCEPT !.g_exe_size = boot.hdr[3],
                                       !.pc = IF boot.console THEN "console" ELSE "boot"])

(* system_app_boot: without an executable the user may insist (y). *)
LeaveFor(forced) == /\ boot' = [boot EXCEPT !.pc = "app"]
                    /\ hist' = [hist EXCEPT !.forced = forced]
                    /\ UNCHANGED <<Memories, ext, fatVars>>
system_app_boot == /\ At("boot")
                   /\ IF boot.g_exe_size = 0 THEN Goto("anyway")
                                             ELSE LeaveFor(boot.dev = "direct")
BootAnyway == At("anyway") /\ (LeaveFor(TRUE) \/ Goto(Back))

(* The handler of unexpected traps reports and stops. *)
system_trap_handler == At("panic") /\ Goto("halt")

-----------------------------------------------------------------------------
(* system_app_store: device, confirmation, erasure, data, header. *)
StoreInit == /\ At("store_init")
             /\ Local(IF boot.dev \in ext.present
                        THEN [boot EXCEPT !.pc = "confirm", !.g_flash_addr = 0]
                        ELSE [boot EXCEPT !.pc = "console"])

(* Fault: as many sectors as the data fills. *)
SectorsRounded == (boot.g_exe_size + SectorSize - 1) \div SectorSize
Sectors == boot.g_exe_size \div SectorSize + 1
Confirm == /\ At("confirm")
           /\ \/ Goto("console")
              \/ /\ boot' = [boot EXCEPT !.pc = IF boot.dev = "spi" THEN "erase" ELSE "store",
                                         !.left = Sectors, !.i = 0, !.rc = FALSE,
                                         !.sum = 0, !.hdr = <<>>, !.out = <<>>,
                                         !.g_flash_addr = IF boot.dev = "spi" THEN 0
                                                          ELSE BIN_OFFSET_DATA]
                 /\ hist' = IF hist.on = boot.dev THEN [hist EXCEPT !.on = "none"] ELSE hist
                 /\ UNCHANGED <<Memories, ext, fatVars>>

(* A flash command (after WRITE_ENABLE) is lost while the flash is busy. *)
Command(op, byte) == spi' = IF spi.busy # "no" THEN spi
                            ELSE [spi EXCEPT !.busy = op, !.at = boot.g_flash_addr, !.data = byte]
(* Fault: the loader does not wait for the flash. *)
NotPolled == TRUE
Polled == spi.busy = "no"

(* spi_flash_erase: one sector after the other, each polled until done. *)
EraseSector == /\ At("erase")
               /\ Command("erase", 0)
               /\ boot' = [boot EXCEPT !.pc = "erase_wait"]
               /\ UNCHANGED <<ram, twi, ext, hist, fatVars>>
AfterSector == IF boot.left = 1
                 THEN [boot EXCEPT !.pc = "store", !.left = 0, !.g_flash_addr = BIN_OFFSET_DATA]
                 ELSE [boot EXCEPT !.pc = "erase", !.left = @ - 1,
                                   !.g_flash_addr = @ + SectorSize]
EraseWait == At("erase_wait") /\ Polled /\ Local(AfterSector)

(* The next word to be written: data, then the header at the base address,   *)
(* the checksum last.  After an error the header is written nevertheless.    *)
MoreData == boot.i < boot.g_exe_size /\ ~boot.rc /\ boot.hdr = <<>>
StoredHeader == <<BIN_SIGNATURE, boot.g_exe_base, boot.g_exe_size, Complement(boot.sum)>>
StoreWord ==
  /\ At("store") /\ boot.out = <<>>
  /\ \/ /\ MoreData
        /\ LET w == ram[Target \div BytesPerWord]
           IN Local([boot EXCEPT !.out = write32(w), !.sum = SumMod(@, w),
                                 !.i = (@ + BytesPerWord) % WordSize])
     \/ /\ ~MoreData /\ Len(boot.hdr) < HeaderWords
        /\ LET w == StoredHeader[Len(boot.hdr) + 1]
           IN Local([boot EXCEPT !.out = write32(w), !.hdr = Append(@, w),
                                 !.g_flash_addr = IF boot.hdr = <<>> THEN 0 ELSE @])
     \/ /\ ~MoreData /\ Len(boot.hdr) = HeaderWords
        /\ boot' = [Left(boot) EXCEPT !.pc = "console"]
        /\ hist' = IF boot.rc THEN hist
                   ELSE [hist EXCEPT !.on = boot.dev,
                           !.stored = boot.hdr \o [k \in 1 .. boot.g_exe_size \div BytesPerWord |->
                              ram[boot.g_exe_base \div BytesPerWord + k - 1]]]
        /\ UNCHANGED <<Memories, ext, fatVars>>

(* spi_flash_stream_put and twi_flash_stream_put, byte by byte. *)
ByteDone == [boot EXCEPT !.out = Tail(@), !.g_flash_addr = @ + 1]
ProgramByte == /\ At("store") /\ boot.out # <<>> /\ boot.dev = "spi"
               /\ Command("program", Head(boot.out))
               /\ boot' = [boot EXCEPT !.pc = "program_wait"]
               /\ UNCHANGED <<ram, twi, ext, hist, fatVars>>
ProgramWait == At("program_wait") /\ Polled /\ Local([ByteDone EXCEPT !.pc = "store"])

(* The memory answers the address again when it has written the byte, and    *)
(* the loader asks until it does, without a bound.                           *)
twi_flash_stream_put ==
  \E miss \in {{}, {1}} :
    /\ At("store") /\ boot.out # <<>> /\ boot.dev = "twi"
    /\ Glitches(miss)
    /\ boot' = IF miss = {} THEN [boot EXCEPT !.pc = "write_wait"] ELSE [ByteDone EXCEPT !.rc = TRUE]
    /\ UNCHANGED <<Memories, hist, fatVars>>
Write(b) == [twi EXCEPT ![boot.g_flash_addr] = b]
WriteDone == /\ At("write_wait")
             /\ twi' = Write(Head(boot.out))
             /\ boot' = [ByteDone EXCEPT !.pc = "store"]
             /\ UNCHANGED <<ram, spi, ext, hist, fatVars>>

-----------------------------------------------------------------------------
(* The program runs in: *)
Program == \/ system_setup \/ CheckKey \/ CheckTime \/ NextDevice
           \/ DeviceInit \/ SdSetup \/ Disk
           \/ uart_stream_get \/ spi_flash_stream_get \/ twi_flash_stream_get \/ sdcard_stream_get
           \/ CheckSignature \/ CheckSum \/ system_app_boot \/ system_trap_handler
           \/ EraseSector \/ EraseWait \/ StoreWord
           \/ ProgramByte \/ ProgramWait \/ twi_flash_stream_put
(* ... and, when it has asked the user: *)
User == Console \/ BootAnyway \/ StoreInit \/ Confirm

(* The flash ends its operation: programming can only clear bits. *)
SectorOf(a) == {b \in FlashAddr : b \div SectorSize = a \div SectorSize}
Erase(S) == [a \in FlashAddr |-> IF a \in S THEN Erased ELSE spi.mem[a]]
Programmed(a, b) == [spi.mem EXCEPT ![a] = And(@, b)]
Completed == IF spi.busy = "erase" THEN Erase(SectorOf(spi.at))
             ELSE Programmed(spi.at, spi.data)
FlashDone == /\ spi.busy # "no"
             /\ spi' = [spi EXCEPT !.mem = Completed, !.busy = "no"]
             /\ UNCHANGED <<boot, ram, twi, ext, hist, fatVars>>

(* A power failure in the middle of an operation leaves a sector partly      *)
(* erased, a byte of the flash with only some of its bits cleared, and a     *)
(* byte of the TWI memory written or not.                                    *)
Torn == CASE spi.busy = "no" -> {spi.mem}
          [] spi.busy = "erase" ->
               {Erase({b \in SectorOf(spi.at) : b < n}) : n \in FlashAddr \cup {FlashBytes}} \cup
               {Erase({b \in SectorOf(spi.at) : b >= n}) : n \in FlashAddr}
          [] spi.busy = "program" ->
               {Programmed(spi.at, b) : b \in {x \in ByteValues : And(x, spi.data) = spi.data}}
TornWrite == {twi} \cup (IF At("write_wait") THEN {Write(Head(boot.out))} ELSE {})

PowerCut == /\ ext.cuts < MaxCuts
            /\ ext' = [ext EXCEPT !.cuts = @ + 1, !.host = <<>>]
            /\ boot' = Start
            /\ \E m \in Torn : spi' = [mem |-> m, busy |-> "no", at |-> 0, data |-> 0]
            /\ twi' \in TornWrite
            /\ ram' = [a \in DOMAIN ram |-> 0]
            /\ hist' = [hist EXCEPT !.forced = FALSE]
            /\ FatReset

PressKey == /\ boot.pc \in {"key", "time"} /\ ~ext.key
            /\ ext' = [ext EXCEPT !.key = TRUE]
            /\ UNCHANGED <<boot, Memories, hist, fatVars>>
Tick == /\ boot.pc \in {"key", "time"} /\ ~ext.expired
        /\ ext' = [ext EXCEPT !.expired = TRUE]
        /\ UNCHANGED <<boot, Memories, hist, fatVars>>

Next == Program \/ User \/ FlashDone \/ WriteDone \/ PowerCut \/ PressKey \/ Tick

(* The program proceeds and time passes; nobody needs to press a key or cut  *)
(* the power, and a memory may take for ever.                                *)
Spec == Init /\ [][Next]_vars /\ WF_vars(Program) /\ WF_vars(Tick)

-----------------------------------------------------------------------------
ProgramCounters == {"setup", "key", "time", "auto", "console", "dev_init", "mount", "open",
  "header", "signature", "data", "boot", "anyway", "app", "panic", "halt", "store_init",
  "confirm", "erase", "erase_wait", "store", "program_wait", "write_wait"}
TypeOK == /\ FatTypeOK
          /\ boot.pc \in ProgramCounters
          /\ {boot.g_exe_base, boot.g_exe_size, boot.sum} \subseteq Words
          /\ boot.g_flash_addr \in Nat
          /\ \A a \in DOMAIN ram : ram[a] \in Words
          /\ \A a \in FlashAddr : {spi.mem[a], twi[a]} \subseteq ByteValues

InMemory(im) == /\ boot.g_exe_base = Base(im)
                /\ boot.g_exe_size = BytesPerWord * Len(Payload(im))
                /\ \A k \in 1 .. Len(Payload(im)) :
                     ram[Base(im) \div BytesPerWord + k - 1] = Payload(im)[k]

(* Unless the user insists, the loader starts only an executable that is in  *)
(* memory completely and unchanged: not one torn by a power failure during a *)
(* store, a missing acknowledge, a failed disk access or a bad upload        *)
(* (system_app_load, system_app_store, system_app_boot).                     *)
BootsWhole == At("app") /\ ~hist.forced => \E im \in Whole : InMemory(im)

(* A size other than 0 means the executable in memory has been verified, so  *)
(* that "store" and "start" always work on one (g_exe_size).                 *)
SizeMeansVerified == boot.g_exe_size # 0 /\ boot.dev # "direct" =>
                       \E im \in Whole : InMemory(im)

Holds(mem, im) == \A k \in 1 .. Len(im) : WordAt(mem, BytesPerWord * (k - 1)) = im[k]

(* After a store that reported success the memory holds the executable with  *)
(* a header that a load accepts, until the next store (system_app_store:     *)
(* "return 0 if success").                                                   *)
StoredWhole == hist.on # "none" =>
  /\ hist.stored \in Whole
  /\ Holds(IF hist.on = "spi" THEN spi.mem ELSE twi, hist.stored)

(* The erasure of a flash counts the bytes of the data and not those of the  *)
(* header in front of them: of some sizes the last sector is not erased.     *)
ErasesEnough(size) == BIN_OFFSET_DATA + size <= SectorSize * (size \div SectorSize + 1)
StoreRoundTrip == (hist.on = "spi" => ErasesEnough(hist.stored[3])) => StoredWhole

(* The loader always comes back to the user, starts the application or       *)
(* stops: neither a device that fails nor what a memory holds after a power  *)
(* failure keeps it busy for ever.  Two exceptions: a host that stops in the *)
(* middle of an upload, and a memory that never completes an erasure or a    *)
(* write (spi_flash_erase, spi_flash_stream_put, twi_transfer_byte).         *)
Resting == \/ boot.pc \in {"console", "anyway", "confirm", "store_init", "app", "panic", "halt"}
           \/ boot.dev = "uart" /\ ext.host = <<>>
MemoryBusy == \/ boot.pc \in {"erase_wait", "program_wait"} /\ spi.busy # "no"
              \/ boot.pc = "write_wait"
ComesBack == []<>Resting \/ <>[]MemoryBusy

(* Only a verified executable is started unasked.                            *)
OnlyVerifiedBoots == TypeOK /\ BootsWhole /\ SizeMeansVerified

(* What is stored is what is loaded, but for the sizes whose erasure is too  *)
(* short, and a card is read at the sectors that are meant.                  *)
StorageTrue == StoreRoundTrip /\ AddressesAgree
=============================================================================
