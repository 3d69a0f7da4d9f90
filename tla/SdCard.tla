------------------------------- MODULE SdCard -------------------------------
(* The card driver of the boot loader (diskio.c): the identification         *)
(* sequence that finds out what kind of card is in the slot, and the         *)
(* addresses of the sector read.  One step is one command and its answer.    *)
(* The card is external: it is of one of Kinds, takes some polls to leave    *)
(* its idle state, takes block or byte addresses and may leave any command   *)
(* unanswered (ok = FALSE).                                                  *)
EXTENDS Integers, Sequences

CONSTANTS SectorBytes,  \* bytes of a sector (512 in the code)
          PollBound     \* polls before the driver gives up (10000 in the code)
ASSUME CardAssumption == SectorBytes \in Nat \ {0} /\ PollBound \in Nat \ {0}

VARIABLES kind,      \* the card in the slot
          CardType,  \* the driver's idea of it, a set of flags
          ty, tmr,   \* its locals: type so far, polls left
          cmd        \* command disk_initialize sends next, "none" outside of it
cardVars == <<kind, CardType, ty, tmr, cmd>>

Kinds == {"none", "MMC", "SD1", "SD2", "SDHC"}
CardTypes == {{}, {"CT_MMC"}, {"CT_SD1"}, {"CT_SD2"}, {"CT_SD2", "CT_BLOCK"}}
Commands == {"none", "CMD0", "CMD8", "ACMD41_HCS", "CMD58",
             "ACMD41_PROBE", "ACMD41", "CMD1", "CMD16"}

CardInit == /\ kind \in Kinds
            /\ CardType = {}
            /\ ty = {}
            /\ tmr = 0
            /\ cmd = "none"

CardTypeOK == /\ kind \in Kinds
              /\ {CardType, ty} \subseteq CardTypes
              /\ tmr \in 0 .. PollBound
              /\ cmd \in Commands

(* send_cmd: an answer within ten bytes, when there is a card and no glitch. *)
send_cmd(ok) == ok /\ kind # "none"

StartCard == /\ cmd' = "CMD0"
             /\ ty' = {}
             /\ UNCHANGED <<kind, CardType, tmr>>

Send(c) == /\ cmd' = c
           /\ UNCHANGED <<kind, CardType, ty, tmr>>

StartPoll(c, t) == /\ cmd' = c
                   /\ ty' = t
                   /\ tmr' = PollBound
                   /\ UNCHANGED <<kind, CardType>>

(* The end of disk_initialize; an empty type is STA_NOINIT. *)
Identified(t) == /\ CardType' = t
                 /\ cmd' = "none" /\ ty' = {} /\ tmr' = 0
                 /\ UNCHANGED kind

GoIdle(ok) == /\ cmd = "CMD0"
              /\ IF send_cmd(ok) THEN Send("CMD8") ELSE Identified({})

(* Only a version 2 card accepts SEND_IF_COND.  Without an echo of its       *)
(* argument the card does not work at this voltage.                          *)
SendIfCond(ok, echo) ==
  /\ cmd = "CMD8"
  /\ IF send_cmd(ok) /\ kind \in {"SD2", "SDHC"}
       THEN IF echo THEN StartPoll("ACMD41_HCS", {}) ELSE Identified({})
       ELSE Send("ACMD41_PROBE")

(* An MMC rejects the application command. *)
Probe(ok) == /\ cmd = "ACMD41_PROBE"
             /\ IF send_cmd(ok) /\ kind # "MMC"
                  THEN StartPoll("ACMD41", {"CT_SD1"}) ELSE StartPoll("CMD1", {"CT_MMC"})

(* A high-capacity card stays idle unless the host announced support (HCS). *)
LeavesIdle == cmd = "ACMD41_HCS" \/ kind # "SDHC"

Poll(ok, ready) ==
  /\ cmd \in {"ACMD41_HCS", "ACMD41", "CMD1"}
  /\ \/ /\ tmr > 0 /\ send_cmd(ok) /\ ready /\ LeavesIdle
        /\ Send(IF cmd = "ACMD41_HCS" THEN "CMD58" ELSE "CMD16")
     \/ /\ tmr > 0 /\ ~(send_cmd(ok) /\ ready /\ LeavesIdle)
        /\ tmr' = tmr - 1
        /\ UNCHANGED <<kind, CardType, ty, cmd>>
     \/ /\ tmr = 0
        /\ Identified({})

(* The capacity bit of the OCR tells block from byte addresses. *)
(* Fault: every version 2 card is taken for a high-capacity card. *)
OcrIgnored == {"CT_SD2", "CT_BLOCK"}
OcrType == IF kind = "SDHC" THEN {"CT_SD2", "CT_BLOCK"} ELSE {"CT_SD2"}
ReadOcr(ok) == /\ cmd = "CMD58"
               /\ Identified(IF send_cmd(ok) THEN OcrType ELSE {})

SetBlockLen(ok) == /\ cmd = "CMD16"
                   /\ Identified(IF send_cmd(ok) THEN ty ELSE {})

disk_initialize == \E ok, ready, echo \in BOOLEAN :
  \/ GoIdle(ok) \/ SendIfCond(ok, echo) \/ Probe(ok)
  \/ Poll(ok, ready) \/ ReadOcr(ok) \/ SetBlockLen(ok)

(* disk_readp: the argument of READ_SINGLE_BLOCK, and the sector the card    *)
(* answers it with.                                                          *)
Argument(sector) == IF "CT_BLOCK" \in CardType THEN sector ELSE sector * SectorBytes
CardSector(arg) == IF kind = "SDHC" THEN arg ELSE arg \div SectorBytes
disk_readp(sector) == CardSector(Argument(sector))
=============================================================================
