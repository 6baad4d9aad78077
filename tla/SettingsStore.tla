---------------------------- MODULE SettingsStore ----------------------------
(***************************************************************************)
(* The settings store of the miner (software/common/settings.c on top of    *)
(* software/application/eeprom.c): two 512-byte records in an I2C EEPROM,   *)
(* written alternately, the newer valid one being the settings.             *)
(*                                                                          *)
(* A record body is written in EEPROM pages; its commit byte is written     *)
(* last, by a write of its own.  Every write may fail: it may be reported   *)
(* failed although the device stored it (the bus failed after the data      *)
(* bytes, eeprom.c finish()), may leave a torn page, and may be reported    *)
(* stored although it was not, which is what the two readbacks of           *)
(* settings_save are for.  Power may be cut between any two bus transfers;  *)
(* a transfer cut in the middle is a failed transfer and then the cut.      *)
(***************************************************************************)
EXTENDS Integers

CONSTANTS Value,    \* contents of a miner_settings
          Valid,    \* the contents settings_valid accepts
          NumPages, \* EEPROM write pages of a record body (16 in the code)
          SeqMod,   \* modulus of the record sequence counter (2^32 in the code)
          None,     \* no settings
          Torn      \* contents of a page that belong to no record

\* The commit byte of a complete record; any other value is written as 0.
COMMIT == 165

\* A record carries its sequence number and the settings.
Image == [seq : 0 .. SeqMod - 1, val : Valid]

ASSUME StoreAssumption ==
  /\ Valid \subseteq Value
  /\ None \notin Value
  /\ NumPages \in Nat \ {0}
  /\ SeqMod \in Nat /\ SeqMod >= 4
  /\ Torn \notin Image

VARIABLES slot,     \* slot[i]: the pages and the commit byte of EEPROM record i
          pc,       \* the transfer settings_save does next
          image,    \* the record being written (b in settings_save)
          target,   \* the slot it is written to (addr)
          page,     \* the page to write next
          saving,   \* the settings being saved (the argument s), None outside
          outcome   \* the return value of the last settings_save

vars == <<slot, pc, image, target, page, saving, outcome>>

Slots == {0, 1}
Pages == 1 .. NumPages

\* The record body read from a slot is accepted when its CRC fits: every page
\* belongs to the same record.  The commit byte must be 0xa5.
RecordValid(s) ==
  /\ s.commit = COMMIT
  /\ s.body[1] \in Image
  /\ \A p \in Pages : s.body[p] = s.body[1]

\* u32 sequence arithmetic: the successor and the difference b - a modulo
\* SeqMod, and the sign test (int32_t)(b - a) > 0.  The faulty variant compares
\* without the wrap.
NextSeq(n) == IF n = SeqMod - 1 THEN 0 ELSE n + 1

SeqDiff(a, b) == IF b >= a THEN b - a ELSE b - a + SeqMod

SeqNewerUnsigned(a, b) == b > a

SeqNewer(a, b) == SeqDiff(a, b) > 0 /\ 2 * SeqDiff(a, b) < SeqMod

\* read_slots: the slot that holds the current settings, -1 for none.
ReadSlots ==
  IF ~RecordValid(slot[0]) /\ ~RecordValid(slot[1]) THEN -1
  ELSE IF ~RecordValid(slot[0]) THEN 1
  ELSE IF ~RecordValid(slot[1]) THEN 0
  ELSE IF SeqNewer(slot[0].body[1].seq, slot[1].body[1].seq) THEN 1 ELSE 0

\* settings_load without a bus error: the settings of the current slot.
Stored == IF ReadSlots = -1 THEN None ELSE slot[ReadSlots].body[1].val

Init ==
  /\ slot = [i \in Slots |-> [body |-> [p \in Pages |-> Torn], commit |-> 0]]
  /\ pc = "idle"
  /\ image = Torn
  /\ target = 0
  /\ page = 1
  /\ saving = None
  /\ outcome = "none"

Return(result) ==
  /\ pc' = "idle"
  /\ saving' = None
  /\ outcome' = result

Goto(label) ==
  /\ pc' = label
  /\ UNCHANGED <<saving, outcome>>

-----------------------------------------------------------------------------
(* settings_save, one action per call of settings_valid, read or write.     *)

SaveBegin(v) ==
  /\ pc = "idle"
  /\ v \in Valid
  /\ pc' = "scan"
  /\ saving' = v
  /\ outcome' = "none"
  /\ UNCHANGED <<slot, image, target, page>>

SaveReject(v) ==
  /\ pc = "idle"
  /\ v \notin Valid
  /\ Return("failed")
  /\ UNCHANGED <<slot, image, target, page>>

\* read_slots, and the record is built in RAM for the slot that is not current.
Scan ==
  /\ pc = "scan"
  /\ image' = [seq |-> IF ReadSlots = -1 THEN 0
                       ELSE NextSeq(slot[ReadSlots].body[1].seq),
               val |-> saving]
  /\ target' = IF ReadSlots = 0 THEN 1 ELSE 0
  /\ page' = 1
  /\ Goto("invalidate")
  /\ UNCHANGED slot

\* write(addr+511, 0): the commit byte, cleared first.
Invalidate ==
  /\ pc = "invalidate"
  /\ \E c \in {0, slot[target].commit} :
        slot' = [slot EXCEPT ![target].commit = c]
  /\ Goto("body") \/ Return("failed")
  /\ UNCHANGED <<image, target, page>>

\* One page of write(addr, b, 511); the loop of eeprom_write.
WritePage ==
  /\ pc = "body"
  /\ \E c \in {image, slot[target].body[page], Torn} :
        slot' = [slot EXCEPT ![target].body[page] = c]
  /\ \/ /\ page < NumPages
        /\ page' = page + 1
        /\ Goto("body")
     \/ /\ page = NumPages
        /\ Goto("verify")
        /\ UNCHANGED page
     \/ /\ Return("failed")
        /\ UNCHANGED page
  /\ UNCHANGED <<image, target>>

\* read(addr, verify) and memcmp(b, verify, 512); b[511] is still zero.
BodyMatches ==
  /\ slot[target].commit = 0
  /\ \A p \in Pages : slot[target].body[p] = image

VerifyBody ==
  /\ pc = "verify"
  /\ \/ BodyMatches /\ Goto("commit")
     \/ Return("failed")
  /\ UNCHANGED <<slot, image, target, page>>

\* write(addr+511, 0xa5).
Commit ==
  /\ pc = "commit"
  /\ \E c \in {COMMIT, slot[target].commit} :
        slot' = [slot EXCEPT ![target].commit = c]
  /\ Goto("confirm") \/ Return("failed")
  /\ UNCHANGED <<image, target, page>>

\* The second readback and record_valid(verify).
VerifyCommit ==
  /\ pc = "confirm"
  /\ \/ RecordValid(slot[target]) /\ Return("ok")
     \/ Return("failed")
  /\ UNCHANGED <<slot, image, target, page>>

\* read_slots returns -2: a bus error while scanning.
ScanError ==
  /\ pc = "scan"
  /\ Return("failed")
  /\ UNCHANGED <<slot, image, target, page>>

\* The processor loses power or is reset: everything but the EEPROM is gone.
PowerCut ==
  /\ Return("none")
  /\ image' = Torn
  /\ target' = 0
  /\ page' = 1
  /\ UNCHANGED slot

SaveStep == \/ Scan \/ ScanError \/ Invalidate \/ WritePage \/ VerifyBody
            \/ Commit \/ VerifyCommit

Next ==
  \/ \E v \in Value : SaveBegin(v) \/ SaveReject(v)
  \/ SaveStep
  \/ PowerCut

Spec == Init /\ [][Next]_vars
-----------------------------------------------------------------------------
(* Properties.                                                              *)

\* The values of the EEPROM and of the locals of settings_save; in particular
\* the page loop of eeprom_write stays inside the record.
TypeOK ==
  /\ slot \in [Slots -> [body : [Pages -> Image \cup {Torn}], commit : {0, COMMIT}]]
  /\ pc \in {"idle", "scan", "invalidate", "body", "verify", "commit", "confirm"}
  /\ image \in Image \cup {Torn}
  /\ target \in Slots
  /\ page \in Pages
  /\ saving \in Valid \cup {None}
  /\ outcome \in {"none", "ok", "failed"}

\* SeqOf(i) is the sequence number of the record in slot i; Other(i) the slot
\* beside it.
SeqOf(i) == slot[i].body[1].seq
Other(i) == 1 - i
IsValid(i) == RecordValid(slot[i])
Writing == pc \in {"invalidate", "body", "verify", "commit", "confirm"}

\* Two valid records are always neighbours in the cyclic order of sequence
\* numbers, which is what makes the signed comparison of read_slots
\* (settings.c:51) pick the newer one, also across the wrap of the counter.
SlotsAdjacent ==
  IsValid(0) /\ IsValid(1) =>
    \/ SeqOf(1) = NextSeq(SeqOf(0))
    \/ SeqOf(0) = NextSeq(SeqOf(1))

\* The slot that is not written holds the predecessor of the new record, and
\* the written slot is valid only as the new record or as the record that was
\* there before, one older than its neighbour.
Isolated ==
  /\ image \in Image
  /\ IsValid(Other(target)) => image.seq = NextSeq(SeqOf(Other(target)))
  /\ IsValid(target) =>
       \/ slot[target].body[1] = image
       \/ /\ IsValid(Other(target))
          /\ SeqOf(Other(target)) = NextSeq(SeqOf(target))

\* While a save writes, its writes stay in the slot that is not current and
\* the record it builds there carries the settings of the caller
\* (settings.c:65-73).
WriteIsolated == Writing => Isolated /\ image.val = saving

\* What each stage of settings_save has established for the next.
StageFacts ==
  /\ pc = "idle" <=> saving = None
  /\ pc # "idle" => outcome = "none"
  /\ pc \in {"commit", "confirm"} => \A p \in Pages : slot[target].body[p] = image
  /\ pc = "commit" => slot[target].commit = 0

\* A save that returned 0 has stored exactly the settings it was given: a
\* load now returns them (settings.c:71-74; the reply {"ok":true} of the
\* configuration service rests on this).  The image stays in
\* place after the return, until the next save or a power cut.
OkMeansStored == outcome = "ok" => Stored = image.val

IInv == TypeOK /\ SlotsAdjacent /\ WriteIsolated /\ StageFacts /\ OkMeansStored

\* What was stored when the save in progress began: the slot it leaves alone.
Settled ==
  IF ~Writing THEN Stored
  ELSE IF IsValid(Other(target)) THEN slot[Other(target)].body[1].val ELSE None

Register == INSTANCE SettingsRegister WITH stored <- Stored, settled <- Settled

\* The store implements a register: during a save the stored settings are the
\* old or the new ones, and neither a failed save nor a power cut at any
\* transfer loses what was stored (settings.h:20, doc/protocol.md:133-135).
ImplementsRegister == Register!Spec
=============================================================================
