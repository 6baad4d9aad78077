----------------------------- MODULE Bootloader -----------------------------
(***************************************************************************)
(* The first-stage boot loader (software/bootloader/main.c): it calibrates   *)
(* the HyperRAM, reads S-records from the flash, stores their data in RAM    *)
(* with a readback of every byte, keeps data for the exception vectors aside *)
(* and, when everything has been checked, installs the vectors and jumps.    *)
(* The loader itself runs from the memory that holds the live vectors.       *)
(*                                                                           *)
(* The flash may hold anything.  What a byte contains does not matter here,  *)
(* only where it goes; a record that srec_parse rejects, and a flash that    *)
(* cannot be read, are ReadFailure.                                          *)
(***************************************************************************)
EXTENDS Integers

CONSTANTS VectorSize,  \* sizeof(vectors)
          Required,    \* the vector bytes the application must provide (offsets)
          RamStart,    \* RAM_START
          RamEnd,      \* RAM_END
          Align,       \* alignment of an entry point
          AddressEnd,  \* addresses of a record are below it (2^32)
          MaxData,     \* data bytes of a record
          MaxRecords   \* bound: records in the flash (its size)

Addresses == 0 .. AddressEnd - 1

ASSUME BootAssumption ==
  /\ VectorSize \in Nat /\ RamStart \in Nat /\ RamEnd \in Nat
  /\ AddressEnd \in Nat /\ Align \in Nat \ {0}
  /\ VectorSize <= RamStart /\ RamStart < RamEnd /\ RamEnd <= AddressEnd
  /\ Required \subseteq 0 .. VectorSize - 1
  /\ MaxData \in Nat /\ MaxRecords \in Nat

VARIABLES pc,          \* the stage of main
          records,     \* records read from the flash
          dataRecords, \* data_records
          low, high,   \* the bounds of the RAM data so far
          seen,        \* seen: the vector bytes kept aside
          ram,         \* the RAM bytes written and read back
          live,        \* the live vector bytes that were replaced
          entry        \* *entry

vars == <<pc, records, dataRecords, low, high, seen, ram, live, entry>>

Init ==
  /\ pc = "calibrate"
  /\ records = 0 /\ dataRecords = 0
  /\ low = RamEnd /\ high = RamStart
  /\ seen = {} /\ ram = {} /\ live = {}
  /\ entry = 0

\* goto fail: "application not started".
Fail ==
  /\ pc' = "failed"
  /\ UNCHANGED <<records, dataRecords, low, high, seen, ram, live, entry>>

\* Delay calibration and the readback of CR0, then the flash identification.
Calibrate ==
  /\ pc = "calibrate"
  /\ pc' = "flash"
  /\ UNCHANGED <<records, dataRecords, low, high, seen, ram, live, entry>>

CalibrateFails == pc = "calibrate" /\ Fail

IdentifyFlash ==
  /\ pc = "flash"
  /\ pc' = "load"
  /\ UNCHANGED <<records, dataRecords, low, high, seen, ram, live, entry>>

IdentifyFails == pc = "flash" /\ Fail
-----------------------------------------------------------------------------
(* load: one action per record.                                             *)

MoreRecords == pc = "load" /\ records < MaxRecords

\* End of the flash, a transfer that times out, or srec_parse fails.
ReadFailure == pc = "load" /\ Fail

\* S0: a header is skipped.
HeaderRecord ==
  /\ MoreRecords
  /\ records' = records + 1
  /\ UNCHANGED <<pc, dataRecords, low, high, seen, ram, live, entry>>

\* S5, S6: the count of data records must be right.
CountRecord(n) ==
  /\ MoreRecords
  /\ IF n = dataRecords
     THEN /\ records' = records + 1
          /\ UNCHANGED <<pc, dataRecords, low, high, seen, ram, live, entry>>
     ELSE Fail

\* The range checks of a data record with n bytes for address a.
ForVectors(a, n) == a < VectorSize /\ n <= VectorSize - a

\* Faulty variant: only the start of the record is checked.
ForRamStart(a, n) == a >= RamStart /\ a < RamEnd

ForRam(a, n) == a >= RamStart /\ a < RamEnd /\ n <= RamEnd - a


\* Faulty variant: a record for the vectors goes to its address at once.
VectorRecordDirect(a, n) ==
  /\ MoreRecords
  /\ ForVectors(a, n)
  /\ seen' = seen \cup (a .. a + n - 1)
  /\ live' = live \cup (a .. a + n - 1)
  /\ dataRecords' = dataRecords + 1
  /\ records' = records + 1
  /\ UNCHANGED <<pc, low, high, ram, entry>>

VectorRecord(a, n) ==
  /\ MoreRecords
  /\ ForVectors(a, n)
  /\ seen' = seen \cup (a .. a + n - 1)
  /\ dataRecords' = dataRecords + 1
  /\ records' = records + 1
  /\ UNCHANGED <<pc, low, high, ram, live, entry>>

RamRecord(a, n) ==
  /\ MoreRecords
  /\ ~ForVectors(a, n)
  /\ ForRam(a, n)
  /\ ram' = ram \cup (a .. a + n - 1)
  /\ low' = IF a < low THEN a ELSE low
  /\ high' = IF a + n > high THEN a + n ELSE high
  /\ dataRecords' = dataRecords + 1
  /\ records' = records + 1
  /\ UNCHANGED <<pc, seen, live, entry>>

\* The readback of byte k of the record differs; the bytes up to it were written.
RamVerifyFails(a, n, k) ==
  /\ MoreRecords
  /\ ~ForVectors(a, n)
  /\ ForRam(a, n)
  /\ k < n
  /\ ram' = ram \cup (a .. a + k)
  /\ pc' = "failed"
  /\ UNCHANGED <<records, dataRecords, low, high, seen, live, entry>>

BadRange(a, n) ==
  /\ MoreRecords
  /\ ~ForVectors(a, n) /\ ~ForRam(a, n)
  /\ Fail

\* Faulty variant: the entry point may be the end of the data.
EntryValidLoose(e) == dataRecords # 0 /\ e >= low /\ e <= high /\ e % Align = 0

EntryValid(e) == dataRecords # 0 /\ e >= low /\ e < high /\ e % Align = 0

\* S7, S8, S9 end the image.
EndRecord(e) ==
  /\ MoreRecords
  /\ records' = records + 1
  /\ entry' = e
  /\ pc' = IF EntryValid(e) THEN "check" ELSE "failed"
  /\ UNCHANGED <<dataRecords, low, high, seen, ram, live>>
-----------------------------------------------------------------------------
CheckVectors ==
  /\ pc = "check"
  /\ pc' = IF Required \subseteq seen THEN "install" ELSE "failed"
  /\ UNCHANGED <<records, dataRecords, low, high, seen, ram, live, entry>>

\* The next byte of the live vectors is replaced.
InstallByte ==
  /\ pc = "install"
  /\ \E i \in Required \ live :
       /\ \A j \in Required \ live : i <= j
       /\ live' = live \cup {i}
  /\ UNCHANGED <<pc, records, dataRecords, low, high, seen, ram, entry>>

Jump ==
  /\ pc = "install"
  /\ live = Required
  /\ pc' = "running"
  /\ UNCHANGED <<records, dataRecords, low, high, seen, ram, live, entry>>

LoadStep ==
  \/ ReadFailure \/ HeaderRecord
  \/ \E n \in 0 .. MaxRecords : CountRecord(n)
  \/ \E a \in Addresses, n \in 0 .. MaxData :
       \/ VectorRecord(a, n) \/ RamRecord(a, n) \/ BadRange(a, n)
       \/ \E k \in 0 .. MaxData - 1 : RamVerifyFails(a, n, k)
  \/ \E e \in Addresses : EndRecord(e)

Next ==
  \/ Calibrate \/ CalibrateFails \/ IdentifyFlash \/ IdentifyFails
  \/ LoadStep
  \/ CheckVectors \/ InstallByte \/ Jump

Spec == Init /\ [][Next]_vars
-----------------------------------------------------------------------------
\* The state of main and load has its type; in particular no data is kept
\* outside the arrays vectors and seen.
TypeOK ==
  /\ pc \in {"calibrate", "flash", "load", "check", "install", "running", "failed"}
  /\ records \in Nat /\ dataRecords \in Nat
  /\ low \in RamStart .. RamEnd /\ high \in RamStart .. RamEnd
  /\ seen \subseteq 0 .. VectorSize - 1
  /\ live \subseteq Required
  /\ entry \in Addresses

\* "All record, memory and vector checks completed before touching live
\* vectors" (main.c): while a live vector has changed, the image has a valid
\* end record and all the vector bytes that will be installed, and boot cannot
\* fail any more.
VectorsLast ==
  live # {} => /\ pc \in {"install", "running"}
               /\ EntryValid(entry)
               /\ Required \subseteq seen

\* load writes nothing outside the HyperRAM, so the boot loader that is running
\* from low memory is preserved; and as long as loading has not failed, every
\* byte written lies within the bounds the entry point is checked against.
WritesInRam ==
  /\ ram \subseteq RamStart .. RamEnd - 1
  /\ pc # "failed" => ram \subseteq low .. high - 1

\* The application is started with all of its vectors installed, none of them
\* unprovided, at an aligned address of the HyperRAM.
StartsComplete ==
  pc = "running" => /\ live = Required
                    /\ Required \subseteq seen
                    /\ entry \in RamStart .. RamEnd - 1
                    /\ entry % Align = 0
=============================================================================
