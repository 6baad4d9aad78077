--------------------------- MODULE SettingsProof ----------------------------
(***************************************************************************)
(* The settings at their two ends, which share no state.  The EEPROM store, *)
(* for every set of settings, any number of pages and any counter width of  *)
(* at least two bits: it implements the abstract register.  The dashboard's *)
(* form, for any number of miners, requests and edits: replies never        *)
(* overwrite edits or another miner's form (EditsKept), and the save button *)
(* never shows while the form waits for its settings (SaveAfterRead).       *)
(***************************************************************************)
EXTENDS SettingsStore, SettingsForm, TLAPS

(* The store.                                                               *)

\* The counter's successor is newer than its predecessor in the signed
\* comparison of read_slots, the wrap included.
LEMMA SeqOrder ==
  ASSUME NEW n \in 0 .. SeqMod - 1
  PROVE  /\ NextSeq(n) \in 0 .. SeqMod - 1
         /\ SeqNewer(n, NextSeq(n))
         /\ ~SeqNewer(NextSeq(n), n)
  BY StoreAssumption DEF NextSeq, SeqNewer, SeqDiff

\* A valid record of a well-typed slot is an image.
LEMMA ValidImage ==
  ASSUME TypeOK, NEW i \in Slots, IsValid(i)
  PROVE  /\ slot[i].body[1] \in Image
         /\ SeqOf(i) \in 0 .. SeqMod - 1
         /\ slot[i].body[1].val \in Valid
  BY DEF IsValid, RecordValid, SeqOf, Image

\* read_slots and settings_load, by cases on which records are valid.
LEMMA ReadSlotsCases ==
  ASSUME TypeOK, NEW i \in Slots, SlotsAdjacent
  PROVE  /\ ReadSlots \in {-1, 0, 1}
         /\ ReadSlots = -1 <=> ~IsValid(i) /\ ~IsValid(Other(i))
         /\ IsValid(i) /\ ~IsValid(Other(i)) => ReadSlots = i
         /\ IsValid(i) /\ IsValid(Other(i)) /\ SeqOf(i) = NextSeq(SeqOf(Other(i)))
              => ReadSlots = i
         /\ IsValid(i) /\ IsValid(Other(i)) /\ SeqOf(Other(i)) = NextSeq(SeqOf(i))
              => ReadSlots = Other(i)
  <1>1. i \in {0, 1} /\ Other(i) \in Slots /\ Other(0) = 1 /\ Other(1) = 0
    BY DEF Slots, Other
  <1>2. CASE ~(IsValid(0) /\ IsValid(1))
    BY <1>1, <1>2 DEF ReadSlots, IsValid
  <1>3. CASE IsValid(0) /\ IsValid(1)
    <2>1. SeqOf(0) \in 0 .. SeqMod - 1 /\ SeqOf(1) \in 0 .. SeqMod - 1
      BY <1>3, ValidImage DEF Slots
    <2>2. SeqOf(1) = NextSeq(SeqOf(0)) => ReadSlots = 1
      BY <1>3, <2>1, SeqOrder DEF ReadSlots, IsValid, SeqOf
    <2>3. SeqOf(0) = NextSeq(SeqOf(1)) => ReadSlots = 0
      BY <1>3, <2>1, SeqOrder DEF ReadSlots, IsValid, SeqOf
    <2>4. ReadSlots \in {0, 1}
      BY <1>3 DEF ReadSlots, IsValid
    <2> QED
      BY <1>1, <1>3, <2>2, <2>3, <2>4
  <1> QED
    BY <1>2, <1>3

\* The initial state: a blank EEPROM and no save in progress.
LEMMA InitInv == Init => IInv
  <1> SUFFICES ASSUME Init PROVE IInv
    OBVIOUS
  <1> USE StoreAssumption DEF Init
  <1>1. TypeOK
    BY DEF TypeOK, Slots, Pages
  <1>2. ~IsValid(0) /\ ~IsValid(1)
    BY DEF IsValid, RecordValid, Slots, COMMIT
  <1>3. SlotsAdjacent /\ WriteIsolated /\ StageFacts /\ OkMeansStored
    BY <1>2 DEF SlotsAdjacent, WriteIsolated, Writing, StageFacts, OkMeansStored
  <1> QED
    BY <1>1, <1>3 DEF IInv

\* The type invariant is inductive.
LEMMA TypeStep == TypeOK /\ StageFacts /\ WriteIsolated /\ [Next]_vars => TypeOK'
  <1> SUFFICES ASSUME TypeOK, StageFacts, WriteIsolated, [Next]_vars PROVE TypeOK'
    OBVIOUS
  <1> USE StoreAssumption DEF TypeOK, Return, Goto
  <1>1. ASSUME NEW v \in Value, SaveBegin(v) \/ SaveReject(v) PROVE TypeOK'
    BY <1>1 DEF SaveBegin, SaveReject
  <1>2. CASE Scan
    <2>1. IF ReadSlots = -1 THEN TRUE
          ELSE NextSeq(slot[ReadSlots].body[1].seq) \in 0 .. SeqMod - 1
      <3>1. ASSUME ReadSlots # -1 PROVE /\ ReadSlots \in Slots
                                       /\ IsValid(ReadSlots)
        BY <3>1 DEF ReadSlots, IsValid, Slots
      <3>2. ASSUME ReadSlots # -1
            PROVE  NextSeq(slot[ReadSlots].body[1].seq) \in 0 .. SeqMod - 1
        BY <3>1, <3>2, ValidImage, SeqOrder DEF SeqOf
      <3> QED BY <3>2
    <2>2. saving \in Valid
      BY <1>2 DEF Scan, StageFacts
    <2>3. image' \in Image
      BY <1>2, <2>1, <2>2 DEF Scan, Image
    <2>4. target' \in Slots /\ page' \in Pages
      BY <1>2 DEF Scan, Slots, Pages
    <2> QED
      BY <1>2, <2>3, <2>4 DEF Scan
  <1>3. CASE ScanError
    BY <1>3 DEF ScanError
  <1>4. CASE Invalidate
    BY <1>4 DEF Invalidate
  <1>5. CASE WritePage
    <2>1. PICK c \in {image, slot[target].body[page], Torn} :
            slot' = [slot EXCEPT ![target].body[page] = c]
      BY <1>5 DEF WritePage
    <2>2. c \in Image \cup {Torn}
      BY <2>1
    <2>3. slot' \in [Slots -> [body : [Pages -> Image \cup {Torn}], commit : {0, COMMIT}]]
      BY <2>1, <2>2
    <2>4. page' \in Pages
      BY <1>5 DEF WritePage, Pages
    <2> QED
      BY <1>5, <2>3, <2>4 DEF WritePage
  <1>6. CASE VerifyBody
    BY <1>6 DEF VerifyBody
  <1>7. CASE Commit
    BY <1>7 DEF Commit
  <1>8. CASE VerifyCommit
    BY <1>8 DEF VerifyCommit
  <1>9. CASE PowerCut
    BY <1>9 DEF PowerCut, Slots, Pages
  <1>10. CASE UNCHANGED vars
    BY <1>10 DEF vars
  <1> QED
    BY <1>1, <1>2, <1>3, <1>4, <1>5, <1>6, <1>7, <1>8, <1>9, <1>10 DEF Next, SaveStep

\* What a write of settings_save does to the two records: the other slot is
\* left alone, and the written slot is valid afterwards only as the new record
\* or as the record that was valid there before.
LEMMA WriteEffect ==
  ASSUME TypeOK, StageFacts, WriteIsolated,
         Invalidate \/ WritePage \/ Commit
  PROVE  /\ slot'[Other(target)] = slot[Other(target)]
         /\ target' = target /\ image' = image
         /\ RecordValid(slot'[target]) =>
              \/ slot'[target].body[1] = image
              \/ IsValid(target) /\ slot'[target].body[1] = slot[target].body[1]
  <1>1. target \in Slots /\ Other(target) \in Slots /\ Other(target) # target
    BY DEF TypeOK, Slots, Other
  <1>2. CASE Invalidate
    BY <1>1, <1>2 DEF Invalidate, TypeOK, IsValid, RecordValid, COMMIT
  <1>3. CASE Commit
    <2>1. PICK c \in {COMMIT, slot[target].commit} :
            slot' = [slot EXCEPT ![target].commit = c]
      BY <1>3 DEF Commit
    <2>2. /\ slot'[Other(target)] = slot[Other(target)]
          /\ slot'[target].body = slot[target].body
      BY <1>1, <2>1 DEF TypeOK
    <2>3. slot[target].body[1] = image
      BY <1>3, StoreAssumption DEF Commit, StageFacts, Pages
    <2> QED
      BY <1>3, <2>2, <2>3 DEF Commit
  <1>4. CASE WritePage
    <2>1. PICK c \in {image, slot[target].body[page], Torn} :
            slot' = [slot EXCEPT ![target].body[page] = c]
      BY <1>4 DEF WritePage
    <2>2. slot'[Other(target)] = slot[Other(target)]
      BY <1>1, <2>1 DEF TypeOK
    <2>3. /\ slot'[target].commit = slot[target].commit
          /\ slot'[target].body = [slot[target].body EXCEPT ![page] = c]
      BY <1>1, <2>1 DEF TypeOK
    <2>4. 1 \in Pages
      BY StoreAssumption DEF Pages
    <2>5. ASSUME RecordValid(slot'[target])
          PROVE  \/ slot'[target].body[1] = image
                 \/ IsValid(target) /\ slot'[target].body[1] = slot[target].body[1]
      <3>1. slot'[target].body[page] = c
        BY <2>3 DEF TypeOK
      <3>2. c = slot'[target].body[1] /\ c \in Image
        BY <2>5, <3>1 DEF RecordValid, TypeOK
      <3>3. CASE c = image
        BY <3>2, <3>3
      <3>4. CASE c = slot[target].body[page]
        <4>1. slot'[target].body = slot[target].body
          BY <2>3, <3>4 DEF TypeOK
        <4> QED
          BY <2>3, <2>5, <4>1 DEF IsValid, RecordValid
      <3> QED
        BY <2>1, <3>2, <3>3, <3>4, StoreAssumption
    <2> QED
      BY <1>4, <2>2, <2>5 DEF WritePage
  <1> QED
    BY <1>2, <1>3, <1>4

\* Neighbouring sequence numbers survive every step.
LEMMA RecordsStep ==
  ASSUME IInv, TypeOK', Invalidate \/ WritePage \/ Commit
  PROVE  SlotsAdjacent' /\ Isolated' /\ WriteIsolated'
  <1> DEFINE t == target
             o == Other(target)
  <1>1. /\ t \in Slots /\ o \in Slots /\ o # t /\ Other(o) = t
        /\ {t, o} = {0, 1}
    BY DEF IInv, TypeOK, Slots, Other
  <1>2. Writing /\ saving # None /\ image \in Image /\ image.val = saving
    BY DEF IInv, WriteIsolated, Isolated, Invalidate, WritePage, Commit, Writing, StageFacts
  <1>3. /\ slot'[o] = slot[o] /\ target' = t /\ image' = image
        /\ IsValid(t)' => \/ slot'[t].body[1] = image
                          \/ IsValid(t) /\ slot'[t].body[1] = slot[t].body[1]
    BY WriteEffect DEF IInv, IsValid
  <1>4. IsValid(o)' <=> IsValid(o)
    BY <1>3 DEF IsValid
  <1>5. SeqOf(o)' = SeqOf(o)
    BY <1>3 DEF SeqOf
  <1>6. IsValid(o) => image.seq = NextSeq(SeqOf(o))
    BY <1>2 DEF IInv, WriteIsolated, Isolated
  <1>7. IsValid(t)' =>
          \/ slot'[t].body[1] = image
          \/ IsValid(o) /\ SeqOf(o) = NextSeq(SeqOf(t)')
    BY <1>2, <1>3 DEF IInv, WriteIsolated, Isolated, SeqOf
  <1>8. SlotsAdjacent'
    <2>1. SUFFICES ASSUME IsValid(t)', IsValid(o)'
                   PROVE  SeqOf(t)' = NextSeq(SeqOf(o)') \/ SeqOf(o)' = NextSeq(SeqOf(t)')
      <3>1. CASE target = 0
        BY <2>1, <1>3, <3>1 DEF SlotsAdjacent, Other
      <3>2. CASE target = 1
        BY <2>1, <1>3, <3>2 DEF SlotsAdjacent, Other
      <3> QED
        BY <1>1, <3>1, <3>2 DEF Slots
    <2>2. CASE slot'[t].body[1] = image
      <3>1. SeqOf(t)' = image.seq
        BY <1>3, <2>2 DEF SeqOf
      <3>2. IsValid(o)
        BY <1>4, <2>1
      <3> QED
        BY <1>5, <1>6, <3>1, <3>2
    <2> QED
      BY <1>5, <1>7, <2>1, <2>2
  <1>9. Isolated'
    BY <1>2, <1>3, <1>4, <1>5, <1>6, <1>7 DEF Isolated
  <1>10. saving' # saving => ~Writing'
    BY DEF Invalidate, WritePage, Commit, Return, Goto, Writing
  <1> QED
    BY <1>2, <1>3, <1>8, <1>9, <1>10 DEF WriteIsolated

\* A step that leaves the EEPROM alone leaves the relation of the records alone.
LEMMA FrameStep ==
  ASSUME slot' = slot
  PROVE  /\ SlotsAdjacent' <=> SlotsAdjacent
         /\ Stored' = Stored
         /\ ReadSlots' = ReadSlots
         /\ \A i \in Slots : (IsValid(i)' <=> IsValid(i)) /\ SeqOf(i)' = SeqOf(i)
  BY DEF SlotsAdjacent, Stored, ReadSlots, IsValid, SeqOf

\* A step that changes neither the EEPROM nor the save in progress, or that
\* ends the save, preserves WriteIsolated.
LEMMA IsolatedFrame ==
  ASSUME WriteIsolated,
         ~Writing' \/ /\ UNCHANGED <<slot, image, target, saving>>
                      /\ Writing
  PROVE  WriteIsolated'
  <1>1. CASE ~Writing'
    BY <1>1 DEF WriteIsolated
  <1>2. CASE UNCHANGED <<slot, image, target, saving>> /\ Writing
    BY <1>2 DEF WriteIsolated, Isolated, IsValid, SeqOf
  <1> QED
    BY <1>1, <1>2

\* A save reports success only for what a load will return.
LEMMA ConfirmedIsStored ==
  ASSUME IInv, pc = "confirm", RecordValid(slot[target])
  PROVE  Stored = image.val
  <1> DEFINE o == Other(target)
  <1>1. target \in Slots /\ o \in Slots /\ target # -1
    BY DEF IInv, TypeOK, Slots, Other
  <1>2. IsValid(target) /\ slot[target].body[1] = image
    BY StoreAssumption DEF IInv, StageFacts, IsValid, Pages
  <1>3. IsValid(o) => SeqOf(target) = NextSeq(SeqOf(o))
    BY <1>2 DEF IInv, WriteIsolated, Isolated, Writing, SeqOf
  <1>4. ReadSlots = target
    BY <1>1, <1>2, <1>3, ReadSlotsCases DEF IInv
  <1> QED
    BY <1>1, <1>2, <1>4 DEF Stored

\* The inductive step: IInv is preserved by every action.
LEMMA InvStep == IInv /\ [Next]_vars => IInv'
  <1> SUFFICES ASSUME IInv, [Next]_vars PROVE IInv'
    OBVIOUS
  <1>t. TypeOK'
    BY TypeStep DEF IInv
  <1>1. ASSUME NEW v \in Value, SaveBegin(v) \/ SaveReject(v)
        PROVE  IInv'
    <2>1. slot' = slot /\ ~Writing' /\ outcome' # "ok"
      BY <1>1 DEF SaveBegin, SaveReject, Return, Writing
    <2>2. SlotsAdjacent' /\ WriteIsolated' /\ OkMeansStored'
      BY <2>1, FrameStep, IsolatedFrame DEF IInv, OkMeansStored
    <2>3. StageFacts'
      BY <1>1, StoreAssumption DEF SaveBegin, SaveReject, Return, StageFacts, IInv, TypeOK
    <2> QED
      BY <1>t, <2>2, <2>3 DEF IInv
  <1>2. CASE Scan
    <2>1. slot' = slot /\ saving' = saving /\ saving # None /\ outcome' = "none"
      BY <1>2 DEF Scan, Goto, IInv, StageFacts
    <2>2. SlotsAdjacent' /\ OkMeansStored' /\ StageFacts'
      BY <1>2, <2>1, FrameStep DEF IInv, Scan, Goto, OkMeansStored, StageFacts
    <2>3. image' \in Image /\ image'.val = saving'
      <3>1. \A i \in Slots : IsValid(i) => NextSeq(SeqOf(i)) \in 0 .. SeqMod - 1
        BY ValidImage, SeqOrder DEF IInv
      <3>2. ReadSlots = -1 \/ (ReadSlots \in Slots /\ IsValid(ReadSlots))
        BY DEF ReadSlots, IsValid, Slots
      <3>3. saving \in Valid
        BY <2>1 DEF IInv, TypeOK
      <3> QED
        BY <1>2, <2>1, <3>1, <3>2, <3>3, StoreAssumption DEF Scan, Image, SeqOf
    <2>4. WriteIsolated'
      <3>0. PICK t \in Slots : t = target'
        BY <1>t DEF TypeOK
      <3> DEFINE o == Other(t)
      <3>1. o \in Slots /\ Other(o) = t /\ (t = 0 => o = 1) /\ (t = 1 => o = 0)
        BY DEF Slots, Other
      <3>2. CASE ReadSlots = -1
        <4>1. ~IsValid(t) /\ ~IsValid(o)
          BY <3>1, <3>2, ReadSlotsCases DEF IInv
        <4>2. ~RecordValid(slot'[t]) /\ ~RecordValid(slot'[o])
          BY <2>1, <4>1 DEF IsValid
        <4> QED
          BY <2>3, <3>0, <4>2 DEF WriteIsolated, Isolated, IsValid
      <3>3. CASE ReadSlots # -1
        <4>1. ReadSlots = o
          <5>1. ReadSlots \in {0, 1}
            BY <3>3 DEF ReadSlots
          <5> QED
            BY <1>2, <3>0, <3>1, <5>1 DEF Scan, Slots
        <4>2. IsValid(o) /\ image'.seq = NextSeq(SeqOf(o))
          BY <1>2, <3>3, <4>1 DEF Scan, SeqOf, ReadSlots, IsValid
        <4>3. IsValid(t) => SeqOf(o) = NextSeq(SeqOf(t))
          <5>1. SUFFICES ASSUME IsValid(t), SeqOf(t) = NextSeq(SeqOf(o)) PROVE FALSE
            BY <3>1, <4>2 DEF IInv, SlotsAdjacent, Slots
          <5>2. ReadSlots = t
            BY <3>1, <4>2, <5>1, ReadSlotsCases DEF IInv
          <5> QED
            BY <3>1, <4>1, <5>2 DEF Slots
        <4>4. slot'[t] = slot[t] /\ slot'[o] = slot[o]
          BY <2>1
        <4> QED
          BY <2>3, <3>0, <4>2, <4>3, <4>4 DEF WriteIsolated, Isolated, IsValid, SeqOf
      <3> QED
        BY <3>2, <3>3
    <2> QED
      BY <1>t, <2>2, <2>4 DEF IInv
  <1>3. CASE ScanError
    <2>1. slot' = slot /\ ~Writing' /\ outcome' # "ok"
      BY <1>3 DEF ScanError, Return, Writing
    <2>2. SlotsAdjacent' /\ WriteIsolated' /\ OkMeansStored'
      BY <2>1, FrameStep, IsolatedFrame DEF IInv, OkMeansStored
    <2>3. StageFacts'
      BY <1>3 DEF ScanError, Return, StageFacts
    <2> QED
      BY <1>t, <2>2, <2>3 DEF IInv
  <1>4. CASE Invalidate
    <2>1. SlotsAdjacent' /\ WriteIsolated'
      BY <1>4, <1>t, RecordsStep
    <2>2. StageFacts' /\ OkMeansStored'
      BY <1>4 DEF Invalidate, Goto, Return, IInv, StageFacts, OkMeansStored
    <2> QED
      BY <1>t, <2>1, <2>2 DEF IInv
  <1>5. CASE WritePage
    <2>1. SlotsAdjacent' /\ WriteIsolated'
      BY <1>5, <1>t, RecordsStep
    <2>2. StageFacts' /\ OkMeansStored'
      BY <1>5 DEF WritePage, Goto, Return, IInv, StageFacts, OkMeansStored
    <2> QED
      BY <1>t, <2>1, <2>2 DEF IInv
  <1>6. CASE VerifyBody
    <2>1. UNCHANGED <<slot, image, target>> /\ outcome' # "ok"
      BY <1>6 DEF VerifyBody, Goto, Return, IInv, StageFacts
    <2>2. ~Writing' \/ (saving' = saving /\ Writing)
      BY <1>6 DEF VerifyBody, Goto, Return, Writing
    <2>3. SlotsAdjacent' /\ WriteIsolated' /\ OkMeansStored'
      BY <2>1, <2>2, FrameStep, IsolatedFrame DEF IInv, OkMeansStored
    <2>4. StageFacts'
      BY <1>6 DEF VerifyBody, BodyMatches, Goto, Return, IInv, StageFacts
    <2> QED
      BY <1>t, <2>3, <2>4 DEF IInv
  <1>7. CASE Commit
    <2>1. SlotsAdjacent' /\ WriteIsolated'
      BY <1>7, <1>t, RecordsStep
    <2>2. slot'[target].body = slot[target].body /\ target' = target /\ image' = image
      BY <1>7 DEF Commit, IInv, TypeOK
    <2>3. StageFacts' /\ OkMeansStored'
      BY <1>7, <2>2 DEF Commit, Goto, Return, IInv, StageFacts, OkMeansStored
    <2> QED
      BY <1>t, <2>1, <2>3 DEF IInv
  <1>8. CASE VerifyCommit
    <2>1. UNCHANGED <<slot, image, target>> /\ ~Writing'
      BY <1>8 DEF VerifyCommit, Return, Writing
    <2>2. OkMeansStored'
      <3>1. outcome' = "ok" => RecordValid(slot[target]) /\ pc = "confirm"
        BY <1>8 DEF VerifyCommit, Return
      <3> QED
        BY <2>1, <3>1, FrameStep, ConfirmedIsStored DEF OkMeansStored
    <2>3. SlotsAdjacent' /\ WriteIsolated'
      BY <2>1, FrameStep, IsolatedFrame DEF IInv
    <2>4. StageFacts'
      BY <1>8 DEF VerifyCommit, Return, StageFacts
    <2> QED
      BY <1>t, <2>2, <2>3, <2>4 DEF IInv
  <1>9. CASE PowerCut
    <2>1. slot' = slot /\ ~Writing' /\ outcome' # "ok"
      BY <1>9 DEF PowerCut, Return, Writing
    <2>2. SlotsAdjacent' /\ WriteIsolated' /\ OkMeansStored'
      BY <2>1, FrameStep, IsolatedFrame DEF IInv, OkMeansStored
    <2>3. StageFacts'
      BY <1>9 DEF PowerCut, Return, StageFacts
    <2> QED
      BY <1>t, <2>2, <2>3 DEF IInv
  <1>10. CASE UNCHANGED vars
    <2>1. UNCHANGED <<slot, image, target, saving, outcome, pc>>
      BY <1>10 DEF vars
    <2>2. SlotsAdjacent' /\ OkMeansStored'
      BY <2>1, FrameStep DEF IInv, OkMeansStored
    <2>3. WriteIsolated'
      BY <2>1, IsolatedFrame DEF IInv, Writing
    <2>4. StageFacts'
      BY <2>1 DEF IInv, StageFacts
    <2> QED
      BY <1>t, <2>2, <2>3, <2>4 DEF IInv
  <1> QED
    BY <1>1, <1>2, <1>3, <1>4, <1>5, <1>6, <1>7, <1>8, <1>9, <1>10 DEF Next, SaveStep

\* The type invariant of the settings store.
THEOREM TypeCorrect == Spec => []TypeOK
  <1>1. IInv => TypeOK
    BY DEF IInv
  <1> QED
    BY InitInv, InvStep, <1>1, PTL DEF Spec

\* The signed comparison of read_slots always compares neighbours.
THEOREM Adjacent == Spec => []SlotsAdjacent
  <1>1. IInv => SlotsAdjacent
    BY DEF IInv
  <1> QED
    BY InitInv, InvStep, <1>1, PTL DEF Spec

\* A save never disturbs the record that is current when it starts.
THEOREM WritesIsolated == Spec => []WriteIsolated
  <1>1. IInv => WriteIsolated
    BY DEF IInv
  <1> QED
    BY InitInv, InvStep, <1>1, PTL DEF Spec

\* A save that returned 0 has stored its settings.
THEOREM SuccessIsStored == Spec => []OkMeansStored
  <1>1. IInv => OkMeansStored
    BY DEF IInv
  <1> QED
    BY InitInv, InvStep, <1>1, PTL DEF Spec
-----------------------------------------------------------------------------
(* The store implements the register.                                       *)

\* What the slot that is not written holds.
Kept == IF IsValid(Other(target)) THEN slot[Other(target)].body[1].val ELSE None

\* While the writes are isolated a load returns what the slot that is not
\* written holds or, once the new record is valid, the new settings.
LEMMA StoredCases ==
  TypeOK /\ SlotsAdjacent /\ Isolated => Stored = Kept \/ Stored = image.val
  <1> SUFFICES ASSUME TypeOK, SlotsAdjacent, Isolated
               PROVE  Stored = Kept \/ Stored = image.val
    OBVIOUS
  <1> DEFINE o == Other(target)
  <1>1. target \in Slots /\ o \in Slots /\ Other(o) = target
    BY DEF TypeOK, Slots, Other
  <1>2. target # -1 /\ o # -1
    BY <1>1 DEF Slots
  <1>3. CASE ~IsValid(target) /\ ~IsValid(o)
    BY <1>1, <1>3, ReadSlotsCases DEF Stored, Kept
  <1>4. CASE IsValid(target) /\ slot[target].body[1] = image
    <2>1. ReadSlots = target
      BY <1>1, <1>4, ReadSlotsCases DEF Isolated, SeqOf
    <2> QED
      BY <1>2, <1>4, <2>1 DEF Stored
  <1>5. CASE IsValid(o) /\ (IsValid(target) => SeqOf(o) = NextSeq(SeqOf(target)))
    <2>1. ReadSlots = o
      BY <1>1, <1>5, ReadSlotsCases
    <2> QED
      BY <1>2, <1>5, <2>1 DEF Stored, Kept
  <1> QED
    BY <1>3, <1>4, <1>5 DEF Isolated

\* Before a save has built its record a load returns what the slot it is
\* going to leave alone holds.
LEMMA ScanKeeps ==
  ASSUME IInv, Scan
  PROVE  Stored = Kept'
  <1>1. slot' = slot /\ TypeOK'
    BY TypeStep DEF Scan, IInv, Next, SaveStep
  <1>2. PICK t \in Slots : t = target'
    BY <1>1 DEF TypeOK
  <1> DEFINE o == Other(t)
  <1>3. o \in Slots /\ Other(o) = t /\ (t = 0 => o = 1) /\ (t = 1 => o = 0)
    BY DEF Slots, Other
  <1>4. Kept' = IF IsValid(o) THEN slot[o].body[1].val ELSE None
    BY <1>1, <1>2 DEF Kept, IsValid
  <1>5. CASE ReadSlots = -1
    BY <1>3, <1>4, <1>5, ReadSlotsCases DEF Stored, IInv
  <1>6. CASE ReadSlots # -1
    <2>1. ReadSlots \in {0, 1}
      BY <1>6 DEF ReadSlots
    <2>2. ReadSlots = o
      BY <1>2, <1>3, <2>1 DEF Scan, Slots
    <2>3. IsValid(o)
      BY <1>6, <2>2 DEF ReadSlots, IsValid
    <2> QED
      BY <1>4, <1>6, <2>2, <2>3 DEF Stored
  <1> QED
    BY <1>5, <1>6

\* Every step of the store is a step of the register, or leaves it alone.
LEMMA RefinementStep ==
  IInv /\ [Next]_vars => [Register!Next]_(Register!vars)
  <1> SUFFICES ASSUME IInv, [Next]_vars PROVE [Register!Next]_(Register!vars)
    OBVIOUS
  <1> USE DEF Register!Next, Register!vars
  <1>i. IInv'
    BY InvStep
  <1>s. ~Writing => Settled = Stored
    BY DEF Settled
  <1>w. Writing => Settled = Kept
    BY DEF Settled, Kept
  <1>p. (~Writing => Settled = Stored)' /\ (Writing => Settled = Kept)'
    BY <1>s, <1>w DEF Settled, Kept
  <1>n. pc = "idle" <=> saving = None
    BY DEF IInv, StageFacts
  <1>k. Writing => Stored = Settled \/ Stored = saving
    BY <1>w, StoredCases DEF IInv, WriteIsolated
  <1>1. ASSUME NEW v \in Value, SaveBegin(v)
        PROVE  Register!Begin(v) /\ v \in Valid
    <2>1. slot' = slot /\ ~Writing /\ ~Writing'
      BY <1>1 DEF SaveBegin, Writing
    <2>2. Stored' = Stored /\ Settled' = Settled
      BY <2>1, <1>s, <1>p, FrameStep
    <2> QED
      BY <1>1, <1>n, <2>2 DEF SaveBegin, Register!Begin
  <1>2. ASSUME NEW v \in Value, SaveReject(v)
        PROVE  Register!Reject /\ Value \ Valid # {}
    <2>1. slot' = slot /\ ~Writing /\ ~Writing'
      BY <1>2 DEF SaveReject, Return, Writing
    <2>2. Stored' = Stored /\ Settled' = Settled
      BY <2>1, <1>s, <1>p, FrameStep
    <2> QED
      BY <1>2, <1>n, <2>2 DEF SaveReject, Return, Register!Reject
  <1>3. CASE Scan
    <2>1. slot' = slot /\ ~Writing /\ Writing'
      BY <1>3 DEF Scan, Goto, Writing
    <2>2. Stored' = Stored /\ Settled' = Settled
      BY <1>3, <2>1, <1>s, <1>p, ScanKeeps, FrameStep
    <2> QED
      BY <1>3, <2>2 DEF Scan, Goto
  <1>4. CASE ScanError
    <2>1. slot' = slot /\ ~Writing /\ ~Writing'
      BY <1>4 DEF ScanError, Return, Writing
    <2>2. Stored' = Stored /\ Settled' = Settled /\ Stored = Settled
      BY <2>1, <1>s, <1>p, FrameStep
    <2>3. Register!Fail
      BY <1>4, <1>n, <2>2 DEF ScanError, Return, Register!Fail
    <2> QED
      BY <2>3
  <1>5. CASE Invalidate \/ WritePage \/ Commit
    <2>1. Writing /\ saving # None /\ image.val = saving /\ TypeOK
      BY <1>5, <1>n DEF Invalidate, WritePage, Commit, Writing, IInv, WriteIsolated
    <2>2. SlotsAdjacent' /\ Isolated'
      BY <1>5, <1>i, RecordsStep DEF IInv
    <2>3. (TypeOK /\ SlotsAdjacent /\ Isolated => Stored = Kept \/ Stored = image.val)'
      BY StoredCases, PTL
    <2>4. Stored' = Kept' \/ Stored' = image'.val
      BY <1>i, <2>2, <2>3 DEF IInv
    <2>5. Kept' = Kept /\ image' = image
      BY <1>5, WriteEffect DEF IInv, Kept, IsValid
    <2>6. Stored' \in {Settled, saving}
      BY <1>w, <2>1, <2>4, <2>5
    <2>7. \/ Writing' /\ UNCHANGED <<saving, outcome>>
          \/ ~Writing' /\ saving' = None /\ outcome' = "failed"
      BY <1>5 DEF Invalidate, WritePage, Commit, Goto, Return, Writing
    <2>8. CASE Writing' /\ UNCHANGED <<saving, outcome>>
      <3>1. Register!Write
        BY <1>w, <1>p, <2>1, <2>5, <2>6, <2>8 DEF Register!Write
      <3> QED
        BY <3>1
    <2>9. CASE ~Writing' /\ saving' = None /\ outcome' = "failed"
      <3>1. Register!Fail
        BY <1>p, <2>1, <2>6, <2>9 DEF Register!Fail
      <3> QED
        BY <3>1
    <2> QED
      BY <2>7, <2>8, <2>9
  <1>6. CASE VerifyBody
    <2>1. slot' = slot /\ target' = target /\ Writing /\ saving # None
      BY <1>6, <1>n DEF VerifyBody, Writing
    <2>2. Stored' = Stored /\ Kept' = Kept
      BY <2>1, FrameStep DEF Kept, IsValid
    <2>3. CASE Goto("commit")
      BY <1>w, <1>p, <2>1, <2>2, <2>3 DEF Goto, Writing
    <2>4. CASE Return("failed")
      <3>1. Register!Fail
        BY <1>k, <1>p, <2>1, <2>2, <2>4 DEF Return, Writing, Register!Fail
      <3> QED
        BY <3>1
    <2> QED
      BY <1>6, <2>3, <2>4 DEF VerifyBody
  <1>7. CASE VerifyCommit
    <2>1. slot' = slot /\ ~Writing' /\ Writing /\ saving # None
      BY <1>7, <1>n DEF VerifyCommit, Return, Writing
    <2>2. Stored' = Stored /\ Settled' = Stored
      BY <1>p, <2>1, FrameStep
    <2>3. CASE RecordValid(slot[target]) /\ Return("ok")
      <3>1. Stored = saving
        BY <1>7, <2>1, <2>3, ConfirmedIsStored DEF VerifyCommit, IInv, WriteIsolated
      <3>2. Register!Succeed
        BY <2>1, <2>2, <2>3, <3>1 DEF Return, Register!Succeed
      <3> QED
        BY <3>2
    <2>4. CASE Return("failed")
      <3>1. Register!Fail
        BY <1>k, <2>1, <2>2, <2>4 DEF Return, Register!Fail
      <3> QED
        BY <3>1
    <2> QED
      BY <1>7, <2>3, <2>4 DEF VerifyCommit
  <1>8. CASE PowerCut
    <2>1. slot' = slot /\ ~Writing'
      BY <1>8 DEF PowerCut, Return, Writing
    <2>2. Stored' = Stored /\ Settled' = Stored
      BY <1>p, <2>1, FrameStep
    <2>3. Register!PowerCut
      BY <1>8, <2>2 DEF PowerCut, Return, Register!PowerCut
    <2> QED
      BY <2>3
  <1>9. CASE UNCHANGED vars
    <2>1. UNCHANGED <<slot, target, pc, saving, outcome>>
      BY <1>9 DEF vars
    <2>2. Stored' = Stored /\ Settled' = Settled
      BY <2>1, FrameStep DEF Settled, Writing, IsValid
    <2> QED
      BY <2>1, <2>2
  <1> QED
    BY <1>1, <1>2, <1>3, <1>4, <1>5, <1>6, <1>7, <1>8, <1>9 DEF Next, SaveStep

\* The settings store implements the abstract register: whatever fails and
\* wherever power is cut, a load returns the old or the new settings.
THEOREM StoreImplementsRegister == Spec => ImplementsRegister
  <1>1. Init => Register!Init
    <2> SUFFICES ASSUME Init PROVE Register!Init
      OBVIOUS
    <2>1. ~RecordValid(slot[0]) /\ ~RecordValid(slot[1])
      BY DEF Init, RecordValid, Slots, COMMIT
    <2>2. Stored = None /\ Settled = None
      BY <2>1 DEF Init, Stored, ReadSlots, Settled, Writing
    <2> QED
      BY <2>2 DEF Init, Register!Init
  <1> QED
    BY <1>1, InitInv, InvStep, RefinementStep, PTL DEF Spec, ImplementsRegister, Register!Spec

-----------------------------------------------------------------------------
(* The form.                                                                *)

\* A read with the form's generation.
Live(r) == r.kind = "read" /\ r.generation = generation

FormType ==
  /\ selection \in Miner \cup {NoMiner} /\ ip \in Miner \cup {NoMiner}
  /\ generation \in Nat /\ revision \in Nat /\ edits \in Nat
  /\ save_button \in {"normal", "disabled"}
  /\ workers \in SUBSET Request
  /\ messages \in Seq(Result)

\* What holds of a request r, under way or answered: the form's generation is
\* not before its own, and while the two are the same a read is for the form's
\* miner and the revision counts the edits made since.
RequestOK(r) ==
  /\ r.ip \in Miner
  /\ r.generation <= generation
  /\ Live(r) => r.to = ip /\ r.ip = ip /\ revision - r.revision = edits - r.edits

\* There is at most one live read, and none while a save of its generation is
\* under way: two requests of the form's generation are not both there when one
\* of them is a read.
Apart(q, r) == q.generation = generation /\ r.generation = generation => q.kind = "save" /\ r.kind = "save"

FormInvariant ==
  /\ FormType
  /\ selection # NoMiner => selection = ip
  /\ \A r \in workers : RequestOK(r)
  /\ \A i \in 1 .. Len(messages) :
       RequestOK(messages[i].of) /\ messages[i].kind \in Outcomes(messages[i].of)
  /\ \A q, r \in workers : q # r => Apart(q, r)
  /\ \A q \in workers : \A i \in 1 .. Len(messages) : Apart(q, messages[i].of)
  /\ \A i, j \in 1 .. Len(messages) : i # j => Apart(messages[i].of, messages[j].of)
  /\ SaveAfterRead
-----------------------------------------------------------------------------
\* What the invariant says of a request under way, and of a result.
LEMMA WorkerFacts ==
  ASSUME FormInvariant, NEW r \in workers
  PROVE  /\ r \in Request /\ r.generation \in Nat /\ r.revision \in Nat /\ r.edits \in Nat
         /\ r.ip \in Miner /\ r.generation <= generation
<1>1. r \in Request
  BY DEF FormInvariant, FormType
<1>2. r.ip \in Miner /\ r.generation <= generation
  BY DEF FormInvariant, RequestOK
<1> QED BY <1>1, <1>2 DEF Request

LEMMA MessageFacts ==
  ASSUME FormInvariant, NEW i \in 1 .. Len(messages)
  PROVE  LET r == messages[i].of
         IN  /\ r \in Request /\ r.generation \in Nat /\ r.revision \in Nat /\ r.edits \in Nat
             /\ r.ip \in Miner /\ r.generation <= generation
<1>1. messages[i] \in Result
  BY DEF FormInvariant, FormType
<1>2. messages[i].of \in Request
  BY <1>1 DEF Result
<1>3. messages[i].of.ip \in Miner /\ messages[i].of.generation <= generation
  BY DEF FormInvariant, RequestOK
<1> QED BY <1>2, <1>3 DEF Request
-----------------------------------------------------------------------------
\* A request made with a new generation keeps the invariant: every other request
\* is of an earlier one (load_settings, miner_dashboard.py:324-336).
LEMMA LoadKeeps ==
  ASSUME FormInvariant, NEW m \in Miner, NEW g \in Nat, NEW v \in Nat,
         g >= generation, ip' = m, revision' = v, edits' = edits,
         selection' \in {m, NoMiner},
         load_settings(m, g, v, m),
         messages' \in Seq(Result),
         \A i \in 1 .. Len(messages') : \E j \in 1 .. Len(messages) : messages'[i] = messages[j]
  PROVE  FormInvariant'
<1> PICK r0 : r0 = Asked("read", m, g + 1, v, m)
  OBVIOUS
<1>1. /\ generation' = g + 1 /\ workers' = workers \cup {r0} /\ save_button' = "disabled"
  BY DEF load_settings, begin_read
<1>2. /\ r0 \in Request /\ r0.kind = "read" /\ r0.ip = m /\ r0.to = m
      /\ r0.generation = g + 1 /\ r0.revision = v /\ r0.edits = edits
  BY SMTT(30) DEF FormInvariant, FormType, Request, Asked
<1>3. generation \in Nat /\ generation' > generation /\ edits \in Nat
  BY <1>1, SMTT(30) DEF FormInvariant, FormType
<1>4. FormType'
  BY <1>1, <1>2 DEF FormInvariant, FormType
<1>5. \A r \in workers : r.generation \in Nat /\ r.generation < generation' /\ r.ip \in Miner
  <2> SUFFICES ASSUME NEW r \in workers
               PROVE  r.generation \in Nat /\ r.generation < generation' /\ r.ip \in Miner
    OBVIOUS
  <2>1. r.generation \in Nat /\ r.ip \in Miner /\ r.generation <= generation
    BY WorkerFacts
  <2> QED BY <2>1, <1>1, <1>3
<1>6. \A i \in 1 .. Len(messages) : /\ messages[i].of.generation \in Nat /\ messages[i].of.ip \in Miner
                                    /\ messages[i].of.generation < generation'
  <2> SUFFICES ASSUME NEW i \in 1 .. Len(messages)
               PROVE  /\ messages[i].of.generation \in Nat /\ messages[i].of.ip \in Miner
                      /\ messages[i].of.generation < generation'
    OBVIOUS
  <2>1. /\ messages[i].of.generation \in Nat /\ messages[i].of.ip \in Miner
        /\ messages[i].of.generation <= generation
    BY MessageFacts
  <2> QED BY <2>1, <1>1, <1>3
<1>7. \A i \in 1 .. Len(messages') :
        /\ messages'[i].of.generation \in Nat /\ messages'[i].of.ip \in Miner
        /\ messages'[i].of.generation < generation'
        /\ messages'[i].kind \in Outcomes(messages'[i].of)
  BY <1>6 DEF FormInvariant
<1>8. RequestOK(r0)'
  BY <1>1, <1>2, <1>3 DEF RequestOK, Live
<1>9. \A r \in workers' : RequestOK(r)'
  <2> SUFFICES ASSUME NEW r \in workers' PROVE RequestOK(r)'
    OBVIOUS
  <2>1. CASE r = r0
    BY <2>1, <1>8 DEF RequestOK, Live
  <2>2. CASE r \in workers
    BY <2>2, <1>3, <1>4, <1>5 DEF RequestOK, Live, FormType
  <2> QED BY <2>1, <2>2, <1>1
<1>10. \A i \in 1 .. Len(messages') :
         RequestOK(messages[i].of)' /\ messages'[i].kind \in Outcomes(messages'[i].of)
  BY <1>3, <1>4, <1>7 DEF RequestOK, Live, FormType
<1>11. /\ \A q, r \in workers' : q # r => Apart(q, r)'
       /\ \A q \in workers' : \A i \in 1 .. Len(messages') : Apart(q, messages[i].of)'
       /\ \A i, j \in 1 .. Len(messages') : i # j => Apart(messages[i].of, messages[j].of)'
  BY <1>1, <1>3, <1>4, <1>5, <1>7 DEF Apart, FormType
<1>12. SaveAfterRead'
  BY <1>1 DEF SaveAfterRead
<1>13. (selection # NoMiner => selection = ip)'
  OBVIOUS
<1> QED BY <1>4, <1>9, <1>10, <1>11, <1>12, <1>13 DEF FormInvariant
-----------------------------------------------------------------------------
\* The same requests, results and form keep the invariant, whatever row is
\* selected.
LEMMA SameKeeps ==
  ASSUME FormInvariant, selection' \in {ip, NoMiner}, selection' \in Miner \cup {NoMiner},
         UNCHANGED <<form, save_button, workers, messages, edits>>
  PROVE  FormInvariant'
<1> USE DEF form
<1>1. FormType'
  BY DEF FormInvariant, FormType
<1>2. /\ \A r \in workers' : RequestOK(r)'
      /\ \A i \in 1 .. Len(messages') :
           RequestOK(messages[i].of)' /\ messages'[i].kind \in Outcomes(messages'[i].of)
  BY DEF FormInvariant, RequestOK, Live
<1>3. /\ \A q, r \in workers' : q # r => Apart(q, r)'
      /\ \A q \in workers' : \A i \in 1 .. Len(messages') : Apart(q, messages[i].of)'
      /\ \A i, j \in 1 .. Len(messages') : i # j => Apart(messages[i].of, messages[j].of)'
  BY DEF FormInvariant, Apart
<1>4. SaveAfterRead'
  BY DEF FormInvariant, SaveAfterRead
<1> QED BY <1>1, <1>2, <1>3, <1>4 DEF FormInvariant

\* An edit counts in the revision and in the edits alike.
LEMMA EditKeeps ==
  ASSUME FormInvariant, edited
  PROVE  FormInvariant'
<1>0. /\ revision' = revision + 1 /\ edits' = edits + 1
      /\ UNCHANGED <<selection, ip, generation, save_button, workers, messages>>
      /\ revision \in Nat /\ edits \in Nat
  BY DEF edited, FormInvariant, FormType
<1>1. FormType'
  BY <1>0, SMTT(30) DEF FormInvariant, FormType
<1>a. ASSUME NEW r, RequestOK(r), r.revision \in Nat, r.edits \in Nat
      PROVE  RequestOK(r)'
  <2>1. revision - r.revision = edits - r.edits => revision' - r.revision = edits' - r.edits
    BY <1>0, <1>a
  <2>2. Live(r)' => Live(r)
    BY <1>0, Zenon DEF Live
  <2> QED BY <1>0, <1>a, <2>1, <2>2, Zenon DEF RequestOK
<1>2. \A r \in workers' : RequestOK(r)'
  <2> SUFFICES ASSUME NEW r \in workers PROVE RequestOK(r)'
    BY <1>0
  <2>1. RequestOK(r) /\ r.revision \in Nat /\ r.edits \in Nat
    BY WorkerFacts DEF FormInvariant
  <2> QED BY <1>a, <2>1, Zenon
<1>3. \A i \in 1 .. Len(messages') :
        RequestOK(messages[i].of)' /\ messages'[i].kind \in Outcomes(messages'[i].of)
  <2> SUFFICES ASSUME NEW i \in 1 .. Len(messages)
               PROVE  RequestOK(messages[i].of)' /\ messages'[i].kind \in Outcomes(messages'[i].of)
    BY <1>0
  <2>1. /\ RequestOK(messages[i].of) /\ messages[i].kind \in Outcomes(messages[i].of)
    BY DEF FormInvariant
  <2>2. messages[i].of.revision \in Nat /\ messages[i].of.edits \in Nat
    BY MessageFacts
  <2>3. PICK r : r = messages[i].of
    OBVIOUS
  <2>4. RequestOK(r) /\ r.revision \in Nat /\ r.edits \in Nat
    BY <2>1, <2>2, <2>3
  <2>5. messages' = messages
    BY <1>0
  <2>6. RequestOK(r)'
    BY <1>a, <2>4, Zenon
  <2> QED BY <2>1, <2>3, <2>5, <2>6 DEF RequestOK, Live
<1>4. /\ \A q, r \in workers' : q # r => Apart(q, r)'
      /\ \A q \in workers' : \A i \in 1 .. Len(messages') : Apart(q, messages[i].of)'
      /\ \A i, j \in 1 .. Len(messages') : i # j => Apart(messages[i].of, messages[j].of)'
  BY <1>0 DEF FormInvariant, Apart
<1>5. SaveAfterRead'
  BY <1>0 DEF FormInvariant, SaveAfterRead
<1>6. (selection # NoMiner => selection = ip)'
  BY <1>0 DEF FormInvariant
<1> QED BY <1>1, <1>2, <1>3, <1>4, <1>5, <1>6 DEF FormInvariant

\* A save starts when the button is there, and so when no read is live.
LEMMA SaveKeeps ==
  ASSUME FormInvariant, save
  PROVE  FormInvariant'
<1> PICK r0 : r0 = Asked("save", ip, generation, revision, selection)
  OBVIOUS
<1>0. /\ save_button = "normal" /\ selection # NoMiner
      /\ workers' = workers \cup {r0} /\ save_button' = "disabled"
      /\ UNCHANGED <<selection, ip, generation, revision, messages, edits>>
  BY DEF save, form
<1>1. selection \in Miner /\ ip = selection
  BY <1>0 DEF FormInvariant, FormType
<1>2. r0 \in Request /\ r0.kind = "save" /\ r0.ip = ip /\ r0.generation = generation
  BY <1>1 DEF FormInvariant, FormType, Request, Asked
<1>3. FormType'
  BY <1>0, <1>2 DEF FormInvariant, FormType
<1>4. RequestOK(r0)
  BY <1>1, <1>2, SMTT(30) DEF RequestOK, Live, FormInvariant, FormType
<1>5. /\ \A r \in workers' : RequestOK(r)'
      /\ \A i \in 1 .. Len(messages') :
           RequestOK(messages[i].of)' /\ messages'[i].kind \in Outcomes(messages'[i].of)
  BY <1>0, <1>4 DEF FormInvariant, RequestOK, Live
<1>6. /\ \A r \in workers : r.generation = generation => r.kind = "save"
      /\ \A i \in 1 .. Len(messages) : messages[i].of.generation = generation => messages[i].of.kind = "save"
  <2>1. /\ \A r \in workers : r.kind \in {"read", "save"}
        /\ \A i \in 1 .. Len(messages) : messages[i].of.kind \in {"read", "save"}
    BY WorkerFacts, MessageFacts DEF Request
  <2> QED BY <2>1, <1>0 DEF FormInvariant, SaveAfterRead
<1>7. /\ \A q, r \in workers' : q # r => Apart(q, r)'
      /\ \A q \in workers' : \A i \in 1 .. Len(messages') : Apart(q, messages[i].of)'
      /\ \A i, j \in 1 .. Len(messages') : i # j => Apart(messages[i].of, messages[j].of)'
  BY <1>0, <1>2, <1>6 DEF FormInvariant, Apart
<1>8. SaveAfterRead' /\ (selection # NoMiner => selection = ip)'
  BY <1>0, <1>1 DEF SaveAfterRead
<1> QED BY <1>3, <1>5, <1>7, <1>8 DEF FormInvariant

\* A worker turns its request into a result.
LEMMA WorkerKeeps ==
  ASSUME FormInvariant, worker
  PROVE  FormInvariant'
<1>0. PICK r0 \in workers : \E k \in Outcomes(r0) :
        /\ workers' = workers \ {r0}
        /\ messages' = Append(messages, [kind |-> k, of |-> r0])
        /\ UNCHANGED <<selection, ip, generation, revision, save_button, edits>>
  BY DEF worker, form
<1>1. PICK k \in Outcomes(r0) :
        /\ workers' = workers \ {r0}
        /\ messages' = Append(messages, [kind |-> k, of |-> r0])
        /\ UNCHANGED <<selection, ip, generation, revision, save_button, edits>>
  BY <1>0
<1>2. PICK m : m = [kind |-> k, of |-> r0]
  OBVIOUS
<1>3. r0 \in Request /\ m \in Result /\ m.of = r0 /\ m.kind = k
  BY <1>2, WorkerFacts DEF Outcomes, Result
<1>4. messages \in Seq(Result)
  BY DEF FormInvariant, FormType
<1>5. /\ messages' \in Seq(Result) /\ Len(messages') = Len(messages) + 1 /\ Len(messages) \in Nat
      /\ messages'[Len(messages) + 1] = m
      /\ \A i \in 1 .. Len(messages) : messages'[i] = messages[i]
  BY <1>1, <1>2, <1>3, <1>4
<1>6. FormType'
  BY <1>1, <1>5 DEF FormInvariant, FormType
<1>7. \A r \in workers' : RequestOK(r)'
  BY <1>1 DEF FormInvariant, RequestOK, Live
<1>8. \A i \in 1 .. Len(messages') :
        RequestOK(messages[i].of)' /\ messages'[i].kind \in Outcomes(messages'[i].of)
  <2>1. RequestOK(m.of) /\ m.kind \in Outcomes(m.of)
    BY <1>3 DEF FormInvariant
  <2> SUFFICES ASSUME NEW i \in 1 .. Len(messages')
               PROVE  RequestOK(messages'[i].of) /\ messages'[i].kind \in Outcomes(messages'[i].of)
    BY <1>1 DEF RequestOK, Live
  <2>2. CASE i = Len(messages) + 1
    BY <2>1, <2>2, <1>5
  <2>3. CASE i \in 1 .. Len(messages)
    BY <2>3, <1>5 DEF FormInvariant
  <2> QED BY <2>2, <2>3, <1>5
<1>9. /\ \A q, r \in workers' : q # r => Apart(q, r)'
      /\ \A q \in workers' : \A i \in 1 .. Len(messages') : Apart(q, messages[i].of)'
      /\ \A i, j \in 1 .. Len(messages') : i # j => Apart(messages[i].of, messages[j].of)'
  <2>1. \A i \in 1 .. Len(messages') : \/ i \in 1 .. Len(messages) /\ messages'[i] = messages[i]
                                       \/ i = Len(messages) + 1 /\ messages'[i].of = r0
    BY <1>3, <1>5
  <2>2. \A q, r \in workers' : q # r => Apart(q, r)'
    BY <1>1 DEF FormInvariant, Apart
  <2>3. \A q \in workers' : \A i \in 1 .. Len(messages') : Apart(q, messages[i].of)'
    BY <1>1, <2>1 DEF FormInvariant, Apart
  <2>4. \A i, j \in 1 .. Len(messages') : i # j => Apart(messages[i].of, messages[j].of)'
    BY <1>1, <2>1 DEF FormInvariant, Apart
  <2> QED
    BY <2>2, <2>3, <2>4
<1>10. SaveAfterRead'
  BY <1>1, <1>3, <1>5, SMTT(30) DEF FormInvariant, SaveAfterRead
<1>11. (selection # NoMiner => selection = ip)'
  BY <1>1 DEF FormInvariant
<1> QED BY <1>6, <1>7, <1>8, <1>9, <1>10, <1>11 DEF FormInvariant

\* update takes the first result; the form's miner and generation stay, and the
\* revision too or it goes back to 0 with the one live read.
LEMMA TakeKeeps ==
  ASSUME FormInvariant, messages # << >>, messages' = Tail(messages),
         UNCHANGED <<selection, ip, generation, workers, edits>>,
         NEW r0, r0 = Head(messages).of,
         \/ revision' = revision
         \/ revision' = 0 /\ Live(r0),
         \/ save_button' = save_button
         \/ save_button' = "normal" /\ Current(r0)
  PROVE  FormInvariant'
<1>1. /\ messages \in Seq(Result) /\ messages' \in Seq(Result)
      /\ Len(messages) \in Nat /\ Len(messages') = Len(messages) - 1 /\ Len(messages) >= 1
      /\ r0 = messages[1].of
      /\ \A i \in 1 .. Len(messages') : messages'[i] = messages[i + 1]
  BY DEF FormInvariant, FormType
<1>2. r0 \in Request /\ r0.ip \in Miner /\ RequestOK(r0) /\ r0.kind \in {"read", "save"}
  BY <1>1, MessageFacts, SMTT(30) DEF FormInvariant, Request
<1>3. FormType'
  BY <1>1 DEF FormInvariant, FormType
<1>4. r0.generation = generation =>
        /\ \A r \in workers : ~Live(r)
        /\ \A i \in 1 .. Len(messages') : ~Live(messages'[i].of)
  BY <1>1 DEF FormInvariant, Apart, Live
<1>5. \A r \in workers' : RequestOK(r)'
  BY <1>4 DEF FormInvariant, RequestOK, Live
<1>6. \A i \in 1 .. Len(messages') :
        RequestOK(messages[i].of)' /\ messages'[i].kind \in Outcomes(messages'[i].of)
  <2> SUFFICES ASSUME NEW i \in 1 .. Len(messages')
               PROVE  RequestOK(messages[i].of)' /\ messages'[i].kind \in Outcomes(messages'[i].of)
    OBVIOUS
  <2>1. PICK m : m = messages[i + 1] /\ m = messages'[i]
    BY <1>1
  <2>2. RequestOK(m.of) /\ m.kind \in Outcomes(m.of)
    BY <1>1, <2>1 DEF FormInvariant
  <2>3. r0.generation = generation => ~Live(m.of)
    BY <1>4, <2>1
  <2>4. RequestOK(m.of)'
    BY <2>2, <2>3 DEF RequestOK, Live
  <2> QED BY <2>1, <2>2, <2>4 DEF RequestOK, Live
<1>7. /\ \A q, r \in workers' : q # r => Apart(q, r)'
      /\ \A q \in workers' : \A i \in 1 .. Len(messages') : Apart(q, messages[i].of)'
      /\ \A i, j \in 1 .. Len(messages') : i # j => Apart(messages[i].of, messages[j].of)'
  BY <1>1, SMTT(30) DEF FormInvariant, Apart
<1>8. SaveAfterRead'
  <2>1. CASE save_button' = save_button
    BY <1>1, <2>1 DEF FormInvariant, SaveAfterRead
  <2>2. CASE save_button' = "normal" /\ Current(r0)
    BY <1>2, <1>4, <2>2, FormAssumption DEF SaveAfterRead, Current, Live
  <2> QED BY <2>1, <2>2
<1>9. (selection # NoMiner => selection = ip)'
  BY DEF FormInvariant
<1> QED BY <1>3, <1>5, <1>6, <1>7, <1>8, <1>9 DEF FormInvariant
-----------------------------------------------------------------------------
LEMMA StepKeepsForm == FormInvariant /\ [FormNext]_formVars => FormInvariant'
<1> SUFFICES ASSUME FormInvariant, [FormNext]_formVars PROVE FormInvariant'
  OBVIOUS
<1>0. /\ generation \in Nat /\ revision \in Nat /\ messages \in Seq(Result)
      /\ selection \in Miner \cup {NoMiner} /\ (selection # NoMiner => selection = ip)
  BY DEF FormInvariant, FormType
<1>1. CASE UNCHANGED formVars
  BY <1>0, <1>1, SameKeeps DEF formVars, form
<1>2. ASSUME NEW m \in Miner, Select(m) PROVE FormInvariant'
  <2>1. CASE m = ip
    BY <2>1, <1>2, SameKeeps DEF Select
  <2>2. CASE m # ip
    <3>1. /\ selection' = m /\ ip' = m /\ revision' = 0 /\ edits' = edits /\ messages' = messages
          /\ load_settings(m, generation + 1, 0, m)
      BY <2>2, <1>2 DEF Select
    <3>2. /\ messages' \in Seq(Result)
          /\ \A i \in 1 .. Len(messages') : \E j \in 1 .. Len(messages) : messages'[i] = messages[j]
      BY <3>1, <1>0
    <3>3. generation + 1 \in Nat /\ generation + 1 >= generation
      BY <1>0
    <3> QED BY <3>1, <3>2, <3>3, LoadKeeps
  <2> QED BY <2>1, <2>2
<1>3. CASE Deselect
  BY <1>3, SameKeeps DEF Deselect
<1>4. CASE edited
  BY <1>4, EditKeeps
<1>5. CASE reload_settings
  <2>1. /\ selection \in Miner /\ ip = selection /\ selection' = selection /\ ip' = ip
        /\ revision' = revision /\ edits' = edits /\ messages' = messages
        /\ load_settings(ip, generation, revision, ip)
    BY <1>5, <1>0 DEF reload_settings
  <2>2. \A i \in 1 .. Len(messages') : \E j \in 1 .. Len(messages) : messages'[i] = messages[j]
    BY <2>1
  <2> QED BY <2>1, <2>2, <1>0, LoadKeeps
<1>6. CASE save
  BY <1>6, SaveKeeps
<1>7. CASE worker
  BY <1>7, WorkerKeeps
<1>8. ASSUME messages # << >>, NEW r, r = Head(messages).of, Fills(r) \/ Ends(r) \/ Saved(r)
      PROVE  FormInvariant'
  <2>0. Head(messages).kind \in Outcomes(r)
    BY <1>0, <1>8 DEF FormInvariant
  <2>1. CASE Fills(r)
    <3>1. r.kind = "read"
      BY <2>0, <2>1 DEF Fills, Take, Outcomes
    <3> QED BY <3>1, <2>1, <1>8, TakeKeeps DEF Fills, Take, Live, Current
  <2>2. CASE Ends(r)
    BY <2>2, <1>8, TakeKeeps DEF Ends, Take, Enable, form
  <2>3. CASE Saved(r) /\ accepts(r) /\ selection # NoMiner
    <3>1. /\ selection \in Miner /\ ip = selection /\ selection' = selection /\ ip' = ip
          /\ revision' = revision /\ edits' = edits /\ messages' = Tail(messages)
          /\ load_settings(ip, generation, revision, ip)
      BY <2>3, <1>0 DEF Saved, Take
    <3>2. /\ messages' \in Seq(Result)
          /\ \A i \in 1 .. Len(messages') : i + 1 \in 1 .. Len(messages) /\ messages'[i] = messages[i + 1]
      BY <3>1, <1>0, <1>8
    <3> QED BY <3>1, <3>2, <1>0, LoadKeeps
  <2>4. CASE Saved(r) /\ ~(accepts(r) /\ selection # NoMiner)
    BY <2>4, <1>8, TakeKeeps DEF Saved, Take, Enable
  <2> QED BY <1>8, <2>1, <2>2, <2>3, <2>4
<1> QED BY <1>1, <1>2, <1>3, <1>4, <1>5, <1>6, <1>7, <1>8 DEF FormNext, User, update

LEMMA FormInvariantHolds == FormSpec => []FormInvariant
<1>1. FormInit => FormInvariant
  BY FormAssumption DEF FormInit, FormInvariant, FormType, SaveAfterRead
<1> QED BY <1>1, StepKeepsForm, PTL DEF FormSpec

\* The save button never shows while the form's read is under way or its result
\* waits (miner_dashboard.py:324-336, 394-432).
THEOREM ButtonWaits == FormSpec => []SaveAfterRead
<1>1. FormInvariant => SaveAfterRead
  BY DEF FormInvariant
<1> QED BY <1>1, FormInvariantHolds, PTL

\* No reply fills the form of another miner or one edited since the request
\* (miner_dashboard.py:86-106, 394-412).
THEOREM RepliesKeepEdits == FormSpec => EditsKept
<1>1. ASSUME FormInvariant, messages # << >>, Fills(Head(messages).of)
      PROVE  Head(messages).of.to = ip /\ Head(messages).of.edits = edits
  <2>1. PICK r : r = Head(messages).of
    OBVIOUS
  <2>2. Len(messages) >= 1 /\ r = messages[1].of /\ messages[1] = Head(messages)
    BY <1>1, <2>1 DEF FormInvariant, FormType
  <2>3. /\ RequestOK(r) /\ messages[1].kind \in Outcomes(r)
        /\ r.revision \in Nat /\ r.edits \in Nat /\ revision \in Nat /\ edits \in Nat
    BY <1>1, <2>2, MessageFacts, SMTT(30) DEF FormInvariant, FormType
  <2>4. Live(r) /\ r.revision = revision
    BY <1>1, <2>1, <2>2, <2>3 DEF Fills, Take, Current, accepts, Outcomes, Live
  <2>5. r.to = ip /\ r.edits = edits
    BY <2>3, <2>4 DEF RequestOK
  <2> QED BY <2>1, <2>5
<1>2. FormInvariant /\ [FormNext]_formVars =>
        [messages # << >> /\ Fills(Head(messages).of) =>
           LET r == Head(messages).of IN r.to = ip /\ r.edits = edits]_formVars
  BY <1>1
<1> QED BY <1>2, FormInvariantHolds, PTL DEF FormSpec, EditsKept
=============================================================================
