-------------------------- MODULE SettingsRegister --------------------------
(***************************************************************************)
(* What the EEPROM settings store promises to its clients: a register.      *)
(* While a save runs, a load after a power cut returns the settings of      *)
(* before or the settings being saved, nothing else; a save that is         *)
(* reported successful has taken effect; neither a failure nor a power cut  *)
(* loses what was stored.  SettingsStore implements this specification      *)
(* with two slots that are written a page at a time.                        *)
(***************************************************************************)
CONSTANTS Value,    \* the settings a client may ask to store
          Valid,    \* those settings_valid accepts
          None      \* no settings

VARIABLES stored,   \* the settings a load returns, None before the first save
          settled,  \* what was stored when the last save ended
          saving,   \* the settings being saved, None between saves
          outcome   \* the return value of the last save

vars == <<stored, settled, saving, outcome>>

Init == stored = None /\ settled = None /\ saving = None /\ outcome = "none"

Begin(v) ==
  /\ saving = None
  /\ saving' = v
  /\ outcome' = "none"
  /\ UNCHANGED <<stored, settled>>

Reject ==
  /\ saving = None
  /\ outcome' = "failed"
  /\ UNCHANGED <<stored, settled, saving>>

Write ==
  /\ saving # None
  /\ stored' \in {settled, saving}
  /\ UNCHANGED <<settled, saving, outcome>>

Succeed ==
  /\ saving # None
  /\ stored = saving
  /\ outcome' = "ok"
  /\ saving' = None
  /\ settled' = saving
  /\ UNCHANGED stored

\* A save that fails may have taken effect, also in the step that fails: a
\* write that is stored but not acknowledged.
Fail ==
  /\ saving # None
  /\ outcome' = "failed"
  /\ saving' = None
  /\ stored' \in {settled, saving}
  /\ settled' = stored'

PowerCut ==
  /\ saving' = None
  /\ outcome' = "none"
  /\ settled' = stored
  /\ UNCHANGED stored

Next ==
  \/ \E v \in Valid : Begin(v)
  \/ (Value \ Valid # {} /\ Reject)
  \/ Write
  \/ Succeed
  \/ Fail
  \/ PowerCut

Spec == Init /\ [][Next]_vars
=============================================================================
