---- MODULE MCSettingsForm ----
(* Two miners; four generations are two selections, or one and two more     *)
(* reads; two edits.                                                        *)
EXTENDS SettingsForm
====
