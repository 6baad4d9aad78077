----------------------------- MODULE SettingsForm -----------------------------
(***************************************************************************)
(* The settings form of the desktop dashboard (dashboard/miner_dashboard.py: *)
(* SettingsFormState and the handlers of gui).  The window's one thread runs *)
(* the user's actions and update; every request to a miner has a worker      *)
(* thread of its own, which puts its result into a queue that update reads.  *)
(* Workers end in any order, so a result may come back when the user has     *)
(* edited the form, asked again or picked another miner.                     *)
(***************************************************************************)
EXTENDS Integers, Sequences

CONSTANTS Miner, NoMiner,
          MaxGeneration, MaxEdits    \* bounds on what the user asks for and edits

ASSUME FormAssumption ==
  /\ NoMiner \notin Miner
  /\ MaxGeneration \in Nat /\ MaxEdits \in Nat

VARIABLES selection,                 \* the row of the table
          ip, generation, revision,  \* SettingsFormState
          save_button,
          workers, messages,         \* the requests under way, and their results
          edits                      \* the edits ever made
form == <<ip, generation, revision>>
formVars == <<selection, form, save_button, workers, messages, edits>>

Request == [kind : {"read", "save"}, ip : Miner \cup {NoMiner}, generation : Nat,
            revision : Nat, to : Miner, edits : Nat]
Result == [kind : {"settings_read", "read_error", "saved", "save_refused", "save_error"},
           of : Request]

FormInit ==
  /\ selection = NoMiner
  /\ ip = NoMiner /\ generation = 0 /\ revision = 0
  /\ save_button = "disabled"
  /\ workers = {} /\ messages = << >>
  /\ edits = 0
-----------------------------------------------------------------------------
(* SettingsFormState.                                                       *)

\* Faulty variant: a read takes the number of the one before it.
begin_read_same(gen) == gen

begin_read(gen) == gen + 1

\* Faulty variant: edits made since the request do not count.
AcceptsAnyRevision(r) == r.ip = ip /\ r.generation = generation

\* Faulty variant: an edit leaves the form without its button.
CurrentAsRequested(r) == r.ip = ip /\ r.generation = generation /\ r.revision = revision

\* The first two parts of the token, and all of it.
Current(r) == r.ip = ip /\ r.generation = generation
accepts(r) == r.ip = ip /\ r.generation = generation /\ r.revision = revision

\* A request to a miner with the token of the form (i, g, v).
Asked(kind, i, g, v, to) ==
  [kind |-> kind, ip |-> i, generation |-> g, revision |-> v, to |-> to, edits |-> edits]

\* load_settings, with the form at (i, g, v) and the row s selected.
load_settings(i, g, v, s) ==
  /\ generation' = begin_read(g)
  /\ workers' = workers \cup {Asked("read", i, begin_read(g), v, s)}
  /\ save_button' = "disabled"
-----------------------------------------------------------------------------
(* The user.                                                                *)

\* selected: another miner gets an empty form and is read.
Select(m) ==
  /\ selection' = m
  /\ IF m = ip THEN UNCHANGED <<form, workers, save_button>>
     ELSE /\ generation < MaxGeneration
          /\ ip' = m /\ revision' = 0
          /\ load_settings(m, generation + 1, 0, m)
  /\ UNCHANGED <<messages, edits>>

Deselect ==
  /\ selection' = NoMiner
  /\ UNCHANGED <<form, save_button, workers, messages, edits>>

edited ==
  /\ edits < MaxEdits
  /\ revision' = revision + 1 /\ edits' = edits + 1
  /\ UNCHANGED <<selection, ip, generation, save_button, workers, messages>>

\* reload_settings; local edits, if any, are given up.
reload_settings ==
  /\ generation < MaxGeneration
  /\ selection # NoMiner
  /\ load_settings(ip, generation, revision, selection)
  /\ UNCHANGED <<selection, ip, revision, messages, edits>>

save ==
  /\ generation < MaxGeneration
  /\ save_button = "normal"
  /\ selection # NoMiner
  /\ workers' = workers \cup {Asked("save", ip, generation, revision, selection)}
  /\ save_button' = "disabled"
  /\ UNCHANGED <<selection, form, messages, edits>>
-----------------------------------------------------------------------------
(* The worker threads, and update.                                          *)

Outcomes(r) == IF r.kind = "read" THEN {"settings_read", "read_error"}
                                  ELSE {"saved", "save_refused", "save_error"}

worker ==
  \E r \in workers : \E k \in Outcomes(r) :
    /\ workers' = workers \ {r}
    /\ messages' = Append(messages, [kind |-> k, of |-> r])
    /\ UNCHANGED <<selection, form, save_button, edits>>

Take(k) == messages # << >> /\ Head(messages).kind \in k /\ messages' = Tail(messages)
Enable(r) == save_button' = IF Current(r) THEN "normal" ELSE save_button

\* The reply fills the form.
Fills(r) ==
  /\ Take({"settings_read"}) /\ r = Head(messages).of
  /\ Current(r) /\ accepts(r)
  /\ save_button' = "normal"
  /\ revision' = 0
  /\ UNCHANGED <<selection, ip, generation, workers, edits>>

\* A reply the form has moved on from, and a failure, change the button at most.
Ends(r) ==
  /\ Take({"settings_read", "read_error", "save_refused", "save_error"}) /\ r = Head(messages).of
  /\ Head(messages).kind = "settings_read" => ~(Current(r) /\ accepts(r))
  /\ Enable(r)
  /\ UNCHANGED <<selection, form, workers, edits>>

\* What was saved is read back when the form still shows it.
Saved(r) ==
  /\ Take({"saved"}) /\ r = Head(messages).of
  /\ IF accepts(r) /\ selection # NoMiner
     THEN load_settings(ip, generation, revision, selection)
     ELSE Enable(r) /\ UNCHANGED <<generation, workers>>
  /\ UNCHANGED <<selection, ip, revision, edits>>

update == messages # << >> /\ LET r == Head(messages).of IN Fills(r) \/ Ends(r) \/ Saved(r)

User == (\E m \in Miner : Select(m)) \/ Deselect \/ edited \/ reload_settings \/ save
FormNext == User \/ worker \/ update

\* A request has a timeout and update runs every 100 ms; the user owes nothing.
FormSpec == FormInit /\ [][FormNext]_formVars /\ WF_formVars(worker) /\ WF_formVars(update)
-----------------------------------------------------------------------------
(* Properties.                                                              *)

\* A reply fills the form only when the miner that was asked is the one the
\* form is for and nothing was edited since it was asked, in whatever order the
\* replies to overlapping requests come (miner_dashboard.py:86-106, 394-412).
EditsKept ==
  [][messages # << >> /\ Fills(Head(messages).of) =>
       LET r == Head(messages).of IN r.to = ip /\ r.edits = edits]_formVars

\* The button is there only when the last read the form asked for is over, so
\* fields that wait for a miner's settings are never saved over them
\* (miner_dashboard.py:324-336, 394-432).
SaveAfterRead ==
  save_button = "normal" =>
    /\ ip # NoMiner
    /\ \A r \in workers : r.kind = "read" => r.generation # generation
    /\ \A i \in 1 .. Len(messages) : messages[i].of.kind = "read" => messages[i].of.generation # generation

\* The button comes back: whatever was edited, picked or asked meanwhile, some
\* result enables it (miner_dashboard.py:394-432).
ButtonReturns == ip # NoMiner /\ save_button = "disabled" ~> save_button = "normal"
=============================================================================
