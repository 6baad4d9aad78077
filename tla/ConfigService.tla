---------------------------- MODULE ConfigService ----------------------------
(***************************************************************************)
(* Settings in use: the EEPROM store (SettingsRegister, which SettingsStore  *)
(* implements), the settings in RAM with settings_lock and                   *)
(* settings_generation (main.c), the configuration task that changes them    *)
(* (dashboard.c: config_task, config_reply, configure) and the Stratum task  *)
(* that takes a copy for every pool session (stratum.c: stratum_task).       *)
(*                                                                           *)
(* Tasks are preempted anywhere.  A structure copy is therefore two steps,   *)
(* one for the pool it names and one for its password.                       *)
(***************************************************************************)
EXTENDS Integers

CONSTANTS Pool,       \* host, port, worker and MAC of a settings record
          NoPool,     \* those of settings_defaults: an empty host
          Password,   \* passwords
          NoPassword, \* the empty password
          Omitted,    \* a configure request without a password field
          MaxSaves,   \* bound: successful saves after a boot
          MaxBoots,   \* bound: reboots
          None

Settings == [pool : Pool \cup {NoPool}, password : Password \cup {NoPassword}]
Default == [pool |-> NoPool, password |-> NoPassword]

\* The requests of a client; one that is incomplete or not JSON is malformed.
Configure == [kind : {"configure"}, pool : Pool \cup {NoPool},
              password : Password \cup {NoPassword, Omitted}]
Request == Configure \cup [kind : {"get_settings", "malformed"}]

ASSUME ConfigAssumption ==
  /\ NoPool \notin Pool
  /\ NoPassword \notin Password
  /\ Omitted \notin Password \cup {NoPassword}
  /\ None \notin Settings \cup Request
  /\ MaxSaves \in Nat /\ MaxBoots \in Nat

VARIABLES stored, settled, saving, outcome  \* the EEPROM store
storeVars == <<stored, settled, saving, outcome>>

VARIABLES settings,   \* settings
          generation, \* settings_generation
          lock,       \* the holder of settings_lock
          ioError,    \* history: the load at boot or a save since has failed
          boots       \* reboots so far
ramVars == <<settings, generation, lock, ioError, boots>>

VARIABLES cpc,        \* where the configuration task is
          request,    \* the request it handles
          next,       \* next in configure
          before,     \* history: what was stored when it took the request
          reply,      \* the reply: "error", "saved", or of get_settings "stored", "empty"
          shown       \* the settings in the reply "stored"
replyVars == <<reply, shown>>
configVars == <<cpc, request, next, before, replyVars>>

VARIABLES spc,        \* where the Stratum task is
          session,    \* its copy of the settings
          sessionGen  \* its copy of settings_generation
stratumVars == <<spc, session, sessionGen>>

serviceVars == <<storeVars, ramVars, configVars, stratumVars>>

Store == INSTANCE SettingsRegister WITH Value <- Settings, Valid <- Settings

\* settings_load: the defaults when nothing is stored.
Loaded == IF stored = None THEN Default ELSE stored

TasksStart ==
  /\ generation' = 0 /\ lock' = "free"
  /\ cpc' = "accept" /\ request' = None /\ next' = None /\ before' = None
  /\ reply' = "none" /\ shown' = None
  /\ spc' = "take" /\ session' = Default /\ sessionGen' = 0

ConfigInit ==
  /\ Store!Init
  /\ settings = Default /\ generation = 0 /\ lock = "free" /\ ioError = FALSE /\ boots = 0
  /\ cpc = "accept" /\ request = None /\ next = None /\ before = None
  /\ reply = "none" /\ shown = None
  /\ spc = "take" /\ session = Default /\ sessionGen = 0

\* A power cut or reset at any point, then main: settings_load, which falls
\* back to the defaults when the bus fails too, and the tasks from their start.
Reboot ==
  /\ boots < MaxBoots /\ boots' = boots + 1
  /\ Store!PowerCut
  /\ \/ settings' = Loaded /\ ioError' = FALSE
     \/ settings' = Default /\ ioError' = TRUE
  /\ TasksStart
-----------------------------------------------------------------------------
(* The configuration task.                                                  *)

\* config_task accepts a client and reads a line, which may be incomplete.
Accept ==
  /\ cpc = "accept"
  /\ request' \in Request
  /\ IF request'.kind = "malformed" THEN cpc' = "reply" /\ reply' = "error"
     ELSE cpc' = "lock" /\ UNCHANGED reply
  /\ UNCHANGED <<storeVars, ramVars, next, before, shown, stratumVars>>

ConfigTake ==
  /\ cpc = "lock"
  /\ lock = "free"
  /\ lock' = "config"
  /\ before' = stored
  /\ cpc' = IF request.kind = "get_settings" THEN "load" ELSE "parse"
  /\ UNCHANGED <<storeVars, settings, generation, ioError, request, next, replyVars,
                 boots, stratumVars>>

\* Faulty variant: a bus error is taken for an empty EEPROM.
LoadForReplyEmpty ==
  /\ cpc = "load"
  /\ cpc' = "give"
  /\ \/ stored # None /\ reply' = "stored" /\ shown' = stored
     \/ reply' = "empty" /\ UNCHANGED shown
  /\ UNCHANGED <<storeVars, ramVars, request, next, before, stratumVars>>

\* get_settings: settings_load again, from the EEPROM.
LoadForReply ==
  /\ cpc = "load"
  /\ cpc' = "give"
  /\ \/ stored # None /\ reply' = "stored" /\ shown' = stored
     \/ stored = None /\ reply' = "empty" /\ UNCHANGED shown
     \/ reply' = "error" /\ UNCHANGED shown
  /\ UNCHANGED <<storeVars, ramVars, request, next, before, stratumVars>>

\* miner_config_parse: the request over a copy of the settings in RAM.  It may
\* find invalid fields.
Parse ==
  /\ cpc = "parse"
  /\ \/ /\ generation < MaxSaves
        /\ next' = [pool |-> request.pool,
                    password |-> IF request.password = Omitted THEN settings.password
                                 ELSE request.password]
        /\ Store!Begin(next')
        /\ cpc' = "save"
        /\ UNCHANGED reply
     \/ /\ reply' = "error"
        /\ cpc' = "give"
        /\ UNCHANGED <<storeVars, next>>
  /\ UNCHANGED <<ramVars, request, before, shown, stratumVars>>

\* settings_save.
SaveWrites ==
  /\ cpc = "save"
  /\ Store!Write
  /\ UNCHANGED <<ramVars, configVars, stratumVars>>

SaveSucceeds ==
  /\ cpc = "save"
  /\ Store!Succeed
  /\ cpc' = "pool"
  /\ UNCHANGED <<ramVars, request, next, before, replyVars, stratumVars>>

\* Faulty variant: a save that failed is tried again.
SaveFailsRetrying ==
  /\ cpc = "save"
  /\ Store!Fail
  /\ ioError' = TRUE
  /\ cpc' = "parse"
  /\ UNCHANGED <<settings, generation, lock, request, next, before, replyVars, boots,
                 stratumVars>>

SaveFails ==
  /\ cpc = "save"
  /\ Store!Fail
  /\ ioError' = TRUE
  /\ reply' = "error"
  /\ cpc' = "give"
  /\ UNCHANGED <<settings, generation, lock, request, next, before, shown, boots, stratumVars>>

\* settings=next; settings_generation++.
CopyPool ==
  /\ cpc = "pool"
  /\ settings' = [settings EXCEPT !.pool = next.pool]
  /\ cpc' = "password"
  /\ UNCHANGED <<storeVars, generation, lock, ioError, request, next, before, replyVars,
                 boots, stratumVars>>

CopyPassword ==
  /\ cpc = "password"
  /\ settings' = [settings EXCEPT !.password = next.password]
  /\ cpc' = "count"
  /\ UNCHANGED <<storeVars, generation, lock, ioError, request, next, before, replyVars,
                 boots, stratumVars>>

CountGeneration ==
  /\ cpc = "count"
  /\ generation' = generation + 1
  /\ reply' = "saved"
  /\ cpc' = "give"
  /\ UNCHANGED <<storeVars, settings, lock, ioError, request, next, before, shown, boots,
                 stratumVars>>

ConfigGive ==
  /\ cpc = "give"
  /\ lock' = "free"
  /\ cpc' = "reply"
  /\ UNCHANGED <<storeVars, settings, generation, ioError, request, next, before,
                 replyVars, boots, stratumVars>>

\* The reply is sent, or is lost with the connection; the client is closed.
Reply ==
  /\ cpc = "reply"
  /\ cpc' = "accept"
  /\ request' = None /\ next' = None /\ before' = None
  /\ reply' = "none" /\ shown' = None
  /\ UNCHANGED <<storeVars, ramVars, stratumVars>>
-----------------------------------------------------------------------------
(* The Stratum task.                                                        *)

\* Faulty variant: the copy is taken without the lock.
StratumTakeUnlocked ==
  /\ spc = "take"
  /\ spc' = "pool"
  /\ UNCHANGED <<storeVars, ramVars, configVars, session, sessionGen>>

StratumTake ==
  /\ spc = "take"
  /\ lock = "free"
  /\ lock' = "stratum"
  /\ spc' = "pool"
  /\ UNCHANGED <<storeVars, settings, generation, ioError, boots, configVars, session,
                 sessionGen>>

\* session=settings; generation=settings_generation.
SessionPool ==
  /\ spc = "pool"
  /\ session' = [session EXCEPT !.pool = settings.pool]
  /\ spc' = "password"
  /\ UNCHANGED <<storeVars, ramVars, configVars, sessionGen>>

SessionPassword ==
  /\ spc = "password"
  /\ session' = [session EXCEPT !.password = settings.password]
  /\ spc' = "count"
  /\ UNCHANGED <<storeVars, ramVars, configVars, sessionGen>>

SessionGeneration ==
  /\ spc = "count"
  /\ sessionGen' = generation
  /\ spc' = "give"
  /\ UNCHANGED <<storeVars, ramVars, configVars, session>>

\* The lock is given back.  Without a pool the task waits and starts over.
StratumGive ==
  /\ spc = "give"
  /\ lock' = "free"
  /\ spc' = IF session.pool = NoPool THEN "take" ELSE "connect"
  /\ UNCHANGED <<storeVars, settings, generation, ioError, boots, configVars, session,
                 sessionGen>>

\* The network, DNS, the socket or the connection may fail.
Connect ==
  /\ spc = "connect"
  /\ spc' \in {"take", "session"}
  /\ UNCHANGED <<storeVars, ramVars, configVars, session, sessionGen>>

\* The session ends because of the network, the pool or a share.
SessionLost ==
  /\ spc = "session"
  /\ spc' = "take"
  /\ UNCHANGED <<storeVars, ramVars, configVars, session, sessionGen>>

\* Faulty variant: the loop does not look at the generation.
SupersededUnseen == FALSE

\* while(network_up && generation==settings_generation).
SessionSuperseded ==
  /\ spc = "session"
  /\ sessionGen # generation
  /\ spc' = "take"
  /\ UNCHANGED <<storeVars, ramVars, configVars, session, sessionGen>>

ConfigStep == \/ ConfigTake \/ LoadForReply \/ Parse
              \/ SaveWrites \/ SaveSucceeds \/ SaveFails
              \/ CopyPool \/ CopyPassword \/ CountGeneration \/ ConfigGive \/ Reply
SaveReturns == SaveSucceeds \/ SaveFails
StratumStep == \/ StratumTake \/ SessionPool \/ SessionPassword \/ SessionGeneration
               \/ StratumGive \/ Connect \/ SessionSuperseded

ConfigNext == Reboot \/ Accept \/ ConfigStep \/ StratumStep \/ SessionLost

\* Both tasks go on, but no session need ever be lost; settings_save returns
\* (SettingsStore has no loop but over the pages, and eeprom.c bounds every wait
\* of a transfer); a blocked taker gets the mutex when it is
\* given (FreeRTOS wakes the waiter).
Fairness ==
  /\ WF_serviceVars(ConfigStep) /\ WF_serviceVars(SaveReturns) /\ WF_serviceVars(StratumStep)
  /\ SF_serviceVars(ConfigTake) /\ SF_serviceVars(StratumTake)

ConfigSpec == ConfigInit /\ [][ConfigNext]_serviceVars /\ Fairness
-----------------------------------------------------------------------------
(* Properties.                                                              *)

\* A session never runs on torn or on superseded settings without noticing: if
\* its generation is the current one, its copy is what the last completed
\* configure made of them (stratum.c:180, dashboard.c:138).
SessionCoherent ==
  spc \in {"connect", "session"} /\ sessionGen = generation /\ lock # "config" =>
    session = settings

\* Replies tell the truth about the EEPROM when they are made: "saved" means
\* persisted with the fields of the request, get_settings returns what is stored,
\* and claims that nothing is stored only if so (doc/protocol.md:80-81, 95-100).
ReplyTruthful ==
  cpc \in {"give", "reply"} =>
    /\ reply = "saved" => /\ stored = next
                          /\ stored.pool = request.pool
                          /\ request.password # Omitted => stored.password = request.password
    /\ reply = "empty" => stored = None
    /\ reply = "stored" => stored = shown

\* "Omitting password preserves the current stored password"
\* (doc/protocol.md:96-97, miner_protocol.c:30).
PasswordPreserved ==
  cpc = "reply" /\ reply = "saved" /\ request.password = Omitted /\ before # None =>
    stored.password = before.password

\* New settings reach the Stratum task: a superseded copy is replaced by the
\* current one (stratum.c:198, doc/protocol.md:100).
SettingsTakeEffect == sessionGen # generation ~> sessionGen = generation /\ session = settings

\* A client that was accepted is answered: the lock is given back on every
\* path (dashboard.c:135-139, 151-153) and no failed save is retried.
ClientAnswered == cpc # "accept" ~> cpc = "accept"
=============================================================================
