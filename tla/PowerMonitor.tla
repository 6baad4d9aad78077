----------------------------- MODULE PowerMonitor -----------------------------
(***************************************************************************)
(* Power measurements, from the sensors to a status report: power_task with  *)
(* its polled bus (software/application/power.c), the sensor driver          *)
(* (software/common/ina700.c), and the power part of a report                *)
(* (miner_protocol.c: power_json, called by broadcast_task with the time it  *)
(* read before).  Ticks are counted modulo TickMod, and so are milliseconds,  *)
(* which a sample is stamped with and its age is told in.                    *)
(*                                                                           *)
(* What the polls of the bus show is one of three: "good", the sensor        *)
(* answers and its diagnosis is in order; "refuses", an error bit or a       *)
(* register that reads wrong; "silent", nothing until the deadline.  It      *)
(* changes at any time, and the configuration may be lost with it.           *)
(* power_task has the lowest priority: no sample is published while          *)
(* broadcast_task is between reading the time and the report, so a report    *)
(* is a function of the published samples and of the time.                   *)
(***************************************************************************)
EXTENDS Integers, Sequences

CONSTANTS Sensors,    \* 2
          TickMod,    \* 2^32
          TickMs,     \* portTICK_PERIOD_MS (10: configTICK_RATE_HZ is 100)
          Deadline,   \* pdMS_TO_TICKS(100)
          Period,     \* pdMS_TO_TICKS(1000)
          Limit,      \* 3000 ms
          MaxLag      \* bound: ticks power_task falls behind its schedule

ASSUME PowerAssumption ==
  /\ {Sensors, TickMs, Deadline, Period, Limit} \subseteq Nat \ {0}
  /\ MaxLag \in Nat /\ TickMod \in Nat
  /\ Sensors * Deadline <= Period
  /\ (MaxLag + Period + Sensors * Deadline) * TickMs < TickMod

Sensor == 1 .. Sensors

VARIABLES tick,
          health, configured,          \* the sensors
          phase, n, todo,                 \* power_task: its sensor and transactions
          deadline_start, last, ready,
          samples, stats,              \* its samples, and the published copy
          taken, age                   \* the true ages of the samples and of the copy
taskVars == <<phase, n, todo, deadline_start, last, ready, samples>>
powerVars == <<tick, health, configured, taskVars, stats, taken, age>>

NoSample == [valid |-> FALSE, at |-> 0]
Null == [valid |-> FALSE, age |-> 0]
Failed == -1          \* the age of what the last attempt did not measure

PowerInit ==
  /\ tick \in 0 .. TickMod - 1
  /\ health = [s \in Sensor |-> "silent"] /\ configured = [s \in Sensor |-> FALSE]
  /\ phase = "sensor" /\ n = 1 /\ todo = << >>
  /\ deadline_start = 0 /\ last = tick
  /\ ready = [s \in Sensor |-> FALSE]
  /\ samples = [s \in Sensor |-> NoSample] /\ stats = samples
  /\ taken = [s \in Sensor |-> Failed] /\ age = taken
-----------------------------------------------------------------------------
(* Time, and the sensors.                                                   *)

Since(t) == (tick - t) % TickMod

\* The milliseconds of a tick, as uint32_t.
Ms(t) == (t * TickMs) % TickMod

Overdue == Since(deadline_start) >= Deadline

Older(ages) == [s \in Sensor |-> IF ages[s] = Failed THEN Failed ELSE ages[s] + 1]

\* Ticks pass while the task is preempted or sleeps, until it is MaxLag behind;
\* from there on it runs, and only the silence of a sensor takes time.
Silent == phase = "wait" /\ health[n] = "silent"
Tick ==
  /\ Since(last) < MaxLag \/ (Silent /\ Since(deadline_start) < Deadline)
  /\ tick' = (tick + 1) % TickMod
  /\ taken' = Older(taken) /\ age' = Older(age)
  /\ UNCHANGED <<health, configured, taskVars, stats>>

\* Only the sensor that is polled is looked at: the others change unseen, which
\* is to change when their turn comes.
Change ==
  /\ phase = "wait"
  /\ Silent => Since(last) < MaxLag
  /\ \E h \in {"good", "refuses", "silent"} \ {health[n]} :
       /\ health' = [health EXCEPT ![n] = h]
       /\ \/ h = "refuses" /\ configured' = [configured EXCEPT ![n] = FALSE]
          \/ UNCHANGED configured
  /\ UNCHANGED <<tick, taskVars, stats, taken, age>>
-----------------------------------------------------------------------------
(* power_task.                                                              *)

\* What ina700_init and ina700_sample_read do on the bus: a transaction is one
\* wait here, since its waits share one deadline, and the four measurements are
\* one transaction.
InitTransactions == <<"identify", "configure", "verify">>
SampleTransactions == <<"verify", "diagnose", "measure">>

\* The time of an invalid sample is not looked at, nor is deadline_start outside
\* a transaction: both are 0 then.
Forget(s) == samples' = [samples EXCEPT ![s] = NoSample]

\* The next sensor: it is initialised, or read if it is ready.
NextSensor ==
  /\ phase = "sensor"
  /\ Forget(n)
  /\ todo' = (IF ready[n] THEN SampleTransactions ELSE InitTransactions)
  /\ deadline_start' = tick
  /\ phase' = "wait"
  /\ UNCHANGED <<tick, health, configured, n, last, ready, stats, taken, age>>

\* Both sensors in turn, then the samples are published.
Done == IF n = Sensors THEN n' = 1 /\ phase' = "publish" ELSE n' = n + 1 /\ phase' = "sensor"

\* Faulty variant: a sensor that failed is not initialised again.
StaysReady(s) == UNCHANGED ready

Unready(s) == ready' = [ready EXCEPT ![s] = FALSE]

Unconfigured == Head(todo) = "verify" /\ ~configured[n]

\* An error bit, or the deadline; or a register that does not read as it should.
Fails ==
  /\ phase = "wait"
  /\ \/ health[n] = "refuses"
     \/ health[n] = "silent" /\ Overdue
     \/ health[n] = "good" /\ Unconfigured
  /\ Unready(n)
  /\ Done
  /\ todo' = << >> /\ deadline_start' = 0
  /\ taken' = [taken EXCEPT ![n] = Failed]
  /\ UNCHANGED <<tick, health, configured, last, samples, stats, age>>

\* A transaction is over; with the last one the initialisation or the sample.
Passes ==
  /\ phase = "wait"
  /\ health[n] = "good" /\ ~Unconfigured
  /\ configured' = IF Head(todo) = "configure" THEN [configured EXCEPT ![n] = TRUE] ELSE configured
  /\ todo' = Tail(todo)
  /\ IF todo' # << >>
     THEN deadline_start' = tick /\ UNCHANGED <<phase, n, ready, samples, taken>>
     ELSE /\ Done
          /\ deadline_start' = 0
          /\ IF ready[n]
             THEN /\ samples' = [samples EXCEPT ![n] = [valid |-> TRUE, at |-> Ms(tick)]]
                  /\ taken' = [taken EXCEPT ![n] = 0]
                  /\ UNCHANGED ready
             ELSE /\ ready' = [ready EXCEPT ![n] = TRUE]
                  /\ taken' = [taken EXCEPT ![n] = Failed]
                  /\ UNCHANGED samples
  /\ UNCHANGED <<tick, health, last, stats, age>>

telemetry_power ==
  /\ phase = "publish"
  /\ stats' = samples /\ age' = taken
  /\ phase' = "sleep"
  /\ UNCHANGED <<tick, health, configured, n, todo, deadline_start, last, ready, samples, taken>>

\* vTaskDelayUntil: the next round is due a period after the last was.
Sleep ==
  /\ phase = "sleep"
  /\ Since(last) >= Period
  /\ last' = (last + Period) % TickMod
  /\ phase' = "sensor"
  /\ UNCHANGED <<tick, health, configured, n, todo, deadline_start, ready, samples, stats, taken, age>>

PowerTask == NextSensor \/ Fails \/ Passes \/ telemetry_power \/ Sleep
-----------------------------------------------------------------------------
(* broadcast_task.                                                          *)

\* Faulty variant: a sample from before the counter wrapped has no age.
AgeAbsolute(sample) == IF Ms(tick) >= sample.at THEN Ms(tick) - sample.at ELSE 0

Age(sample) == (Ms(tick) - sample.at) % TickMod

power_json(sample) ==
  IF ~sample.valid \/ Age(sample) > Limit THEN Null ELSE [valid |-> TRUE, age |-> Age(sample)]

PowerNext ==
  Tick \/ PowerTask \/ Change

\* Ticks come, and the tasks of higher priority block again and again.
PowerSpec == PowerInit /\ [][PowerNext]_powerVars /\ WF_powerVars(Tick) /\ WF_powerVars(PowerTask)
-----------------------------------------------------------------------------
(* Properties.                                                              *)

\* A report shows a measurement exactly when the last published attempt at the
\* sensor measured something no more than Limit before the report's time, and
\* then with its true age: wherever ticks and milliseconds wrap, and however
\* long power_task was kept from running (power.c:57-69, miner_protocol.c:61-70).
PowerTruthful ==
  \A s \in Sensor :
    LET ms == age[s] * TickMs
    IN  power_json(stats[s]) =
          IF age[s] # Failed /\ ms <= Limit THEN [valid |-> TRUE, age |-> ms] ELSE Null

\* A sensor that stays good is read again and again: nothing the other sensor
\* does, silence included, keeps its samples from being published
\* (power.c:14-21, 57-69; doc/power_telemetry.md says the sensors retry
\* independently).
SensorsRetried ==
  \A s \in Sensor : <>[](health[s] = "good") => []<>stats[s].valid
=============================================================================
