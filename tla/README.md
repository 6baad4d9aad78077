# A verification of the SCU35 lottery miner

TLA+ models of the miner in this repository, checked on small instances with
TLC and, for ten of them, proved for every value of the constants with TLAPS.
Paths are relative to the repository; `PROJECT.json` names for every definition
the source lines it models, for every property the mutation of the code that
breaks it, and the hazards the properties answer.

## 1. The system

An FPGA with a MicroBlaze processor searches Bitcoin headers for a pool. Its
parts, what they keep and how they meet:

| part | source | state | operations |
|---|---|---|---|
| boot loader | `software/bootloader/main.c`, `software/common/srec.c` | vector buffer, RAM bounds, record count | calibrate memory, identify flash, load records, check, install vectors, jump |
| settings store | `software/common/settings.c`, `software/application/eeprom.c` | two EEPROM slots | load, save |
| configuration service | `software/application/dashboard.c:133-183`, `main.c`, `software/common/miner_protocol.c:20-43` | settings and generation in RAM, mutex | `configure`, `get_settings`, start-up |
| Stratum task | `software/application/stratum.c` | session, job, extranonces, header, pending submissions, time stamps | connect, notifications, replies, result service, time-outs |
| mining core | `rtl/bitcoin_miner_axi.sv`, `bitcoin_hash_engine.sv`, `bitcoin_result_cluster_fifo.sv` | job registers, lanes, result FIFOs, flags | START, STOP, CLEAR, ACK, one clock cycle |
| SHA-256 datapath | `rtl/sha256_core_iterative.sv`, `bitcoin_sha256_core.sv` | round, message words, working variables | one phase of a round |
| telemetry | `software/application/dashboard.c:22-132` | event queue, counters, subscribers | report, subscribe, send |
| power monitoring | `software/application/power.c`, `software/common/ina700.c` | readiness and last sample of each sensor | initialise, sample, publish |
| network interface | `software/application/NetworkInterface.c`, `main.c` | receive buffers, buffer pool, link state | interrupt, receive, output, initialise, watch |
| arithmetic | `software/common/bitcoin.c`, `sha256_sw.c` | none | targets, headers, digests |
| desktop dashboard | `dashboard/miner_dashboard.py` | settings form, requests under way | select, edit, read, save |

The configuration service writes the settings store and the settings in RAM;
the Stratum task copies the settings under the same mutex and compares their
generation on every turn of its loop. The Stratum task drives the mining core
through its registers and reports to telemetry, which also sends the last power
samples. The dashboard reads and writes the settings over the network. All tasks
are preemptive FreeRTOS tasks (100 Hz; Stratum has priority 3, configuration
and telemetry 2, power the lowest); the core runs on its own clock. Power may
be cut at any moment.

What is hard here and seldom reached by a test: power cuts and torn page
writes during a save; a 32-bit sequence number and tick count that wrap; a new
job while engines hash; a compression that outlives STOP; results still in the
pipeline when the range is complete; answers of the pool that arrive after the
job changed; settings replaced while they are copied; an event queue that
overflows between its producers; a frame that arrives between a check and a
copy; replies to the dashboard that overtake one another.

## 2. Modules

| module | models | refers to |
|---|---|---|
| `SettingsRegister` | abstract: what a settings store promises | |
| `SettingsStore` | `settings_load`, `settings_save`, page writes, failures, power cuts | implements `SettingsRegister` |
| `ConfigService` | configuration task, Stratum task's copy, start-up | the store is `SettingsRegister` |
| `MinerDevice` | the mining core as the firmware sees it | |
| `StratumSession` | the Stratum task | composed with `MinerDevice` |
| `StratumTimers` | the tick arithmetic of the Stratum task's time-outs | |
| `MinerCore` | the core's registers clock by clock and the driver's access order | |
| `MinerCoreDevice` | `MinerCore` followed by `MinerDevice` | both |
| `HashEngine` | one engine and its compression core, clock by clock and bit for bit | `Sha256` |
| `Sha256` | the software SHA-256, header, midstate, the test of a nonce | `ShaStream` |
| `ShaStream` | the streaming interface over any compression function | |
| `BitcoinTarget` | `bitcoin_target`: difficulty text to target | |
| `SRecord` | `srec_parse` | |
| `Bootloader` | `main` and `load` of the boot loader | |
| `Telemetry` | `telemetry_detail` and the telemetry task | |
| `PowerMonitor` | `power_task`, the sensor driver, the power part of a report | |
| `NetworkReceive` | receive interrupt and task, output, ownership of buffers | |
| `NetworkUp` | driver initialisation, link state, event hook, `network_watch` | |
| `SettingsForm` | the dashboard's settings form and its worker threads | |
| `*Proof` | theorems about the modules they extend (section 6); four of them hold those of two modules that share nothing, and those about `MinerCore` are three | |
| `RecordCheck`, `StreamCheck`, `TargetCheck` | inputs and reference definitions for the pure algorithms | `SRecord`, `ShaStream`, `BitcoinTarget` |
| `MC*` | the instances for TLC | |

Each module says at its head which functions it models. Operators whose comment
begins with "Faulty variant" are the mutations of section 4; no specification
uses them.

**SettingsStore.** A slot is a body of pages and a commit byte. A page holds
an image (sequence number and settings), or `Torn` when a write was cut. A
record is valid when the commit byte is there and all pages are those of one
image: this is what the CRC is trusted for, collisions aside. Every step of
`settings_save` (scan, invalidate, pages, verify, commit, confirm) is an action,
can fail, and a failed write may have stored all, some or nothing of its page.
The refinement maps `stored` to what a load would return and `settled` to what
the slot that is left alone holds.

**StratumSession.** One action per notification, reply and step of
`service_results`; `stop()` is two steps because the task sleeps inside. The
pool may send any line at any time and the session may end at any receive.
Time-outs are nondeterministic here. A header is its job, extranonce1 and
extranonce2; a result is the header, range and target it was found for. The pool
assigns extranonces as it likes, the one in use again included; the history
variables `started` and `earlier` tell what belongs to the last assignment
(section 5).

**StratumTimers.** The same loop seen as a clock: the stamps are ticks modulo
`TickMod`, `now` is read once in a pass, and a tick may come between any two
steps. Beside each stamp stands its true age, which only the properties use.

**MinerDevice and MinerCore.** `MinerDevice` is the core at the grain of
register accesses, which `StratumSession` is composed with; `MinerCore` is the
RTL at the grain of clock cycles, with the driver's order of accesses and a
least distance between two of them. `MinerCoreDevice` runs both: after each
cycle of the core the device takes, one by one, the steps the cycle stands for.
That it always can, and that every register the firmware reads then shows the
same on both sides, is `DeviceAgrees`. It is a step-by-step simulation, checked
for the instance of section 3. An assumption of `MinerDevice` it confirms: when
RESULT_STATUS is read after `nonce_done`, no result is still on its way. It also
showed what an earlier `MinerDevice` had left out: after STOP not only a result
from the FIFO but one about to enter it may reach the result register.

**HashEngine and Sha256.** The registers of one engine and of the iterative
core, in the five-phase schedule and in the four-phase one with DSP adders. A
32-bit word is a pair of 16-bit halves. The work registers are computed from a
header as the firmware does, and the nonces the firmware would accept by
hashing the header in software: the two implementations check each other.

**ConfigService.** The mutex, the two tasks and the store. The copies
`settings=next` and `session=settings` are not atomic and take one step per
field. A request is its pool fields and a password that may be omitted.

**Telemetry.** Ticks are kept twice: modulo `TickMod`, as the code sees them,
and as real time, which only properties use.

**PowerMonitor.** Ticks and the milliseconds computed from them have the same
modulus, so the milliseconds wrap more often. What the bus shows is one of three: the sensor answers, it
refuses, or it is silent until the deadline; this changes at any time.

**NetworkReceive.** A frame is what `bounded_receive` makes of it, valid or
refused. The core, the vendor driver and the IP stack are outside the
repository; the stack takes, returns and outputs buffers as it likes. While
`output` waits the IP task is blocked and its queue is not read, but the tasks of
the application go on taking and returning buffers.

**NetworkUp.** Cable, DHCP server and free memory come and go. The stack's task
initialises the driver until that succeeds and then asks for an address.

**SettingsForm.** Worker threads deliver replies in any order; the form decides
by the miner, the generation and the revision of its edits which to take.

**Bootloader and SRecord.** For the loader a record is its kind, address and
size. The parser is a module of its own, over digits of any radix.

**Two instances with parts.** `MCNetwork` joins `NetworkReceive` and
`NetworkUp`, and `MCSingleTask` joins the boot loader, the pure algorithms and
the timers, which share nothing with other tasks. A variable `part`, chosen in
the initial state, says which of them moves; the others keep their initial
state. A run over such an instance is the sum of runs over its parts.

## 3. Runs

`tlc -workers 2 -config <cfg> <module>`; each completes within two to three minutes.

| cfg | module | states | shows |
|---|---|---|---|
| `SettingsStore.cfg` | `MCSettingsStore` | 8,870 | `ImplementsRegister`: under torn writes, failures and power cuts the two slots are one register |
| `ConfigService.cfg` | `MCConfigService` | 56,989 | `SessionCoherent`, `ReplyTruthful`: no session on a mixture of settings, no false reply; `SettingsTakeEffect`, `ClientAnswered`: changes reach the session, clients are answered |
| `ConfigPassword.cfg` | `MCConfigService` | - | **violated**: an omitted password is preserved (section 5) |
| `StratumSession.cfg` | `MCStratumSession` | 350,136 | `MinesCurrentJob`, `NoStaleResult`, `NoResultLost`: the engines hash the current job, and its results are read and no others; `SubmissionsFaithful`, `AnswersMatch`: submissions and answers belong together; `FreshHeaders`: no header twice under one assignment of the extranonce1; `KeepsMining`, `ResultsServed`: engines are restarted, results are read |
| `MinerCore.cfg` | `MCMinerCore` | 97,773 | `ResultIsCurrent`, `RangeComplete`, `LossFlagged`: what is read is of this work, complete, or flagged; `DeviceAgrees`: the device of `StratumSession` is this core; `SearchEnds`: a search ends |
| `HashEngine.cfg` | `MCHashEngine` | 55,200 | `ResultsExact`: on the genesis block the engine reports exactly the nonces the firmware accepts, after a stop in any cycle too |
| `Telemetry.cfg` | `MCTelemetry` | 348,724 | `SentToLiving`, `SubscriberKept`: slots and expiry across the tick wrap; `CountersLead`, `EventsAccounted`, `EventsServed`: events are counted first, and sent, queued or counted as dropped |
| `PowerMonitor.cfg` | `MCPowerMonitor` | 908,064 | `PowerTruthful`: what is reported was measured when it says; `SensorsRetried`: a sensor that answers again is sampled again |
| `Network.cfg` | `MCNetwork` | 224,838 | `BuffersConserved`: each buffer has one owner; `FramesServed`: frames leave the controller; `NetworkComesUp`: the network comes up whatever failed before |
| `NetworkChecked.cfg` | `MCNetwork` | - | **violated**: only a frame that was checked is copied (section 5) |
| `SettingsForm.cfg` | `MCSettingsForm` | 125,259 | `SaveAfterRead`, `EditsKept`: the form is saved only after it was read, replies never overwrite edits; `ButtonReturns`: the save button comes back |
| `SingleTask.cfg` | `MCSingleTask` | 2,448,571 | `VectorsLast`, `WritesInRam`, `StartsComplete`: the boot loader; `ParsesRecords`, `StreamIsPadded`, `TargetIsFloor`: parser, streaming hash and target against reference definitions; `TimeoutsEarned`, `SessionBounded`: time-outs of a session |

**Bounds**, and the case each lets happen:

- *Settings store*: two pages and a sequence counter modulo 4, so that a body
  can be torn and the counter wraps several times.
- *Configuration*: one pool and one password beside the defaults, two saves and
  one reboot: settings replaced during a copy, and a boot that fails to read.
- *Stratum*: two pending slots, two ranges per header, two values of
  extranonce2, two targets, two job ids, ids that wrap after two submissions, a
  FIFO of two results, two results in a pass of `service_results`: each of these
  limits is hit. `MaxJobs`, `MaxAssigned` and `MaxHits` bound the pool's jobs, the
  assignments of a session and the hits of a range, to two each. `Bounded` fixes
  which name comes first, which is a symmetry, and keeps the instance small: a
  session has a second assignment, a job with another id, a harder target or a
  range with two results, and not two of these; the two results are in the first
  range and on their way together. `StratumProof` has no such bound.
- *Mining core*: the three lanes in clusters of two that the design is built
  with, four nonces (an uneven division), FIFOs of one entry, and latencies 17
  and 20, whose difference is the distance between two launches, so that two
  lanes can hit in the same cycle. `Gap` is the least number of cycles between
  two accesses of the processor.
- *Hash engine*: the real 64 rounds and the genesis header; a nonce that fails
  followed by the known one, the known one against its own hash and against one
  less; one stop.
- *Telemetry*: three peers for two slots, nine ticks for a counter of seven,
  four events of two tasks for a queue of two. `Bounded` gives a
  behaviour either many ticks and peers or events: they meet in the packet sent
  to a subscriber, which one peer and two ticks reach.
- *Power*: counters modulo 16, ticks of two milliseconds, a sample limit of two
  ticks and a task that falls behind by up to three, so that samples outlive the
  limit and both wraps.
- *Network*: three buffers, a queue of two, so that both run out.
- *Settings form*: two miners, four requests, two edits.
- *Boot loader*: addresses are numbers without a width; two required vector bytes of three, a hole between the vectors
  and the RAM, an address past its end, images of up to five records.
- *Algorithms*: lines over digits of radix 3, with edge addresses and lines
  typed at random; messages up to 200 bytes in pieces that end before, at and
  after the 55th, 56th and 64th byte; every text of up to seven characters, with
  limbs of four bits.
- *Timers*: every position of a counter modulo 9, passes of up to two ticks.

**Fairness.** It is weak fairness of what a task or the hardware does by itself
unless said otherwise. The Stratum task runs (only the receive task, the IP task
and interrupts are above it, and they wait); the lines of one received chunk are
finitely many (strong fairness of `EndChunk`); the device's clock does not stop.
In `ConfigService` both tasks go on, a save returns because every wait of
`eeprom.c` is bounded, and a task that waits for the mutex gets it, because
FreeRTOS wakes the waiter (strong fairness of the two takes); the loss of a
session is not assumed. The telemetry task goes on because its receive has a
time-out, the power task because ticks do not stop and higher tasks block. The
receive task runs when it is notified; the IP task handles its events, and
`network_watch` wakes every ten seconds. Cable, server and memory need not come: the
property is about runs in which they come and stay. In the dashboard a worker
thread ends, since its socket has a time-out, and the window's `update` is
called again. Deadlock is checked except in `SingleTask.cfg`, whose parts end
with a jump, an endless loop or the end of their input.

**A timing assumption.** `stop()` sleeps one tick "to let an in-flight
compression finish". FreeRTOS wakes it at the next tick, which may be near, so
the wait is anything between the cost of two context switches and 10 ms; the
compression takes 655 cycles of 5 ns. The models let the task go on once the
core is idle. The mutants `NotAwaited` and `DrainedAtOnce` show what would happen
without it: digests of the old job are compared for the new one.

## 4. What the properties can catch

Every property of a passing run has a mutation of a mapped definition (a
dropped guard, an unsigned comparison, a missing reset, an early return) under
which TLC finds it violated; `PROJECT.json` lists them under `mutants`.

## 5. Findings

Two statements of the repository that the code does not keep:

1. `doc/protocol.md:96` says that an omitted password preserves the stored
   one. When the EEPROM could not be read at boot, `main.c:44` goes on with the
   defaults, and the next `configure` without a password stores an empty one
   (`ConfigPassword.cfg`).
2. `NetworkInterface.c:42-43` says that a frame is validated before the vendor
   driver copies it. `bounded_receive` looks at the other receive buffer when
   the next one is empty; the driver then makes its own choice, and a frame that
   arrived meanwhile in the next one is copied unchecked (`NetworkChecked.cfg`).

Three things a reader of the code should know, which contradict no promise of
it:

- A save that is reported as failed may have taken effect, when the commit byte
  was stored and its write or read-back failed (`settings.c:73`;
  `tb/test_settings.c:27-32` tests an earlier failure). The register allows it.
- `mining.set_extranonce` with the extranonce1 in use restarts the extranonce2
  (`stratum.c:81`), so a job that is repeated after it repeats headers, and a
  nonce is submitted again. `FreshHeaders` and `SubmissionsFaithful` therefore
  speak of what is started and submitted under one assignment; between two
  assignments of different extranonces the headers differ anyway.
- `now` is read before `service_results`, which stamps submissions with a later
  tick; if a tick comes between, `now-sent` wraps and the new submission counts
  as timed out (`stratum.c:207-209`). `TimeoutsEarned` says that this is the only
  time-out that comes early.

## 6. Proofs

`tlapm <module>.tla` checks them, each in minutes (`StratumProof`,
`MinerCycleProof` and `MinerResultProof` take ten to fifteen). All hold for every
value of the constants that satisfies the named assumption of the module they
extend; TLC evaluates these assumptions in the runs. None of the
invariants below is inductive alone; each proof gives the strengthening, proves
that it holds initially and that every action keeps it, one case per action.

**SettingsProof**, on the store (`StoreAssumption`: any settings, any number of pages,
any sequence modulus of at least 4). That a save leaves the current record alone
(`WriteIsolated`) needs the records to be neighbours when the target is chosen
(`SlotsAdjacent`), which in turn needs that the slot being written is invalid, or
holds the old or the new record. `IInv` joins them with what each stage of
`settings_save` has established (`StageFacts`). `SeqOrder` shows that the signed
difference orders neighbours also across the wrap; `WriteEffect` what one write
can do to the two records; `InvStep` the induction. `StoreImplementsRegister`
shows every step to be a step of the register or a stutter.

**SettingsProof**, on the form (`FormAssumption`: any miners, any number of requests and
edits). `ButtonWaits` and `RepliesKeepEdits`. The invariant bounds the generation
of every request by the form's, says that while the two are the same a read is
for the form's miner and the revision counts the edits since, and that there is
at most one live read and none beside a save of its generation.

**DashboardProof**, on the configuration service (`ConfigAssumption`: any pools and passwords, any numbers
of saves and reboots). `CopiesCoherent` and `RepliesTruthful`. The copies are not
atomic, so the invariant follows the two tasks through them: the mutex excludes
one from the steps of the other (`Exclusive`), `CopyInvariant` says how much of
the copy agrees at each step, and `RequestInvariant` what `configure` knows of
its request while it saves. The settings are changed first and the generation is
counted last, which is why a session whose generation is current may run on old
settings only in the steps between.

**DashboardProof**, on telemetry (`TelemetryAssumption`: any peers, slots, producers, queue
and events; a subscription and the longest stall of the task fit in the tick
counter). `TypeOK` comes first. `EventInvariant` counts: the numbers of the
submissions that are queued and of those counted but not yet queued are sets,
and `submitted` is at least what was served plus the sizes of both. It gives
`CountersLeadEvents` and `NoEventLost`. `SlotInvariant` ties every stamp to the
tick it was taken at, and says that no peer has two slots. `UnsignedDifference`
turns the modular differences of the code into real ages; `PacketsReachLiving`
and the action property `SubscribersKept` follow.

**StratumProof** (`SessionAssumption`, `DeviceAssumption`: any pool, any numbers of jobs, targets,
extranonces, ranges, pending slots and results; there is an easiest target). The
invariants build on each other:

- `WorkInvariant` ties the place of the task to the state of the device: without
  `running` the device is quiet, a compression outlives STOP only while the task
  waits for it, and the registers hold the header in the buffer with the job's
  target. It gives `HashesCurrentJob` and `ResultsReadFirst`.
- `ResultInvariant` adds that every result on its way or in the FIFO is one of
  what the registers hold. With the former, `HeadVerifies`: the head of the FIFO
  verifies against the buffer. It gives `ResultsVerify`: the firmware never
  reports a hardware fault the hardware did not have.
- `FreshInvariant` adds that the headers started under the assignment in force
  have smaller extranonce2 values than the next one, unless they are exhausted,
  and that none was started between an assignment and the restart of the
  extranonce2. It gives `HeadersDiffer`.
- `AnswerInvariant` adds that the ids of a session grow until they run out, so
  that no two submissions and no two slots in use share one. It gives
  `AnswersReported`.
- `ShareInvariant` adds the order in which the engines find results: what is
  queued was found in the range being scanned, the queues keep the order, and
  whatever was submitted of this header since the last assignment was found
  before all that is queued or to come (`Past`). It gives `SharesFaithful`: no
  nonce is submitted twice under one assignment.

**MinerCycleProof, MinerResultProof, MinerCoreProof**, each extending the one
before (`CoreAssumption`: at least two engines, any number in a cluster, any
depth of the FIFOs, any range, any set of latencies, and at least two cycles
between two accesses, which the two stages of the bus interface guarantee).
`ReadsAreCurrent`, `RangesComplete` and `LossesFlagged`. None of the three
follows from a few registers: that a range is complete depends on the launch
order, on the timing of the FIFO's stages against the firmware's two reads, and
on which results can exist at all. `Inv` joins twelve conjuncts:

- `EngineInv`: an engine that works is at a nonce of its lane, with the digest
  and the core input of that nonce; an idle one has a core at rest, unless the
  firmware still waits for it after STOP.
- `Launching`: each engine starts in its own turn, and the one before the last
  is in its first pass when the last starts (`Overlap`). Without it the logic
  could find all engines idle in the middle of the launch. This is where two
  engines are needed.
- `Ending`: once `nonce_done` is set no engine works, and with every access of
  the firmware another stage of the FIFOs is known to be empty.
- `Outside` and `Emptied`: between searches the core rests, and the CLEARs of
  `stop` and `start_range` reach the FIFOs before START.
- `Scanning`: what was compared is a prefix of every lane.
- `Results`: all results under way carry their own digest and sit in the cluster
  of their engine, and during a search they are of the current job.
- `Once`: a result is in one place, and what has come to the register is nowhere
  else. The pop follows a cycle after the register has taken the head, so the
  head of a queue whose pop is high does not count (`Queued`).
- `Reading`: the register does not change under the firmware.
- `Kept` and `LossFlagged`: every result found is read, in the register, lost
  and flagged, or under way.

`OneCycle` describes a clock cycle by what it does to each part, `Steps` divides
the steps into those of a search, those outside and the three writes between,
and there is one lemma for each of the five. They start from four facts about
finite sets (`SetFacts`), which `MinerCoreProof` proves.

**SingleTaskProof**, on the boot loader (`BootAssumption`: any memory layout with
the vectors below the RAM, any required vectors, any records). The inductive
invariant adds to `WritesInRam` what the stages of `main` know (`Stages`): past
the load the entry point is valid, past the check every required vector was
provided, and before that no live vector has changed. `LiveVectorsLast`,
`LoadStaysInRam`, `ApplicationComplete`. On the timers (`TimersAssumption`: any
slots and periods; the pool's silence is the longest period, and with two passes
of the loop it is shorter than the range of the tick counter, as two minutes are
than 497 days). `NoTimeoutEarly` and `NoTimeoutMissed`. `TimersInvariant` says that
each stamp is as old as its true age, modulo the counter, and that while the
session lives no age exceeds its period by more than the passes since it was last
checked (`InTime`): only then can a difference of stamps not be taken for a
smaller one.

**DriversProof**, on the receive path (`BufAssumption`: any set of buffers).
`NoBufferLost`: pool, queue, stack and the receive task share the buffers without
overlap. The invariant adds where the receive task holds one. On power
monitoring (`PowerAssumption`: any number of sensors whose deadlines together fit
in a period, any length of a tick, any limit, and any delay of the task that,
with a period and the deadlines, stays within the counter of milliseconds).
`ReportsTruthful`. `PowerInvariant` bounds how far the task can be behind its
period, wherever it is in its transactions (a silent sensor costs a deadline),
and says that every sample of this round, and every published one, is marked
valid when it was measured and has a stamp that gives its true age. `NextMs`
shows how the milliseconds of a tick follow from those of the one before, also
when the tick counter itself wraps.

**Only model-checked.** Liveness under fairness, which the installed provers do
not reach (`KeepsMining`, `ResultsServed`, `SearchEnds`, `SettingsTakeEffect`,
`ClientAnswered`, `EventsServed`, `FramesServed`, `NetworkComesUp`,
`SensorsRetried`, `ButtonReturns`); `DeviceAgrees`, which uses `ENABLED`; and what
recursive functions compute for every input (`ParsesRecords`, `StreamIsPadded`,
`TargetIsFloor`, `ResultsExact`), which needs induction over data.

## 7. Not modelled

- JSON text, formatting and field validation beyond accept or refuse: no
  property here distinguishes texts.
- The split of a telemetry packet that is too long, hash-rate sampling and the
  conversion of measurements to physical units: formatting without control. The
  tests for texts that do not fit (`dashboard.c:111,124`) never fire: with every
  field at its longest a packet has fewer than 2200 bytes of the buffer's 3072,
  and the parts of a split one fewer than 1300 of a datagram's 1472.
- In the dashboard, discovery and the merge of telemetry packets: full packets
  are taken in the order they come, and the code promises no other.
- The flash controller's register protocol, the PHY's register settings and
  the AXI channel handshake beyond its latency: their other side is not in the
  repository.
- The interrupt line (the firmware polls), the version register and the hash
  counter's register; reset and interrupt synchronisers, whose subject is
  metastability.
- The launch divider's arithmetic: `MinerCore` uses the quotient it stands for.
- FreeRTOS, its TCP/IP stack and the vendor drivers are libraries, modelled
  from their use and marked external in `PROJECT.json`.
- Build, packaging and flash scripts: they run once and set the constants.

The boot loader's check of the entry point against the lowest and highest
address admits an address in a gap between two records; the firmware may clear
an overflow that is flagged after its check; and a submission stamped after `now`
was read may be reported as timed out at once. They are listed as hazards without
a property: the code does not promise otherwise.
