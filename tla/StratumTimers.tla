---------------------------- MODULE StratumTimers ----------------------------
(***************************************************************************)
(* The clock of a pool session (software/application/stratum.c, the loop of  *)
(* stratum_task): the stamps started, last and pending[i].sent are ticks     *)
(* modulo TickMod, now is read once in a pass, and the three time-outs are   *)
(* unsigned differences with it.  A tick may come between any two steps.     *)
(* What the lines and results are is the matter of StratumSession.           *)
(*                                                                           *)
(* For every stamp the true number of ticks since it was taken is kept       *)
(* beside it, up to MaxAge; only the properties use it.                      *)
(***************************************************************************)
EXTENDS Integers

CONSTANTS TickMod,     \* 2^32
          AuthTicks,   \* pdMS_TO_TICKS(15000)
          LineTicks,   \* pdMS_TO_TICKS(120000), the longest
          ShareTicks,  \* pdMS_TO_TICKS(30000)
          PassTicks,   \* bound: ticks a pass through the loop takes
          Slot         \* indices of pending[]

ASSUME TimersAssumption ==
  /\ TickMod \in Nat /\ AuthTicks \in Nat /\ LineTicks \in Nat /\ ShareTicks \in Nat
  /\ PassTicks \in Nat \ {0}
  /\ AuthTicks <= LineTicks /\ ShareTicks <= LineTicks
  /\ LineTicks + 2 * PassTicks < TickMod

MaxAge == LineTicks + 2 * PassTicks + 1

VARIABLES loop, tick, now, started, last, authorized,
          sent,      \* the stamps of the submissions that wait for an answer
          age,       \* true ages of started, last and of each submission while they matter
          pass,      \* ticks in this pass so far
          fresh,     \* submissions made in this pass
          ended      \* why the session ended, with the submissions reported
timerVars == <<loop, tick, now, started, last, authorized, sent, age, pass, fresh, ended>>

Waiting == DOMAIN sent
NoAge == [started |-> 0, last |-> 0, sent |-> [i \in Slot |-> 0]]
Older(a) == IF a < MaxAge THEN a + 1 ELSE MaxAge
Live == [why |-> "live", shares |-> {}]

TimersInit ==
  /\ loop = "recv"
  /\ tick \in 0 .. TickMod - 1
  /\ now = tick /\ started = tick /\ last = tick
  /\ authorized = FALSE
  /\ sent = << >>
  /\ age = NoAge
  /\ pass = 0 /\ fresh = {}
  /\ ended = Live

\* Ticks come while the task waits in recv or send, or is preempted.
Tick ==
  /\ loop # "ended"
  /\ pass < PassTicks
  /\ tick' = (tick + 1) % TickMod
  /\ age' = [started |-> IF authorized THEN 0 ELSE Older(age.started),
             last |-> Older(age.last),
             sent |-> [i \in Slot |-> IF i \in Waiting THEN Older(age.sent[i]) ELSE 0]]
  /\ pass' = pass + 1
  /\ UNCHANGED <<loop, now, started, last, authorized, sent, fresh, ended>>

End(why, shares) ==
  /\ loop' = "ended"
  /\ ended' = [why |-> why, shares |-> shares]

\* A line was handled: it may have authorized the session or answered a
\* submission.
Line ==
  /\ loop = "recv"
  /\ last' = tick
  /\ age' = [age EXCEPT !.last = 0]
  /\ \/ authorized' \in {authorized, TRUE} /\ UNCHANGED sent
     \/ \E i \in Waiting : /\ sent' = [j \in Waiting \ {i} |-> sent[j]]
                           /\ UNCHANGED authorized
  /\ UNCHANGED <<loop, tick, now, started, pass, fresh, ended>>

\* The chunk is used up: now is read.
ReadNow ==
  /\ loop = "recv"
  /\ now' = tick
  /\ loop' = "break"
  /\ UNCHANGED <<tick, started, last, authorized, sent, age, pass, fresh, ended>>

\* Faulty variant: an absolute comparison of two ticks.
OverdueAbsolute(stamp, period) == now > stamp + period

\* Faulty variant: the period itself counts as overdue.
OverdueInclusive(stamp, period) == (now - stamp) % TickMod >= period

\* now-stamp>period in TickType_t.
Overdue(stamp, period) == (now - stamp) % TickMod > period

\* The tests before service_results; a line that was refused ends the session
\* at the same place.
Break ==
  /\ loop = "break"
  /\ \/ End("bad", {})
     \/ ~authorized /\ Overdue(started, AuthTicks) /\ End("authorization", {})
     \/ Overdue(last, LineTicks) /\ End("silence", {})
     \/ /\ authorized \/ ~Overdue(started, AuthTicks)
        /\ ~Overdue(last, LineTicks)
        /\ loop' = "service" /\ UNCHANGED ended
  /\ UNCHANGED <<tick, now, started, last, authorized, sent, age, pass, fresh>>

\* service_results sends a submission, and stamps it when the send has returned.
Submit(i) ==
  /\ loop = "service"
  /\ i \notin Waiting
  /\ sent' = [j \in Waiting \cup {i} |-> IF j = i THEN tick ELSE sent[j]]
  /\ age' = [age EXCEPT !.sent[i] = 0]
  /\ fresh' = fresh \cup {i}
  /\ UNCHANGED <<loop, tick, now, started, last, authorized, pass, ended>>

\* It returns, or fails.
Served ==
  /\ loop = "service"
  /\ \/ loop' = "shares" /\ UNCHANGED ended
     \/ End("bad", {})
  /\ UNCHANGED <<tick, now, started, last, authorized, sent, age, pass, fresh>>

\* The submissions that have waited too long are reported and end the session.
Shares ==
  /\ loop = "shares"
  /\ LET late == {i \in Waiting : Overdue(sent[i], ShareTicks)}
     IN  IF late # {} THEN End("shares", late) ELSE loop' = "recv" /\ UNCHANGED ended
  /\ pass' = 0 /\ fresh' = (IF loop' = "recv" THEN {} ELSE fresh)
  /\ UNCHANGED <<tick, now, started, last, authorized, sent, age>>

\* The next session, at whatever tick; before it stop(), the delay of 3 s and
\* the connection.
Reconnect ==
  /\ loop = "ended"
  /\ loop' = "recv"
  /\ tick' \in 0 .. TickMod - 1
  /\ now' = tick' /\ started' = tick' /\ last' = tick'
  /\ authorized' = FALSE
  /\ sent' = << >>
  /\ age' = NoAge
  /\ pass' = 0 /\ fresh' = {}
  /\ ended' = Live

TimersNext ==
  \/ Tick \/ Line \/ ReadNow \/ Break \/ Served \/ Shares \/ Reconnect
  \/ \E i \in Slot : Submit(i)

TimersSpec == TimersInit /\ [][TimersNext]_timerVars
-----------------------------------------------------------------------------
(* Properties.                                                              *)

\* No session is ended by a time-out that has not run out, wherever the tick
\* counter wraps (stratum.c:208-209).  The one exception is a submission made
\* in the pass itself: now is older than its stamp when a tick has come in
\* between, and the unsigned difference then exceeds every period.
TimeoutsEarned ==
  /\ ended.why = "authorization" => ~authorized /\ age.started > AuthTicks
  /\ ended.why = "silence" => age.last > LineTicks
  /\ \A i \in ended.shares : age.sent[i] > ShareTicks \/ (i \in fresh /\ now # sent[i])

\* No session outlives a time-out by more than the pass in which it ran out and
\* the one that finds it: a silent pool, a missing authorization and an
\* unanswered submission all end the session in bounded time.
SessionBounded ==
  loop # "ended" =>
    /\ age.last <= LineTicks + 2 * PassTicks
    /\ ~authorized => age.started <= AuthTicks + 2 * PassTicks
    /\ \A i \in Waiting : age.sent[i] <= ShareTicks + 2 * PassTicks
=============================================================================
