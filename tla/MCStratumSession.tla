-------------------------- MODULE MCStratumSession --------------------------
(* The Stratum task and the device on a small instance.                     *)
EXTENDS StratumSession

FirstOf(S) == CHOOSE x \in S : TRUE

\* The names of extranonces and of jobs do not matter: the first of each is
\* always the same one.
Names ==
  /\ assigned' <= 1 => extra1' \in {NoHeader, FirstOf(Extra1), extra1}
  /\ jobs' = 0 => line' \in {NoHeader, FirstOf(JobId)}

\* A result that is not the first one of its range.
SecondResult ==
  \E r \in Unread \cup {s.event.result : s \in sent} : r.hit < MaxHits

\* What the instance has of everything happens, but not all at once in a
\* session: the extranonce1 assigned again, a job with another id, a job with a
\* harder target, and a range with two results.
Another == {x \in {"extranonce", "job", "target", "result"} :
  \/ x = "extranonce" /\ assigned > 1
  \/ x = "job" /\ ~({line, job.id} \subseteq {FirstOf(JobId), NoHeader})
  \/ x = "target" /\ pendingTarget \notin {0, Easiest}
  \/ x = "result" /\ SecondResult}

\* Bounds: the pool asks for a harder target when there is a job and may be
\* another one; the first range of the first job has its second result before
\* the first one was read.
Bounded ==
  /\ Names
  /\ Cardinality(Another') <= 1
  /\ pendingTarget' \in {0, Easiest, pendingTarget} \/ (haveJob /\ jobs < MaxJobs)
  /\ SecondResult' =>
       /\ SecondResult \/ (Len(inflight') + Len(fifo') > 1 /\ work.range = 0 /\ header.extra2 = 0)
       /\ jobs' = 1

MCSpec == Init /\ [][Next /\ Bounded]_vars /\ Fairness
=============================================================================
