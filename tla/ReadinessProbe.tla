---------------------------- MODULE ReadinessProbe ----------------------------
(***************************************************************************)
(* ReadinessProbe of core/health.py, behind GET /ready. A check answers    *)
(* from the cache, or at once if the pool is saturated, or it starts or    *)
(* joins a probe and looks for its result until it gives up. A probe is a  *)
(* daemon thread with a future: SELECT 1 on a connection of the pool. It   *)
(* may hang, and outlives the checks that gave up on it.                   *)
(*                                                                         *)
(* Time passes in ticks. A check looks every 20 ms, a tick is long against *)
(* that: what it waits for is seen before the next one.                    *)
(***************************************************************************)
EXTENDS ConnectionPool

CONSTANTS
  Check,     \* calls of check(), interleaved on the event loop
  Ttl,       \* ttl_seconds
  Timeout    \* timeout_seconds

ASSUME ProbeAssumption == Ttl \in Nat \ {0} /\ Timeout \in Nat \ {0}

VARIABLES
  cached,    \* _cached: the answer, and how long it is still good
  inflight,  \* _inflight
  probe,     \* each future and its thread
  check,     \* what each call of check() is doing
  okAge      \* history: time since a probe last succeeded

probeVars == <<cached, inflight, probe, check, okAge>>

IdleCheck == [pc |-> "idle", future |-> None, left |-> 0]

ProbeTypeOK ==
  /\ cached \in [ok : BOOLEAN, left : 0..Ttl]
  /\ inflight \in Prober \cup {None}
  /\ probe \in [Prober -> [pc : {"unused", "connecting", "querying", "done"},
                           ok : BOOLEAN]]
  /\ check \in [Check -> [pc : {"idle", "polling", "yes", "no"},
                          future : Prober \cup {None}, left : 0..Timeout]]
  /\ okAge \in 0 .. Ttl + 1

ProbeInit ==
  /\ cached = [ok |-> FALSE, left |-> 0]
  /\ inflight = None
  /\ probe = [p \in Prober |-> [pc |-> "unused", ok |-> FALSE]]
  /\ check = [k \in Check |-> IdleCheck]
  /\ okAge = Ttl + 1

-----------------------------------------------------------------------------
(* check(), up to its first await                                          *)

BadExpiry == Ttl + Timeout   \* counted from the deadline
Expiry == Ttl

Answer(k, ok) ==
  check' = [check EXCEPT ![k] = [IdleCheck EXCEPT !.pc = IF ok THEN "yes" ELSE "no"]]
Store(ok) == cached' = [ok |-> ok, left |-> Expiry]
Await(k, p) ==
  check' = [check EXCEPT ![k] = [pc |-> "polling", future |-> p, left |-> Timeout]]

BadAfterHit == [cached EXCEPT !.left = Ttl]
AfterHit == cached

Hit(k) ==
  /\ check[k].pc = "idle" /\ cached.left > 0
  /\ Answer(k, cached.ok)
  /\ cached' = AfterHit
  /\ UNCHANGED <<pool, inflight, probe, okAge>>

Missed(k) == check[k].pc = "idle" /\ cached.left = 0

ReportSaturation(k) ==
  /\ Missed(k) /\ Saturated
  /\ Store(FALSE)
  /\ Answer(k, FALSE)
  /\ UNCHANGED <<pool, inflight, probe, okAge>>

InProgress(p) == probe[p].pc \in {"connecting", "querying"}

\* A time-out that cancelled the future would make it done.
BadJoinable ==
  inflight # None /\ InProgress(inflight) /\ \E k \in Check : check[k].future = inflight
Joinable == inflight # None /\ InProgress(inflight)

Join(k) ==
  /\ Missed(k) /\ ~Saturated /\ Joinable
  /\ Await(k, inflight)
  /\ UNCHANGED <<pool, cached, inflight, probe, okAge>>

\* A new future: none that runs or that a check still looks at.
Start(k, p) ==
  /\ Missed(k) /\ ~Saturated /\ ~Joinable
  /\ ~InProgress(p) /\ \A j \in Check : check[j].future # p
  /\ probe' = [probe EXCEPT ![p] = [pc |-> "connecting", ok |-> FALSE]]
  /\ inflight' = p
  /\ Await(k, p)
  /\ UNCHANGED <<pool, cached, okAge>>

-----------------------------------------------------------------------------
(* check(), after an await                                                 *)

Result(k) == probe[check[k].future]

Due(k) == check[k].pc = "polling" /\ (Result(k).pc = "done" \/ check[k].left = 0)

Resume(k) ==
  /\ Due(k)
  /\ LET ok == Result(k).pc = "done" /\ Result(k).ok
     IN Store(ok) /\ Answer(k, ok)
  /\ UNCHANGED <<pool, inflight, probe, okAge>>

Respond(k) ==
  /\ check[k].pc \in {"yes", "no"}
  /\ check' = [check EXCEPT ![k] = IdleCheck]
  /\ UNCHANGED <<pool, cached, inflight, probe, okAge>>

-----------------------------------------------------------------------------
(* _probe_once, in its thread                                              *)

Connect(p) ==
  /\ probe[p].pc = "connecting"
  /\ \E c \in Free : pool' = [pool EXCEPT ![c].by = p]
  /\ probe' = [probe EXCEPT ![p].pc = "querying"]
  /\ UNCHANGED <<cached, inflight, check, okAge>>

Succeed(p) ==
  /\ probe[p].pc = "querying"
  /\ probe' = [probe EXCEPT ![p] = [pc |-> "done", ok |-> TRUE]]
  /\ okAge' = 0
  /\ pool' = Returned(p)
  /\ UNCHANGED <<cached, inflight, check>>

\* No connection within pool_timeout, none from the server, or a query that
\* raises.
Fail(p) ==
  /\ InProgress(p)
  /\ probe' = [probe EXCEPT ![p].pc = "done"]
  /\ pool' = Returned(p)
  /\ UNCHANGED <<cached, inflight, check, okAge>>

Before(n) == IF n = 0 THEN 0 ELSE n - 1

Tick ==
  /\ \A k \in Check : ~Due(k)
  /\ cached' = [cached EXCEPT !.left = Before(@)]
  /\ check' = [k \in Check |-> [check[k] EXCEPT !.left = Before(@)]]
  /\ okAge' = IF okAge > Ttl THEN okAge ELSE okAge + 1
  /\ UNCHANGED <<pool, inflight, probe>>

CheckNext(k) ==
  \/ Hit(k) \/ ReportSaturation(k) \/ Join(k)
  \/ \E p \in Prober : Start(k, p)
  \/ Resume(k) \/ Respond(k)

ProbeNext ==
  \/ \E k \in Check : CheckNext(k)
  \/ \E p \in Prober : Connect(p) \/ Succeed(p) \/ Fail(p)
  \/ Tick

-----------------------------------------------------------------------------

\* health.py: never more than ONE probe in flight, whatever hangs and whoever
\* gave up on it.
OneProbeInFlight ==
  \A p, q \in Prober : InProgress(p) /\ InProgress(q) => p = q

\* GET /ready says yes only if a probe succeeded within the last Ttl: a cache
\* that is answered from is not made younger by that.
ReadyIsFresh ==
  [][\A k \in Check :
       check[k].pc # "yes" /\ check'[k].pc = "yes" => okAge <= Ttl]_probeVars

=============================================================================
