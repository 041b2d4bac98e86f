------------------------------- MODULE ApiServer -------------------------------
(***************************************************************************)
(* One API process: the requests and the readiness probe on their one pool *)
(* of connections.                                                         *)
(***************************************************************************)
EXTENDS RequestSession, ReadinessProbe

vars == <<pool, req, cached, inflight, probe, check, okAge>>

TypeOK == PoolTypeOK /\ RequestTypeOK /\ ProbeTypeOK

Init == PoolInit /\ RequestInit /\ ProbeInit

Next ==
  \/ RequestNext /\ UNCHANGED probeVars
  \/ ProbeNext /\ UNCHANGED req

Spec == Init /\ [][Next]_vars

\* Threads run on, what they call comes back, and the limiter is fair. Time
\* passes and the event loop runs. Nothing is assumed of a probe's thread.
Fairness ==
  /\ \A r \in Request : /\ WF_vars(Serve(r) /\ UNCHANGED probeVars)
                        /\ SF_vars(Admit(r) /\ UNCHANGED probeVars)
  /\ \A k \in Check : WF_vars(Resume(k) /\ UNCHANGED req)
  /\ WF_vars(Tick /\ UNCHANGED req)

FairSpec == Spec /\ Fairness

\* Every request ends and every check of the probe is answered, although
\* requests hold a connection while they wait for a thread and a thread while
\* they wait for a connection, and although a probe may hang for ever.
EveryRequestAnswered ==
  /\ \A r \in Request : req[r].pc # "idle" ~> req[r].pc = "idle"
  /\ \A k \in Check : check[k].pc = "polling" ~> check[k].pc # "polling"

\* Whoever has a connection is on the way to returning it: a request that is
\* not over, or a probe's thread that waits for its SELECT 1. Nobody takes a
\* second one, so nobody holds one connection and waits for another.
Busy(x) ==
  \/ x \in Request /\ req[x].pc # "idle"
  \/ x \in Prober /\ probe[x].pc = "querying"

ConnectionsComeBack ==
  /\ \A x \in Borrower : HeldBy(x) # {} => Busy(x)
  /\ \A x \in Borrower : \A c, d \in HeldBy(x) : c = d

=============================================================================
