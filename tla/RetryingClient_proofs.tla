----------------------- MODULE RetryingClient_proofs -----------------------
(***************************************************************************)
(* Proofs about RetryingClient for any number of requests, keys, bodies    *)
(* and attempts. The client's steps are steps of Idempotency or leave its  *)
(* variables alone, so its invariant carries over; AwaitsOwn and           *)
(* OneAttempt are what the pages add to it.                                *)
(***************************************************************************)
EXTENDS RetryingClient, Idempotency_proofs

-----------------------------------------------------------------------------
(* The service under its clients *)

LEMMA ServiceStep ==
  ASSUME [ClientNext]_clientVars
  PROVE  [Next]_vars
BY DEF ClientNext, clientVars, Click, Settle, GiveUp, Server, Next, vars

\* What Step and Finish make of the requests leaves their keys alone.
LEMMA SameKeys ==
  ASSUME TypeOK, NEW w \in Worker,
         \/ \E pc : Step(w, pc)
         \/ \E answer, of : Finish(w, answer, of)
  PROVE  \A v \in Worker : KeyOf(v)' = KeyOf(v)
<1> SUFFICES ASSUME NEW v \in Worker
             PROVE  req'[v].key = req[v].key
  BY DEF KeyOf
<1>1. req \in [Worker -> Request]
  BY DEF TypeOK
<1>2. CASE \E pc : Step(w, pc)
  <2>1. PICK pc : Step(w, pc)
    BY <1>2
  <2> QED BY <1>1, <2>1 DEF Step, Request
<1>3. CASE \E answer, of : Finish(w, answer, of)
  <2>1. PICK answer, of : Finish(w, answer, of)
    BY <1>3
  <2> DEFINE r == [req[w] EXCEPT !.pc = "done", !.answer = answer, !.of = of]
  <2>2. req' = [req EXCEPT ![w] = r]
    BY <2>1 DEF Finish
  <2>3. r.key = req[w].key
    BY <1>1 DEF Request
  <2>4. CASE v = w
    BY <2>2, <2>3, <2>4, <1>1
  <2>5. CASE v # w
    BY <2>2, <2>5, <1>1
  <2> QED BY <2>4, <2>5
<1> QED BY <1>2, <1>3

\* The server never changes the key of a request, and effects stay.
LEMMA ServerFrame ==
  ASSUME TypeOK, Server
  PROVE  /\ \A v \in Worker : KeyOf(v)' = KeyOf(v)
         /\ effects \subseteq effects'
<1>1. ASSUME NEW w \in Worker, Serve(w)
      PROVE  /\ \A v \in Worker : KeyOf(v)' = KeyOf(v)
             /\ effects \subseteq effects'
  <2>1. CASE WorkOpen(w) \/ WorkGated(w) \/ InsertKey(w) \/ Conflict(w) \/ Commit(w)
    <3>1. /\ \E pc : Step(w, pc)
          /\ effects \subseteq effects'
      BY <2>1 DEF WorkOpen, WorkGated, InsertKey, Conflict, Commit, Rollback
    <3> QED BY <3>1, SameKeys
  <2>2. CASE Refuse(w) \/ Reply(w) \/ RecoverWinner(w)
    <3>1. /\ \E answer, of : Finish(w, answer, of)
          /\ effects \subseteq effects'
      BY <2>2 DEF Refuse, Reply, RecoverWinner
    <3> QED BY <3>1, SameKeys
  <2> QED BY <1>1, <2>1, <2>2 DEF Serve
<1>2. ASSUME NEW w \in Worker, Lose(w)
      PROVE  /\ \A v \in Worker : KeyOf(v)' = KeyOf(v)
             /\ effects \subseteq effects'
  <2>1. /\ \E answer, of : Finish(w, answer, of)
        /\ effects \subseteq effects'
    BY <1>2 DEF Lose, Rollback
  <2> QED BY <2>1, SameKeys
<1>3. CASE (\E k \in Key : Expire(k)) \/ MakeReady
  BY <1>3 DEF Expire, MakeReady, KeyOf
<1> QED BY <1>1, <1>2, <1>3 DEF Server, Disturb

-----------------------------------------------------------------------------
(* One lemma per action *)

LEMMA ClientInitKeeps ==
  ASSUME ClientInit
  PROVE  CInv
<1>1. IInv
  BY InitKeeps DEF ClientInit
<1>2. ClientTypeOK
  BY <1>1, AttemptsAssumption DEF ClientInit, ClientTypeOK, Page, IInv
<1>3. AwaitsOwn /\ OneAttempt
  BY KeptAssumption, NoneAssumption
     DEF ClientInit, AwaitsOwn, OneAttempt, TellsTruth, Init, NewRequest, KeyOf
<1> QED BY <1>1, <1>2, <1>3 DEF CInv

LEMMA ServerKeeps ==
  ASSUME CInv, IInv', Server
  PROVE  CInv'
<1>0. IInv /\ TypeOK /\ TypeOK' /\ UNCHANGED <<page, attemptOf>>
  BY DEF CInv, IInv, Server
<1>1. /\ \A w \in Worker : KeyOf(w)' = KeyOf(w)
      /\ effects \subseteq effects' /\ effects \subseteq Worker
  BY <1>0, ServerFrame DEF TypeOK
<1>2. ClientTypeOK'
  BY <1>0 DEF CInv, ClientTypeOK
<1>3. AwaitsOwn'
  <2> SUFFICES ASSUME NEW k \in Key, page[k].waiting # None
               PROVE  KeyOf(page[k].waiting)' = k
    BY <1>0 DEF AwaitsOwn
  <2>1. page[k].waiting \in Worker
    BY DEF CInv, ClientTypeOK, Page
  <2>2. KeyOf(page[k].waiting) = k
    BY DEF CInv, AwaitsOwn
  <2>3. KeyOf(page[k].waiting)' = req'[page[k].waiting].key
    BY <1>0 DEF KeyOf
  <2>4. req'[page[k].waiting].key = KeyOf(page[k].waiting)
    BY <1>1, <2>1 DEF KeyOf
  <2> QED BY <2>2, <2>3, <2>4
<1>4. OneAttempt'
  BY <1>0, <1>1 DEF CInv, OneAttempt, TellsTruth
<1> QED BY <1>2, <1>3, <1>4 DEF CInv

LEMMA ClickKeeps ==
  ASSUME CInv, IInv', NEW w \in Worker, NEW k \in Key, NEW b \in Body,
         Click(w, k, b)
  PROVE  CInv'
<1>0. /\ TypeOK /\ TypeOK'
      /\ req \in [Worker -> Request]
      /\ page \in [Key -> Page]
      /\ attemptOf \in [Worker -> 0..MaxAttempts]
  BY DEF CInv, IInv, ClientTypeOK, TypeOK
<1>1. /\ At(w, "new") /\ KeyOf(w) = None
      /\ KeyOf(w)' = k
      /\ \A v \in Worker \ {w} : KeyOf(v)' = KeyOf(v)
      /\ effects' = effects
  BY <1>0 DEF Click, LookUp, Replay, RejectReuse, ClearExpired, Miss, Arrived,
     KeyOf, CInv, IInv, RequestsOK, RequestFits
<1>2. w \notin effects
  BY <1>1 DEF CInv, IInv, EffectsRecorded
<1>3. Attempt(k) \in 1..MaxAttempts
  BY <1>0, AttemptsAssumption DEF Click, Attempt, Page
<1>4. /\ page' = [page EXCEPT ![k] = [waiting |-> w, attempt |-> Attempt(k),
                                      told |-> FALSE]]
      /\ attemptOf' = [attemptOf EXCEPT ![w] = Attempt(k)]
      /\ page[k].told => k \in Kept
  BY DEF Click, Reusable
<1>5. /\ page'[k].waiting = w /\ page'[k].attempt = Attempt(k) /\ ~page'[k].told
      /\ \A j \in Key \ {k} : page'[j] = page[j]
      /\ attemptOf'[w] = Attempt(k)
      /\ \A v \in Worker \ {w} : attemptOf'[v] = attemptOf[v]
  BY <1>0, <1>4
<1>6. ClientTypeOK'
  BY <1>0, <1>3, <1>4 DEF ClientTypeOK, Page
<1>7. AwaitsOwn'
  <2> SUFFICES ASSUME NEW j \in Key, page'[j].waiting # None
               PROVE  KeyOf(page[j].waiting)' = j
    BY DEF AwaitsOwn
  <2>1. KeyOf(page[j].waiting)' = req'[page'[j].waiting].key
    BY DEF KeyOf
  <2>2. CASE j = k
    BY <2>1, <2>2, <1>1, <1>5 DEF KeyOf
  <2>3. CASE j # k
    <3>1. page'[j] = page[j] /\ page[j].waiting \in Worker
      BY <2>3, <1>0, <1>5 DEF Page
    <3>2. KeyOf(page[j].waiting) = j
      BY <3>1, NoneAssumption DEF CInv, AwaitsOwn
    <3>3. page[j].waiting # w
      BY <3>2, <1>1, NoneAssumption
    <3> QED BY <2>1, <3>1, <3>2, <3>3, <1>1 DEF KeyOf
  <2> QED BY <2>2, <2>3
<1>8. OneAttempt'
  <2> SUFFICES ASSUME NEW j \in Key \ Kept
               PROVE  (/\ page[j].attempt = 1
                       /\ \A v \in Worker : KeyOf(v) = j => attemptOf[v] = 1
                       /\ TellsTruth(j))'
    BY DEF OneAttempt
  <2>1. /\ page[j].attempt = 1
        /\ \A v \in Worker : KeyOf(v) = j => attemptOf[v] = 1
        /\ TellsTruth(j)
    BY DEF CInv, OneAttempt
  <2>2. CASE j = k
    <3>1. Attempt(k) = 1
      BY <2>1, <2>2, <1>4 DEF Attempt
    <3> QED BY <3>1, <2>1, <2>2, <1>1, <1>5 DEF TellsTruth
  <2>3. CASE j # k
    <3>1. page'[j] = page[j]
      BY <2>3, <1>5
    <3>2. \A v \in Worker : KeyOf(v)' = j => KeyOf(v) = j /\ attemptOf'[v] = 1
      BY <2>1, <2>3, <1>1, <1>5
    <3>3. \A v \in effects : v # w /\ v \in Worker
      BY <1>0, <1>2 DEF TypeOK
    <3>4. TellsTruth(j)'
      BY <2>1, <3>1, <3>3, <1>1, <1>5 DEF TellsTruth
    <3> QED BY <2>1, <3>1, <3>2, <3>4
  <2> QED BY <2>2, <2>3
<1> QED BY <1>6, <1>7, <1>8 DEF CInv

LEMMA GiveUpKeeps ==
  ASSUME CInv, IInv', NEW k \in Key, GiveUp(k)
  PROVE  CInv'
<1>0. TypeOK /\ TypeOK' /\ page \in [Key -> Page]
  BY DEF CInv, IInv, ClientTypeOK
<1>1. page' = [page EXCEPT ![k].waiting = None] /\ UNCHANGED <<vars, attemptOf>>
  BY DEF GiveUp
<1>2. \A j \in Key : /\ page'[j].attempt = page[j].attempt
                     /\ page'[j].told = page[j].told
                     /\ page'[j].waiting \in {page[j].waiting, None}
  BY <1>0, <1>1 DEF Page
<1>3. ClientTypeOK'
  BY <1>0, <1>1 DEF CInv, ClientTypeOK, Page
<1>4. AwaitsOwn'
  BY <1>1, <1>2 DEF CInv, AwaitsOwn, KeyOf, vars
<1>5. OneAttempt'
  BY <1>1, <1>2 DEF CInv, OneAttempt, TellsTruth, KeyOf, vars
<1> QED BY <1>3, <1>4, <1>5 DEF CInv

\* The answer of a request names committed work of its key (AnswersAreTrue),
\* and a key that is not kept knows one attempt only.
LEMMA SettleKeeps ==
  ASSUME CInv, IInv', NEW k \in Key, Settle(k)
  PROVE  CInv'
<1> DEFINE w == page[k].waiting
<1>0. TypeOK /\ TypeOK' /\ page \in [Key -> Page]
  BY DEF CInv, IInv, ClientTypeOK
<1>1. /\ w # None
      /\ page' = [page EXCEPT ![k].waiting = None, ![k].told = req[w].answer = "ok"]
      /\ UNCHANGED <<vars, attemptOf>>
  BY DEF Settle
<1>2. w \in Worker /\ KeyOf(w) = k
  BY <1>0, <1>1 DEF CInv, AwaitsOwn, Page
<1>3. /\ page'[k].told = (req[w].answer = "ok")
      /\ \A j \in Key : /\ page'[j].attempt = page[j].attempt
                        /\ page'[j].waiting \in {page[j].waiting, None}
                        /\ j # k => page'[j].told = page[j].told
  BY <1>0, <1>1 DEF Page
<1>4. ClientTypeOK'
  BY <1>0, <1>1 DEF CInv, ClientTypeOK, Page
<1>5. AwaitsOwn'
  BY <1>1, <1>3 DEF CInv, AwaitsOwn, KeyOf, vars
<1>6. OneAttempt'
  <2> SUFFICES ASSUME NEW j \in Key \ Kept
               PROVE  (/\ page[j].attempt = 1
                       /\ \A v \in Worker : KeyOf(v) = j => attemptOf[v] = 1
                       /\ TellsTruth(j))'
    BY DEF OneAttempt
  <2>1. /\ page[j].attempt = 1
        /\ \A v \in Worker : KeyOf(v) = j => attemptOf[v] = 1
        /\ TellsTruth(j)
    BY DEF CInv, OneAttempt
  <2>2. TellsTruth(j)'
    <3>1. CASE j # k
      BY <3>1, <2>1, <1>1, <1>3 DEF TellsTruth, KeyOf, vars
    <3>2. CASE j = k
      <4> SUFFICES ASSUME req[w].answer = "ok"
                   PROVE  \E v \in effects : KeyOf(v) = j /\ attemptOf[v] = 1
        BY <3>2, <2>1, <1>1, <1>3 DEF TellsTruth, KeyOf, vars
      <4>1. req[w].of \in effects /\ KeyOf(req[w].of) = k
        BY <1>2 DEF CInv, IInv, AnswersAreTrue
      <4>2. req[w].of \in Worker
        BY <4>1, <1>0 DEF TypeOK
      <4> QED BY <4>1, <4>2, <3>2, <2>1
    <3> QED BY <3>1, <3>2
  <2> QED BY <2>1, <2>2, <1>1, <1>3 DEF KeyOf, vars
<1> QED BY <1>4, <1>5, <1>6 DEF CInv

LEMMA ClientStepKeeps ==
  ASSUME CInv, [ClientNext]_clientVars
  PROVE  CInv'
<1>1. IInv'
  BY ServiceStep, StepKeeps DEF CInv
<1>2. CASE UNCHANGED clientVars
  BY <1>1, <1>2 DEF clientVars, vars, CInv, IInv, ClientTypeOK, AwaitsOwn, OneAttempt,
     TellsTruth, KeyOf
<1>3. CASE \E w \in Worker, k \in Key, b \in Body : Click(w, k, b)
  BY <1>1, <1>3, ClickKeeps
<1>4. CASE \E k \in Key : Settle(k) \/ GiveUp(k)
  BY <1>1, <1>4, SettleKeeps, GiveUpKeeps
<1>5. CASE Server
  BY <1>1, <1>5, ServerKeeps
<1> QED BY <1>2, <1>3, <1>4, <1>5 DEF ClientNext

-----------------------------------------------------------------------------
(* Theorems *)

\* The service's invariant under its clients, and what the pages know.
THEOREM ClientInvariant == ClientSpec => []CInv
BY ClientInitKeeps, ClientStepKeeps, PTL DEF ClientSpec

\* The service under its clients is the service: whatever the pages send is
\* a behaviour of Idempotency, and its theorems hold of it.
THEOREM ClientsUseService == ClientSpec => Spec
<1>1. ClientInit => Init
  BY DEF ClientInit
<1> QED BY <1>1, ServiceStep, PTL DEF ClientSpec, Spec

\* So what the pages rely on, clicks, retries and failed fetches included, is
\* one indivisible step per key, at most once.
THEOREM ClientsSeeOnceOnly == ClientSpec => ImplementsOnceOnly
BY ClientsUseService, OnceOnlyImplemented, PTL

\* Pages and histories keep their types.
THEOREM ClientTypeCorrect == ClientSpec => []ClientTypeOK
<1>1. CInv => ClientTypeOK
  BY DEF CInv
<1> QED BY <1>1, ClientInvariant, PTL

\* A page whose key goes with it reports a success only of its own attempt.
THEOREM TellsTheTruth == ClientSpec => [](\A k \in Key \ Kept : TellsTruth(k))
<1>1. CInv => \A k \in Key \ Kept : TellsTruth(k)
  BY DEF CInv, OneAttempt
<1> QED BY <1>1, ClientInvariant, PTL

\* So every page does if no component outlives its success (all but the rows
\* of "My tasks").
THEOREM ToldIsDone ==
  ASSUME Kept = {}
  PROVE  ClientSpec => []ToldMeansDone
<1>1. CInv => ToldMeansDone
  BY DEF CInv, OneAttempt, ToldMeansDone
<1> QED BY <1>1, ClientInvariant, PTL

=============================================================================
