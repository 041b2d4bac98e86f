---------------------------- MODULE RetryingClient ----------------------------
(***************************************************************************)
(* The pages and dialogs of the frontend that call the endpoints of        *)
(* Idempotency. Each holds one Idempotency-Key in a useState of its        *)
(* component and sends it with every click, so a click after an error is   *)
(* a retry. A dialog that succeeds closes and a page that succeeds         *)
(* navigates away, and the key is gone with the component; a row of the    *)
(* "My tasks" list stays where it is, and its key with it (Kept).          *)
(***************************************************************************)
EXTENDS Idempotency

CONSTANTS
  Kept,          \* keys whose component outlives a success
  MaxAttempts    \* bound: attempts at the operation of one component

\* Requests are numbered in the order they are sent.
ASSUME NumberedAssumption == Worker = 1..Cardinality(Worker)
ASSUME KeptAssumption == Kept \subseteq Key
ASSUME AttemptsAssumption == MaxAttempts \in Nat \ {0}

VARIABLES
  page,        \* per key: the fetch awaited, the attempt, and its success
  attemptOf    \* history: the attempt a request was sent for

clientVars == <<vars, page, attemptOf>>

Page == [waiting : Worker \cup {None}, attempt : 1..MaxAttempts,
         told : BOOLEAN]

ClientTypeOK ==
  /\ TypeOK
  /\ page \in [Key -> Page]
  /\ attemptOf \in [Worker -> 0..MaxAttempts]

ClientInit ==
  /\ Init
  /\ page = [k \in Key |-> [waiting |-> None, attempt |-> 1, told |-> FALSE]]
  /\ attemptOf = [w \in Worker |-> 0]

-----------------------------------------------------------------------------

BadReusable(k) == TRUE
Reusable(k) == k \in Kept   \* still on screen after a success

Attempt(k) == page[k].attempt + (IF page[k].told THEN 1 ELSE 0)

\* The button is disabled while a mutation is pending, and is there again
\* after a success once the task list shows the task in a workable state.
Click(w, k, b) ==
  /\ \A v \in Worker : v < w => ~At(v, "new")
  /\ page[k].waiting = None
  /\ page[k].told => Reusable(k) /\ ready
  /\ Attempt(k) <= MaxAttempts
  /\ LookUp(w, k, b)
  /\ page' = [page EXCEPT ![k] = [waiting |-> w, attempt |-> Attempt(k),
                                  told |-> FALSE]]
  /\ attemptOf' = [attemptOf EXCEPT ![w] = Attempt(k)]

\* mutateAsync resolves, or rejects with the ApiError that is shown.
Settle(k) ==
  /\ page[k].waiting # None
  /\ req[page[k].waiting].answer \notin {"none", "lost"}
  /\ page' = [page EXCEPT ![k].waiting = None,
                          ![k].told = req[page[k].waiting].answer = "ok"]
  /\ UNCHANGED <<vars, attemptOf>>

\* fetch rejects: the network failed on the way there or back, and the
\* request may still be running.
GiveUp(k) ==
  /\ page[k].waiting # None
  /\ page' = [page EXCEPT ![k].waiting = None]
  /\ UNCHANGED <<vars, attemptOf>>

Server ==
  /\ (\E w \in Worker : Serve(w)) \/ Disturb
  /\ UNCHANGED <<page, attemptOf>>

ClientNext ==
  \/ \E w \in Worker, k \in Key, b \in Body : Click(w, k, b)
  \/ \E k \in Key : Settle(k) \/ GiveUp(k)
  \/ Server

ClientSpec == ClientInit /\ [][ClientNext]_clientVars

-----------------------------------------------------------------------------

TellsTruth(k) ==
  page[k].told => \E w \in effects : /\ KeyOf(w) = k
                                     /\ attemptOf[w] = page[k].attempt

\* When the page says an attempt succeeded, a request of that very attempt
\* did the work: not an earlier attempt, and not nobody.
ToldMeansDone == \A k \in Key : TellsTruth(k)

-----------------------------------------------------------------------------
(* The inductive invariant behind it, for the keys that are not kept       *)

\* A page awaits a request that carries its key.
AwaitsOwn ==
  \A k \in Key : page[k].waiting # None => KeyOf(page[k].waiting) = k

\* A key that goes with its component is used for one attempt only.
OneAttempt ==
  \A k \in Key \ Kept :
    /\ page[k].attempt = 1
    /\ \A w \in Worker : KeyOf(w) = k => attemptOf[w] = 1
    /\ TellsTruth(k)

CInv == IInv /\ ClientTypeOK /\ AwaitsOwn /\ OneAttempt

=============================================================================
