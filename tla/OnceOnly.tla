------------------------------- MODULE OnceOnly -------------------------------
(***************************************************************************)
(* What an Idempotency-Key promises, whatever serves the requests: the     *)
(* operation of a key is performed at most once, in one indivisible step,  *)
(* by a request that asked for it and has not been answered; success is    *)
(* told only of an operation that was performed, and names the request     *)
(* that did; whoever is told of a failure has not done and will not do     *)
(* anything. A request whose answer is lost may or may not have been the   *)
(* one. A gated operation uses up the readiness of the row it works on.    *)
(***************************************************************************)
CONSTANTS
  Worker,   \* requests
  Key,      \* the operations asked for
  Gated,    \* those that need the row they work on to be ready
  None

VARIABLES
  by,       \* key -> the request that performed its operation
  ready,    \* the row of the gated operations is ready
  asks,     \* request -> the key it carries, once it has arrived
  told      \* request -> its answer, and the request that answer is about

vars == <<by, ready, asks, told>>

Answer(says, of) == [says |-> says, of |-> of]
Unanswered(w) == told[w].says = "none"

Init ==
  /\ by = [k \in Key |-> None]
  /\ ready = TRUE
  /\ asks = [w \in Worker |-> None]
  /\ told = [w \in Worker |-> Answer("none", None)]

-----------------------------------------------------------------------------

\* An answer to a request that carries k; after it the request does nothing.
Answered(w, k) ==
  /\ Unanswered(w)
  /\ \/ by[k] # None /\ told' = [told EXCEPT ![w] = Answer("ok", by[k])]
     \/ by[k] # w /\ told' = [told EXCEPT ![w] = Answer("not_done", None)]
     \/ told' = [told EXCEPT ![w] = Answer("lost", None)]

Ask(w, k) ==
  /\ asks[w] = None
  /\ asks' = [asks EXCEPT ![w] = k]
  /\ UNCHANGED told \/ Answered(w, k)
  /\ UNCHANGED <<by, ready>>

Perform(w, k) ==
  /\ asks[w] = k /\ Unanswered(w)
  /\ by[k] = None
  /\ k \in Gated => ready
  /\ by' = [by EXCEPT ![k] = w]
  /\ ready' = (ready /\ k \notin Gated)
  /\ UNCHANGED <<asks, told>>

Tell(w, k) ==
  /\ asks[w] = k
  /\ Answered(w, k)
  /\ UNCHANGED <<by, ready, asks>>

MakeReady ==
  /\ ~ready /\ ready'
  /\ UNCHANGED <<by, asks, told>>

Next ==
  \/ \E w \in Worker, k \in Key : Ask(w, k) \/ Perform(w, k) \/ Tell(w, k)
  \/ MakeReady

Spec == Init /\ [][Next]_vars

=============================================================================
