----------------------------- MODULE Idempotency -----------------------------
(***************************************************************************)
(* with_idempotency and commit_or_recover: requests that carry an          *)
(* Idempotency-Key, for one actor.                                         *)
(*                                                                         *)
(* A Worker is one HTTP request, its own transaction included; a retry is  *)
(* another worker with the same key. A Key stands for an idempotency key   *)
(* together with the endpoint it is sent to, the primary key of            *)
(* idempotency_keys.                                                       *)
(*                                                                         *)
(*   new --LookUp--> missed --> worked --> inserted --> committed --> done *)
(*                                     \-> conflict --RecoverWinner--/      *)
(*                                                                         *)
(* The handlers of the Gated keys (submit, mark-billed, review, resolve)   *)
(* lock the row they work on and refuse, 409, when its state does not      *)
(* allow the operation; their subject is one row that is `ready` or not.   *)
(* The others (create a task, raise an issue) insert a row whenever asked. *)
(***************************************************************************)
EXTENDS Naturals, FiniteSets

CONSTANTS
  Worker,     \* requests
  Key,        \* idempotency key and endpoint
  Gated,      \* the keys sent to an endpoint that locks and gates
  Body,       \* request bodies, by their hash
  None,       \* no row, no worker
  MaxRounds   \* bound: times the subject row becomes ready

ASSUME NoneAssumption == None \notin Worker \cup Key \cup Body
ASSUME WorkerAssumption == IsFiniteSet(Worker)
ASSUME GatedAssumption == Gated \subseteq Key
ASSUME BoundAssumption == MaxRounds \in Nat \ {0}

VARIABLES
  rows,      \* committed idempotency_keys rows
  indexed,   \* uncommitted entries of its primary key: key -> worker
  lock,      \* who holds the FOR UPDATE lock on the subject row
  ready,     \* the subject row is in a state the gated handlers accept
  rounds,    \* history: times the subject became ready
  effects,   \* history: requests whose handler's writes are committed
  req        \* what each request is doing

vars == <<rows, indexed, lock, ready, rounds, effects, req>>

-----------------------------------------------------------------------------

Row == [hash : Body, by : Worker, fresh : BOOLEAN]   \* fresh: inside the TTL
NoRow == [hash |-> None, by |-> None, fresh |-> FALSE]

\* `of` is the request whose response the answer carries.
Request ==
  [pc : {"new", "missed", "worked", "inserted", "committed",
         "conflict", "done"},
   key : Key \cup {None},
   body : Body \cup {None},
   answer : {"none", "ok", "refused", "reused", "failed", "lost"},
   of : Worker \cup {None}]

NewRequest == [pc |-> "new", key |-> None, body |-> None, answer |-> "none",
               of |-> None]

TypeOK ==
  /\ rows \in [Key -> Row \cup {NoRow}]
  /\ indexed \in [Key -> Worker \cup {None}]
  /\ lock \in Worker \cup {None}
  /\ ready \in BOOLEAN
  /\ rounds \in 1..MaxRounds
  /\ effects \subseteq Worker
  /\ req \in [Worker -> Request]
  /\ \A w \in Worker : req[w].answer = "ok" <=> req[w].of # None

Init ==
  /\ rows = [k \in Key |-> NoRow]
  /\ indexed = [k \in Key |-> None]
  /\ lock = None
  /\ ready = TRUE
  /\ rounds = 1
  /\ effects = {}
  /\ req = [w \in Worker |-> NewRequest]

-----------------------------------------------------------------------------
(* Definitions whose name starts with Bad are the bugs the properties are  *)
(* there to catch; no action uses them.                                    *)

At(w, pc) == req[w].pc = pc
KeyOf(w) == req[w].key
InFlight(w) == req[w].pc \notin {"new", "done"}

Stored(k) == rows[k] # NoRow

BadFoundElsewhere(k) ==
  IF \E j \in Key : Stored(j) THEN rows[CHOOSE j \in Key : Stored(j)] ELSE NoRow

\* The SELECT by firm, actor, key and endpoint.
Found(k) == rows[k]

Matches(k, b) == Found(k).hash = b

BadFree(x) == TRUE

\* The row lock, and the index entry of a key: whoever wants one waits for
\* the transaction that holds it.
LockFree(w) == lock = None
EntryFree(w) == indexed[KeyOf(w)] = None

BadTaken(k) == FALSE
Taken(k) == Stored(k)   \* the primary key rejects a second row

Released(w) == IF lock = w THEN None ELSE lock

Step(w, pc) == req' = [req EXCEPT ![w].pc = pc]

Finish(w, answer, of) ==
  req' = [req EXCEPT ![w].pc = "done", ![w].answer = answer, ![w].of = of]

\* A rollback undoes the handler's writes and frees the lock and the entry.
Rollback(w) ==
  /\ lock' = Released(w)
  /\ indexed' = [k \in Key |-> IF indexed[k] = w THEN None ELSE indexed[k]]
  /\ UNCHANGED <<rows, ready, rounds, effects>>

-----------------------------------------------------------------------------
(* The request arrives and looks its key up, whatever the age of the row.  *)
(* Nothing a request does before the lookup depends on these tables.       *)

Arrived(w, k, b, pc, answer, of) ==
  /\ At(w, "new")
  /\ req' = [req EXCEPT ![w] = [pc |-> pc, key |-> k, body |-> b,
                               answer |-> answer, of |-> of]]
  /\ UNCHANGED <<rows, indexed, lock, ready, rounds, effects>>

Expired(k) == Found(k) # NoRow /\ ~Found(k).fresh

\* The stored response, verbatim, if the request is the one it answered.
Replay(w, k, b) ==
  /\ Found(k).fresh /\ Matches(k, b)
  /\ Arrived(w, k, b, "done", "ok", Found(k).by)

RejectReuse(w, k, b) ==
  /\ Found(k).fresh /\ ~Matches(k, b)
  /\ Arrived(w, k, b, "done", "reused", None)

\* session.delete(existing); flush(): the application's role was granted
\* SELECT and INSERT on the table, so PostgreSQL denies the DELETE.
ClearExpired(w, k, b) ==
  /\ Expired(k)
  /\ Arrived(w, k, b, "done", "failed", None)

Miss(w, k, b) ==
  /\ Found(k) = NoRow
  /\ Arrived(w, k, b, "missed", "none", None)

LookUp(w, k, b) ==
  Replay(w, k, b) \/ RejectReuse(w, k, b) \/ ClearExpired(w, k, b)
    \/ Miss(w, k, b)

-----------------------------------------------------------------------------
(* handler(): adds its writes to the transaction, or raises 409            *)

WorkOpen(w) ==
  /\ At(w, "missed") /\ KeyOf(w) \notin Gated
  /\ Step(w, "worked")
  /\ UNCHANGED <<rows, indexed, lock, ready, rounds, effects>>

WorkGated(w) ==
  /\ At(w, "missed") /\ KeyOf(w) \in Gated
  /\ LockFree(w) /\ ready
  /\ lock' = w
  /\ Step(w, "worked")
  /\ UNCHANGED <<rows, indexed, ready, rounds, effects>>

\* 409 for the state of the row, or 422 for an assignee who has left: the
\* HTTPException skips the cache write, and the session closes unsaved.
Refuse(w) ==
  /\ At(w, "missed")
  /\ KeyOf(w) \in Gated => LockFree(w)
  /\ Finish(w, "refused", None)
  /\ UNCHANGED <<rows, indexed, lock, ready, rounds, effects>>

-----------------------------------------------------------------------------
(* commit_or_recover: the flush inserts the key, then the commit           *)

InsertKey(w) ==
  /\ At(w, "worked") /\ EntryFree(w) /\ ~Taken(KeyOf(w))
  /\ indexed' = [indexed EXCEPT ![KeyOf(w)] = w]
  /\ Step(w, "inserted")
  /\ UNCHANGED <<rows, lock, ready, rounds, effects>>

\* Without the rollback the transaction goes on holding its locks.
BadConflict(w) ==
  /\ At(w, "worked") /\ EntryFree(w) /\ Taken(KeyOf(w))
  /\ Step(w, "conflict")
  /\ UNCHANGED <<rows, indexed, lock, ready, rounds, effects>>

Conflict(w) ==
  /\ At(w, "worked") /\ EntryFree(w) /\ Taken(KeyOf(w))
  /\ Rollback(w)
  /\ Step(w, "conflict")

NewRow(w) == [hash |-> req[w].body, by |-> w, fresh |-> TRUE]

BadRecorded(w) == [rows EXCEPT ![KeyOf(w)] = [NewRow(w) EXCEPT !.hash = None]]
Recorded(w) == [rows EXCEPT ![KeyOf(w)] = NewRow(w)]

\* One transaction: the handler's writes and the key with the response.
Commit(w) ==
  /\ At(w, "inserted")
  /\ rows' = Recorded(w)
  /\ indexed' = [indexed EXCEPT ![KeyOf(w)] = None]
  /\ effects' = effects \cup {w}
  /\ ready' = (ready /\ KeyOf(w) \notin Gated)
  /\ lock' = Released(w)
  /\ Step(w, "committed")
  /\ UNCHANGED rounds

Reply(w) ==
  /\ At(w, "committed")
  /\ Finish(w, "ok", w)
  /\ UNCHANGED <<rows, indexed, lock, ready, rounds, effects>>

\* Answering with the result that was rolled back.
BadRecoverWinner(w) ==
  /\ At(w, "conflict")
  /\ Finish(w, "ok", w)
  /\ UNCHANGED <<rows, indexed, lock, ready, rounds, effects>>

\* _recover_winner: the row of whoever inserted the key first, whatever the
\* request it belonged to; without a row it raises RuntimeError.
RecoverWinner(w) ==
  /\ At(w, "conflict")
  /\ IF Found(KeyOf(w)) # NoRow
     THEN Finish(w, "ok", Found(KeyOf(w)).by)
     ELSE Finish(w, "failed", None)
  /\ UNCHANGED <<rows, indexed, lock, ready, rounds, effects>>

-----------------------------------------------------------------------------
(* The environment                                                         *)

\* The server or the connection dies: what is not committed is rolled back,
\* what is committed stays, and nobody hears of either.
Lose(w) ==
  /\ InFlight(w)
  /\ Rollback(w)
  /\ Finish(w, "lost", None)

\* A day passes. Bound: no request takes a day, so none with this key is in
\* flight.
Expire(k) ==
  /\ rows[k].fresh
  /\ \A w \in Worker : KeyOf(w) = k => ~InFlight(w)
  /\ rows' = [rows EXCEPT ![k].fresh = FALSE]
  /\ UNCHANGED <<indexed, lock, ready, rounds, effects, req>>

\* Another actor puts the subject row back: a submission is sent back.
MakeReady ==
  /\ ~ready /\ lock = None /\ rounds < MaxRounds
  /\ ready' = TRUE
  /\ rounds' = rounds + 1
  /\ UNCHANGED <<rows, indexed, lock, effects, req>>

Serve(w) ==
  \/ WorkOpen(w) \/ WorkGated(w) \/ Refuse(w)
  \/ InsertKey(w) \/ Conflict(w) \/ Commit(w) \/ Reply(w) \/ RecoverWinner(w)

Disturb ==
  \/ \E w \in Worker : Lose(w)
  \/ \E k \in Key : Expire(k)
  \/ MakeReady

Next ==
  \/ \E w \in Worker, k \in Key, b \in Body : LookUp(w, k, b)
  \/ \E w \in Worker : Serve(w)
  \/ Disturb

Spec == Init /\ [][Next]_vars

-----------------------------------------------------------------------------
(* Safety *)

\* Handler and cache row are one transaction: a request's writes are in the
\* database exactly if the row of its key is its own. So one key has at most
\* one effect, however many retries race, and no effect is left unrecorded.
EffectsRecorded ==
  \A w \in Worker :
    w \in effects <=> KeyOf(w) # None /\ rows[KeyOf(w)].by = w

\* A success names the one request that did the work of this key, and that
\* work is committed; an error means this request changed nothing; whoever
\* lost the race for a key finds the winner's row.
AnswersAreTrue ==
  \A w \in Worker :
    /\ req[w].answer = "ok" =>
         req[w].of \in effects /\ KeyOf(req[w].of) = KeyOf(w)
    /\ req[w].answer \in {"refused", "reused", "failed"} => w \notin effects
    /\ At(w, "conflict") => Stored(KeyOf(w))

\* A gated operation is performed once each time its subject becomes ready,
\* also when it is asked for under several keys at once.
OncePerRound ==
  Cardinality({w \in effects : KeyOf(w) \in Gated})
    + (IF ready THEN 1 ELSE 0) = rounds

\* The row lock and an uncommitted key entry belong to a transaction that is
\* still open and will release them, and a locked subject stays as it was
\* checked: nobody waits for a request that is gone.
HeldWhileOpen ==
  /\ lock # None => /\ ready
                    /\ req[lock].pc \in {"worked", "inserted"}
                    /\ KeyOf(lock) \in Gated
  /\ \A k \in Key :
       indexed[k] # None => At(indexed[k], "inserted") /\ KeyOf(indexed[k]) = k

\* Request w's next statement needs a row or a key entry that v holds.
WaitsFor(w, v) ==
  \/ At(w, "missed") /\ KeyOf(w) \in Gated /\ lock = v
  \/ At(w, "worked") /\ indexed[KeyOf(w)] = v

\* No group of requests waits for itself: the subject row is locked before the
\* key is inserted, in every handler.
NoStandstill ==
  \A group \in SUBSET Worker :
    group # {} => \E w \in group : \A v \in group : ~WaitsFor(w, v)

-----------------------------------------------------------------------------
(* What the code's own comment says and the code does not do *)

\* idempotency.py: a key reused after its TTL is treated as a new request:
\* its lookup leads on to the handler.
ExpiredKeyIsNewRequest ==
  [][\A w \in Worker : (At(w, "new") /\ ~At(w, "new")') =>
       LET k == req'[w].key IN Expired(k) => req'[w].pc = "missed"]_vars

-----------------------------------------------------------------------------
(* Refinement *)

Said(w) == CASE req[w].answer \in {"refused", "reused", "failed"} -> "not_done"
             [] OTHER -> req[w].answer

Promise == INSTANCE OnceOnly WITH
  by <- [k \in Key |-> rows[k].by],
  asks <- [w \in Worker |-> req[w].key],
  told <- [w \in Worker |-> [says |-> Said(w), of |-> req[w].of]]

\* Whatever races, fails, is lost and is sent again, each key's operation is
\* one indivisible step that happens at most once, told of as it happened.
ImplementsOnceOnly == Promise!Spec

-----------------------------------------------------------------------------
(* The inductive invariant behind the safety properties                    *)

\* How far a request is, and what it holds and has done by then.
RequestFits(w) ==
  /\ At(w, "new") <=> KeyOf(w) = None
  /\ At(w, "new") <=> req[w].body = None
  /\ At(w, "done") <=> req[w].answer # "none"
  /\ ~At(w, "done") /\ ~At(w, "committed") => w \notin effects
  /\ At(w, "committed") => w \in effects
  /\ req[w].pc \in {"worked", "inserted"} /\ KeyOf(w) \in Gated => lock = w
  /\ At(w, "inserted") => indexed[KeyOf(w)] = w /\ ~Stored(KeyOf(w))

RequestsOK == \A w \in Worker : RequestFits(w)

\* Every row was committed with the writes of a request that has its key.
RowsOwned ==
  \A k \in Key :
    Stored(k) => rows[k].by \in effects /\ KeyOf(rows[k].by) = k

IInv == /\ TypeOK /\ RequestsOK /\ HeldWhileOpen /\ RowsOwned
        /\ EffectsRecorded /\ AnswersAreTrue /\ OncePerRound

=============================================================================
