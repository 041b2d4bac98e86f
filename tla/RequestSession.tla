---------------------------- MODULE RequestSession ----------------------------
(***************************************************************************)
(* How the requests of one API process use worker threads, sessions and    *)
(* connections. Every synchronous dependency and handler runs in a worker  *)
(* thread of its own turn; the session, and the connection it may hold,    *)
(* last from the first dependency to the end of the request.               *)
(*                                                                         *)
(*   idle --Arrive--> waiting --Admit--> running --Finish--> closing       *)
(*                       ^--------Hop-------'                   |          *)
(*   idle <-----------------------Close-------------------------'          *)
(*                                                                         *)
(* A path is the sequence of what the code of one endpoint does:           *)
(*   verify  checks the token, before there is a connection                *)
(*   tenant  set_config('app.current_tenant', .., true), for a transaction *)
(*   sql     statements of one transaction: queries, flushes, row locks    *)
(*   admin   a call to the Supabase Admin API; undo, the compensating one  *)
(*   end     commit or rollback; the connection returns to the pool        *)
(*   next    the dependency returns its thread, the next one needs another *)
(***************************************************************************)
EXTENDS ConnectionPool, Sequences

CONSTANTS
  Threads,   \* tokens of anyio's worker-thread limiter
  FirmOf     \* the firm_id in the token of a request

ASSUME ThreadsAssumption == Threads \in Nat \ {0}
ASSUME FirmOfAssumption == FirmOf \in [Request -> Firm]

VARIABLE req

Op == {"verify", "tenant", "sql", "admin", "undo", "end", "next"}

Gate == {"current_profile", "active_profile", "owner"}

\* `gate` is the dependency that still stands before the handler.
IdleRequest == [pc |-> "idle", gate |-> None, todo |-> <<>>]

RequestTypeOK ==
  req \in [Request -> [pc : {"idle", "waiting", "running", "closing"},
                       gate : Gate \cup {None},
                       todo : Seq(Op)]]

RequestInit == req = [r \in Request |-> IdleRequest]

-----------------------------------------------------------------------------
(* The code's paths. Any of them may be left early: see Stop. Definitions  *)
(* whose name starts with Bad are bugs that properties are there to catch. *)

\* get_session has a thread before it; it touches no connection then, and that
\* turn is part of the first wait.
GetCurrentProfile == <<"verify", "tenant", "sql", "next">>
RequirePasswordSet == <<"next">>
RequireOwner == <<"next">>

Dependencies(gate) ==
  CASE gate = "current_profile" -> GetCurrentProfile
    [] gate = "active_profile" -> GetCurrentProfile \o RequirePasswordSet
    [] gate = "owner" -> GetCurrentProfile \o RequirePasswordSet \o RequireOwner

\* record_access_denial commits, and the request is over.
RecordAccessDenial == <<"sql", "end">>

\* require_owner's refusal, in the place of a handler.
WrongRole == RecordAccessDenial

\* commit_or_recover sets the tenant again, whether it committed or not.
BadSettle == <<"end">>
Settle == <<"end", "tenant">>

\* Reading the winner's row; after a rollback the first use of an object
\* fetches it again.
RecoverWinner == <<"sql">>

\* with_idempotency: lookup, handler, commit, and the winner's row for a loser.
WithIdempotency == {<<"sql">> \o Settle, <<"sql">> \o Settle \o RecoverWinner}

ConfirmPasswordChanged == <<"sql", "end">>

ListEmployees == <<"sql">>
CreateEmployee == {<<"admin", "sql", "end">>, <<"admin", "sql", "end", "undo">>}
UpdateEmployee == <<"sql", "end">>

\* get_employee, the key and the row lock; the Admin API; the writes.
ResetPassword ==
  {<<"sql", "admin", "sql">> \o Settle,
   <<"sql", "admin", "sql">> \o Settle \o RecoverWinner}

CreateJobType == <<"sql", "end">>
ListJobTypes == <<"sql">>
UpdateJobType == <<"sql", "end">>

ListTasks == <<"sql">>
GetTask == {<<"sql">>, <<"sql">> \o RecordAccessDenial}
UpdateTaskDeadline == <<"sql", "end">>
EditTask == <<"sql", "end">>
RequireAssignee == <<"sql">> \o RecordAccessDenial

GetIssue == {<<"sql">>, <<"sql">> \o RecordAccessDenial}

\* The scan and its commit, then the query and the titles.
ListNotifications == <<"sql">> \o Settle \o <<"sql">>

\* The titles are read before the commit, which ends the tenant.
BadMarkNotificationRead == <<"sql", "end", "sql">>
MarkNotificationRead == <<"sql", "end">>

\* What an endpoint does once its dependencies are satisfied.
Handlers(gate) ==
  CASE gate = "current_profile" -> {ConfirmPasswordChanged}
    [] gate = "active_profile" ->
         {WrongRole, ListJobTypes, ListTasks, RequireAssignee,
          ListNotifications, MarkNotificationRead}
         \cup GetTask \cup GetIssue \cup WithIdempotency
    [] gate = "owner" ->
         {ListEmployees, UpdateEmployee, CreateJobType, UpdateJobType,
          UpdateTaskDeadline, EditTask}
         \cup CreateEmployee \cup ResetPassword \cup WithIdempotency

-----------------------------------------------------------------------------

Running == {r \in Request : req[r].pc = "running"}

\* The request has a thread, and this is what it does next.
Doing(r, ops) == r \in Running /\ req[r].todo # <<>> /\ Head(req[r].todo) \in ops

Advance(r) == req' = [req EXCEPT ![r].todo = Tail(@)]
End(r) == req' = [req EXCEPT ![r] = [IdleRequest EXCEPT !.pc = "closing"]]

Arrive(r) ==
  /\ req[r].pc = "idle"
  /\ \E gate \in Gate :
       req' = [req EXCEPT ![r] = [pc |-> "waiting", gate |-> gate,
                                  todo |-> Dependencies(gate)]]
  /\ UNCHANGED pool

\* The limiter gives out its tokens in the order they were asked for.
Admit(r) ==
  /\ req[r].pc = "waiting" /\ Cardinality(Running) < Threads
  /\ req' = [req EXCEPT ![r].pc = "running"]
  /\ UNCHANGED pool

SetTenant(r) ==
  /\ Doing(r, {"tenant"})
  /\ \E c \in Usable(r) :
       pool' = [pool EXCEPT ![c] = [by |-> r, tenant |-> FirmOf[r]]]
  /\ Advance(r)

Execute(r) ==
  /\ Doing(r, {"sql"})
  /\ \E c \in Usable(r) : pool' = [pool EXCEPT ![c].by = r]
  /\ Advance(r)

\* The session lets go of its connection with the transaction.
EndTransaction(r) ==
  /\ Doing(r, {"end"})
  /\ pool' = Returned(r)
  /\ Advance(r)

\* Nothing of it needs the database; what connection there is, is kept.
CallOut(r) ==
  /\ Doing(r, {"verify", "admin", "undo"})
  /\ Advance(r)
  /\ UNCHANGED pool

\* A dependency has returned: the request asks for a thread again, and keeps
\* the connection it has.
Hop(r) ==
  /\ Doing(r, {"next"})
  /\ req' = [req EXCEPT ![r].pc = "waiting", ![r].todo = Tail(@)]
  /\ UNCHANGED pool

\* pool_timeout: nobody returned a connection in time, the request is a 500.
BadPoolTimesOut(r) == FALSE
PoolTimesOut(r) == Doing(r, {"tenant", "sql"}) /\ Usable(r) = {}

GiveUp(r) ==
  /\ PoolTimesOut(r)
  /\ End(r)
  /\ UNCHANGED pool

\* An exception, be it a refusal, a failed statement or a bug, or a return
\* before the end: 401, 403, 404, 409, a replay, a connection that breaks.
Stop(r) ==
  /\ r \in Running /\ req[r].todo # <<>>
  /\ End(r)
  /\ UNCHANGED pool

\* The dependencies have let the request through.
Handle(r) ==
  /\ r \in Running /\ req[r].todo = <<>> /\ req[r].gate # None
  /\ \E path \in Handlers(req[r].gate) :
       req' = [req EXCEPT ![r].gate = None, ![r].todo = path]
  /\ UNCHANGED pool

Finish(r) ==
  /\ r \in Running /\ req[r].todo = <<>> /\ req[r].gate = None
  /\ End(r)
  /\ UNCHANGED pool

\* get_session's exit, on a limiter of its own.
Close(r) ==
  /\ req[r].pc = "closing"
  /\ pool' = Returned(r)
  /\ req' = [req EXCEPT ![r] = IdleRequest]

Serve(r) ==
  \/ SetTenant(r) \/ Execute(r) \/ EndTransaction(r) \/ CallOut(r) \/ Hop(r)
  \/ Handle(r) \/ GiveUp(r) \/ Finish(r) \/ Close(r)

RequestNext == \E r \in Request : Arrive(r) \/ Admit(r) \/ Serve(r) \/ Stop(r)

-----------------------------------------------------------------------------

\* Row level security: a statement is executed only on a connection whose
\* tenant is the firm of the request's token, after every commit and rollback
\* too; and a connection nobody holds has no tenant to leave to the next one.
StatementsSeeTenant ==
  /\ \A r \in Request :
       Doing(r, {"sql"}) =>
         \E c \in Conn : pool[c] = [by |-> r, tenant |-> FirmOf[r]]
  /\ \A c \in Free : pool[c].tenant = None

=============================================================================
