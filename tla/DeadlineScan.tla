---------------------------- MODULE DeadlineScan ----------------------------
(***************************************************************************)
(* The time-based notifications of one firm. There is no scheduler: every  *)
(* GET /notifications scans the firm's tasks, works out what is due, and   *)
(* inserts what is not stored yet, each (recipient, type, task) at most    *)
(* once, ever.                                                             *)
(*                                                                         *)
(*   idle -> clocked -> scanned -> inserting --Commit, Conflict--> idle    *)
(*                                         \--Deadlock--> victim -> idle   *)
(*                                                                         *)
(* A poll's rows are one flush, but PostgreSQL inserts them one after the  *)
(* other, in an order no ORDER BY fixes. The list of notifications that    *)
(* ends a poll reads only, and is left out.                                *)
(***************************************************************************)
EXTENDS Integers, FiniteSets

CONSTANTS
  Task,       \* ids of tasks
  Owner,      \* profiles with role owner
  Employee,   \* profiles with role employee
  Poll,       \* polls in flight at once
  Deadline,   \* days a deadline can be set to
  MaxNow,     \* bound: the last day
  None        \* SQL NULL

Day == 0..MaxNow
Recipient == Owner \cup Employee

ASSUME MaxNowAssumption == MaxNow \in Nat
ASSUME DeadlineAssumption == Deadline \subseteq Nat
ASSUME NoneAssumption == None \notin Task \cup Recipient \cup Poll \cup Deadline
ASSUME PeopleAssumption == Owner \cap Employee = {}

VARIABLES
  now,       \* today
  tasks,     \* the columns of tasks that the scan reads
  stored,    \* committed time-based notifications: how many of each
  entries,   \* uncommitted entries of ix_notifications_dedup: note -> poll
  poll,      \* what each GET /notifications is doing
  reached    \* history: the claims that were true at some moment

vars == <<now, tasks, stored, entries, poll, reached>>

-----------------------------------------------------------------------------

\* _DEADLINE_NOTIF_TYPES by the role they go to, and the columns of the
\* unique index
Note ==
  [to : Owner, type : {"task_overdue", "task_deadline_1_day"}, task : Task]
  \cup
  [to : Employee, type : {"task_overdue_own", "task_deadline_approaching"},
   task : Task]

\* open: status created, assigned, in_progress or submitted
TaskRow == [deadline : Deadline \cup {None}, assignee : Employee \cup {None},
            open : BOOLEAN]

PollRow == [pc : {"idle", "clocked", "scanned", "inserting", "victim"},
            at : Day,             \* datetime.now when it started
            todo : SUBSET Note]   \* due, and still to insert

IdlePoll == [pc |-> "idle", at |-> 0, todo |-> {}]

TypeOK ==
  /\ now \in Day
  /\ tasks \in [Task -> TaskRow]
  /\ stored \in [Note -> Nat]
  /\ entries \in [Note -> Poll \cup {None}]
  /\ poll \in [Poll -> PollRow]
  /\ reached \subseteq Note

-----------------------------------------------------------------------------
(* _due_deadline_notifications. Definitions whose name starts with Bad are *)
(* the bugs the properties are there to catch; no action uses them.        *)

UrgentWindow == 1
ApproachingWindow == 3

BadOverdue(d, day) == d <= day
Overdue(d, day) == d < day
BadWithin(d, window, day) == d <= day + window + 1
Within(d, window, day) == d <= day + window

\* What an open task with deadline d warrants on a day, by recipient's role.
OwnerType(d, day) ==
  IF Overdue(d, day) THEN {"task_overdue"}
  ELSE IF Within(d, UrgentWindow, day) THEN {"task_deadline_1_day"} ELSE {}

AssigneeType(d, day) ==
  IF Overdue(d, day) THEN {"task_overdue_own"}
  ELSE IF Within(d, ApproachingWindow, day) THEN {"task_deadline_approaching"}
  ELSE {}

Notes(people, types, t) == [to : people, type : types, task : {t}]

BadAssigneeOf(t) == {tasks[t].assignee}
AssigneeOf(t) == {tasks[t].assignee} \ {None}

Watched == {t \in Task : tasks[t].deadline # None /\ tasks[t].open}

Due(day) ==
  UNION {LET d == tasks[t].deadline
         IN Notes(Owner, OwnerType(d, day), t)
              \cup Notes(AssigneeOf(t), AssigneeType(d, day), t)
         : t \in Watched}

\* The notes whose words are true today: the deadline is past, or at most
\* that far away (a late task is also less than a day from its deadline).
TrueNow ==
  LET Left(n) == tasks[n.task].deadline - now
  IN {n \in Note :
        /\ n.task \in Watched
        /\ n.to \in Owner \cup {tasks[n.task].assignee}
        /\ n.type \in {"task_overdue", "task_overdue_own"} => Left(n) < 0
        /\ n.type = "task_deadline_1_day" => Left(n) <= 1
        /\ n.type = "task_deadline_approaching" => Left(n) <= 3}

Init ==
  /\ now = 0
  /\ tasks = [t \in Task |-> [deadline |-> None, assignee |-> None, open |-> TRUE]]
  /\ stored = [n \in Note |-> 0]
  /\ entries = [n \in Note |-> None]
  /\ poll = [p \in Poll |-> IdlePoll]
  /\ reached = {}

-----------------------------------------------------------------------------
(* GET /notifications                                                      *)

At(p, pc) == poll[p].pc = pc

StartPoll(p) ==
  /\ At(p, "idle")
  /\ poll' = [poll EXCEPT ![p] = [pc |-> "clocked", at |-> now, todo |-> {}]]
  /\ UNCHANGED <<now, tasks, stored, entries, reached>>

\* The SELECT of the firm's open tasks with a deadline.
ReadTasks(p) ==
  /\ At(p, "clocked")
  /\ poll' = [poll EXCEPT ![p] =
       [pc |-> "scanned", at |-> 0, todo |-> Due(poll[p].at)]]
  /\ UNCHANGED <<now, tasks, stored, entries, reached>>

BadMissing(due) == due
Missing(due) == {n \in due : stored[n] = 0}

\* The SELECT of what is stored already; the flush begins.
ReadStored(p) ==
  /\ At(p, "scanned")
  /\ poll' = [poll EXCEPT ![p].pc = "inserting", ![p].todo = Missing(@)]
  /\ UNCHANGED <<now, tasks, stored, entries, reached>>

BadTaken(n) == FALSE
Taken(n) == stored[n] > 0   \* the unique index rejects a second row

\* An insert waits for another transaction's uncommitted entry of its key.
Insert(p) ==
  /\ At(p, "inserting")
  /\ \E n \in poll[p].todo :
       /\ entries[n] = None /\ ~Taken(n)
       /\ entries' = [entries EXCEPT ![n] = p]
       /\ poll' = [poll EXCEPT ![p].todo = @ \ {n}]
  /\ UNCHANGED <<now, tasks, stored, reached>>

Mine(p) == {n \in Note : entries[n] = p}

\* The transaction is over: its entries go, as rows or without a trace.
Leave(p, pc) ==
  /\ entries' = [n \in Note |-> IF n \in Mine(p) THEN None ELSE entries[n]]
  /\ poll' = [poll EXCEPT ![p] = [IdlePoll EXCEPT !.pc = pc]]

Commit(p) ==
  /\ At(p, "inserting")
  /\ poll[p].todo = {}
  /\ stored' = [n \in Note |-> stored[n] + (IF n \in Mine(p) THEN 1 ELSE 0)]
  /\ Leave(p, "idle")
  /\ UNCHANGED <<now, tasks, reached>>

\* Without the rollback the session keeps its entries.
BadConflict(p) ==
  /\ At(p, "inserting")
  /\ \E n \in poll[p].todo : entries[n] = None /\ Taken(n)
  /\ poll' = [poll EXCEPT ![p] = IdlePoll]
  /\ UNCHANGED <<now, tasks, stored, entries, reached>>

\* IntegrityError: commit_or_recover rolls the whole batch back, and the
\* poll lists what is there.
Conflict(p) ==
  /\ At(p, "inserting")
  /\ \E n \in poll[p].todo : entries[n] = None /\ Taken(n)
  /\ Leave(p, "idle")
  /\ UNCHANGED <<now, tasks, stored, reached>>

WaitsFor(p, q) == At(p, "inserting") /\ \E n \in poll[p].todo : entries[n] = q

\* PostgreSQL ends a wait cycle by failing one of its transactions, which is
\* no IntegrityError: this poll is answered 500.
Deadlock(p) ==
  /\ \E q \in Poll : WaitsFor(p, q) /\ WaitsFor(q, p)
  /\ Leave(p, "victim")
  /\ UNCHANGED <<now, tasks, stored, reached>>

\* Bound: the victim's client polls again in seconds, and the other poll has
\* had its entry in milliseconds.
PollAgain(p) ==
  /\ At(p, "victim")
  /\ \A q \in Poll : ~At(q, "inserting")
  /\ poll' = [poll EXCEPT ![p].pc = "idle"]
  /\ UNCHANGED <<now, tasks, stored, entries, reached>>

Advance(p) ==
  \/ ReadTasks(p) \/ ReadStored(p) \/ Insert(p) \/ Commit(p) \/ Conflict(p)
  \/ Deadlock(p) \/ PollAgain(p)

-----------------------------------------------------------------------------
(* What goes on meanwhile: the calendar, and the task endpoints            *)

Unpolled == UNCHANGED <<stored, entries, poll>>

Tick ==
  /\ now < MaxNow
  /\ now' = now + 1
  /\ Unpolled /\ UNCHANGED tasks

SetDeadline(t, d) ==
  /\ tasks[t].deadline # d
  /\ tasks' = [tasks EXCEPT ![t].deadline = d]
  /\ Unpolled /\ UNCHANGED now

\* An edit, a review or a resolved issue; the last reopens a closed task.
Reassign(t, e) ==
  /\ tasks[t].assignee # e \/ ~tasks[t].open
  /\ tasks' = [tasks EXCEPT ![t].assignee = e, ![t].open = TRUE]
  /\ Unpolled /\ UNCHANGED now

Close(t) ==
  /\ tasks[t].open /\ tasks[t].assignee # None
  /\ tasks' = [tasks EXCEPT ![t].open = FALSE]
  /\ Unpolled /\ UNCHANGED now

Elsewhere ==
  /\ \/ Tick
     \/ \E t \in Task, d \in Deadline : SetDeadline(t, d)
     \/ \E t \in Task, e \in Employee : Reassign(t, e)
     \/ \E t \in Task : Close(t)
  /\ reached' = reached \cup TrueNow'

Next == Elsewhere \/ \E p \in Poll : StartPoll(p) \/ Advance(p)

\* The frontend polls every 45 seconds while somebody is signed in, and the
\* threads of the pool run on.
Fairness == \A p \in Poll : WF_vars(StartPoll(p)) /\ WF_vars(Advance(p))

Spec == Init /\ [][Next]_vars
FairSpec == Spec /\ Fairness

-----------------------------------------------------------------------------
(* Safety *)

\* Each recipient is told of each kind of deadline of a task at most once,
\* ever, however many polls run at once.
NotifiedOnce == \A n \in Note : stored[n] <= 1

\* A notification says what was true, to somebody it was true for, at some
\* moment: no poll that worked from old reads announces what never was.
NeverEarly == \A n \in Note : stored[n] > 0 => n \in reached

\* A poll waits only for polls that are still inserting, and no uncommitted
\* entry of the index duplicates a committed row.
EntriesAreOpen ==
  \A n \in Note : entries[n] # None =>
    At(entries[n], "inserting") /\ stored[n] = 0 /\ n \notin poll[entries[n]].todo

\* The polls implement the abstract notifications: what counts is what is
\* committed, a batch at a time, of claims that were true; nothing that was
\* told is taken back or told again by a later poll.
Promise == INSTANCE TellOnce
  WITH Claim <- Note, true <- TrueNow, was <- reached, times <- stored
ImplementsTellOnce == Promise!Spec

-----------------------------------------------------------------------------
(* Liveness *)

\* What is due, and stays due, is stored in the end: neither a batch rolled
\* back for one duplicate nor a deadlock loses a notification for good.
EveryDueNotified ==
  \A n \in Note :
    (n \in Due(now) /\ stored[n] = 0) ~> (n \notin Due(now) \/ stored[n] > 0)
-----------------------------------------------------------------------------
(* The inductive invariant behind the safety properties                    *)

\* What a poll works from is old, but was true when it read it.
PollsFit ==
  /\ TrueNow \subseteq reached
  /\ \A p \in Poll : poll[p].at <= now /\ poll[p].todo \subseteq reached
  /\ \A n \in Note : entries[n] # None => n \in reached

IInv == TypeOK /\ NotifiedOnce /\ NeverEarly /\ EntriesAreOpen /\ PollsFit

=============================================================================
