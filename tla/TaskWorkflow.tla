---------------------------- MODULE TaskWorkflow ----------------------------
(***************************************************************************)
(* The task endpoints of one firm: creating, editing, submitting,          *)
(* reviewing and billing a task, raising and resolving issues on it.       *)
(*                                                                         *)
(* Every request is a worker that walks through the steps its route and    *)
(* its crud function take against Postgres:                                *)
(*                                                                         *)
(*   idle --Begin--> read --Check--> checked --Commit--> idle              *)
(*                                                                         *)
(*   Begin    the dependencies and the route's own UNLOCKED read of the    *)
(*            row (get_task, get_issue), with its role and assignee gate;  *)
(*   Check    SELECT ... FOR UPDATE, then the handler's state gate and     *)
(*            argument checks on the refreshed row (a refusal ends the     *)
(*            request, which rolls back and frees the lock);               *)
(*   Commit   the one transaction's writes, visible together.              *)
(*                                                                         *)
(* Between two steps of a request any step of another request may happen.  *)
(* A refusal at Begin (401, 403, 404, 422) changes none of these tables,   *)
(* so it is a stuttering step here.                                        *)
(***************************************************************************)
EXTENDS Naturals, FiniteSets

CONSTANTS
  Task,            \* ids a tasks row can get
  Issue,           \* ids an issues row can get
  Employee,        \* profiles with role employee
  Owner,           \* profiles with role owner
  Worker,          \* requests in flight at once
  Deadline,        \* values a deadline can take
  None,            \* SQL NULL, Python None
  Endpoint,        \* the operations requests may use in this instance
  MaxSubmissions   \* bound: a task submitted this often is not submitted again

Operations ==
  {"create_task", "edit_task", "update_task_deadline", "submit_task",
   "mark_task_billed", "review_approved", "review_reassigned",
   "review_billing", "create_issue", "resolve_clarified",
   "resolve_deadline_adjusted", "resolve_reassigned",
   "mark_notification_read", "set_employee_active"}

ASSUME NoneAssumption ==
  None \notin Task \cup Issue \cup Employee \cup Owner \cup Worker
             \cup Deadline \cup Operations
ASSUME PeopleAssumption == Employee \cap Owner = {}
ASSUME BoundAssumption == MaxSubmissions \in Nat
ASSUME EndpointAssumption == Endpoint \subseteq Operations

VARIABLES
  tasks,        \* the tasks table: id -> row, status "absent" until inserted
  issues,       \* the issues table
  active,       \* profiles.is_active of the employees
  unread,       \* issue -> owners whose issue_raised notification is unread
  sent,         \* notifications rows inserted by the latest step
  submissions,  \* history: times a task became submitted
  reviews,      \* task_reviews rows of a task
  resolutions,  \* issue_resolved notifications ever inserted for an issue
  taskLock,     \* holder of the FOR UPDATE lock on a tasks row
  issueLock,    \* holder of the FOR UPDATE lock on an issues row
  req           \* what each worker is doing

vars == <<tasks, issues, active, unread, sent, submissions, reviews,
          resolutions, taskLock, issueLock, req>>

-----------------------------------------------------------------------------
(* Rows *)

Status == {"absent", "created", "assigned", "in_progress", "submitted",
           "completed", "billed"}

TaskRow == [status : Status,
            type : {"standard", "billing"},
            assignee : Employee \cup {None},
            parent : Task \cup {None},
            deadline : Deadline \cup {None}]

NoTask == [status |-> "absent", type |-> "standard", assignee |-> None,
           parent |-> None, deadline |-> None]

IssueRow == [status : {"absent", "open", "resolved"},
             task : Task \cup {None},
             raiser : Employee \cup {None}]

NoIssue == [status |-> "absent", task |-> None, raiser |-> None]

Notification == [type : {"task_assigned", "task_reassigned", "task_submitted",
                         "issue_raised", "issue_resolved"},
                 to : Employee \cup Owner,
                 task : Task,
                 issue : Issue \cup {None}]

Request == [pc : {"idle", "read", "issue_locked", "checked"},
            op : Operations \cup {None},
            actor : Employee \cup {None},   \* None: an owner
            task : Task \cup {None},
            issue : Issue \cup {None},
            to : Employee \cup {None},      \* body.assigned_to
            deadline : Deadline \cup {None},
            row : TaskRow]                  \* the session's Task object

Idle == [pc |-> "idle", op |-> None, actor |-> None, task |-> None,
         issue |-> None, to |-> None, deadline |-> None, row |-> NoTask]

TypeOK ==
  /\ tasks \in [Task -> TaskRow]
  /\ issues \in [Issue -> IssueRow]
  /\ active \in [Employee -> BOOLEAN]
  /\ unread \in [Issue -> SUBSET Owner]
  /\ sent \subseteq Notification
  /\ submissions \in [Task -> Nat]
  /\ reviews \in [Task -> Nat]
  /\ resolutions \in [Issue -> Nat]
  /\ taskLock \in [Task -> Worker \cup {None}]
  /\ issueLock \in [Issue -> Worker \cup {None}]
  /\ req \in [Worker -> Request]

Init ==
  /\ tasks = [t \in Task |-> NoTask]
  /\ issues = [i \in Issue |-> NoIssue]
  /\ active = [e \in Employee |-> TRUE]
  /\ unread = [i \in Issue |-> {}]
  /\ sent = {}
  /\ submissions = [t \in Task |-> 0]
  /\ reviews = [t \in Task |-> 0]
  /\ resolutions = [i \in Issue |-> 0]
  /\ taskLock = [t \in Task |-> None]
  /\ issueLock = [i \in Issue |-> None]
  /\ req = [w \in Worker |-> Idle]

-----------------------------------------------------------------------------
(* The state gates of the handlers, on the row they have just locked.      *)
(* Definitions whose name starts with Bad are the bugs the properties are  *)
(* there to catch; no action uses them.                                    *)

InHand(row) == row.status \in {"assigned", "in_progress"}
BadEditable(row) == row.status \notin {"completed", "billed"}
Editable(row) == row.status \in {"created", "assigned"}
BadSubmittable(row, who) == row.assignee = who
Submittable(row, who) == InHand(row) /\ row.assignee = who
BadBillable(row) == InHand(row)
Billable(row) == row.type = "billing" /\ InHand(row)
BadReviewable(row) == row.status \in {"submitted", "in_progress"}
Reviewable(row) == row.status = "submitted"

\* _validate_assignee: an employee of the firm, active when it is asked.
ValidAssignee(e) == e \in Employee /\ active[e]

\* What the handlers write

Edited(row, to) ==
  [row EXCEPT !.assignee = to,
              !.status = IF @ = "created" THEN "assigned" ELSE @]

BadReassignedStatus(row, to) ==
  [row EXCEPT !.status = "reassigned", !.assignee = IF to = None THEN @ ELSE to]
BadReassignedCleared(row, to) ==
  [row EXCEPT !.status = "in_progress", !.assignee = to]
Reassigned(row, to) ==
  [row EXCEPT !.status = "in_progress",
              !.assignee = IF to = None THEN @ ELSE to]

BillingTask(parent, to, d) ==
  [status |-> "assigned", type |-> "billing", assignee |-> to,
   parent |-> parent, deadline |-> d]

Notify(type, to, t, i) == [type |-> type, to |-> to, task |-> t, issue |-> i]

\* A reassignment tells whoever the task lands on.
BadReassignNotes(t, old, new) == {Notify("task_reassigned", old.assignee, t, None)}
ReassignNotes(t, old, new) == {Notify("task_reassigned", new.assignee, t, None)}

NotifyOwners(type, t, i) == {Notify(type, o, t, i) : o \in Owner}

-----------------------------------------------------------------------------
(* Request steps shared by the endpoints *)

Begin(w, op, actor, t, i, to, d) ==
  /\ req[w].pc = "idle"
  /\ op \in Endpoint
  /\ req' = [req EXCEPT ![w] =
       [pc |-> "read", op |-> op, actor |-> actor, task |-> t, issue |-> i,
        to |-> to, deadline |-> d,
        row |-> IF t = None THEN NoTask ELSE tasks[t]]]
  /\ sent' = {}
  /\ UNCHANGED <<tasks, issues, active, unread, submissions, reviews,
                 resolutions, taskLock, issueLock>>

BadRefreshed(held, row) == held

\* populate_existing=True: the locked SELECT overwrites the object the
\* session already holds; without it the identity map would win.
Refreshed(held, row) == row

\* The Task object the handler's gates read once the row is locked.
Locked(w) == Refreshed(req[w].row, tasks[req[w].task])

BadFree(x) == TRUE

\* Nobody holds the row: FOR UPDATE, an UPDATE of the row and the KEY SHARE
\* an insert that references the row takes all wait for this.
TaskFree(t) == taskLock[t] = None
IssueFree(i) == issueLock[i] = None

At(w, pc, op) == req[w].pc = pc /\ req[w].op = op

\* _lock_task, then the gate `ok`; a refusal rolls back and frees the row.
Grant(w) ==
  /\ taskLock' = [taskLock EXCEPT ![req[w].task] = w]
  /\ req' = [req EXCEPT ![w].pc = "checked", ![w].row = Locked(w)]

Refuse(w) ==
  /\ req' = [req EXCEPT ![w] = Idle]
  /\ UNCHANGED taskLock

\* A refusal that leaves the row locked behind it.
BadLockTaskThen(w, ok) ==
  /\ TaskFree(req[w].task)
  /\ (ok /\ Grant(w)) \/ (/\ ~ok /\ req' = [req EXCEPT ![w] = Idle]
                          /\ taskLock' = [taskLock EXCEPT ![req[w].task] = w])
  /\ sent' = {}
  /\ UNCHANGED <<tasks, issues, active, unread, submissions, reviews,
                 resolutions, issueLock>>

LockTaskThen(w, ok) ==
  /\ TaskFree(req[w].task)
  /\ (ok /\ Grant(w)) \/ (~ok /\ Refuse(w))
  /\ sent' = {}
  /\ UNCHANGED <<tasks, issues, active, unread, submissions, reviews,
                 resolutions, issueLock>>

\* The transaction ends, by commit or rollback: every row lock goes.
Release(w) ==
  /\ taskLock' = [t \in Task |-> IF taskLock[t] = w THEN None ELSE taskLock[t]]
  /\ issueLock' = [i \in Issue |-> IF issueLock[i] = w THEN None
                                   ELSE issueLock[i]]
  /\ req' = [req EXCEPT ![w] = Idle]

\* A commit that changes the request's task to `row` and inserts `notes`.
CommitTask(w, row, notes) ==
  /\ tasks' = [tasks EXCEPT ![req[w].task] = row]
  /\ sent' = notes
  /\ Release(w)
  /\ UNCHANGED active

-----------------------------------------------------------------------------
(* POST /tasks *)

\* Bound: every insert in flight has an unused id, so none waits for one.
Inserting(ops) == {w \in Worker : req[w].op \in ops}
RoomForTask ==
  Cardinality(Inserting({"create_task", "review_billing"}))
    < Cardinality({t \in Task : tasks[t].status = "absent"})
RoomForIssue ==
  Cardinality(Inserting({"create_issue"}))
    < Cardinality({i \in Issue : issues[i].status = "absent"})

\* Nothing to lock: the assignee is validated before the row is inserted.
BeginCreateTask(w) ==
  \E to \in Employee \cup {None}, d \in Deadline \cup {None} :
    /\ to = None \/ ValidAssignee(to)
    /\ RoomForTask
    /\ Begin(w, "create_task", None, None, None, to, d)

CommitCreateTask(w) ==
  /\ At(w, "read", "create_task")
  /\ \E t \in Task :
       /\ tasks[t].status = "absent"
       /\ LET to == req[w].to
          IN /\ tasks' = [tasks EXCEPT ![t] =
                  [NoTask EXCEPT
                     !.status = IF to = None THEN "created" ELSE "assigned",
                     !.assignee = to,
                     !.deadline = req[w].deadline]]
             /\ sent' = IF to = None THEN {}
                        ELSE {Notify("task_assigned", to, t, None)}
  /\ Release(w)
  /\ UNCHANGED <<issues, active, unread, submissions, reviews, resolutions>>

-----------------------------------------------------------------------------
(* PATCH /tasks/{id}: the assignee; title and description edits take the   *)
(* same path and touch nothing modelled here                               *)

BeginEditTask(w) ==
  \E t \in Task, to \in Employee :
    /\ tasks[t].status # "absent"
    /\ Begin(w, "edit_task", None, t, None, to, None)

\* An edit that changes nothing returns without a commit.
CheckEditTask(w) ==
  /\ At(w, "read", "edit_task")
  /\ LockTaskThen(w, /\ Editable(Locked(w))
                     /\ ValidAssignee(req[w].to)
                     /\ req[w].to # Locked(w).assignee)

CommitEditTask(w) ==
  /\ At(w, "checked", "edit_task")
  /\ LET t == req[w].task
         old == req[w].row.assignee
     IN CommitTask(w, Edited(tasks[t], req[w].to),
          {Notify("task_assigned", req[w].to, t, None)} \cup
          IF old = None THEN {} ELSE {Notify("task_reassigned", old, t, None)})
  /\ UNCHANGED <<issues, unread, submissions, reviews, resolutions>>

-----------------------------------------------------------------------------
(* PATCH /tasks/{id}/deadline: no FOR UPDATE and no status gate. The       *)
(* UPDATE waits for a holder of the row, and SQLAlchemy leaves the column  *)
(* out of it when the new value equals the one the session read.           *)

BeginUpdateDeadline(w) ==
  \E t \in Task, d \in Deadline :
    /\ tasks[t].status # "absent"
    /\ Begin(w, "update_task_deadline", None, t, None, None, d)

CommitUpdateDeadline(w) ==
  /\ At(w, "read", "update_task_deadline")
  /\ TaskFree(req[w].task)
  /\ LET t == req[w].task
     IN CommitTask(w, [tasks[t] EXCEPT !.deadline =
                         IF req[w].deadline = req[w].row.deadline THEN @
                         ELSE req[w].deadline], {})
  /\ UNCHANGED <<issues, unread, submissions, reviews, resolutions>>

-----------------------------------------------------------------------------
(* POST /tasks/{id}/submit and /mark-billed: the assigned employee         *)

\* get_task's own-task rule and _require_assignee, on the unlocked row.
BeginAsAssignee(w, op, e, t) ==
  /\ active[e]
  /\ tasks[t].assignee = e
  /\ Begin(w, op, e, t, None, None, None)

BeginSubmitTask(w) ==
  \E e \in Employee, t \in Task :
    /\ submissions[t] < MaxSubmissions
    /\ BeginAsAssignee(w, "submit_task", e, t)

CheckSubmitTask(w) ==
  /\ At(w, "read", "submit_task")
  /\ LockTaskThen(w, Submittable(Locked(w), req[w].actor))

CommitSubmitTask(w) ==
  /\ At(w, "checked", "submit_task")
  /\ LET t == req[w].task
     IN /\ CommitTask(w, [tasks[t] EXCEPT !.status = "submitted"],
                      NotifyOwners("task_submitted", t, None))
        /\ submissions' = [submissions EXCEPT ![t] = @ + 1]
  /\ UNCHANGED <<issues, unread, reviews, resolutions>>

BeginMarkTaskBilled(w) ==
  \E e \in Employee, t \in Task : BeginAsAssignee(w, "mark_task_billed", e, t)

\* Unlike submit, the assignee is not asked for again under the lock.
CheckMarkTaskBilled(w) ==
  /\ At(w, "read", "mark_task_billed")
  /\ LockTaskThen(w, Billable(Locked(w)))

CommitMarkTaskBilled(w) ==
  /\ At(w, "checked", "mark_task_billed")
  /\ CommitTask(w, [tasks[req[w].task] EXCEPT !.status = "billed"], {})
  /\ UNCHANGED <<issues, unread, submissions, reviews, resolutions>>

-----------------------------------------------------------------------------
(* POST /tasks/{id}/review: the body's validator ties the fields to the    *)
(* outcome                                                                 *)

BeginReview(w) ==
  \E t \in Task :
    /\ tasks[t].status # "absent"
    /\ \/ Begin(w, "review_approved", None, t, None, None, None)
       \/ \E to \in Employee \cup {None} :
            Begin(w, "review_reassigned", None, t, None, to, None)
       \/ \E to \in Employee, d \in Deadline :
            RoomForTask /\ Begin(w, "review_billing", None, t, None, to, d)

Reviewing(op) == op \in {"review_approved", "review_reassigned", "review_billing"}

CheckReview(w) ==
  /\ req[w].pc = "read"
  /\ Reviewing(req[w].op)
  /\ LockTaskThen(w, /\ Reviewable(Locked(w))
                     /\ req[w].to = None \/ ValidAssignee(req[w].to))

ReviewRow(w) ==
  /\ reviews' = [reviews EXCEPT ![req[w].task] = @ + 1]
  /\ UNCHANGED <<issues, unread, submissions, resolutions>>

\* A review that also touched the task's issues would lock task before issue.
BadCommitReviewApproved(w) ==
  /\ At(w, "checked", "review_approved")
  /\ \A i \in Issue : issues[i].task = req[w].task => IssueFree(i)
  /\ CommitTask(w, [tasks[req[w].task] EXCEPT !.status = "completed"], {})
  /\ ReviewRow(w)

CommitReviewApproved(w) ==
  /\ At(w, "checked", "review_approved")
  /\ CommitTask(w, [tasks[req[w].task] EXCEPT !.status = "completed"], {})
  /\ ReviewRow(w)

CommitReviewReassigned(w) ==
  /\ At(w, "checked", "review_reassigned")
  /\ LET t == req[w].task
         row == Reassigned(tasks[t], req[w].to)
     IN CommitTask(w, row, ReassignNotes(t, tasks[t], row))
  /\ ReviewRow(w)

\* The linked billing task is inserted by the same transaction; nobody is
\* notified of it.
CommitReviewBilling(w) ==
  /\ At(w, "checked", "review_billing")
  /\ \E b \in Task :
       /\ tasks[b].status = "absent"
       /\ tasks' = [tasks EXCEPT
            ![req[w].task].status = "completed",
            ![b] = BillingTask(req[w].task, req[w].to, req[w].deadline)]
  /\ sent' = {}
  /\ ReviewRow(w)
  /\ Release(w)
  /\ UNCHANGED active

-----------------------------------------------------------------------------
(* POST /tasks/{id}/issues: no FOR UPDATE, the status gate reads the row   *)
(* the route fetched. The insert's foreign key waits for a lock holder.    *)

BeginCreateIssue(w) ==
  \E e \in Employee, t \in Task :
    RoomForIssue /\ BeginAsAssignee(w, "create_issue", e, t)

CommitCreateIssue(w) ==
  /\ At(w, "read", "create_issue")
  /\ LET t == req[w].task
     IN /\ TaskFree(t)
        /\ \/ /\ InHand(req[w].row)
              /\ \E i \in Issue :
                   /\ issues[i].status = "absent"
                   /\ issues' = [issues EXCEPT ![i] =
                        [status |-> "open", task |-> t, raiser |-> req[w].actor]]
                   /\ unread' = [unread EXCEPT ![i] = Owner]
                   /\ sent' = NotifyOwners("issue_raised", t, i)
           \/ /\ ~InHand(req[w].row)
              /\ sent' = {}
              /\ UNCHANGED <<issues, unread>>
  /\ Release(w)
  /\ UNCHANGED <<tasks, active, submissions, reviews, resolutions>>

-----------------------------------------------------------------------------
(* POST /issues/{id}/resolve                                               *)

BeginResolveIssue(w) ==
  \E i \in Issue :
    LET t == issues[i].task
    IN /\ issues[i].status # "absent"
       /\ \/ Begin(w, "resolve_clarified", None, t, i, None, None)
          \/ \E d \in Deadline :
               Begin(w, "resolve_deadline_adjusted", None, t, i, None, d)
          \/ \E to \in Employee \cup {None} :
               Begin(w, "resolve_reassigned", None, t, i, to, None)

Resolving(op) ==
  op \in {"resolve_clarified", "resolve_deadline_adjusted", "resolve_reassigned"}

\* _lock_issue and the gates on the issue; clarified locks no other row.
CheckResolveIssue(w) ==
  /\ req[w].pc = "read"
  /\ Resolving(req[w].op)
  /\ LET i == req[w].issue
     IN /\ IssueFree(i)
        /\ \/ /\ issues[i].status = "open"
              /\ req[w].to = None \/ ValidAssignee(req[w].to)
              /\ issueLock' = [issueLock EXCEPT ![i] = w]
              /\ req' = [req EXCEPT ![w].pc =
                   IF req[w].op = "resolve_clarified" THEN "checked"
                   ELSE "issue_locked"]
           \/ /\ \/ issues[i].status # "open"
                 \/ req[w].to # None /\ ~ValidAssignee(req[w].to)
              /\ req' = [req EXCEPT ![w] = Idle]
              /\ UNCHANGED issueLock
  /\ sent' = {}
  /\ UNCHANGED <<tasks, issues, active, unread, submissions, reviews,
                 resolutions, taskLock>>

\* The issue's task is locked second and its status is not looked at.
LockResolvedTask(w) ==
  /\ req[w].pc = "issue_locked"
  /\ LockTaskThen(w, TRUE)

\* Resolved, its issue_raised notifications read, its raiser notified.
ResolveRows(w, notes) ==
  LET i == req[w].issue
  IN /\ issues' = [issues EXCEPT ![i].status = "resolved"]
     /\ unread' = [unread EXCEPT ![i] = {}]
     /\ sent' = notes \cup
          {Notify("issue_resolved", issues[i].raiser, issues[i].task, i)}
     /\ resolutions' = [resolutions EXCEPT ![i] = @ + 1]
     /\ Release(w)
     /\ UNCHANGED <<active, submissions, reviews>>

\* The task is not locked, but the raiser's notification refers to it: the
\* insert waits for whoever has the row locked, the issue being locked.
CommitResolveClarified(w) ==
  /\ At(w, "checked", "resolve_clarified")
  /\ TaskFree(req[w].task)
  /\ ResolveRows(w, {})
  /\ UNCHANGED tasks

CommitResolveDeadlineAdjusted(w) ==
  /\ At(w, "checked", "resolve_deadline_adjusted")
  /\ tasks' = [tasks EXCEPT ![req[w].task].deadline = req[w].deadline]
  /\ ResolveRows(w, {})

CommitResolveReassigned(w) ==
  /\ At(w, "checked", "resolve_reassigned")
  /\ LET t == req[w].task
         row == Reassigned(tasks[t], req[w].to)
     IN /\ tasks' = [tasks EXCEPT ![t] = row]
        /\ ResolveRows(w, ReassignNotes(t, tasks[t], row))

-----------------------------------------------------------------------------
(* Single-statement operations and failures *)

\* PATCH /notifications/{id}/read by an owner, on an issue_raised row.
MarkNotificationRead(o, i) ==
  /\ "mark_notification_read" \in Endpoint
  /\ o \in unread[i]
  /\ unread' = [unread EXCEPT ![i] = @ \ {o}]
  /\ sent' = {}
  /\ UNCHANGED <<tasks, issues, active, submissions, reviews, resolutions,
                 taskLock, issueLock, req>>

\* PATCH /employees/{id}
SetEmployeeActive(e) ==
  /\ "set_employee_active" \in Endpoint
  /\ active' = [active EXCEPT ![e] = ~@]
  /\ sent' = {}
  /\ UNCHANGED <<tasks, issues, unread, submissions, reviews, resolutions,
                 taskLock, issueLock, req>>

\* The request dies before its commit (exception, lost connection, restart):
\* its transaction rolls back.
Abort(w) ==
  /\ req[w].pc # "idle"
  /\ sent' = {}
  /\ Release(w)
  /\ UNCHANGED <<tasks, issues, active, unread, submissions, reviews,
                 resolutions>>

-----------------------------------------------------------------------------
Step(w) ==
  \/ CommitCreateTask(w)
  \/ CheckEditTask(w) \/ CommitEditTask(w)
  \/ CommitUpdateDeadline(w)
  \/ CheckSubmitTask(w) \/ CommitSubmitTask(w)
  \/ CheckMarkTaskBilled(w) \/ CommitMarkTaskBilled(w)
  \/ CheckReview(w) \/ CommitReviewApproved(w)
  \/ CommitReviewReassigned(w) \/ CommitReviewBilling(w)
  \/ CommitCreateIssue(w)
  \/ CheckResolveIssue(w) \/ LockResolvedTask(w)
  \/ CommitResolveClarified(w) \/ CommitResolveDeadlineAdjusted(w)
  \/ CommitResolveReassigned(w)

Arrive(w) ==
  \/ BeginCreateTask(w) \/ BeginEditTask(w) \/ BeginUpdateDeadline(w)
  \/ BeginSubmitTask(w) \/ BeginMarkTaskBilled(w) \/ BeginReview(w)
  \/ BeginCreateIssue(w) \/ BeginResolveIssue(w)

Next ==
  \/ \E w \in Worker : Arrive(w) \/ Step(w) \/ Abort(w)
  \/ \E o \in Owner, i \in Issue : MarkNotificationRead(o, i)
  \/ \E e \in Employee : SetEmployeeActive(e)

Spec == Init /\ [][Next]_vars

\* A waiter for a row lock is woken in turn by Postgres, so a request whose
\* next statement keeps becoming possible gets to run it.
FairSpec == Spec /\ \A w \in Worker : SF_vars(Step(w))

-----------------------------------------------------------------------------
(* Safety *)

\* What a handler decided under its row lock is still true of the committed
\* rows when it commits: the state gate of every locking endpoint, and the
\* issue a resolution is about (_lock_task, _lock_issue with
\* populate_existing).  Only mark-billed makes no claim on its caller.
DecisionHolds(w, row) ==
  /\ At(w, "checked", "edit_task") => Editable(row)
  /\ At(w, "checked", "submit_task") => Submittable(row, req[w].actor)
  /\ At(w, "checked", "mark_task_billed") => Billable(row)
  /\ req[w].pc = "checked" /\ Reviewing(req[w].op) => Reviewable(row)
  /\ req[w].pc \in {"issue_locked", "checked"} /\ Resolving(req[w].op) =>
       issues[req[w].issue].status = "open"

DecisionsHold == \A w \in Worker : DecisionHolds(w, tasks[req[w].task])

\* Every submission is reviewed at most once, whichever of two tabs or two
\* owners is quicker: no second verdict, no second billing task for it.
ReviewsMatchSubmissions ==
  \A t \in Task :
    /\ reviews[t] <= submissions[t]
    /\ tasks[t].status = "submitted" => reviews[t] < submissions[t]

\* An issue is resolved at most once, its raiser told exactly then, and the
\* dashboards of the owners no longer show it as raised.
IssueResolvedOnce ==
  \A i \in Issue :
    /\ resolutions[i] = IF issues[i].status = "resolved" THEN 1 ELSE 0
    /\ issues[i].status = "resolved" => unread[i] = {}

\* A task is with somebody exactly from the moment it is handed out, and
\* what is billed is a billing task.
HandedOutHasAssignee ==
  \A t \in Task :
    /\ tasks[t].assignee = None <=> tasks[t].status \in {"absent", "created"}
    /\ tasks[t].status = "billed" => tasks[t].type = "billing"
    /\ tasks[t].type = "billing" <=> tasks[t].parent # None

Undated(row) == [row EXCEPT !.deadline = None]

SettledStep(t) ==
  (/\ tasks[t].status \in {"submitted", "completed", "billed"}
   /\ Undated(tasks'[t]) # Undated(tasks[t]))
  => \/ tasks[t].status = "submitted" /\ reviews'[t] = reviews[t] + 1
     \/ \E i \in Issue : /\ issues[i].task = t
                         /\ issues[i].status = "open"
                         /\ issues'[i].status = "resolved"

\* A submitted or closed task changes hands or state only through the owner:
\* by a review of that submission or by resolving an open issue on it.
SettledOnlyByOwner == [][\A t \in Task : SettledStep(t)]_vars

HandoverStep(t) ==
  (tasks[t].status # "absent" /\ tasks'[t].assignee # tasks[t].assignee)
  => /\ \E n \in sent' : n.to = tasks'[t].assignee /\ n.task = t
     /\ tasks[t].status = "assigned" /\ tasks'[t].status = "assigned" =>
          Notify("task_reassigned", tasks[t].assignee, t, None) \in sent'

\* Whoever an existing task is handed to is notified by the step that hands
\* it over, and whoever loses it to an edit is notified too.
HandoverNotified == [][\A t \in Task : HandoverStep(t)]_vars

\* Request w's next statement locks its task, writes it without a lock, or
\* inserts a row that refers to it.
NeedsTask(w) ==
  \/ /\ req[w].pc = "read"
     /\ req[w].op # "create_task" /\ ~Resolving(req[w].op)
  \/ req[w].pc = "issue_locked"
  \/ At(w, "checked", "resolve_clarified")

\* Request w's next statement needs a row that v has locked.
WaitsFor(w, v) ==
  \/ NeedsTask(w) /\ taskLock[req[w].task] = v
  \/ /\ req[w].pc = "read" /\ Resolving(req[w].op)
     /\ issueLock[req[w].issue] = v

\* Whoever is waited for is another request, under way past its check, and no
\* group of requests waits for itself: the issue is locked before its task.
NoStandstill ==
  /\ \A w, v \in Worker :
       WaitsFor(w, v) => w # v /\ req[v].pc \in {"issue_locked", "checked"}
  /\ \A group \in SUBSET Worker :
       group # {} => \E w \in group : \A v \in group : ~WaitsFor(w, v)

-----------------------------------------------------------------------------
(* What the documents say and the code does not do *)

\* API_SPEC.md has submit and mark-billed for the assigned employee only: the
\* employee the task is with when its status changes.
OnlyAssigneeFinishes ==
  [][\A t \in Task :
       (/\ tasks'[t].status # tasks[t].status
        /\ tasks'[t].status \in {"submitted", "billed"})
       => \E w \in Worker : /\ req'[w] # req[w]
                            /\ req[w].task = t
                            /\ req[w].actor = tasks[t].assignee]_vars

\* The state machine of DATA_MODEL.md has no way out of completed and billed.
ClosedStaysClosed ==
  [][\A t \in Task : tasks[t].status \in {"completed", "billed"} =>
                        tasks'[t].status = tasks[t].status]_vars

-----------------------------------------------------------------------------
(* Refinement *)

Column(f) == [t \in Task |-> tasks[t][f]]
IssueColumn(f) == [i \in Issue |-> issues[i][f]]

Lifecycle == INSTANCE TaskLifecycle WITH
  status <- Column("status"), assignee <- Column("assignee"),
  billOf <- Column("parent"), issue <- IssueColumn("status"),
  about <- IssueColumn("task"), told <- resolutions

\* Seen from outside, every endpoint is one atomic lifecycle step.
ImplementsLifecycle == Lifecycle!Spec

-----------------------------------------------------------------------------
(* The inductive invariant behind the safety properties *)

Started(row) == row.status \notin {"absent", "created"}

HoldsTask(w) == req[w].pc = "checked" /\ req[w].op # "resolve_clarified"
HoldsIssue(w) ==
  req[w].pc \in {"issue_locked", "checked"} /\ Resolving(req[w].op)

\* A request past its check holds the row it checked, and has it fresh.
LocksHeldBy(w) ==
  /\ HoldsTask(w) => /\ taskLock[req[w].task] = w
                     /\ req[w].row = tasks[req[w].task]
  /\ HoldsIssue(w) => issueLock[req[w].issue] = w

LocksHeld == \A w \in Worker : LocksHeldBy(w)

\* The arguments of a request fit its endpoint and name existing rows.
RequestFits(w) ==
  /\ req[w].pc = "idle" <=> req[w].op = None
  /\ req[w].op \notin {"create_task", None} =>
       req[w].task \in Task /\ tasks[req[w].task].status # "absent"
  /\ req[w].op \in {"submit_task", "mark_task_billed", "create_issue"} =>
       req[w].actor \in Employee /\ Started(tasks[req[w].task])
  /\ req[w].op \in {"edit_task", "review_billing"} => req[w].to \in Employee
  /\ Resolving(req[w].op) => /\ req[w].issue \in Issue
                             /\ issues[req[w].issue].status # "absent"
                             /\ issues[req[w].issue].task = req[w].task
  /\ req[w].pc = "issue_locked" =>
       Resolving(req[w].op) /\ req[w].op # "resolve_clarified"
  /\ req[w].pc = "checked" =>
       req[w].op \notin {"create_task", "update_task_deadline", "create_issue"}

RequestOK == \A w \in Worker : RequestFits(w)

\* An issue is about a task that was handed out, and has a raiser.
IssuesOK ==
  \A i \in Issue :
    issues[i].status # "absent" => /\ issues[i].task \in Task
                                   /\ issues[i].raiser \in Employee
                                   /\ Started(tasks[issues[i].task])

IInv == /\ TypeOK /\ RequestOK /\ LocksHeld /\ DecisionsHold
        /\ HandedOutHasAssignee /\ IssuesOK
        /\ ReviewsMatchSubmissions /\ IssueResolvedOnce

\* A row is locked by a request past the check it locked the row for.
LockOwned ==
  /\ \A t \in Task : taskLock[t] # None =>
       HoldsTask(taskLock[t]) /\ req[taskLock[t]].task = t
  /\ \A i \in Issue : issueLock[i] # None =>
       HoldsIssue(issueLock[i]) /\ req[issueLock[i]].issue = i

-----------------------------------------------------------------------------
(* Liveness *)

\* Every request ends: no cycle of waits between the issue and task locks.
RequestsEnd ==
  \A w \in Worker : req[w].pc # "idle" ~> req[w].pc = "idle"

=============================================================================
