------------------------- MODULE TaskWorkflow_proofs -------------------------
(***************************************************************************)
(* Proofs about TaskWorkflow for any number of tasks, issues, employees,   *)
(* owners and concurrent requests.                                         *)
(***************************************************************************)
EXTENDS TaskWorkflow, TLAPS

-----------------------------------------------------------------------------
(* Frame lemmas: what a step of one request leaves true of the others *)

\* Request w ends and frees at most its own row locks.
Leaves(w) ==
  /\ req' = [req EXCEPT ![w] = Idle]
  /\ taskLock' \in [Task -> Worker \cup {None}]
  /\ issueLock' \in [Issue -> Worker \cup {None}]
  /\ \A t \in Task : taskLock[t] # w => taskLock'[t] = taskLock[t]
  /\ \A i \in Issue : issueLock[i] # w => issueLock'[i] = issueLock[i]

LEMMA ReleaseLeaves ==
  ASSUME TypeOK, NEW w \in Worker, Release(w)
  PROVE  Leaves(w)
BY DEF TypeOK, Release, Leaves

LEMMA RefuseLeaves ==
  ASSUME TypeOK, NEW w \in Worker, Refuse(w), UNCHANGED issueLock
  PROVE  Leaves(w)
BY DEF TypeOK, Refuse, Leaves

\* When a transaction of w ends, the other requests' arguments, locks and
\* decisions survive if the step neither undoes a row's existence nor touches
\* a row another request holds.
LEMMA Frame ==
  ASSUME IInv, NEW w \in Worker, Leaves(w),
         \A t \in Task : /\ tasks[t].status # "absent" => tasks'[t].status # "absent"
                         /\ Started(tasks[t]) => Started(tasks'[t]),
         \A i \in Issue : issues[i].status # "absent" =>
                            /\ issues'[i].status # "absent"
                            /\ issues'[i].task = issues[i].task,
         \A v \in Worker \ {w} :
           /\ HoldsTask(v) => tasks'[req[v].task] = tasks[req[v].task]
           /\ HoldsIssue(v) => issues'[req[v].issue] = issues[req[v].issue]
  PROVE  RequestOK' /\ LocksHeld' /\ DecisionsHold'
<1>1. req' = [req EXCEPT ![w] = Idle] /\ req \in [Worker -> Request]
  BY DEF Leaves, IInv, TypeOK
<1>2. \A v \in Worker \ {w} : req'[v] = req[v]
  BY <1>1
<1>3. req'[w].pc = "idle" /\ req'[w].op = None
  BY <1>1 DEF Idle
<1>4. RequestOK'
  <2> SUFFICES ASSUME NEW v \in Worker
               PROVE  RequestFits(v)'
    BY DEF RequestOK
  <2>1. CASE v = w
    BY <2>1, <1>3, NoneAssumption DEF RequestFits, Resolving, Operations
  <2>2. CASE v # w
    <3>1. RequestFits(v)
      BY DEF IInv, RequestOK
    <3> QED BY <2>2, <3>1, <1>2, NoneAssumption DEF RequestFits, Resolving, Operations
  <2> QED BY <2>1, <2>2
<1>5. LocksHeld'
  <2> SUFFICES ASSUME NEW v \in Worker
               PROVE  LocksHeldBy(v)'
    BY DEF LocksHeld
  <2>1. CASE v = w
    BY <2>1, <1>3 DEF LocksHeldBy, HoldsTask, HoldsIssue
  <2>2. CASE v # w
    <3>1. LocksHeldBy(v) /\ RequestFits(v)
      BY DEF IInv, RequestOK, LocksHeld
    <3>2. /\ taskLock \in [Task -> Worker \cup {None}]
          /\ issueLock \in [Issue -> Worker \cup {None}]
      BY DEF IInv, TypeOK
    <3>3. HoldsTask(v)' => HoldsTask(v) /\ req[v].task \in Task
      BY <2>2, <1>2, <3>1 DEF RequestFits, HoldsTask
    <3>4. HoldsIssue(v)' => HoldsIssue(v) /\ req[v].issue \in Issue
      BY <2>2, <1>2, <3>1 DEF RequestFits, HoldsIssue
    <3> QED BY <2>2, <3>1, <3>2, <3>3, <3>4, <1>2 DEF LocksHeldBy, Leaves
  <2> QED BY <2>1, <2>2
<1>6. DecisionsHold'
  <2> SUFFICES ASSUME NEW v \in Worker
               PROVE  DecisionHolds(v, tasks[req[v].task])'
    BY DEF DecisionsHold
  <2>1. CASE v = w
    BY <2>1, <1>3 DEF DecisionHolds, At
  <2>2. CASE v # w
    <3>1. DecisionHolds(v, tasks[req[v].task])
      BY DEF IInv, DecisionsHold
    <3> QED
      BY <2>2, <3>1, <1>2 DEF DecisionHolds, At, HoldsTask, HoldsIssue,
        Reviewing, Resolving, Submittable, Billable, Editable, Reviewable, InHand
  <2> QED BY <2>1, <2>2
<1> QED BY <1>4, <1>5, <1>6

\* A step that writes no modelled table keeps what is said of the tables.
LEMMA TablesFrame ==
  ASSUME IInv, UNCHANGED <<tasks, issues, unread, submissions, reviews, resolutions>>
  PROVE  /\ HandedOutHasAssignee' /\ IssuesOK'
         /\ ReviewsMatchSubmissions' /\ IssueResolvedOnce'
BY DEF IInv, HandedOutHasAssignee, IssuesOK, Started, ReviewsMatchSubmissions,
  IssueResolvedOnce

-----------------------------------------------------------------------------
(* Steps before the commit *)

\* A request that enters with fitting arguments keeps the invariant.
LEMMA BeginInv ==
  ASSUME IInv, NEW w \in Worker, NEW op \in Operations,
         NEW actor \in Employee \cup {None}, NEW t \in Task \cup {None},
         NEW i \in Issue \cup {None}, NEW to \in Employee \cup {None},
         NEW d \in Deadline \cup {None},
         Begin(w, op, actor, t, i, to, d),
         op # "create_task" => t \in Task /\ tasks[t].status # "absent",
         op \in {"submit_task", "mark_task_billed", "create_issue"} =>
           actor \in Employee /\ Started(tasks[t]),
         op \in {"edit_task", "review_billing"} => to \in Employee,
         Resolving(op) => /\ i \in Issue
                          /\ issues[i].status # "absent"
                          /\ issues[i].task = t
  PROVE  IInv'
<1> DEFINE new == [pc |-> "read", op |-> op, actor |-> actor, task |-> t,
                   issue |-> i, to |-> to, deadline |-> d,
                   row |-> IF t = None THEN NoTask ELSE tasks[t]]
<1>1. req' = [req EXCEPT ![w] = new] /\ req \in [Worker -> Request]
  BY DEF Begin, IInv, TypeOK
<1>2. UNCHANGED <<tasks, issues, active, unread, submissions, reviews,
                  resolutions, taskLock, issueLock>> /\ sent' = {}
  BY DEF Begin
<1>3. TypeOK'
  <2>1. NoTask \in TaskRow
    BY DEF NoTask, TaskRow, Status
  <2>2. t # None => tasks[t] \in TaskRow
    BY NoneAssumption DEF IInv, TypeOK
  <2>3. new \in Request
    BY <2>1, <2>2 DEF Request
  <2> HIDE DEF new
  <2>4. req' \in [Worker -> Request]
    BY <1>1, <2>3
  <2> QED BY <1>2, <2>4 DEF TypeOK, IInv
<1>4. \A v \in Worker \ {w} : req'[v] = req[v]
  BY <1>1
<1>5. req'[w] = new
  BY <1>1
<1>6. RequestOK'
  <2> SUFFICES ASSUME NEW v \in Worker
               PROVE  RequestFits(v)'
    BY DEF RequestOK
  <2>1. CASE v = w
    BY <2>1, <1>2, <1>5, NoneAssumption DEF RequestFits, Resolving, Started
  <2>2. CASE v # w
    BY <2>2, <1>2, <1>4 DEF RequestFits, Resolving, Started, IInv, RequestOK
  <2> QED BY <2>1, <2>2
<1>7. LocksHeld'
  <2> SUFFICES ASSUME NEW v \in Worker
               PROVE  LocksHeldBy(v)'
    BY DEF LocksHeld
  <2>1. CASE v = w
    BY <2>1, <1>5 DEF LocksHeldBy, HoldsTask, HoldsIssue
  <2>2. CASE v # w
    BY <2>2, <1>2, <1>4 DEF LocksHeldBy, HoldsTask, HoldsIssue, IInv, LocksHeld
  <2> QED BY <2>1, <2>2
<1>8. DecisionsHold'
  <2> SUFFICES ASSUME NEW v \in Worker
               PROVE  DecisionHolds(v, tasks[req[v].task])'
    BY DEF DecisionsHold
  <2>1. CASE v = w
    BY <2>1, <1>5 DEF DecisionHolds, At
  <2>2. CASE v # w
    <3>1. DecisionHolds(v, tasks[req[v].task])
      BY DEF IInv, DecisionsHold
    <3> QED BY <2>2, <3>1, <1>2, <1>4 DEF DecisionHolds, At
  <2> QED BY <2>1, <2>2
<1> QED BY <1>2, <1>3, <1>6, <1>7, <1>8, TablesFrame DEF IInv

\* A request that gives up, by a refusal or a rollback, keeps the invariant.
LEMMA EndInv ==
  ASSUME IInv, NEW w \in Worker, Leaves(w), sent' = {},
         UNCHANGED <<tasks, issues, active, unread, submissions, reviews, resolutions>>
  PROVE  IInv'
<1>1. RequestOK' /\ LocksHeld' /\ DecisionsHold'
  BY Frame
<1>2. TypeOK'
  <2>1. Idle \in Request
    BY DEF Idle, Request, NoTask, TaskRow, Status
  <2> QED BY <2>1 DEF TypeOK, IInv, Leaves
<1> QED BY <1>1, <1>2, TablesFrame DEF IInv

\* A granted row lock: the gate the handler passed is what DecisionsHold says.
LEMMA GrantInv ==
  ASSUME IInv, NEW w \in Worker, TaskFree(req[w].task), Grant(w), sent' = {},
         UNCHANGED <<tasks, issues, active, unread, submissions, reviews,
                     resolutions, issueLock>>,
         req[w].op \notin {None, "create_task", "update_task_deadline",
                           "create_issue", "resolve_clarified"},
         Resolving(req[w].op) => req[w].pc = "issue_locked",
         req[w].op = "edit_task" => Editable(Locked(w)),
         req[w].op = "submit_task" => Submittable(Locked(w), req[w].actor),
         req[w].op = "mark_task_billed" => Billable(Locked(w)),
         Reviewing(req[w].op) => Reviewable(Locked(w))
  PROVE  IInv'
<1> DEFINE t == req[w].task
<1>1. RequestFits(w) /\ LocksHeldBy(w) /\ DecisionHolds(w, tasks[t])
  BY DEF IInv, RequestOK, LocksHeld, DecisionsHold
<1>2. t \in Task /\ Locked(w) = tasks[t] /\ tasks[t] \in TaskRow
  BY <1>1 DEF RequestFits, Locked, Refreshed, IInv, TypeOK
<1>3. req \in [Worker -> Request] /\ taskLock \in [Task -> Worker \cup {None}]
  BY DEF IInv, TypeOK
<1>4. /\ req' = [req EXCEPT ![w] = [@ EXCEPT !.pc = "checked", !.row = tasks[t]]]
      /\ taskLock' = [taskLock EXCEPT ![t] = w]
  BY <1>2, <1>3 DEF Grant, Request
<1>5. \A v \in Worker \ {w} : req'[v] = req[v]
  BY <1>3, <1>4
<1>6. /\ req'[w] \in Request
      /\ req'[w].pc = "checked" /\ req'[w].row = tasks[t]
      /\ req'[w].op = req[w].op /\ req'[w].actor = req[w].actor
      /\ req'[w].task = t /\ req'[w].issue = req[w].issue
      /\ req'[w].to = req[w].to
  BY <1>2, <1>3, <1>4 DEF Request
<1>7. TypeOK'
  <2>1. req' \in [Worker -> Request] /\ taskLock' \in [Task -> Worker \cup {None}]
    BY <1>3, <1>4, <1>5, <1>6
  <2> QED BY <2>1 DEF IInv, TypeOK
<1>8. RequestOK'
  <2> SUFFICES ASSUME NEW v \in Worker
               PROVE  RequestFits(v)'
    BY DEF RequestOK
  <2>1. CASE v = w
    BY <2>1, <1>1, <1>6 DEF RequestFits, Resolving, Started
  <2>2. CASE v # w
    BY <2>2, <1>5 DEF RequestFits, Resolving, Started, IInv, RequestOK
  <2> QED BY <2>1, <2>2
<1>9. LocksHeld'
  <2> SUFFICES ASSUME NEW v \in Worker
               PROVE  LocksHeldBy(v)'
    BY DEF LocksHeld
  <2>1. CASE v = w
    BY <2>1, <1>1, <1>2, <1>3, <1>4, <1>6
       DEF LocksHeldBy, HoldsTask, HoldsIssue, Resolving
  <2>2. CASE v # w
    <3>1. LocksHeldBy(v)
      BY DEF IInv, LocksHeld
    <3>2. HoldsTask(v) => req[v].task # t
      BY <3>1, <2>2, NoneAssumption DEF LocksHeldBy, TaskFree
    <3> QED BY <2>2, <3>1, <3>2, <1>3, <1>4, <1>5 DEF LocksHeldBy, HoldsTask, HoldsIssue
  <2> QED BY <2>1, <2>2
<1>10. DecisionsHold'
  <2> SUFFICES ASSUME NEW v \in Worker
               PROVE  DecisionHolds(v, tasks[req[v].task])'
    BY DEF DecisionsHold
  <2>1. CASE v = w
    BY <2>1, <1>1, <1>2, <1>6 DEF DecisionHolds, At, Reviewing, Resolving,
       Submittable, Billable, Editable, Reviewable, InHand
  <2>2. CASE v # w
    <3>1. DecisionHolds(v, tasks[req[v].task])
      BY DEF IInv, DecisionsHold
    <3> QED BY <2>2, <3>1, <1>5 DEF DecisionHolds, At
  <2> QED BY <2>1, <2>2
<1> QED BY <1>7, <1>8, <1>9, <1>10, TablesFrame DEF IInv

-----------------------------------------------------------------------------
(* Commits *)

\* No other request holds a row that w holds or that is free.
LEMMA OthersElsewhere ==
  ASSUME IInv, NEW w \in Worker
  PROVE  /\ HoldsTask(w) \/ TaskFree(req[w].task) =>
              \A v \in Worker \ {w} : HoldsTask(v) => req[v].task # req[w].task
         /\ HoldsIssue(w) =>
              \A v \in Worker \ {w} : HoldsIssue(v) => req[v].issue # req[w].issue
         /\ \A t \in Task : tasks[t].status = "absent" =>
              \A v \in Worker : HoldsTask(v) => req[v].task # t
         /\ \A i \in Issue : issues[i].status = "absent" =>
              \A v \in Worker : HoldsIssue(v) => req[v].issue # i
<1>1. \A v \in Worker : LocksHeldBy(v) /\ RequestFits(v)
  BY DEF IInv, LocksHeld, RequestOK
<1>2. \A v \in Worker : HoldsTask(v) => tasks[req[v].task].status # "absent"
  BY <1>1, NoneAssumption DEF HoldsTask, RequestFits
<1>3. \A v \in Worker : HoldsIssue(v) => issues[req[v].issue].status # "absent"
  BY <1>1 DEF HoldsIssue, RequestFits
<1> QED BY <1>1, <1>2, <1>3, NoneAssumption DEF LocksHeldBy, TaskFree

\* A commit of w leaves the issue tables sound, and every issue that another
\* request holds as it was.
IssuesKept(w) ==
  /\ issues' \in [Issue -> IssueRow] /\ unread' \in [Issue -> SUBSET Owner]
  /\ resolutions' \in [Issue -> Nat]
  /\ \A i \in Issue : /\ issues'[i].task = issues[i].task
                      /\ issues'[i].raiser = issues[i].raiser
                      /\ issues'[i].status = "absent" <=> issues[i].status = "absent"
  /\ \A v \in Worker \ {w} : HoldsIssue(v) => issues'[req[v].issue] = issues[req[v].issue]
  /\ IssueResolvedOnce'

\* A commit of w that gives its own task a well-formed row, keeps the tally of
\* that task's reviews in step, and leaves the issues alone or resolves one.
LEMMA CommitTaskInv ==
  ASSUME IInv, NEW w \in Worker, Leaves(w), active' = active,
         HoldsTask(w) \/ TaskFree(req[w].task),
         req[w].task \in Task, tasks[req[w].task].status # "absent",
         NEW row \in TaskRow, tasks' = [tasks EXCEPT ![req[w].task] = row],
         row.status # "absent",
         Started(tasks[req[w].task]) => Started(row),
         row.assignee = None <=> row.status \in {"absent", "created"},
         row.status = "billed" => row.type = "billing",
         row.type = "billing" <=> row.parent # None,
         submissions' \in [Task -> Nat], reviews' \in [Task -> Nat],
         \A s \in Task \ {req[w].task} :
           submissions'[s] = submissions[s] /\ reviews'[s] = reviews[s],
         reviews'[req[w].task] <= submissions'[req[w].task],
         row.status = "submitted" => reviews'[req[w].task] < submissions'[req[w].task],
         sent' \subseteq Notification, IssuesKept(w)
  PROVE  IInv'
<1> DEFINE t == req[w].task
<1>1. tasks \in [Task -> TaskRow]
  BY DEF IInv, TypeOK
<1>2. tasks'[t] = row /\ \A s \in Task \ {t} : tasks'[s] = tasks[s]
  BY <1>1
<1>3. TypeOK'
  <2>1. Idle \in Request
    BY DEF Idle, Request, NoTask, TaskRow, Status
  <2>2. req' \in [Worker -> Request]
    BY <2>1 DEF IInv, TypeOK, Leaves
  <2>3. tasks' \in [Task -> TaskRow]
    BY <1>1
  <2> QED BY <2>2, <2>3 DEF TypeOK, IInv, Leaves, IssuesKept
<1>4. RequestOK' /\ LocksHeld' /\ DecisionsHold'
  <2>1. \A v \in Worker \ {w} : HoldsTask(v) => tasks'[req[v].task] = tasks[req[v].task]
    <3> SUFFICES ASSUME NEW v \in Worker \ {w}, HoldsTask(v)
                 PROVE  tasks'[req[v].task] = tasks[req[v].task]
      OBVIOUS
    <3>1. req[v].task # t
      BY OthersElsewhere
    <3>2. req[v].task \in Task
      BY DEF IInv, RequestOK, RequestFits, HoldsTask
    <3> QED BY <3>1, <3>2, <1>2
  <2>2. \A s \in Task : /\ tasks[s].status # "absent" => tasks'[s].status # "absent"
                        /\ Started(tasks[s]) => Started(tasks'[s])
    BY <1>2
  <2> QED BY <2>1, <2>2, Frame DEF IssuesKept
<1>5. HandedOutHasAssignee'
  BY <1>2 DEF IInv, HandedOutHasAssignee
<1>6. IssuesOK'
  BY <1>2 DEF IInv, IssuesOK, IssuesKept
<1>7. ReviewsMatchSubmissions'
  BY <1>2 DEF IInv, ReviewsMatchSubmissions
<1> QED BY <1>3, <1>4, <1>5, <1>6, <1>7 DEF IInv, IssuesKept

\* The rows the handlers write, field by field.
LEMMA WrittenRows ==
  ASSUME NEW row \in TaskRow, NEW to \in Employee \cup {None}
  PROVE  /\ \A st \in Status : /\ [row EXCEPT !.status = st] \in TaskRow
                               /\ [row EXCEPT !.status = st].status = st
                               /\ [row EXCEPT !.status = st].assignee = row.assignee
                               /\ [row EXCEPT !.status = st].type = row.type
                               /\ [row EXCEPT !.status = st].parent = row.parent
         /\ \A d \in Deadline \cup {None} :
              /\ [row EXCEPT !.deadline = d] \in TaskRow
              /\ [row EXCEPT !.deadline = d].status = row.status
              /\ [row EXCEPT !.deadline = d].assignee = row.assignee
              /\ [row EXCEPT !.deadline = d].type = row.type
              /\ [row EXCEPT !.deadline = d].parent = row.parent
         /\ /\ Edited(row, to) \in TaskRow
            /\ Edited(row, to).assignee = to
            /\ Edited(row, to).status = IF row.status = "created" THEN "assigned"
                                        ELSE row.status
            /\ Edited(row, to).type = row.type
            /\ Edited(row, to).parent = row.parent
         /\ /\ Reassigned(row, to) \in TaskRow
            /\ Reassigned(row, to).assignee = IF to = None THEN row.assignee ELSE to
            /\ Reassigned(row, to).status = "in_progress"
            /\ Reassigned(row, to).type = row.type
            /\ Reassigned(row, to).parent = row.parent
BY DEF TaskRow, Status, Edited, Reassigned

\* What a request past its check knows of its own task.
LEMMA OwnTask ==
  ASSUME IInv, NEW w \in Worker, req[w].op \notin {None, "create_task"}
  PROVE  /\ req[w] \in Request
         /\ req[w].task \in Task
         /\ tasks[req[w].task] \in TaskRow
         /\ tasks[req[w].task].status # "absent"
         /\ tasks[req[w].task].assignee = None
              <=> tasks[req[w].task].status \in {"absent", "created"}
         /\ tasks[req[w].task].status = "billed" => tasks[req[w].task].type = "billing"
         /\ tasks[req[w].task].type = "billing" <=> tasks[req[w].task].parent # None
         /\ reviews[req[w].task] \in Nat /\ submissions[req[w].task] \in Nat
         /\ reviews[req[w].task] <= submissions[req[w].task]
         /\ tasks[req[w].task].status = "submitted" =>
              reviews[req[w].task] < submissions[req[w].task]
         /\ DecisionHolds(w, tasks[req[w].task])
         /\ RequestFits(w) /\ LocksHeldBy(w)
<1>1. RequestFits(w) /\ LocksHeldBy(w) /\ DecisionHolds(w, tasks[req[w].task])
  BY DEF IInv, RequestOK, LocksHeld, DecisionsHold
<1>2. req[w].task \in Task /\ tasks[req[w].task].status # "absent"
  BY <1>1 DEF RequestFits
<1> QED
  BY <1>1, <1>2 DEF IInv, TypeOK, HandedOutHasAssignee, ReviewsMatchSubmissions

\* A step that leaves the issue tables alone keeps what is said of them.
LEMMA IssuesFrame ==
  ASSUME IInv, NEW w \in Worker, UNCHANGED <<issues, unread, resolutions>>
  PROVE  IssuesKept(w)
BY DEF IInv, TypeOK, IssueResolvedOnce, IssuesKept

\* An edit keeps the invariant.
LEMMA EditInv ==
  ASSUME IInv, NEW w \in Worker, CommitEditTask(w)
  PROVE  IInv'
<1> DEFINE t == req[w].task
           row == Edited(tasks[t], req[w].to)
<1>1. req[w].pc = "checked" /\ req[w].op = "edit_task" /\ HoldsTask(w)
  BY DEF CommitEditTask, At, HoldsTask
<1>2. /\ t \in Task /\ tasks[t] \in TaskRow /\ req[w].to \in Employee
      /\ Editable(tasks[t]) /\ req[w].row \in TaskRow
  BY <1>1, OwnTask, NoneAssumption DEF Operations, DecisionHolds, At, RequestFits, Request
<1>3. /\ row \in TaskRow /\ row.status = "assigned" /\ row.assignee = req[w].to
      /\ row.type = tasks[t].type /\ row.parent = tasks[t].parent
  BY <1>2, WrittenRows DEF Editable
<1>4. /\ tasks' = [tasks EXCEPT ![t] = row] /\ active' = active
      /\ UNCHANGED <<issues, unread, submissions, reviews, resolutions>>
  BY DEF CommitEditTask, CommitTask
<1>5. Leaves(w)
  BY ReleaseLeaves DEF CommitEditTask, CommitTask, IInv
<1>6. sent' \subseteq Notification
  BY <1>2 DEF CommitEditTask, CommitTask, Notify, Notification, TaskRow
<1>7. row.assignee # None
  BY <1>2, <1>3, NoneAssumption
<1> HIDE DEF row
<1> QED BY <1>1, <1>2, <1>3, <1>4, <1>5, <1>6, <1>7, OwnTask, IssuesFrame, CommitTaskInv,
           NoneAssumption DEF Operations, Started, IInv, TypeOK

\* A deadline change, which takes no lock of its own, keeps the invariant.
LEMMA DeadlineInv ==
  ASSUME IInv, NEW w \in Worker, CommitUpdateDeadline(w)
  PROVE  IInv'
<1> DEFINE t == req[w].task
           d == IF req[w].deadline = req[w].row.deadline THEN tasks[t].deadline
                ELSE req[w].deadline
           row == [tasks[t] EXCEPT !.deadline = d]
<1>1. req[w].op = "update_task_deadline" /\ TaskFree(t)
  BY DEF CommitUpdateDeadline, At
<1>2. t \in Task /\ tasks[t] \in TaskRow /\ req[w] \in Request
  BY <1>1, OwnTask, NoneAssumption DEF Operations
<1>3. d \in Deadline \cup {None}
  BY <1>2 DEF TaskRow, Request
<1>4. /\ tasks' = [tasks EXCEPT ![t] = row] /\ active' = active /\ sent' = {}
      /\ UNCHANGED <<issues, unread, submissions, reviews, resolutions>>
  BY <1>2 DEF CommitUpdateDeadline, CommitTask, TaskRow
<1>5. Leaves(w)
  BY ReleaseLeaves DEF CommitUpdateDeadline, CommitTask, IInv
<1> HIDE DEF d
<1>6. /\ row \in TaskRow /\ row.status = tasks[t].status
      /\ row.assignee = tasks[t].assignee
      /\ row.type = tasks[t].type /\ row.parent = tasks[t].parent
  BY <1>2, <1>3 DEF TaskRow
<1> HIDE DEF row
<1>7. /\ row.status # "absent" /\ (Started(tasks[t]) => Started(row))
      /\ row.assignee = None <=> row.status \in {"absent", "created"}
      /\ row.status = "billed" => row.type = "billing"
      /\ row.type = "billing" <=> row.parent # None
      /\ reviews'[t] <= submissions'[t]
      /\ row.status = "submitted" => reviews'[t] < submissions'[t]
  BY <1>1, <1>4, <1>6, OwnTask, NoneAssumption DEF Operations, Started
<1>8. submissions' \in [Task -> Nat] /\ reviews' \in [Task -> Nat]
  BY <1>4 DEF IInv, TypeOK
<1> HIDE DEF t
<1> QED BY <1>1, <1>2, <1>4, <1>5, <1>6, <1>7, <1>8, IssuesFrame, CommitTaskInv DEF t

\* A commit that only changes the status of the row its request holds, to one
\* that is reached through an assignee, and does not touch the issues.
LEMMA StatusInv ==
  ASSUME IInv, NEW w \in Worker, HoldsTask(w), NEW st \in Status, NEW notes,
         CommitTask(w, [tasks[req[w].task] EXCEPT !.status = st], notes),
         notes \subseteq Notification,
         st \notin {"absent", "created"}, Started(tasks[req[w].task]),
         st = "billed" => tasks[req[w].task].type = "billing",
         UNCHANGED <<issues, unread, resolutions>>,
         submissions' \in [Task -> Nat], reviews' \in [Task -> Nat],
         \A s \in Task \ {req[w].task} :
           submissions'[s] = submissions[s] /\ reviews'[s] = reviews[s],
         reviews'[req[w].task] <= submissions'[req[w].task],
         st = "submitted" => reviews'[req[w].task] < submissions'[req[w].task]
  PROVE  IInv'
<1> DEFINE t == req[w].task
           row == [tasks[t] EXCEPT !.status = st]
<1>1. req[w].op \notin {None, "create_task"}
  BY NoneAssumption DEF IInv, RequestOK, RequestFits, HoldsTask
<1>2. t \in Task /\ tasks[t] \in TaskRow
  BY <1>1, OwnTask
<1>3. /\ row \in TaskRow /\ row.status = st /\ row.assignee = tasks[t].assignee
      /\ row.type = tasks[t].type /\ row.parent = tasks[t].parent
  BY <1>2, WrittenRows
<1>4. Leaves(w)
  BY ReleaseLeaves DEF CommitTask, IInv
<1>5. tasks' = [tasks EXCEPT ![t] = row] /\ active' = active /\ sent' \subseteq Notification
  BY DEF CommitTask
<1> HIDE DEF row
<1>6. /\ row.status # "absent" /\ Started(row)
      /\ row.assignee = None <=> row.status \in {"absent", "created"}
      /\ row.status = "billed" => row.type = "billing"
      /\ row.type = "billing" <=> row.parent # None
      /\ row.status = "submitted" => reviews'[t] < submissions'[t]
  BY <1>1, <1>3, OwnTask DEF Started
<1>7. tasks[t].status # "absent"
  BY DEF Started
<1> QED BY <1>2, <1>3, <1>4, <1>5, <1>6, <1>7, IssuesFrame, CommitTaskInv

\* Submitting keeps the invariant.
LEMMA SubmitInv ==
  ASSUME IInv, NEW w \in Worker, CommitSubmitTask(w)
  PROVE  IInv'
<1> DEFINE t == req[w].task
<1>1. req[w].op = "submit_task" /\ HoldsTask(w) /\ At(w, "checked", "submit_task")
  BY DEF CommitSubmitTask, At, HoldsTask
<1>2. t \in Task /\ InHand(tasks[t]) /\ submissions[t] \in Nat
      /\ reviews[t] \in Nat /\ reviews[t] <= submissions[t]
  BY <1>1, OwnTask, NoneAssumption DEF Operations, DecisionHolds, Submittable
<1>3. /\ submissions' = [submissions EXCEPT ![t] = @ + 1]
      /\ UNCHANGED <<issues, unread, reviews, resolutions>>
      /\ CommitTask(w, [tasks[t] EXCEPT !.status = "submitted"],
                    NotifyOwners("task_submitted", t, None))
  BY DEF CommitSubmitTask
<1>4. NotifyOwners("task_submitted", t, None) \subseteq Notification
  BY <1>2 DEF NotifyOwners, Notify, Notification
<1>5. submissions' \in [Task -> Nat] /\ reviews' \in [Task -> Nat]
  BY <1>2, <1>3 DEF IInv, TypeOK
<1>6. /\ submissions'[t] = submissions[t] + 1
      /\ \A s \in Task \ {t} : submissions'[s] = submissions[s] /\ reviews'[s] = reviews[s]
      /\ reviews'[t] = reviews[t]
  BY <1>2, <1>3 DEF IInv, TypeOK
<1>7. reviews'[t] < submissions'[t]
  BY <1>2, <1>6
<1>8. reviews'[t] <= submissions'[t]
  BY <1>2, <1>6
<1> QED BY <1>1, <1>2, <1>3, <1>4, <1>5, <1>6, <1>7, <1>8, StatusInv DEF Started, InHand, Status

\* Billing keeps the invariant.
LEMMA BilledInv ==
  ASSUME IInv, NEW w \in Worker, CommitMarkTaskBilled(w)
  PROVE  IInv'
<1> DEFINE t == req[w].task
<1>1. /\ req[w].op = "mark_task_billed" /\ HoldsTask(w)
      /\ At(w, "checked", "mark_task_billed")
  BY DEF CommitMarkTaskBilled, At, HoldsTask
<1>2. t \in Task /\ InHand(tasks[t]) /\ tasks[t].type = "billing"
      /\ reviews[t] <= submissions[t]
  BY <1>1, OwnTask, NoneAssumption DEF Operations, DecisionHolds, Billable
<1>3. /\ UNCHANGED <<issues, unread, reviews, resolutions, submissions>>
      /\ CommitTask(w, [tasks[t] EXCEPT !.status = "billed"], {})
  BY DEF CommitMarkTaskBilled
<1>4. submissions' \in [Task -> Nat] /\ reviews' \in [Task -> Nat]
  BY <1>3 DEF IInv, TypeOK
<1>5. /\ \A s \in Task \ {t} : submissions'[s] = submissions[s] /\ reviews'[s] = reviews[s]
      /\ reviews'[t] <= submissions'[t] /\ Started(tasks[t]) /\ "billed" \in Status
  BY <1>2, <1>3 DEF Started, InHand, Status
<1>6. {} \subseteq Notification
  OBVIOUS
<1> QED BY <1>1, <1>2, <1>3, <1>4, <1>5, <1>6, StatusInv

\* What a review finds under its lock, and what its verdict row adds.
LEMMA ReviewFacts ==
  ASSUME IInv, NEW w \in Worker, req[w].pc = "checked", Reviewing(req[w].op), ReviewRow(w)
  PROVE  /\ HoldsTask(w) /\ req[w].op \notin {None, "create_task"}
         /\ req[w].task \in Task /\ tasks[req[w].task].status = "submitted"
         /\ UNCHANGED <<issues, unread, submissions, resolutions>>
         /\ submissions' \in [Task -> Nat] /\ reviews' \in [Task -> Nat]
         /\ \A s \in Task \ {req[w].task} :
              submissions'[s] = submissions[s] /\ reviews'[s] = reviews[s]
         /\ reviews'[req[w].task] <= submissions'[req[w].task]
<1> DEFINE t == req[w].task
<1>1. HoldsTask(w) /\ req[w].op \notin {None, "create_task"}
  BY NoneAssumption DEF HoldsTask, Reviewing, Operations
<1>2. /\ t \in Task /\ tasks[t].status = "submitted"
      /\ reviews[t] \in Nat /\ submissions[t] \in Nat /\ reviews[t] < submissions[t]
  BY <1>1, OwnTask DEF DecisionHolds, Reviewable
<1>3. /\ reviews' = [reviews EXCEPT ![t] = @ + 1]
      /\ UNCHANGED <<issues, unread, submissions, resolutions>>
  BY DEF ReviewRow
<1>4. submissions' \in [Task -> Nat] /\ reviews' \in [Task -> Nat]
  BY <1>2, <1>3 DEF IInv, TypeOK
<1>5. /\ reviews'[t] = reviews[t] + 1 /\ submissions'[t] = submissions[t]
      /\ \A s \in Task \ {t} : submissions'[s] = submissions[s] /\ reviews'[s] = reviews[s]
  BY <1>2, <1>3 DEF IInv, TypeOK
<1>6. reviews'[t] <= submissions'[t]
  BY <1>2, <1>5
<1> QED BY <1>1, <1>2, <1>3, <1>4, <1>5, <1>6

\* Approving keeps the invariant.
LEMMA ApprovedInv ==
  ASSUME IInv, NEW w \in Worker, CommitReviewApproved(w)
  PROVE  IInv'
<1>1. /\ req[w].pc = "checked" /\ Reviewing(req[w].op) /\ ReviewRow(w)
      /\ CommitTask(w, [tasks[req[w].task] EXCEPT !.status = "completed"], {})
  BY DEF CommitReviewApproved, At, Reviewing
<1>2. "completed" \in Status /\ {} \subseteq Notification
  BY DEF Status
<1>3. Started(tasks[req[w].task])
  BY <1>1, ReviewFacts DEF Started
<1> QED BY <1>1, <1>2, <1>3, ReviewFacts, StatusInv

\* A task sent back in progress by the request that holds it.
LEMMA SentBackInv ==
  ASSUME IInv, NEW w \in Worker, HoldsTask(w), Leaves(w), active' = active,
         Started(tasks[req[w].task]),
         tasks' = [tasks EXCEPT ![req[w].task] = Reassigned(tasks[req[w].task], req[w].to)],
         submissions' \in [Task -> Nat], reviews' \in [Task -> Nat],
         \A s \in Task \ {req[w].task} :
           submissions'[s] = submissions[s] /\ reviews'[s] = reviews[s],
         reviews'[req[w].task] <= submissions'[req[w].task],
         sent' \subseteq Notification, IssuesKept(w)
  PROVE  IInv'
<1> DEFINE t == req[w].task
           row == Reassigned(tasks[t], req[w].to)
<1>1. req[w].op \notin {None, "create_task"}
  BY NoneAssumption DEF IInv, RequestOK, RequestFits, HoldsTask
<1>2. t \in Task /\ tasks[t] \in TaskRow /\ req[w].to \in Employee \cup {None}
  BY <1>1, OwnTask DEF Request
<1>3. /\ row \in TaskRow /\ row.status = "in_progress"
      /\ row.assignee = IF req[w].to = None THEN tasks[t].assignee ELSE req[w].to
      /\ row.type = tasks[t].type /\ row.parent = tasks[t].parent
  BY <1>2, WrittenRows
<1>4. tasks' = [tasks EXCEPT ![t] = row]
  OBVIOUS
<1> HIDE DEF row
<1>5. /\ row.status # "absent" /\ Started(row)
      /\ row.assignee = None <=> row.status \in {"absent", "created"}
      /\ row.status = "billed" => row.type = "billing"
      /\ row.type = "billing" <=> row.parent # None
      /\ row.status = "submitted" => reviews'[t] < submissions'[t]
  BY <1>1, <1>3, OwnTask DEF Started
<1>6. tasks[t].status # "absent"
  BY DEF Started
<1> QED BY <1>2, <1>3, <1>4, <1>5, <1>6, CommitTaskInv

\* Whoever a started task lands on is an employee that can be notified.
LEMMA ReassignNotesType ==
  ASSUME IInv, NEW w \in Worker, HoldsTask(w), Started(tasks[req[w].task])
  PROVE  ReassignNotes(req[w].task, tasks[req[w].task],
                       Reassigned(tasks[req[w].task], req[w].to)) \subseteq Notification
<1> DEFINE t == req[w].task
           row == Reassigned(tasks[t], req[w].to)
<1>1. req[w].op \notin {None, "create_task"}
  BY NoneAssumption DEF IInv, RequestOK, RequestFits, HoldsTask
<1>2. t \in Task /\ tasks[t] \in TaskRow /\ req[w].to \in Employee \cup {None}
  BY <1>1, OwnTask DEF Request
<1>3. tasks[t].assignee \in Employee
  BY <1>1, <1>2, OwnTask DEF Started, TaskRow
<1>4. row.assignee \in Employee
  BY <1>2, <1>3, WrittenRows
<1> HIDE DEF row
<1>5. ReassignNotes(t, tasks[t], row) \subseteq Notification
  BY <1>2, <1>4 DEF ReassignNotes, Notify, Notification
<1> QED BY <1>5 DEF row

\* A review that sends the task back keeps the invariant.
LEMMA ReassignedInv ==
  ASSUME IInv, NEW w \in Worker, CommitReviewReassigned(w)
  PROVE  IInv'
<1> DEFINE t == req[w].task
           row == Reassigned(tasks[t], req[w].to)
<1>1. req[w].pc = "checked" /\ Reviewing(req[w].op) /\ ReviewRow(w)
  BY DEF CommitReviewReassigned, At, Reviewing
<1>2. /\ tasks' = [tasks EXCEPT ![t] = row] /\ active' = active
      /\ sent' = ReassignNotes(t, tasks[t], row) /\ Release(w)
  BY DEF CommitReviewReassigned, CommitTask
<1>3. Leaves(w)
  BY <1>2, ReleaseLeaves DEF IInv
<1>4. HoldsTask(w) /\ Started(tasks[t])
  BY <1>1, ReviewFacts DEF Started
<1>5. sent' \subseteq Notification
  BY <1>2, <1>4, ReassignNotesType
<1>6. UNCHANGED <<issues, unread, resolutions>>
  BY <1>1 DEF ReviewRow
<1> QED BY <1>1, <1>2, <1>3, <1>4, <1>5, <1>6, ReviewFacts, IssuesFrame, SentBackInv

\* What a resolution changes besides its task.
LEMMA ResolveFacts ==
  ASSUME IInv, NEW w \in Worker, req[w].pc = "checked", Resolving(req[w].op),
         NEW notes, ResolveRows(w, notes), notes \subseteq Notification
  PROVE  /\ Leaves(w) /\ active' = active /\ UNCHANGED <<submissions, reviews>>
         /\ submissions' \in [Task -> Nat] /\ reviews' \in [Task -> Nat]
         /\ sent' \subseteq Notification /\ IssuesKept(w)
         /\ req[w].op \notin {None, "create_task"}
         /\ Started(tasks[req[w].task])
<1> DEFINE i == req[w].issue
<1>1. req[w].op \notin {None, "create_task"} /\ HoldsIssue(w)
  BY NoneAssumption DEF Resolving, Operations, HoldsIssue
<1>2. /\ i \in Issue /\ issues[i].status = "open" /\ issues[i].task = req[w].task
      /\ req[w].task \in Task
  BY <1>1, OwnTask DEF RequestFits, DecisionHolds
<1>3. issues[i].raiser \in Employee /\ Started(tasks[req[w].task])
  BY <1>2 DEF IInv, IssuesOK
<1>4. /\ issues \in [Issue -> IssueRow] /\ unread \in [Issue -> SUBSET Owner]
      /\ resolutions \in [Issue -> Nat]
      /\ submissions \in [Task -> Nat] /\ reviews \in [Task -> Nat]
  BY DEF IInv, TypeOK
<1>5. /\ issues' = [issues EXCEPT ![i] = [issues[i] EXCEPT !.status = "resolved"]]
      /\ unread' = [unread EXCEPT ![i] = {}]
      /\ resolutions' = [resolutions EXCEPT ![i] = resolutions[i] + 1]
      /\ sent' = notes \cup {Notify("issue_resolved", issues[i].raiser, issues[i].task, i)}
      /\ Release(w) /\ active' = active /\ UNCHANGED <<submissions, reviews>>
  BY <1>2, <1>4 DEF ResolveRows, IssueRow
<1>6. Leaves(w)
  BY <1>5, ReleaseLeaves DEF IInv
<1>7. /\ issues'[i] = [issues[i] EXCEPT !.status = "resolved"]
      /\ issues[i] \in IssueRow
      /\ \A j \in Issue \ {i} : issues'[j] = issues[j]
  BY <1>2, <1>4, <1>5
<1>8. /\ issues'[i].status = "resolved" /\ issues'[i].task = issues[i].task
      /\ issues'[i].raiser = issues[i].raiser /\ issues'[i] \in IssueRow
  BY <1>7 DEF IssueRow
<1>9. /\ issues' \in [Issue -> IssueRow] /\ unread' \in [Issue -> SUBSET Owner]
      /\ resolutions' \in [Issue -> Nat]
  <2>1. issues' \in [Issue -> IssueRow]
    BY <1>2, <1>4, <1>5, <1>7, <1>8
  <2>2. unread' \in [Issue -> SUBSET Owner] /\ resolutions' \in [Issue -> Nat]
    BY <1>2, <1>4, <1>5
  <2> QED BY <2>1, <2>2
<1>10. sent' \subseteq Notification
  BY <1>2, <1>3, <1>5 DEF Notify, Notification
<1>11. IssueResolvedOnce'
  <2>1. resolutions[i] = 0
    BY <1>2 DEF IInv, IssueResolvedOnce
  <2>2. /\ resolutions'[i] = 1 /\ unread'[i] = {}
        /\ \A j \in Issue \ {i} : resolutions'[j] = resolutions[j] /\ unread'[j] = unread[j]
    BY <1>2, <1>4, <1>5, <2>1
  <2> QED BY <1>7, <1>8, <2>2 DEF IInv, IssueResolvedOnce
<1>12. \A v \in Worker \ {w} : HoldsIssue(v) => issues'[req[v].issue] = issues[req[v].issue]
  <2> SUFFICES ASSUME NEW v \in Worker \ {w}, HoldsIssue(v)
               PROVE  issues'[req[v].issue] = issues[req[v].issue]
    OBVIOUS
  <2>1. req[v].issue # i
    BY <1>1, OthersElsewhere
  <2>2. req[v].issue \in Issue
    BY DEF IInv, RequestOK, RequestFits, HoldsIssue
  <2> QED BY <1>7, <2>1, <2>2
<1>13. \A j \in Issue : /\ issues'[j].task = issues[j].task
                        /\ issues'[j].raiser = issues[j].raiser
                        /\ issues'[j].status = "absent" <=> issues[j].status = "absent"
  BY <1>2, <1>7, <1>8
<1>14. IssuesKept(w)
  BY <1>9, <1>11, <1>12, <1>13 DEF IssuesKept
<1> QED BY <1>1, <1>3, <1>4, <1>5, <1>6, <1>10, <1>14

\* Resolving with an answer, which locks no task, keeps the invariant.
LEMMA ClarifiedInv ==
  ASSUME IInv, NEW w \in Worker, CommitResolveClarified(w)
  PROVE  IInv'
<1>1. /\ req[w].pc = "checked" /\ Resolving(req[w].op) /\ ResolveRows(w, {})
      /\ tasks' = tasks
  BY DEF CommitResolveClarified, At, Resolving
<1>2. {} \subseteq Notification
  OBVIOUS
<1>3. /\ Leaves(w) /\ active' = active /\ UNCHANGED <<submissions, reviews>>
      /\ sent' \subseteq Notification /\ IssuesKept(w)
  BY <1>1, <1>2, ResolveFacts
<1>4. RequestOK' /\ LocksHeld' /\ DecisionsHold'
  BY <1>1, <1>3, Frame DEF IssuesKept
<1>5. TypeOK'
  <2>1. Idle \in Request
    BY DEF Idle, Request, NoTask, TaskRow, Status
  <2> QED BY <1>1, <1>3, <2>1 DEF TypeOK, IInv, Leaves, IssuesKept
<1>6. HandedOutHasAssignee' /\ ReviewsMatchSubmissions'
  BY <1>1, <1>3 DEF IInv, HandedOutHasAssignee, ReviewsMatchSubmissions
<1>7. IssuesOK'
  BY <1>1, <1>3 DEF IInv, IssuesOK, Started, IssuesKept
<1> QED BY <1>3, <1>4, <1>5, <1>6, <1>7 DEF IInv, IssuesKept

\* Resolving with a new deadline keeps the invariant.
LEMMA DeadlineAdjustedInv ==
  ASSUME IInv, NEW w \in Worker, CommitResolveDeadlineAdjusted(w)
  PROVE  IInv'
<1> DEFINE t == req[w].task
           row == [tasks[t] EXCEPT !.deadline = req[w].deadline]
<1>1. /\ req[w].pc = "checked" /\ Resolving(req[w].op) /\ ResolveRows(w, {})
      /\ {} \subseteq Notification /\ HoldsTask(w)
  BY DEF CommitResolveDeadlineAdjusted, At, Resolving, HoldsTask
<1>2. req[w].op \notin {None, "create_task"} /\ Started(tasks[t])
  BY <1>1, ResolveFacts
<1>3. t \in Task /\ tasks[t] \in TaskRow /\ req[w].deadline \in Deadline \cup {None}
  BY <1>2, OwnTask DEF Request
<1>4. tasks' = [tasks EXCEPT ![t] = row]
  BY DEF CommitResolveDeadlineAdjusted
<1>5. /\ row \in TaskRow /\ row.status = tasks[t].status
      /\ row.assignee = tasks[t].assignee
      /\ row.type = tasks[t].type /\ row.parent = tasks[t].parent
  BY <1>3, WrittenRows
<1> HIDE DEF row
<1>6. /\ Leaves(w) /\ active' = active /\ UNCHANGED <<submissions, reviews>>
      /\ submissions' \in [Task -> Nat] /\ reviews' \in [Task -> Nat]
      /\ sent' \subseteq Notification /\ IssuesKept(w)
  BY <1>1, ResolveFacts
<1>7. /\ row.status # "absent" /\ (Started(tasks[t]) => Started(row))
      /\ row.assignee = None <=> row.status \in {"absent", "created"}
      /\ row.status = "billed" => row.type = "billing"
      /\ row.type = "billing" <=> row.parent # None
      /\ reviews'[t] <= submissions'[t]
      /\ row.status = "submitted" => reviews'[t] < submissions'[t]
      /\ tasks[t].status # "absent"
      /\ \A s \in Task \ {t} : submissions'[s] = submissions[s] /\ reviews'[s] = reviews[s]
  BY <1>2, <1>5, <1>6, OwnTask DEF Started
<1> QED BY <1>1, <1>3, <1>4, <1>5, <1>6, <1>7, CommitTaskInv

\* Resolving by sending the task back, from whatever state, keeps the invariant.
LEMMA ResolveReassignedInv ==
  ASSUME IInv, NEW w \in Worker, CommitResolveReassigned(w)
  PROVE  IInv'
<1> DEFINE t == req[w].task
           row == Reassigned(tasks[t], req[w].to)
           notes == ReassignNotes(t, tasks[t], row)
<1>1. /\ req[w].pc = "checked" /\ Resolving(req[w].op) /\ ResolveRows(w, notes)
      /\ HoldsTask(w) /\ tasks' = [tasks EXCEPT ![t] = row]
  BY DEF CommitResolveReassigned, At, Resolving, HoldsTask
<1>2. Started(tasks[t]) /\ req[w].op \notin {None, "create_task"}
  <2>1. /\ RequestFits(w) /\ DecisionHolds(w, tasks[t])
    BY DEF IInv, RequestOK, DecisionsHold
  <2> QED BY <1>1, <2>1, NoneAssumption
       DEF RequestFits, DecisionHolds, IInv, IssuesOK, Resolving, Operations
<1>3. notes \subseteq Notification
  BY <1>1, <1>2, ReassignNotesType
<1> HIDE DEF notes
<1>4. /\ Leaves(w) /\ active' = active /\ UNCHANGED <<submissions, reviews>>
      /\ submissions' \in [Task -> Nat] /\ reviews' \in [Task -> Nat]
      /\ sent' \subseteq Notification /\ IssuesKept(w)
  BY <1>1, <1>3, ResolveFacts
<1>5. /\ reviews'[t] <= submissions'[t]
      /\ \A s \in Task \ {t} : submissions'[s] = submissions[s] /\ reviews'[s] = reviews[s]
  BY <1>2, <1>4, OwnTask
<1> QED BY <1>1, <1>2, <1>4, <1>5, SentBackInv

\* Creating a task keeps the invariant: the row it fills is nobody's.
LEMMA CreateTaskInv ==
  ASSUME IInv, NEW w \in Worker, CommitCreateTask(w)
  PROVE  IInv'
<1>1. PICK t \in Task :
        /\ tasks[t].status = "absent"
        /\ tasks' = [tasks EXCEPT ![t] =
             [NoTask EXCEPT !.status = IF req[w].to = None THEN "created" ELSE "assigned",
                            !.assignee = req[w].to,
                            !.deadline = req[w].deadline]]
        /\ sent' = IF req[w].to = None THEN {}
                   ELSE {Notify("task_assigned", req[w].to, t, None)}
  BY DEF CommitCreateTask
<1>2. /\ Release(w) /\ UNCHANGED <<issues, active, unread, submissions, reviews, resolutions>>
  BY DEF CommitCreateTask
<1>3. Leaves(w)
  BY <1>2, ReleaseLeaves DEF IInv
<1>4. req[w] \in Request /\ tasks \in [Task -> TaskRow]
  BY DEF IInv, TypeOK
<1>5. /\ tasks'[t] \in TaskRow /\ tasks'[t].status \in {"created", "assigned"}
      /\ tasks'[t].status = "created" <=> tasks'[t].assignee = None
      /\ tasks'[t].type = "standard" /\ tasks'[t].parent = None
      /\ \A s \in Task \ {t} : tasks'[s] = tasks[s]
  BY <1>1, <1>4 DEF NoTask, TaskRow, Status, Request
<1>6. TypeOK'
  <2>1. Idle \in Request
    BY DEF Idle, Request, NoTask, TaskRow, Status
  <2>2. tasks' \in [Task -> TaskRow]
    BY <1>1, <1>4, <1>5
  <2>3. sent' \subseteq Notification
    BY <1>1, <1>4 DEF Notify, Notification, Request
  <2> QED BY <1>2, <1>3, <2>1, <2>2, <2>3 DEF TypeOK, IInv, Leaves
<1>7. RequestOK' /\ LocksHeld' /\ DecisionsHold'
  <2>1. \A v \in Worker \ {w} : HoldsTask(v) => tasks'[req[v].task] = tasks[req[v].task]
    <3> SUFFICES ASSUME NEW v \in Worker \ {w}, HoldsTask(v)
                 PROVE  tasks'[req[v].task] = tasks[req[v].task]
      OBVIOUS
    <3>1. req[v].task # t
      BY <1>1, OthersElsewhere
    <3>2. req[v].task \in Task
      BY DEF IInv, RequestOK, RequestFits, HoldsTask
    <3> QED BY <3>1, <3>2, <1>5
  <2>2. \A s \in Task : /\ tasks[s].status # "absent" => tasks'[s].status # "absent"
                        /\ Started(tasks[s]) => Started(tasks'[s])
    BY <1>1, <1>5 DEF Started
  <2> QED BY <1>2, <1>3, <2>1, <2>2, Frame
<1>8. HandedOutHasAssignee' /\ ReviewsMatchSubmissions'
  BY <1>1, <1>2, <1>5 DEF IInv, HandedOutHasAssignee, ReviewsMatchSubmissions
<1>9. IssuesOK' /\ IssueResolvedOnce'
  BY <1>1, <1>2, <1>5 DEF IInv, IssuesOK, IssueResolvedOnce, Started
<1> QED BY <1>6, <1>7, <1>8, <1>9 DEF IInv

\* A review that completes the task and opens its billing task keeps the
\* invariant: the submitted row is this request's, the new row nobody's.
LEMMA ChargedInv ==
  ASSUME IInv, NEW w \in Worker, CommitReviewBilling(w)
  PROVE  IInv'
<1> DEFINE t == req[w].task
<1>1. PICK b \in Task :
        /\ tasks[b].status = "absent"
        /\ tasks' = [tasks EXCEPT
             ![t].status = "completed",
             ![b] = BillingTask(t, req[w].to, req[w].deadline)]
  BY DEF CommitReviewBilling
<1>2. /\ req[w].pc = "checked" /\ Reviewing(req[w].op) /\ ReviewRow(w)
      /\ req[w].op = "review_billing"
      /\ sent' = {} /\ Release(w) /\ active' = active
  BY DEF CommitReviewBilling, At, Reviewing
<1>3. Leaves(w)
  BY <1>2, ReleaseLeaves DEF IInv
<1>4. /\ t \in Task /\ tasks[t] \in TaskRow /\ tasks[t].status = "submitted"
      /\ HoldsTask(w) /\ req[w].to \in Employee
      /\ req[w].deadline \in Deadline \cup {None} /\ t # b
  BY <1>1, <1>2, ReviewFacts, OwnTask, NoneAssumption DEF Request, RequestFits, Operations
<1>5. tasks \in [Task -> TaskRow]
  BY DEF IInv, TypeOK
<1>6. /\ tasks'[t] = [tasks[t] EXCEPT !.status = "completed"]
      /\ tasks'[b] = BillingTask(t, req[w].to, req[w].deadline)
      /\ \A s \in Task \ {t, b} : tasks'[s] = tasks[s]
  <2> HIDE DEF t
  <2> QED BY <1>1, <1>4, <1>5
<1>7. /\ tasks'[t] \in TaskRow /\ tasks'[t].status = "completed"
      /\ tasks'[t].assignee = tasks[t].assignee
      /\ tasks'[t].type = tasks[t].type /\ tasks'[t].parent = tasks[t].parent
  <2>1. "completed" \in Status
    BY DEF Status
  <2> QED BY <1>4, <1>6, <2>1, WrittenRows
<1>8. /\ tasks'[b] \in TaskRow /\ tasks'[b].status = "assigned"
      /\ tasks'[b].assignee # None /\ tasks'[b].type = "billing" /\ tasks'[b].parent # None
  BY <1>4, <1>6, NoneAssumption DEF BillingTask, TaskRow, Status
<1>9. TypeOK'
  <2>1. Idle \in Request
    BY DEF Idle, Request, NoTask, TaskRow, Status
  <2>2. tasks' \in [Task -> TaskRow]
    BY <1>1, <1>5, <1>6, <1>7, <1>8
  <2>3. UNCHANGED <<issues, unread, resolutions>> /\ submissions' \in [Task -> Nat]
        /\ reviews' \in [Task -> Nat]
    BY <1>2, ReviewFacts
  <2> QED BY <1>2, <1>3, <2>1, <2>2, <2>3 DEF TypeOK, IInv, Leaves
<1>10. RequestOK' /\ LocksHeld' /\ DecisionsHold'
  <2>1. \A v \in Worker \ {w} : HoldsTask(v) => tasks'[req[v].task] = tasks[req[v].task]
    <3> SUFFICES ASSUME NEW v \in Worker \ {w}, HoldsTask(v)
                 PROVE  tasks'[req[v].task] = tasks[req[v].task]
      OBVIOUS
    <3>1. req[v].task # t /\ req[v].task # b
      BY <1>1, <1>4, OthersElsewhere
    <3>2. req[v].task \in Task
      BY DEF IInv, RequestOK, RequestFits, HoldsTask
    <3> QED BY <3>1, <3>2, <1>6
  <2>2. \A s \in Task : /\ tasks[s].status # "absent" => tasks'[s].status # "absent"
                        /\ Started(tasks[s]) => Started(tasks'[s])
    BY <1>1, <1>6, <1>7, <1>8 DEF Started
  <2>3. UNCHANGED issues
    BY <1>2, ReviewFacts
  <2> QED BY <1>3, <2>1, <2>2, <2>3, Frame
<1>11. HandedOutHasAssignee'
  <2>1. tasks[t].assignee # None
    BY <1>4 DEF IInv, HandedOutHasAssignee
  <2>2. tasks[t].type = "billing" <=> tasks[t].parent # None
    BY <1>4 DEF IInv, HandedOutHasAssignee
  <2>3. \A s \in Task \ {t, b} :
          /\ tasks'[s].assignee = None <=> tasks'[s].status \in {"absent", "created"}
          /\ tasks'[s].status = "billed" => tasks'[s].type = "billing"
          /\ tasks'[s].type = "billing" <=> tasks'[s].parent # None
    BY <1>6 DEF IInv, HandedOutHasAssignee
  <2> HIDE DEF t
  <2> QED BY <1>7, <1>8, <2>1, <2>2, <2>3 DEF HandedOutHasAssignee
<1>12. ReviewsMatchSubmissions'
  <2>1. /\ \A s \in Task \ {t} : submissions'[s] = submissions[s] /\ reviews'[s] = reviews[s]
        /\ reviews'[t] <= submissions'[t]
    BY <1>2, ReviewFacts
  <2>2. \A s \in Task : /\ reviews[s] <= submissions[s]
                        /\ tasks[s].status = "submitted" => reviews[s] < submissions[s]
    BY DEF IInv, ReviewsMatchSubmissions
  <2> HIDE DEF t
  <2>3. SUFFICES ASSUME NEW s \in Task
                 PROVE  /\ reviews'[s] <= submissions'[s]
                        /\ tasks'[s].status = "submitted" => reviews'[s] < submissions'[s]
    BY DEF ReviewsMatchSubmissions
  <2>4. CASE s = t
    BY <1>7, <2>1, <2>4
  <2>5. CASE s = b
    BY <1>4, <1>8, <2>1, <2>2, <2>5
  <2>6. CASE s \notin {t, b}
    BY <1>6, <2>1, <2>2, <2>6
  <2> QED BY <2>4, <2>5, <2>6
<1>13. IssuesOK' /\ IssueResolvedOnce'
  <2>1. UNCHANGED <<issues, unread, resolutions>>
    BY <1>2, ReviewFacts
  <2>2. \A s \in Task : Started(tasks[s]) => Started(tasks'[s])
    BY <1>1, <1>6, <1>7, <1>8 DEF Started
  <2>3. IssuesOK'
    BY <2>1, <2>2 DEF IInv, IssuesOK
  <2>4. IssueResolvedOnce'
    BY <2>1 DEF IInv, IssueResolvedOnce
  <2> QED BY <2>3, <2>4
<1> QED BY <1>9, <1>10, <1>11, <1>12, <1>13 DEF IInv

\* Raising an issue, or being refused, keeps the invariant: the task may have
\* moved on since the route read it, but it was handed out and still is.
LEMMA CreateIssueInv ==
  ASSUME IInv, NEW w \in Worker, CommitCreateIssue(w)
  PROVE  IInv'
<1> DEFINE t == req[w].task
<1>1. /\ req[w].op = "create_issue" /\ req[w].pc = "read" /\ Release(w)
      /\ UNCHANGED <<tasks, active, submissions, reviews, resolutions>>
  BY DEF CommitCreateIssue, At
<1>2. Leaves(w)
  BY <1>1, ReleaseLeaves DEF IInv
<1>3. CASE sent' = {} /\ UNCHANGED <<issues, unread>>
  BY <1>1, <1>2, <1>3, EndInv
<1>4. ASSUME NEW i \in Issue, issues[i].status = "absent",
             issues' = [issues EXCEPT ![i] =
               [status |-> "open", task |-> t, raiser |-> req[w].actor]],
             unread' = [unread EXCEPT ![i] = Owner],
             sent' = NotifyOwners("issue_raised", t, i)
      PROVE  IInv'
  <2>1. t \in Task /\ req[w].actor \in Employee /\ Started(tasks[t])
    BY <1>1, OwnTask, NoneAssumption DEF RequestFits, Operations
  <2>2. /\ issues'[i].status = "open" /\ issues'[i].task = t
        /\ issues'[i].raiser = req[w].actor /\ issues'[i] \in IssueRow
        /\ \A j \in Issue \ {i} : issues'[j] = issues[j]
    BY <1>4, <2>1 DEF IInv, TypeOK, IssueRow
  <2>3. TypeOK'
    <3>1. Idle \in Request
      BY DEF Idle, Request, NoTask, TaskRow, Status
    <3>2. issues' \in [Issue -> IssueRow]
      BY <1>4, <2>2 DEF IInv, TypeOK
    <3>3. sent' \subseteq Notification
      BY <1>4, <2>1 DEF NotifyOwners, Notify, Notification
    <3> QED BY <1>1, <1>2, <1>4, <3>1, <3>2, <3>3 DEF TypeOK, IInv, Leaves
  <2>4. RequestOK' /\ LocksHeld' /\ DecisionsHold'
    <3>1. \A v \in Worker \ {w} : HoldsIssue(v) => issues'[req[v].issue] = issues[req[v].issue]
      <4> SUFFICES ASSUME NEW v \in Worker \ {w}, HoldsIssue(v)
                   PROVE  issues'[req[v].issue] = issues[req[v].issue]
        OBVIOUS
      <4>1. req[v].issue # i
        BY <1>4, OthersElsewhere
      <4>2. req[v].issue \in Issue
        BY DEF IInv, RequestOK, RequestFits, HoldsIssue
      <4> QED BY <4>1, <4>2, <2>2
    <3>2. \A j \in Issue : issues[j].status # "absent" =>
            issues'[j].status # "absent" /\ issues'[j].task = issues[j].task
      BY <1>4, <2>2
    <3> QED BY <1>1, <1>2, <3>1, <3>2, Frame
  <2>5. HandedOutHasAssignee' /\ ReviewsMatchSubmissions'
    BY <1>1 DEF IInv, HandedOutHasAssignee, ReviewsMatchSubmissions
  <2>6. IssuesOK'
    BY <1>1, <2>1, <2>2 DEF IInv, IssuesOK, Started
  <2>7. IssueResolvedOnce'
    <3>1. \A j \in Issue \ {i} : unread'[j] = unread[j]
      BY <1>4 DEF IInv, TypeOK
    <3> QED BY <1>1, <1>4, <2>2, <3>1 DEF IInv, IssueResolvedOnce
  <2> QED BY <2>3, <2>4, <2>5, <2>6, <2>7 DEF IInv
<1> QED BY <1>3, <1>4 DEF CommitCreateIssue

-----------------------------------------------------------------------------
(* The remaining steps *)

\* The endpoints that lock one task row: granted or refused.
LEMMA LockTaskThenInv ==
  ASSUME IInv, NEW w \in Worker, NEW ok, LockTaskThen(w, ok),
         req[w].op \notin {None, "create_task", "update_task_deadline",
                          "create_issue", "resolve_clarified"},
         Resolving(req[w].op) => req[w].pc = "issue_locked",
         ok /\ req[w].op = "edit_task" => Editable(Locked(w)),
         ok /\ req[w].op = "submit_task" => Submittable(Locked(w), req[w].actor),
         ok /\ req[w].op = "mark_task_billed" => Billable(Locked(w)),
         ok /\ Reviewing(req[w].op) => Reviewable(Locked(w))
  PROVE  IInv'
<1>1. CASE ok /\ Grant(w)
  BY <1>1, GrantInv DEF LockTaskThen
<1>2. CASE ~ok /\ Refuse(w)
  BY <1>2, RefuseLeaves, EndInv DEF LockTaskThen, IInv
<1> QED BY <1>1, <1>2 DEF LockTaskThen

\* Every check of a locked task row keeps the invariant.
LEMMA ChecksInv ==
  ASSUME IInv, NEW w \in Worker,
         \/ CheckEditTask(w) \/ CheckSubmitTask(w) \/ CheckMarkTaskBilled(w)
         \/ CheckReview(w) \/ LockResolvedTask(w)
  PROVE  IInv'
<1>1. CASE CheckEditTask(w)
  <2>1. req[w].op = "edit_task"
    BY <1>1 DEF CheckEditTask, At
  <2> QED BY <1>1, <2>1, NoneAssumption, LockTaskThenInv
       DEF CheckEditTask, Operations, Resolving, Reviewing
<1>2. CASE CheckSubmitTask(w)
  <2>1. req[w].op = "submit_task"
    BY <1>2 DEF CheckSubmitTask, At
  <2> QED BY <1>2, <2>1, NoneAssumption, LockTaskThenInv
       DEF CheckSubmitTask, Operations, Resolving, Reviewing
<1>3. CASE CheckMarkTaskBilled(w)
  <2>1. req[w].op = "mark_task_billed"
    BY <1>3 DEF CheckMarkTaskBilled, At
  <2> QED BY <1>3, <2>1, NoneAssumption, LockTaskThenInv
       DEF CheckMarkTaskBilled, Operations, Resolving, Reviewing
<1>4. CASE CheckReview(w)
  <2>1. req[w].op \in {"review_approved", "review_reassigned", "review_billing"}
    BY <1>4 DEF CheckReview, Reviewing
  <2> QED BY <1>4, <2>1, NoneAssumption, LockTaskThenInv
       DEF CheckReview, Operations, Resolving
<1>5. CASE LockResolvedTask(w)
  <2>1. req[w].pc = "issue_locked" /\ RequestFits(w)
    BY <1>5 DEF LockResolvedTask, IInv, RequestOK
  <2>2. req[w].op \in {"resolve_deadline_adjusted", "resolve_reassigned"}
    BY <2>1 DEF RequestFits, Resolving
  <2> QED BY <1>5, <2>1, <2>2, NoneAssumption, LockTaskThenInv
       DEF LockResolvedTask, Operations, Reviewing
<1> QED BY <1>1, <1>2, <1>3, <1>4, <1>5

\* Locking the issue, or refusing, keeps the invariant.
LEMMA CheckResolveInv ==
  ASSUME IInv, NEW w \in Worker, CheckResolveIssue(w)
  PROVE  IInv'
<1> DEFINE i == req[w].issue
           pc == IF req[w].op = "resolve_clarified" THEN "checked" ELSE "issue_locked"
<1>1. /\ req[w].pc = "read" /\ Resolving(req[w].op) /\ IssueFree(i) /\ sent' = {}
      /\ UNCHANGED <<tasks, issues, active, unread, submissions, reviews,
                     resolutions, taskLock>>
  BY DEF CheckResolveIssue
<1>2. req \in [Worker -> Request] /\ issueLock \in [Issue -> Worker \cup {None}]
      /\ taskLock \in [Task -> Worker \cup {None}]
  BY DEF IInv, TypeOK
<1>3. CASE req' = [req EXCEPT ![w] = Idle] /\ UNCHANGED issueLock
  <2>1. Leaves(w)
    BY <1>1, <1>2, <1>3 DEF Leaves
  <2> QED BY <1>1, <2>1, EndInv
<1>4. CASE /\ issues[i].status = "open"
           /\ issueLock' = [issueLock EXCEPT ![i] = w]
           /\ req' = [req EXCEPT ![w].pc = pc]
  <2>1. RequestFits(w)
    BY DEF IInv, RequestOK
  <2>2. i \in Issue
    BY <1>1, <2>1 DEF RequestFits
  <2>3. /\ req'[w] \in Request /\ req'[w].pc = pc /\ req'[w].op = req[w].op
        /\ req'[w].actor = req[w].actor /\ req'[w].task = req[w].task
        /\ req'[w].issue = i /\ req'[w].to = req[w].to
        /\ \A v \in Worker \ {w} : req'[v] = req[v]
    BY <1>2, <1>4 DEF Request
  <2>4. TypeOK'
    <3>1. req' \in [Worker -> Request] /\ issueLock' \in [Issue -> Worker \cup {None}]
      BY <1>2, <1>4, <2>2, <2>3
    <3> QED BY <1>1, <3>1 DEF IInv, TypeOK
  <2>5. RequestOK'
    <3> SUFFICES ASSUME NEW v \in Worker
                 PROVE  RequestFits(v)'
      BY DEF RequestOK
    <3>1. CASE v = w
      BY <3>1, <1>1, <2>1, <2>3, NoneAssumption DEF RequestFits, Resolving, Started, Operations
    <3>2. CASE v # w
      BY <3>2, <1>1, <2>3 DEF RequestFits, Resolving, Started, IInv, RequestOK
    <3> QED BY <3>1, <3>2
  <2>6. LocksHeld'
    <3> SUFFICES ASSUME NEW v \in Worker
                 PROVE  LocksHeldBy(v)'
      BY DEF LocksHeld
    <3>1. CASE v = w
      <4>1. ~HoldsTask(w)'
        BY <1>1, <2>3 DEF HoldsTask
      <4>2. issueLock'[i] = w
        BY <1>2, <1>4, <2>2
      <4> QED BY <3>1, <4>1, <4>2, <2>3 DEF LocksHeldBy
    <3>2. CASE v # w
      <4>1. LocksHeldBy(v)
        BY DEF IInv, LocksHeld
      <4>2. HoldsIssue(v) => req[v].issue # i
        BY <4>1, <1>1, <3>2, NoneAssumption DEF LocksHeldBy, IssueFree
      <4> QED BY <3>2, <4>1, <4>2, <1>1, <1>2, <1>4, <2>3 DEF LocksHeldBy, HoldsTask, HoldsIssue
    <3> QED BY <3>1, <3>2
  <2>7. DecisionsHold'
    <3> SUFFICES ASSUME NEW v \in Worker
                 PROVE  DecisionHolds(v, tasks[req[v].task])'
      BY DEF DecisionsHold
    <3>1. CASE v = w
      BY <3>1, <1>1, <1>4, <2>3 DEF DecisionHolds, At, Reviewing, Resolving
    <3>2. CASE v # w
      <4>1. DecisionHolds(v, tasks[req[v].task])
        BY DEF IInv, DecisionsHold
      <4> QED BY <3>2, <4>1, <1>1, <2>3 DEF DecisionHolds, At
    <3> QED BY <3>1, <3>2
  <2> QED BY <1>1, <2>4, <2>5, <2>6, <2>7, TablesFrame DEF IInv
<1> QED BY <1>3, <1>4 DEF CheckResolveIssue

\* Every request that arrives keeps the invariant: the route's unlocked read
\* gives it arguments that fit its endpoint.
LEMMA ArriveInv ==
  ASSUME IInv, NEW w \in Worker, Arrive(w)
  PROVE  IInv'
<1>1. \A t \in Task : tasks[t] \in TaskRow /\ t # None
  BY NoneAssumption DEF IInv, TypeOK
<1>2. \A e \in Employee : e # None
  BY NoneAssumption
<1>3. \A t \in Task : tasks[t].assignee # None => Started(tasks[t])
  BY DEF IInv, HandedOutHasAssignee, Started
<1>4. CASE BeginCreateTask(w)
  BY <1>4, BeginInv DEF BeginCreateTask, Operations, Resolving
<1>5. CASE BeginEditTask(w)
  BY <1>5, BeginInv DEF BeginEditTask, Operations, Resolving
<1>6. CASE BeginUpdateDeadline(w)
  BY <1>6, BeginInv DEF BeginUpdateDeadline, Operations, Resolving
<1>7. CASE BeginSubmitTask(w) \/ BeginMarkTaskBilled(w) \/ BeginCreateIssue(w)
  <2>1. PICK e \in Employee, t \in Task,
             op \in {"submit_task", "mark_task_billed", "create_issue"} :
               BeginAsAssignee(w, op, e, t)
    BY <1>7 DEF BeginSubmitTask, BeginMarkTaskBilled, BeginCreateIssue
  <2>2. Started(tasks[t]) /\ tasks[t].status # "absent"
    BY <1>2, <1>3, <2>1 DEF BeginAsAssignee, Started
  <2>3. Begin(w, op, e, t, None, None, None)
    BY <2>1 DEF BeginAsAssignee
  <2>4. op \in Operations /\ ~Resolving(op) /\ op \notin {"edit_task", "review_billing"}
    BY DEF Operations, Resolving
  <2> QED BY <2>2, <2>3, <2>4, BeginInv
<1>8. CASE BeginReview(w)
  <2>1. PICK t \in Task, op \in {"review_approved", "review_reassigned", "review_billing"},
             to \in Employee \cup {None}, d \in Deadline \cup {None} :
          /\ tasks[t].status # "absent"
          /\ Begin(w, op, None, t, None, to, d)
          /\ op = "review_billing" => to \in Employee
    BY <1>8 DEF BeginReview
  <2>2. op \in Operations /\ ~Resolving(op)
        /\ op \notin {"submit_task", "mark_task_billed", "create_issue", "edit_task"}
    BY DEF Operations, Resolving
  <2> QED BY <2>1, <2>2, BeginInv
<1>9. CASE BeginResolveIssue(w)
  <2>1. PICK i \in Issue : /\ issues[i].status # "absent"
                          /\ \E op \in {"resolve_clarified", "resolve_deadline_adjusted",
                                      "resolve_reassigned"},
                                to \in Employee \cup {None}, d \in Deadline \cup {None} :
                               Begin(w, op, None, issues[i].task, i, to, d)
    BY <1>9 DEF BeginResolveIssue
  <2>2. PICK op \in {"resolve_clarified", "resolve_deadline_adjusted", "resolve_reassigned"},
             to \in Employee \cup {None}, d \in Deadline \cup {None} :
               Begin(w, op, None, issues[i].task, i, to, d)
    BY <2>1
  <2>3. issues[i].task \in Task /\ tasks[issues[i].task].status # "absent"
    BY <2>1 DEF IInv, IssuesOK, Started
  <2>4. op \in Operations /\ Resolving(op)
        /\ op \notin {"submit_task", "mark_task_billed", "create_issue", "edit_task",
                     "review_billing", "create_task"}
    BY DEF Operations, Resolving
  <2> QED BY <2>1, <2>2, <2>3, <2>4, BeginInv
<1> QED BY <1>4, <1>5, <1>6, <1>7, <1>8, <1>9 DEF Arrive

\* Reading a notification and (de)activating an employee keep the invariant.
LEMMA SingleStatementInv ==
  ASSUME IInv,
         \/ \E o \in Owner, i \in Issue : MarkNotificationRead(o, i)
         \/ \E e \in Employee : SetEmployeeActive(e)
  PROVE  IInv'
<1>1. UNCHANGED <<tasks, issues, submissions, reviews, resolutions, taskLock,
                  issueLock, req>> /\ sent' = {}
  BY DEF MarkNotificationRead, SetEmployeeActive
<1>2. active' \in [Employee -> BOOLEAN] /\ unread' \in [Issue -> SUBSET Owner]
  BY DEF MarkNotificationRead, SetEmployeeActive, IInv, TypeOK
<1>3. \A i \in Issue : unread'[i] \subseteq unread[i]
  BY DEF MarkNotificationRead, SetEmployeeActive, IInv, TypeOK
<1>4. TypeOK'
  BY <1>1, <1>2 DEF IInv, TypeOK
<1>5. RequestOK' /\ LocksHeld' /\ HandedOutHasAssignee' /\ IssuesOK'
      /\ ReviewsMatchSubmissions'
  BY <1>1 DEF IInv, RequestOK, RequestFits, LocksHeld, LocksHeldBy, HoldsTask, HoldsIssue,
    HandedOutHasAssignee, IssuesOK, Started, ReviewsMatchSubmissions
<1>6. DecisionsHold'
  BY <1>1 DEF IInv, DecisionsHold, DecisionHolds, At
<1>7. IssueResolvedOnce'
  BY <1>1, <1>3 DEF IInv, IssueResolvedOnce
<1> QED BY <1>4, <1>5, <1>6, <1>7 DEF IInv

\* A rollback keeps the invariant.
LEMMA AbortInv ==
  ASSUME IInv, NEW w \in Worker, Abort(w)
  PROVE  IInv'
BY ReleaseLeaves, EndInv DEF Abort, IInv

\* Every step a waiting or working request takes keeps the invariant.
LEMMA StepInv ==
  ASSUME IInv, NEW w \in Worker, Step(w)
  PROVE  IInv'
BY CreateTaskInv, EditInv, DeadlineInv, SubmitInv, BilledInv, ApprovedInv, ReassignedInv,
   ChargedInv, CreateIssueInv, ClarifiedInv, DeadlineAdjustedInv, ResolveReassignedInv,
   ChecksInv, CheckResolveInv DEF Step

\* The empty database satisfies the invariant.
LEMMA InitInv == Init => IInv
<1> SUFFICES ASSUME Init PROVE IInv
  OBVIOUS
<1>1. Idle \in Request /\ NoTask \in TaskRow /\ NoIssue \in IssueRow
  BY DEF Idle, Request, NoTask, NoIssue, TaskRow, IssueRow, Status
<1>2. TypeOK
  BY <1>1 DEF Init, TypeOK
<1>3. \A w \in Worker : req[w].pc = "idle" /\ req[w].op = None
  BY DEF Init, Idle
<1>4. RequestOK
  BY <1>3, NoneAssumption DEF RequestOK, RequestFits, Resolving, Operations
<1>5. LocksHeld
  BY <1>3 DEF LocksHeld, LocksHeldBy, HoldsTask, HoldsIssue
<1>6. DecisionsHold
  BY <1>3 DEF DecisionsHold, DecisionHolds, At
<1>7. HandedOutHasAssignee /\ ReviewsMatchSubmissions
  BY DEF Init, HandedOutHasAssignee, ReviewsMatchSubmissions, NoTask
<1>8. IssuesOK /\ IssueResolvedOnce
  BY DEF Init, IssuesOK, IssueResolvedOnce, NoIssue
<1> QED BY <1>2, <1>4, <1>5, <1>6, <1>7, <1>8 DEF IInv

\* The inductive invariant: every request past its check holds the rows it
\* checked and has them fresh, and the tables are sound.
THEOREM Invariant == Spec => []IInv
<1>1. IInv /\ [Next]_vars => IInv'
  <2> SUFFICES ASSUME IInv, [Next]_vars PROVE IInv'
    OBVIOUS
  <2>1. CASE Next
    BY <2>1, ArriveInv, StepInv, AbortInv, SingleStatementInv DEF Next
  <2>2. CASE UNCHANGED vars
    <3>1. TypeOK'
      BY <2>2 DEF vars, IInv, TypeOK
    <3>2. RequestOK' /\ LocksHeld'
      BY <2>2 DEF vars, IInv, RequestOK, RequestFits, Started, LocksHeld, LocksHeldBy,
        HoldsTask, HoldsIssue
    <3>3. DecisionsHold'
      BY <2>2 DEF vars, IInv, DecisionsHold, DecisionHolds, At
    <3>4. UNCHANGED <<tasks, issues, unread, submissions, reviews, resolutions>>
      BY <2>2 DEF vars
    <3> QED BY <3>1, <3>2, <3>3, <3>4, TablesFrame DEF IInv
  <2> QED BY <2>1, <2>2
<1> QED BY InitInv, <1>1, PTL DEF Spec

\* Rows, locks, requests and notifications keep their types.
THEOREM TypeCorrect == Spec => []TypeOK
<1>1. IInv => TypeOK
  BY DEF IInv
<1> QED BY Invariant, <1>1, PTL

\* What a handler decided under its row lock is still true when it commits.
THEOREM DecisionsStand == Spec => []DecisionsHold
<1>1. IInv => DecisionsHold
  BY DEF IInv
<1> QED BY Invariant, <1>1, PTL

\* No submission is reviewed twice, however many requests race for it.
THEOREM OneVerdictPerSubmission == Spec => []ReviewsMatchSubmissions
<1>1. IInv => ReviewsMatchSubmissions
  BY DEF IInv
<1> QED BY Invariant, <1>1, PTL

\* No issue is resolved twice, and a resolved issue has left the dashboards.
THEOREM OneResolutionPerIssue == Spec => []IssueResolvedOnce
<1>1. IInv => IssueResolvedOnce
  BY DEF IInv
<1> QED BY Invariant, <1>1, PTL

\* A task is with somebody exactly from when it is handed out.
THEOREM WorkHasAnAssignee == Spec => []HandedOutHasAssignee
<1>1. IInv => HandedOutHasAssignee
  BY DEF IInv
<1> QED BY Invariant, <1>1, PTL

-----------------------------------------------------------------------------
(* Action properties: what a commit may do to a row *)

Lawful == \A t \in Task : SettledStep(t) /\ HandoverStep(t)

\* A step that writes no task, or another column than those in question.
LEMMA TasksKept ==
  ASSUME UNCHANGED tasks
  PROVE  Lawful
BY DEF Lawful, SettledStep, HandoverStep

\* Only the row of t0 changes: the others have nothing to answer for.
LEMMA OneRow ==
  ASSUME tasks \in [Task -> TaskRow], NEW t0 \in Task, NEW row,
         tasks' = [tasks EXCEPT ![t0] = row],
         SettledStep(t0), HandoverStep(t0)
  PROVE  Lawful
<1> SUFFICES ASSUME NEW t \in Task, t # t0
             PROVE  SettledStep(t) /\ HandoverStep(t)
  BY DEF Lawful
<1>1. tasks'[t] = tasks[t]
  OBVIOUS
<1> QED BY <1>1 DEF SettledStep, HandoverStep

\* A new row.
LEMMA CreateLawful ==
  ASSUME IInv, NEW w \in Worker, CommitCreateTask(w)
  PROVE  Lawful
<1>1. PICK t \in Task :
        /\ tasks[t].status = "absent"
        /\ \E row : tasks' = [tasks EXCEPT ![t] = row]
  BY DEF CommitCreateTask
<1>2. SettledStep(t) /\ HandoverStep(t)
  BY <1>1 DEF SettledStep, HandoverStep
<1> QED BY <1>1, <1>2, OneRow DEF IInv, TypeOK

\* A new deadline.
LEMMA DatedLawful ==
  ASSUME IInv, NEW t \in Task, NEW d,
         tasks' = [tasks EXCEPT ![t] = [tasks[t] EXCEPT !.deadline = d]]
  PROVE  Lawful
<1>1. tasks \in [Task -> TaskRow] /\ tasks[t] \in TaskRow
  BY DEF IInv, TypeOK
<1>2. tasks'[t] = [tasks[t] EXCEPT !.deadline = d]
  BY <1>1
<1>3. Undated(tasks'[t]) = Undated(tasks[t]) /\ tasks'[t].assignee = tasks[t].assignee
  BY <1>1, <1>2 DEF Undated, TaskRow
<1> QED BY <1>1, <1>3, OneRow DEF SettledStep, HandoverStep

\* An edit decides on a row that is not settled, and tells both.
LEMMA EditLawful ==
  ASSUME IInv, NEW w \in Worker, CommitEditTask(w)
  PROVE  Lawful
<1> DEFINE t == req[w].task
           old == req[w].row.assignee
           row == Edited(tasks[t], req[w].to)
<1>1. req[w].pc = "checked" /\ req[w].op = "edit_task" /\ HoldsTask(w)
  BY DEF CommitEditTask, At, HoldsTask
<1>2. /\ t \in Task /\ tasks[t] \in TaskRow /\ Editable(tasks[t])
      /\ req[w].to \in Employee /\ req[w].row = tasks[t]
      /\ tasks[t].assignee = None <=> tasks[t].status \in {"absent", "created"}
  BY <1>1, OwnTask, NoneAssumption
     DEF Operations, DecisionHolds, At, RequestFits, LocksHeldBy
<1>3. /\ tasks \in [Task -> TaskRow] /\ tasks' = [tasks EXCEPT ![t] = row]
      /\ sent' = {Notify("task_assigned", req[w].to, t, None)} \cup
           IF old = None THEN {} ELSE {Notify("task_reassigned", old, t, None)}
  BY DEF CommitEditTask, CommitTask, IInv, TypeOK
<1>4. tasks'[t] = row /\ row.assignee = req[w].to
  BY <1>2, <1>3, WrittenRows
<1>5. SettledStep(t)
  BY <1>2 DEF SettledStep, Editable
<1>6. HandoverStep(t)
  <2>1. \E n \in sent' : n.to = tasks'[t].assignee /\ n.task = t
    <3>1. Notify("task_assigned", req[w].to, t, None) \in sent'
      BY <1>3
    <3>2. /\ Notify("task_assigned", req[w].to, t, None).to = req[w].to
          /\ Notify("task_assigned", req[w].to, t, None).task = t
      BY DEF Notify
    <3>3. tasks'[t].assignee = req[w].to
      BY <1>4
    <3> HIDE DEF t
    <3> QED BY <3>1, <3>2, <3>3
  <2>2. tasks[t].status = "assigned" =>
          Notify("task_reassigned", tasks[t].assignee, t, None) \in sent'
    BY <1>2, <1>3
  <2> QED BY <2>1, <2>2 DEF HandoverStep
<1> QED BY <1>2, <1>3, <1>5, <1>6, OneRow

\* A change of status leaves the assignee, and a settled row only a review
\* moves this way.
LEMMA StatusLawful ==
  ASSUME IInv, NEW t \in Task, NEW st,
         tasks' = [tasks EXCEPT ![t] = [tasks[t] EXCEPT !.status = st]],
         \/ InHand(tasks[t])
         \/ tasks[t].status = "submitted" /\ reviews'[t] = reviews[t] + 1
  PROVE  Lawful
<1>1. tasks \in [Task -> TaskRow] /\ tasks[t] \in TaskRow
  BY DEF IInv, TypeOK
<1>2. tasks'[t].assignee = tasks[t].assignee
  BY <1>1 DEF TaskRow
<1>3. SettledStep(t) /\ HandoverStep(t)
  BY <1>2 DEF SettledStep, HandoverStep, InHand
<1> QED BY <1>1, <1>3, OneRow

\* Submitting and billing find the task in hand.
LEMMA FinishLawful ==
  ASSUME IInv, NEW w \in Worker, CommitSubmitTask(w) \/ CommitMarkTaskBilled(w)
  PROVE  Lawful
<1> DEFINE t == req[w].task
<1>1. req[w].pc = "checked" /\ req[w].op \in {"submit_task", "mark_task_billed"}
  BY DEF CommitSubmitTask, CommitMarkTaskBilled, At
<1>2. t \in Task /\ InHand(tasks[t])
  BY <1>1, OwnTask, NoneAssumption
     DEF Operations, DecisionHolds, At, Submittable, Billable
<1>3. \E st : tasks' = [tasks EXCEPT ![t] = [tasks[t] EXCEPT !.status = st]]
  BY DEF CommitSubmitTask, CommitMarkTaskBilled, CommitTask
<1> QED BY <1>2, <1>3, StatusLawful

\* A review has found a submission, and counts.
LEMMA VerdictCounts ==
  ASSUME IInv, NEW w \in Worker, req[w].pc = "checked", Reviewing(req[w].op), ReviewRow(w)
  PROVE  /\ req[w].task \in Task
         /\ tasks[req[w].task].status = "submitted"
         /\ reviews'[req[w].task] = reviews[req[w].task] + 1
BY ReviewFacts DEF ReviewRow, IInv, TypeOK

LEMMA ApprovedLawful ==
  ASSUME IInv, NEW w \in Worker, CommitReviewApproved(w)
  PROVE  Lawful
<1>1. /\ req[w].pc = "checked" /\ Reviewing(req[w].op) /\ ReviewRow(w)
      /\ tasks' = [tasks EXCEPT ![req[w].task] =
                     [tasks[req[w].task] EXCEPT !.status = "completed"]]
  BY DEF CommitReviewApproved, CommitTask, At, Reviewing
<1> QED BY <1>1, VerdictCounts, StatusLawful

\* A task that is sent back tells whoever it lands on.
LEMMA SentBackLawful ==
  ASSUME IInv, NEW t \in Task, NEW to \in Employee \cup {None},
         tasks' = [tasks EXCEPT ![t] = Reassigned(tasks[t], to)],
         ReassignNotes(t, tasks[t], Reassigned(tasks[t], to)) \subseteq sent',
         \/ tasks[t].status = "submitted" /\ reviews'[t] = reviews[t] + 1
         \/ \E i \in Issue : /\ issues[i].task = t
                             /\ issues[i].status = "open"
                             /\ issues'[i].status = "resolved"
  PROVE  Lawful
<1> DEFINE row == Reassigned(tasks[t], to)
<1>1. tasks \in [Task -> TaskRow] /\ tasks[t] \in TaskRow
  BY DEF IInv, TypeOK
<1>2. tasks'[t] = row /\ row.status = "in_progress"
  BY <1>1, WrittenRows
<1>3. SettledStep(t)
  BY DEF SettledStep
<1> HIDE DEF row
<1>4. Notify("task_reassigned", row.assignee, t, None) \in sent'
  BY DEF ReassignNotes, row
<1>5. HandoverStep(t)
  BY <1>2, <1>4 DEF HandoverStep, Notify
<1> QED BY <1>1, <1>3, <1>5, OneRow

LEMMA ReassignedLawful ==
  ASSUME IInv, NEW w \in Worker, CommitReviewReassigned(w)
  PROVE  Lawful
<1> DEFINE t == req[w].task
<1>1. req[w].pc = "checked" /\ Reviewing(req[w].op) /\ ReviewRow(w)
  BY DEF CommitReviewReassigned, At, Reviewing
<1>2. /\ tasks' = [tasks EXCEPT ![t] = Reassigned(tasks[t], req[w].to)]
      /\ sent' = ReassignNotes(t, tasks[t], Reassigned(tasks[t], req[w].to))
  BY DEF CommitReviewReassigned, CommitTask
<1>3. req[w].to \in Employee \cup {None}
  BY DEF IInv, TypeOK, Request
<1> QED BY <1>1, <1>2, <1>3, VerdictCounts, SentBackLawful

\* The billing task that a review adds is a new row.
LEMMA ChargedLawful ==
  ASSUME IInv, NEW w \in Worker, CommitReviewBilling(w)
  PROVE  Lawful
<1> DEFINE t == req[w].task
<1>1. req[w].pc = "checked" /\ Reviewing(req[w].op) /\ ReviewRow(w)
  BY DEF CommitReviewBilling, At, Reviewing
<1>2. /\ t \in Task /\ tasks[t].status = "submitted"
      /\ reviews'[t] = reviews[t] + 1
  BY <1>1, VerdictCounts
<1>3. PICK b \in Task :
        /\ tasks[b].status = "absent"
        /\ tasks' = [tasks EXCEPT
             ![t].status = "completed",
             ![b] = BillingTask(t, req[w].to, req[w].deadline)]
  BY DEF CommitReviewBilling
<1>4. tasks \in [Task -> TaskRow] /\ b # t
  BY <1>2, <1>3 DEF IInv, TypeOK
<1>5. /\ tasks'[t] = [tasks[t] EXCEPT !.status = "completed"]
      /\ \A s \in Task \ {t, b} : tasks'[s] = tasks[s]
  BY <1>2, <1>3, <1>4
<1>6. tasks'[t].assignee = tasks[t].assignee
  BY <1>2, <1>4, <1>5 DEF TaskRow
<1> SUFFICES ASSUME NEW s \in Task
             PROVE  SettledStep(s) /\ HandoverStep(s)
  BY DEF Lawful
<1>7. CASE s = t
  BY <1>2, <1>6, <1>7 DEF SettledStep, HandoverStep
<1>8. CASE s = b
  BY <1>3, <1>8 DEF SettledStep, HandoverStep
<1>9. CASE s \notin {t, b}
  BY <1>5, <1>9 DEF SettledStep, HandoverStep
<1> QED BY <1>7, <1>8, <1>9

\* A resolution has locked an open issue on its task.
LEMMA ResolvedLawful ==
  ASSUME IInv, NEW w \in Worker,
         CommitResolveDeadlineAdjusted(w) \/ CommitResolveReassigned(w)
  PROVE  Lawful
<1> DEFINE t == req[w].task
           i == req[w].issue
<1>1. req[w].pc = "checked" /\ Resolving(req[w].op)
  BY DEF CommitResolveDeadlineAdjusted, CommitResolveReassigned, At, Resolving
<1>2. req[w].op \notin {None, "create_task"}
  BY <1>1, NoneAssumption DEF Resolving, Operations
<1>3. /\ i \in Issue /\ issues[i].status = "open" /\ issues[i].task = t
      /\ t \in Task /\ req[w].to \in Employee \cup {None}
  BY <1>1, <1>2, OwnTask DEF RequestFits, DecisionHolds, Request
<1>4. CASE CommitResolveDeadlineAdjusted(w)
  BY <1>3, <1>4, DatedLawful DEF CommitResolveDeadlineAdjusted
<1>5. CASE CommitResolveReassigned(w)
  <2>1. /\ tasks' = [tasks EXCEPT ![t] = Reassigned(tasks[t], req[w].to)]
        /\ issues' = [issues EXCEPT ![i].status = "resolved"]
        /\ ReassignNotes(t, tasks[t], Reassigned(tasks[t], req[w].to)) \subseteq sent'
    BY <1>5 DEF CommitResolveReassigned, ResolveRows
  <2>2. issues'[i].status = "resolved"
    BY <1>3, <2>1 DEF IInv, TypeOK, IssueRow
  <2> QED BY <1>3, <2>1, <2>2, SentBackLawful
<1> QED BY <1>4, <1>5

LEMMA StepLawful ==
  ASSUME IInv, [Next]_vars
  PROVE  Lawful
<1>1. ASSUME NEW w \in Worker, Step(w)
      PROVE  Lawful
  <2>1. CASE \/ CheckEditTask(w) \/ CheckSubmitTask(w) \/ CheckMarkTaskBilled(w)
             \/ CheckReview(w) \/ LockResolvedTask(w)
    BY <2>1, TasksKept DEF CheckEditTask, CheckSubmitTask, CheckMarkTaskBilled, CheckReview,
       LockResolvedTask, LockTaskThen
  <2>2. CASE CheckResolveIssue(w) \/ CommitCreateIssue(w) \/ CommitResolveClarified(w)
    BY <2>2, TasksKept DEF CheckResolveIssue, CommitCreateIssue, CommitResolveClarified
  <2>3. CASE CommitUpdateDeadline(w)
    <3>1. req[w].op \notin {None, "create_task"}
      BY <2>3, NoneAssumption DEF CommitUpdateDeadline, At, Operations
    <3>2. req[w].task \in Task /\ tasks[req[w].task] \in TaskRow
      BY <3>1, OwnTask
    <3>3. \E d : tasks' = [tasks EXCEPT ![req[w].task] =
                             [tasks[req[w].task] EXCEPT !.deadline = d]]
      BY <2>3, <3>2 DEF CommitUpdateDeadline, CommitTask, TaskRow
    <3> QED BY <3>2, <3>3, DatedLawful
  <2> QED BY <1>1, <2>1, <2>2, <2>3, CreateLawful, EditLawful, FinishLawful, ApprovedLawful,
          ReassignedLawful, ChargedLawful, ResolvedLawful DEF Step
<1>2. ASSUME NEW w \in Worker, Arrive(w) \/ Abort(w)
      PROVE  Lawful
  BY <1>2, TasksKept DEF Arrive, BeginCreateTask, BeginEditTask, BeginUpdateDeadline,
     BeginSubmitTask, BeginMarkTaskBilled, BeginReview, BeginCreateIssue, BeginResolveIssue,
     BeginAsAssignee, Begin, Abort
<1>3. CASE \/ \E o \in Owner, i \in Issue : MarkNotificationRead(o, i)
           \/ \E e \in Employee : SetEmployeeActive(e)
  BY <1>3, TasksKept DEF MarkNotificationRead, SetEmployeeActive
<1>4. CASE UNCHANGED vars
  BY <1>4, TasksKept DEF vars
<1> QED BY <1>1, <1>2, <1>3, <1>4 DEF Next

\* A submitted or closed task changes only by the owner's word, whatever
\* requests were under way when it was settled.
THEOREM OwnerSettles == Spec => SettledOnlyByOwner
<1>1. IInv /\ [Next]_vars => [\A t \in Task : SettledStep(t)]_vars
  BY StepLawful DEF Lawful
<1> QED BY Invariant, <1>1, PTL DEF Spec, SettledOnlyByOwner

\* Every hand-over tells whoever gets the task, and an edit whoever loses it.
THEOREM HandoversTold == Spec => HandoverNotified
<1>1. IInv /\ [Next]_vars => [\A t \in Task : HandoverStep(t)]_vars
  BY StepLawful DEF Lawful
<1> QED BY Invariant, <1>1, PTL DEF Spec, HandoverNotified

-----------------------------------------------------------------------------
(* The state machine of tasks.status: what the documents have, and what the *)
(* code does besides                                                        *)

\* Request w puts task t, which satisfies gate, into status to.
Commits(w, t, gate, to) == req[w].task = t /\ gate /\ tasks'[t].status = to

\* One more review of t, which ends its submission.
Verdict(t) ==
  /\ tasks[t].status = "submitted" /\ reviews'[t] = reviews[t] + 1
  /\ tasks'[t].status \in {"completed", "in_progress"}

\* An arrow of DATA_MODEL.md:234-242 under the gate of its endpoint, or
\* assigned straight to submitted or billed as API_SPEC.md:90-92 allows.
DocumentedMove(t) ==
  LET from == tasks[t].status
      to == tasks'[t].status
  IN \/ from = "absent" /\ to \in {"created", "assigned"}
     \/ from = "created" /\ to = "assigned"
     \/ /\ tasks[t].parent = None
        /\ \/ \E w \in Worker :
                /\ CommitSubmitTask(w)
                /\ Commits(w, t, Submittable(tasks[t], req[w].actor), "submitted")
           \/ Verdict(t)
     \/ \E w \in Worker : /\ CommitMarkTaskBilled(w)
                          /\ Commits(w, t, Billable(tasks[t]), "billed")
     \/ \E w \in Worker : /\ CommitResolveReassigned(w)
                          /\ Commits(w, t, InHand(tasks[t]), "in_progress")

\* A billing task is submitted (crud.py:649), or a submitted one is reviewed.
BillReviewMove(t) ==
  /\ tasks[t].parent # None
  /\ \/ \E w \in Worker :
          /\ CommitSubmitTask(w)
          /\ Commits(w, t, Submittable(tasks[t], req[w].actor), "submitted")
     \/ Verdict(t)

\* A submitted or closed task is put back by resolving an issue on it
\* (crud.py:867).
ReopenMove(t) ==
  \E w \in Worker :
    /\ CommitResolveReassigned(w)
    /\ Commits(w, t, tasks[t].status \in {"submitted", "completed", "billed"}, "in_progress")

Moves(t) == DocumentedMove(t) \/ BillReviewMove(t) \/ ReopenMove(t)

StatusMoves == \A t \in Task : tasks'[t].status # tasks[t].status => Moves(t)

LEMMA OneMove ==
  ASSUME tasks \in [Task -> TaskRow], NEW t0 \in Task, NEW row,
         tasks' = [tasks EXCEPT ![t0] = row],
         row.status = tasks[t0].status \/ Moves(t0)
  PROVE  StatusMoves
<1>1. tasks'[t0] = row /\ \A t \in Task \ {t0} : tasks'[t] = tasks[t]
  OBVIOUS
<1> QED BY <1>1 DEF StatusMoves

\* A new task is created, or assigned at once; the first edit assigns it.
LEMMA FirstMoves ==
  ASSUME IInv, NEW w \in Worker, CommitCreateTask(w) \/ CommitEditTask(w)
  PROVE  StatusMoves
<1>1. tasks \in [Task -> TaskRow]
  BY DEF IInv, TypeOK
<1>2. CASE CommitCreateTask(w)
  <2> DEFINE st == IF req[w].to = None THEN "created" ELSE "assigned"
             row == [NoTask EXCEPT !.status = st, !.assignee = req[w].to,
                                   !.deadline = req[w].deadline]
  <2>1. PICK t \in Task : /\ tasks[t].status = "absent"
                          /\ tasks' = [tasks EXCEPT ![t] = row]
    BY <1>2 DEF CommitCreateTask
  <2>2. row.status \in {"created", "assigned"}
    BY DEF NoTask
  <2> HIDE DEF row
  <2>3. tasks'[t].status \in {"created", "assigned"}
    BY <1>1, <2>1, <2>2
  <2>4. Moves(t)
    BY <2>1, <2>3 DEF Moves, DocumentedMove
  <2> QED BY <1>1, <2>1, <2>4, OneMove
<1>3. CASE CommitEditTask(w)
  <2> DEFINE t == req[w].task
             row == Edited(tasks[t], req[w].to)
  <2>1. /\ req[w].pc = "checked" /\ req[w].op = "edit_task"
        /\ tasks' = [tasks EXCEPT ![t] = row]
    BY <1>3 DEF CommitEditTask, CommitTask, At
  <2>2. /\ t \in Task /\ tasks[t] \in TaskRow /\ req[w].to \in Employee
        /\ Editable(tasks[t])
    BY <2>1, OwnTask, NoneAssumption DEF Operations, DecisionHolds, At, RequestFits
  <2>3. row.status = "assigned" /\ tasks[t].status \in {"created", "assigned"}
    BY <2>2, WrittenRows DEF Editable
  <2> HIDE DEF row
  <2>4. tasks'[t].status = "assigned"
    BY <1>1, <2>1, <2>2, <2>3
  <2>5. row.status = tasks[t].status \/ Moves(t)
    BY <2>3, <2>4 DEF Moves, DocumentedMove
  <2> QED BY <1>1, <2>1, <2>2, <2>5, OneMove
<1> QED BY <1>2, <1>3

\* Submitting and billing.
LEMMA FinishMoves ==
  ASSUME IInv, NEW w \in Worker, CommitSubmitTask(w) \/ CommitMarkTaskBilled(w)
  PROVE  StatusMoves
<1> DEFINE t == req[w].task
<1>1. req[w].pc = "checked" /\ req[w].op \in {"submit_task", "mark_task_billed"}
  BY DEF CommitSubmitTask, CommitMarkTaskBilled, At
<1>2. /\ t \in Task /\ tasks \in [Task -> TaskRow] /\ tasks[t] \in TaskRow
      /\ DecisionHolds(w, tasks[t])
  BY <1>1, OwnTask, NoneAssumption DEF Operations, IInv, TypeOK
<1>3. CASE CommitSubmitTask(w)
  <2>1. /\ tasks' = [tasks EXCEPT ![t] = [tasks[t] EXCEPT !.status = "submitted"]]
        /\ Submittable(tasks[t], req[w].actor)
    BY <1>2, <1>3 DEF CommitSubmitTask, CommitTask, DecisionHolds
  <2>2. tasks'[t].status = "submitted"
    BY <1>2, <2>1 DEF TaskRow
  <2>3. Moves(t)
    BY <1>3, <2>1, <2>2 DEF Moves, DocumentedMove, BillReviewMove, Commits
  <2> QED BY <1>2, <2>1, <2>3, OneMove
<1>4. CASE CommitMarkTaskBilled(w)
  <2>1. /\ tasks' = [tasks EXCEPT ![t] = [tasks[t] EXCEPT !.status = "billed"]]
        /\ Billable(tasks[t])
    BY <1>2, <1>4 DEF CommitMarkTaskBilled, CommitTask, DecisionHolds
  <2>2. tasks'[t].status = "billed"
    BY <1>2, <2>1 DEF TaskRow
  <2>3. Moves(t)
    BY <1>4, <2>1, <2>2 DEF Moves, DocumentedMove, Commits
  <2> QED BY <1>2, <2>1, <2>3, OneMove
<1> QED BY <1>3, <1>4

\* A verdict.
LEMMA VerdictMoves ==
  ASSUME IInv, NEW w \in Worker,
         CommitReviewApproved(w) \/ CommitReviewReassigned(w) \/ CommitReviewBilling(w)
  PROVE  StatusMoves
<1> DEFINE t == req[w].task
<1>1. req[w].pc = "checked" /\ Reviewing(req[w].op) /\ ReviewRow(w)
  BY DEF CommitReviewApproved, CommitReviewReassigned, CommitReviewBilling, At, Reviewing
<1>2. /\ t \in Task /\ tasks[t].status = "submitted"
      /\ tasks \in [Task -> TaskRow] /\ tasks[t] \in TaskRow
      /\ req[w].to \in Employee \cup {None}
      /\ reviews'[t] = reviews[t] + 1
  BY <1>1, VerdictCounts DEF IInv, TypeOK, Request, ReviewRow
<1>3. CASE CommitReviewApproved(w)
  <2>1. tasks' = [tasks EXCEPT ![t] = [tasks[t] EXCEPT !.status = "completed"]]
    BY <1>3 DEF CommitReviewApproved, CommitTask
  <2>2. tasks'[t].status = "completed"
    BY <1>2, <2>1 DEF TaskRow
  <2>3. Moves(t)
    BY <1>2, <2>2 DEF Moves, DocumentedMove, BillReviewMove, Verdict
  <2> QED BY <1>2, <2>1, <2>3, OneMove
<1>4. CASE CommitReviewReassigned(w)
  <2>1. tasks' = [tasks EXCEPT ![t] = Reassigned(tasks[t], req[w].to)]
    BY <1>4 DEF CommitReviewReassigned, CommitTask
  <2>2. tasks'[t].status = "in_progress"
    BY <1>2, <2>1, WrittenRows
  <2>3. Moves(t)
    BY <1>2, <2>2 DEF Moves, DocumentedMove, BillReviewMove, Verdict
  <2> QED BY <1>2, <2>1, <2>3, OneMove
<1>5. CASE CommitReviewBilling(w)
  <2>1. PICK b \in Task :
          /\ tasks[b].status = "absent"
          /\ tasks' = [tasks EXCEPT
               ![t].status = "completed",
               ![b] = BillingTask(t, req[w].to, req[w].deadline)]
    BY <1>5 DEF CommitReviewBilling
  <2>2. /\ b # t /\ tasks'[t].status = "completed"
        /\ tasks'[b].status = "assigned"
        /\ \A s \in Task \ {t, b} : tasks'[s] = tasks[s]
    BY <1>2, <2>1 DEF BillingTask, TaskRow
  <2>3. Moves(t) /\ Moves(b)
    BY <1>2, <2>1, <2>2 DEF Moves, DocumentedMove, BillReviewMove, Verdict
  <2> QED BY <2>2, <2>3 DEF StatusMoves
<1> QED BY <1>3, <1>4, <1>5

\* Resolving an issue: only as reassigned does it touch the status.
LEMMA ResolveMoves ==
  ASSUME IInv, NEW w \in Worker,
         CommitResolveDeadlineAdjusted(w) \/ CommitResolveReassigned(w)
  PROVE  StatusMoves
<1> DEFINE t == req[w].task
           i == req[w].issue
<1>1. req[w].pc = "checked" /\ Resolving(req[w].op)
  BY DEF CommitResolveDeadlineAdjusted, CommitResolveReassigned, At, Resolving
<1>2. req[w].op \notin {None, "create_task"}
  BY <1>1, NoneAssumption DEF Resolving, Operations
<1>3. /\ i \in Issue /\ issues[i].status # "absent" /\ issues[i].task = t
      /\ t \in Task /\ tasks \in [Task -> TaskRow] /\ tasks[t] \in TaskRow
      /\ req[w].to \in Employee \cup {None}
      /\ req[w].deadline \in Deadline \cup {None}
  BY <1>1, <1>2, OwnTask DEF RequestFits, Request, IInv, TypeOK
<1>4. Started(tasks[t])
  BY <1>3 DEF IInv, IssuesOK
<1>5. CASE CommitResolveDeadlineAdjusted(w)
  <2>1. tasks' = [tasks EXCEPT ![t] = [tasks[t] EXCEPT !.deadline = req[w].deadline]]
    BY <1>3, <1>5 DEF CommitResolveDeadlineAdjusted
  <2> QED BY <1>3, <2>1, WrittenRows, OneMove
<1>6. CASE CommitResolveReassigned(w)
  <2>1. tasks' = [tasks EXCEPT ![t] = Reassigned(tasks[t], req[w].to)]
    BY <1>6 DEF CommitResolveReassigned
  <2>2. tasks'[t].status = "in_progress"
    BY <1>3, <2>1, WrittenRows
  <2>3. Moves(t)
    BY <1>3, <1>4, <1>6, <2>2
       DEF Moves, DocumentedMove, ReopenMove, Commits, InHand, Started, TaskRow, Status
  <2> QED BY <1>3, <2>1, <2>3, OneMove
<1> QED BY <1>5, <1>6

LEMMA StepMoves ==
  ASSUME IInv, [Next]_vars
  PROVE  StatusMoves
<1>0. ASSUME UNCHANGED tasks
      PROVE  StatusMoves
  BY <1>0 DEF StatusMoves
<1>1. ASSUME NEW w \in Worker, Step(w)
      PROVE  StatusMoves
  <2>1. CASE \/ CheckEditTask(w) \/ CheckSubmitTask(w) \/ CheckMarkTaskBilled(w)
             \/ CheckReview(w) \/ LockResolvedTask(w)
    BY <1>0, <2>1 DEF CheckEditTask, CheckSubmitTask, CheckMarkTaskBilled, CheckReview,
       LockResolvedTask, LockTaskThen
  <2>2. CASE CheckResolveIssue(w) \/ CommitCreateIssue(w) \/ CommitResolveClarified(w)
    BY <1>0, <2>2 DEF CheckResolveIssue, CommitCreateIssue, CommitResolveClarified
  <2>3. CASE CommitUpdateDeadline(w)
    <3>1. req[w].op \notin {None, "create_task"}
      BY <2>3, NoneAssumption DEF CommitUpdateDeadline, At, Operations
    <3>2. /\ req[w].task \in Task /\ tasks[req[w].task] \in TaskRow
          /\ tasks \in [Task -> TaskRow]
      BY <3>1, OwnTask DEF IInv, TypeOK
    <3>3. PICK d : tasks' = [tasks EXCEPT ![req[w].task] =
                               [tasks[req[w].task] EXCEPT !.deadline = d]]
      BY <2>3, <3>2 DEF CommitUpdateDeadline, CommitTask, TaskRow
    <3>4. [tasks[req[w].task] EXCEPT !.deadline = d].status = tasks[req[w].task].status
      BY <3>2 DEF TaskRow
    <3> QED BY <3>2, <3>3, <3>4, OneMove
  <2> QED BY <1>1, <2>1, <2>2, <2>3, FirstMoves, FinishMoves, VerdictMoves, ResolveMoves
          DEF Step
<1>2. ASSUME NEW w \in Worker, Arrive(w) \/ Abort(w)
      PROVE  StatusMoves
  BY <1>0, <1>2 DEF Arrive, BeginCreateTask, BeginEditTask, BeginUpdateDeadline,
     BeginSubmitTask, BeginMarkTaskBilled, BeginReview, BeginCreateIssue, BeginResolveIssue,
     BeginAsAssignee, Begin, Abort
<1>3. CASE \/ \E o \in Owner, i \in Issue : MarkNotificationRead(o, i)
           \/ \E e \in Employee : SetEmployeeActive(e)
  BY <1>0, <1>3 DEF MarkNotificationRead, SetEmployeeActive
<1>4. CASE UNCHANGED vars
  BY <1>0, <1>4 DEF vars
<1> QED BY <1>1, <1>2, <1>3, <1>4 DEF Next

\* A task's status moves along the state machine of the docs, each move under
\* the gate of its endpoint, and by two ways more, which the docs rule out: a
\* billing task is submitted and reviewed, and resolving an issue as
\* reassigned puts a submitted or closed task back in progress.
THEOREM StateMachine == Spec => [][StatusMoves]_vars
<1>1. IInv /\ [Next]_vars => [StatusMoves]_vars
  BY StepMoves
<1> QED BY Invariant, <1>1, PTL DEF Spec

-----------------------------------------------------------------------------
(* What the two broken promises of the docs hang on *)

\* Requests do what some endpoint in use offers.
Offered == \A w \in Worker : req[w].op \in Endpoint \cup {None}

LEMMA OfferedStep ==
  ASSUME Offered, IInv, [Next]_vars
  PROVE  Offered'
<1>1. req \in [Worker -> Request]
  BY DEF IInv, TypeOK
<1>2. ASSUME NEW w \in Worker, NEW r, r.op \in Endpoint \cup {None} \/ r.op = req[w].op,
             req' = [req EXCEPT ![w] = r]
      PROVE  Offered'
  BY <1>1, <1>2 DEF Offered
<1>3. ASSUME NEW w \in Worker, Leaves(w)
      PROVE  Offered'
  BY <1>2, <1>3 DEF Leaves, Idle
<1>4. ASSUME UNCHANGED req
      PROVE  Offered'
  BY <1>4 DEF Offered
<1>5. ASSUME NEW w \in Worker, NEW op, NEW actor, NEW t, NEW i, NEW to, NEW d,
             Begin(w, op, actor, t, i, to, d)
      PROVE  Offered'
  BY <1>2, <1>5 DEF Begin
<1>6. ASSUME NEW w \in Worker, Arrive(w)
      PROVE  Offered'
  BY <1>5, <1>6 DEF Arrive, BeginCreateTask, BeginEditTask, BeginUpdateDeadline,
     BeginSubmitTask, BeginMarkTaskBilled, BeginReview, BeginCreateIssue, BeginResolveIssue,
     BeginAsAssignee
<1>7. ASSUME NEW w \in Worker, NEW ok, LockTaskThen(w, ok)
      PROVE  Offered'
  <2>1. CASE Grant(w)
    <3> DEFINE r == [req[w] EXCEPT !.pc = "checked", !.row = Locked(w)]
    <3>1. r.op = req[w].op
      BY <1>1 DEF Request
    <3>2. req' = [req EXCEPT ![w] = r]
      BY <1>1, <2>1 DEF Grant
    <3> HIDE DEF r
    <3> QED BY <1>2, <3>1, <3>2
  <2>2. CASE Refuse(w)
    BY <1>7, <2>2, <1>3, RefuseLeaves DEF LockTaskThen, IInv
  <2> QED BY <1>7, <2>1, <2>2 DEF LockTaskThen
<1>8. ASSUME NEW w \in Worker, CheckResolveIssue(w)
      PROVE  Offered'
  <2>1. \/ \E pc : req' = [req EXCEPT ![w].pc = pc]
        \/ req' = [req EXCEPT ![w] = Idle]
    BY <1>8 DEF CheckResolveIssue
  <2>2. CASE req' = [req EXCEPT ![w] = Idle]
    BY <1>2, <2>2 DEF Idle
  <2>3. ASSUME NEW pc, req' = [req EXCEPT ![w].pc = pc]
        PROVE  Offered'
    <3>1. [req[w] EXCEPT !.pc = pc].op = req[w].op
      BY <1>1 DEF Request
    <3>2. req' = [req EXCEPT ![w] = [req[w] EXCEPT !.pc = pc]]
      BY <1>1, <2>3
    <3> QED BY <1>2, <3>1, <3>2
  <2> QED BY <2>1, <2>2, <2>3
<1>9. ASSUME NEW w \in Worker, Release(w)
      PROVE  Offered'
  BY <1>3, <1>9, ReleaseLeaves DEF IInv
<1>10. ASSUME NEW w \in Worker, Step(w) \/ Abort(w)
       PROVE  Offered'
  <2>1. CASE \/ CheckEditTask(w) \/ CheckSubmitTask(w) \/ CheckMarkTaskBilled(w)
             \/ CheckReview(w) \/ LockResolvedTask(w) \/ CheckResolveIssue(w)
    BY <2>1, <1>7, <1>8 DEF CheckEditTask, CheckSubmitTask, CheckMarkTaskBilled, CheckReview,
       LockResolvedTask
  <2>2. CASE \/ CommitCreateTask(w) \/ CommitReviewBilling(w) \/ CommitCreateIssue(w)
             \/ Abort(w)
    BY <2>2, <1>9 DEF CommitCreateTask, CommitReviewBilling, CommitCreateIssue, Abort
  <2>3. CASE \/ CommitEditTask(w) \/ CommitUpdateDeadline(w) \/ CommitSubmitTask(w)
             \/ CommitMarkTaskBilled(w) \/ CommitReviewApproved(w)
             \/ CommitReviewReassigned(w)
    BY <2>3, <1>9 DEF CommitEditTask, CommitUpdateDeadline, CommitSubmitTask,
       CommitMarkTaskBilled, CommitReviewApproved, CommitReviewReassigned, CommitTask
  <2>4. CASE \/ CommitResolveClarified(w) \/ CommitResolveDeadlineAdjusted(w)
             \/ CommitResolveReassigned(w)
    BY <2>4, <1>9 DEF CommitResolveClarified, CommitResolveDeadlineAdjusted,
       CommitResolveReassigned, ResolveRows
  <2> QED BY <1>10, <2>1, <2>2, <2>3, <2>4 DEF Step
<1>11. CASE \/ \E o \in Owner, i \in Issue : MarkNotificationRead(o, i)
            \/ \E e \in Employee : SetEmployeeActive(e)
  BY <1>4, <1>11 DEF MarkNotificationRead, SetEmployeeActive
<1>12. CASE UNCHANGED vars
  BY <1>4, <1>12 DEF vars
<1> QED BY <1>6, <1>10, <1>11, <1>12 DEF Next

LEMMA OfferedOnly == Spec => []Offered
<1>1. Init => Offered
  BY DEF Init, Offered, Idle
<1> QED BY Invariant, <1>1, OfferedStep, PTL DEF Spec

\* A closed task is reopened by resolve_issue's reassigned outcome and by
\* nothing else: a firm that does not use it never sees one reopened.
THEOREM ReopenedByResolveOnly ==
  ASSUME "resolve_reassigned" \notin Endpoint
  PROVE  Spec => ClosedStaysClosed
<1>1. Offered /\ StatusMoves =>
        \A t \in Task : tasks[t].status \in {"completed", "billed"} =>
                          tasks'[t].status = tasks[t].status
  <2> SUFFICES ASSUME Offered, StatusMoves, NEW t \in Task,
                      tasks[t].status \in {"completed", "billed"},
                      tasks'[t].status # tasks[t].status
               PROVE  FALSE
    OBVIOUS
  <2>1. PICK w \in Worker : CommitResolveReassigned(w)
    BY DEF StatusMoves, Moves, DocumentedMove, BillReviewMove, ReopenMove, Verdict, Commits,
       Submittable, Billable, InHand
  <2>2. "resolve_reassigned" \in Endpoint \cup {None}
    BY <2>1 DEF Offered, CommitResolveReassigned, At
  <2> QED BY <2>2, NoneAssumption DEF Operations
<1> QED BY OfferedOnly, StateMachine, <1>1, PTL DEF ClosedStaysClosed

\* Whoever submits is the assignee at that moment; only mark-billed, which
\* does not ask again under its lock, can finish the work of somebody else.
THEOREM FinishedByOthersOnlyBilled ==
  ASSUME "mark_task_billed" \notin Endpoint
  PROVE  Spec => OnlyAssigneeFinishes
<1>1. Offered /\ IInv /\ StatusMoves =>
        \A t \in Task :
          (/\ tasks'[t].status # tasks[t].status
           /\ tasks'[t].status \in {"submitted", "billed"})
          => \E w \in Worker : /\ req'[w] # req[w]
                               /\ req[w].task = t
                               /\ req[w].actor = tasks[t].assignee
  <2> SUFFICES ASSUME Offered, IInv, StatusMoves, NEW t \in Task,
                      tasks'[t].status # tasks[t].status,
                      tasks'[t].status \in {"submitted", "billed"}
               PROVE  \E w \in Worker : /\ req'[w] # req[w]
                                        /\ req[w].task = t
                                        /\ req[w].actor = tasks[t].assignee
    OBVIOUS
  <2>1. ASSUME NEW w \in Worker, CommitMarkTaskBilled(w)
        PROVE  FALSE
    <3>1. "mark_task_billed" \in Endpoint \cup {None}
      BY <2>1 DEF Offered, CommitMarkTaskBilled, At
    <3> QED BY <3>1, NoneAssumption DEF Operations
  <2>2. PICK w \in Worker : /\ CommitSubmitTask(w) /\ req[w].task = t
                            /\ Submittable(tasks[t], req[w].actor)
    BY <2>1 DEF StatusMoves, Moves, DocumentedMove, BillReviewMove, ReopenMove, Verdict, Commits
  <2>3. req'[w].pc = "idle" /\ req[w].pc = "checked"
    BY <2>2 DEF CommitSubmitTask, CommitTask, Release, At, IInv, TypeOK, Idle
  <2> QED BY <2>2, <2>3 DEF Submittable
<1> QED BY OfferedOnly, Invariant, StateMachine, <1>1, PTL DEF OnlyAssigneeFinishes

-----------------------------------------------------------------------------
(* Who waits for whom *)

\* A step of request w frees locks or takes some for itself.
LEMMA OwnedFrame ==
  ASSUME TypeOK, LockOwned, NEW w \in Worker,
         \A v \in Worker \ {w} : req'[v] = req[v],
         \A t \in Task : taskLock'[t] \in {None, taskLock[t], w},
         \A i \in Issue : issueLock'[i] \in {None, issueLock[i], w},
         \A t \in Task : taskLock'[t] = w => HoldsTask(w)' /\ req'[w].task = t,
         \A i \in Issue : issueLock'[i] = w => HoldsIssue(w)' /\ req'[w].issue = i
  PROVE  LockOwned'
<1>1. ASSUME NEW t \in Task, taskLock'[t] # None
      PROVE  HoldsTask(taskLock[t])' /\ req'[taskLock'[t]].task = t
  <2>1. CASE taskLock'[t] = w
    BY <2>1 DEF HoldsTask
  <2>2. CASE taskLock'[t] # w
    <3>1. taskLock'[t] = taskLock[t] /\ taskLock[t] \in Worker \ {w}
      BY <1>1, <2>2 DEF TypeOK
    <3>2. HoldsTask(taskLock[t]) /\ req[taskLock[t]].task = t
      BY <3>1, NoneAssumption DEF LockOwned
    <3>3. req'[taskLock'[t]] = req[taskLock[t]]
      BY <3>1
    <3> QED BY <3>2, <3>3 DEF HoldsTask
  <2> QED BY <2>1, <2>2
<1>2. ASSUME NEW i \in Issue, issueLock'[i] # None
      PROVE  HoldsIssue(issueLock[i])' /\ req'[issueLock'[i]].issue = i
  <2>1. CASE issueLock'[i] = w
    BY <2>1 DEF HoldsIssue
  <2>2. CASE issueLock'[i] # w
    <3>1. issueLock'[i] = issueLock[i] /\ issueLock[i] \in Worker \ {w}
      BY <1>2, <2>2 DEF TypeOK
    <3>2. HoldsIssue(issueLock[i]) /\ req[issueLock[i]].issue = i
      BY <3>1, NoneAssumption DEF LockOwned
    <3>3. req'[issueLock'[i]] = req[issueLock[i]]
      BY <3>1
    <3> QED BY <3>2, <3>3 DEF HoldsIssue
  <2> QED BY <2>1, <2>2
<1> QED BY <1>1, <1>2 DEF LockOwned

LEMMA ReleaseOwned ==
  ASSUME TypeOK, LockOwned, NEW w \in Worker, Release(w)
  PROVE  LockOwned'
<1>1. /\ \A v \in Worker \ {w} : req'[v] = req[v]
      /\ \A t \in Task : taskLock'[t] \in {None, taskLock[t]} /\ taskLock'[t] # w
      /\ \A i \in Issue : issueLock'[i] \in {None, issueLock[i]} /\ issueLock'[i] # w
  BY NoneAssumption DEF Release, TypeOK
<1> QED BY <1>1, OwnedFrame

\* A request that holds nothing may become anything that needs no lock.
LEMMA FreeOwned ==
  ASSUME TypeOK, LockOwned, NEW w \in Worker, NEW r,
         req' = [req EXCEPT ![w] = r], UNCHANGED <<taskLock, issueLock>>,
         ~HoldsTask(w), ~HoldsIssue(w)
  PROVE  LockOwned'
<1>1. \A v \in Worker \ {w} : req'[v] = req[v]
  BY DEF TypeOK
<1>2. /\ \A t \in Task : taskLock[t] # w
      /\ \A i \in Issue : issueLock[i] # w
  BY NoneAssumption DEF LockOwned
<1> QED BY <1>1, <1>2, OwnedFrame

LEMMA CheckOwned ==
  ASSUME IInv, LockOwned, NEW w \in Worker,
         \/ CheckEditTask(w) \/ CheckSubmitTask(w) \/ CheckMarkTaskBilled(w)
         \/ CheckReview(w) \/ LockResolvedTask(w)
  PROVE  LockOwned'
<1>1. req \in [Worker -> Request] /\ TypeOK
  BY DEF IInv, TypeOK
<1>2. /\ Grant(w) \/ (Refuse(w) /\ req[w].pc = "read")
      /\ issueLock' = issueLock
      /\ \/ req[w].pc = "read" /\ ~Resolving(req[w].op)
         \/ req[w].pc = "issue_locked"
      /\ req[w].op # "resolve_clarified"
  <2>1. CASE CheckEditTask(w) \/ CheckSubmitTask(w) \/ CheckMarkTaskBilled(w)
             \/ CheckReview(w)
    <3>1. req[w].pc = "read" /\ (Grant(w) \/ Refuse(w)) /\ issueLock' = issueLock
      BY <2>1 DEF CheckEditTask, CheckSubmitTask, CheckMarkTaskBilled, CheckReview, At,
         LockTaskThen
    <3>2. \/ req[w].op \in {"edit_task", "submit_task", "mark_task_billed"}
          \/ Reviewing(req[w].op)
      BY <2>1 DEF CheckEditTask, CheckSubmitTask, CheckMarkTaskBilled, CheckReview, At
    <3> QED BY <3>1, <3>2 DEF Reviewing, Resolving
  <2>2. CASE LockResolvedTask(w)
    <3>1. RequestFits(w)
      BY DEF IInv, RequestOK
    <3> QED BY <2>2, <3>1 DEF LockResolvedTask, LockTaskThen, RequestFits
  <2> QED BY <2>1, <2>2
<1>3. CASE Refuse(w) /\ req[w].pc = "read"
  <2>1. ~HoldsTask(w) /\ ~HoldsIssue(w)
    BY <1>2, <1>3 DEF HoldsTask, HoldsIssue
  <2> QED BY <1>1, <1>2, <1>3, <2>1, FreeOwned DEF Refuse
<1>4. CASE Grant(w)
  <2>1. /\ taskLock' = [taskLock EXCEPT ![req[w].task] = w] /\ issueLock' = issueLock
        /\ \A v \in Worker \ {w} : req'[v] = req[v]
        /\ req'[w].pc = "checked" /\ req'[w].op = req[w].op
        /\ req'[w].task = req[w].task /\ req'[w].issue = req[w].issue
    BY <1>1, <1>2, <1>4 DEF Grant, Request
  <2>2. HoldsTask(w)' /\ (HoldsIssue(w) => HoldsIssue(w)')
    BY <1>2, <2>1 DEF HoldsTask, HoldsIssue
  <2>3. /\ \A t \in Task : taskLock[t] # w
        /\ \A i \in Issue : issueLock[i] = w => HoldsIssue(w) /\ req[w].issue = i
    BY <1>2, NoneAssumption DEF LockOwned, HoldsTask
  <2>4. \A t \in Task : /\ taskLock'[t] \in {taskLock[t], w}
                        /\ taskLock'[t] = w => t = req[w].task
    BY <1>1, <2>1, <2>3 DEF TypeOK
  <2> QED BY <1>1, <2>1, <2>2, <2>3, <2>4, OwnedFrame
<1> QED BY <1>2, <1>3, <1>4

LEMMA CheckResolveOwned ==
  ASSUME IInv, LockOwned, NEW w \in Worker, CheckResolveIssue(w)
  PROVE  LockOwned'
<1> DEFINE i == req[w].issue
<1>1. req \in [Worker -> Request] /\ TypeOK
  BY DEF IInv, TypeOK
<1>2. /\ req[w].pc = "read" /\ Resolving(req[w].op) /\ taskLock' = taskLock
      /\ ~HoldsTask(w) /\ ~HoldsIssue(w)
  BY DEF CheckResolveIssue, HoldsTask, HoldsIssue
<1>3. CASE req' = [req EXCEPT ![w] = Idle] /\ issueLock' = issueLock
  BY <1>1, <1>2, <1>3, FreeOwned
<1>4. CASE \E pc \in {"checked", "issue_locked"} :
             /\ req' = [req EXCEPT ![w].pc = pc]
             /\ issueLock' = [issueLock EXCEPT ![i] = w]
  <2>1. PICK pc \in {"checked", "issue_locked"} :
          /\ req' = [req EXCEPT ![w].pc = pc]
          /\ issueLock' = [issueLock EXCEPT ![i] = w]
    BY <1>4
  <2>2. /\ \A v \in Worker \ {w} : req'[v] = req[v]
        /\ req'[w].pc = pc /\ req'[w].op = req[w].op /\ req'[w].issue = i
    BY <1>1, <2>1 DEF Request
  <2>3. HoldsIssue(w)'
    BY <1>2, <2>2 DEF HoldsIssue
  <2>4. /\ \A t \in Task : taskLock[t] # w
        /\ \A j \in Issue : issueLock[j] # w
    BY <1>2, NoneAssumption DEF LockOwned
  <2>5. \A j \in Issue : /\ issueLock'[j] \in {issueLock[j], w}
                         /\ issueLock'[j] = w => j = i
    BY <1>1, <2>1, <2>4 DEF TypeOK
  <2> QED BY <1>1, <1>2, <2>2, <2>3, <2>4, <2>5, OwnedFrame
<1> QED BY <1>3, <1>4 DEF CheckResolveIssue

LEMMA OwnedStep ==
  ASSUME IInv, LockOwned, [Next]_vars
  PROVE  LockOwned'
<1>0. TypeOK
  BY DEF IInv
<1>1. ASSUME NEW w \in Worker, Arrive(w)
      PROVE  LockOwned'
  <2>1. \E r : req' = [req EXCEPT ![w] = r]
    BY <1>1 DEF Arrive, BeginCreateTask, BeginEditTask, BeginUpdateDeadline,
       BeginSubmitTask, BeginMarkTaskBilled, BeginReview, BeginCreateIssue,
       BeginResolveIssue, BeginAsAssignee, Begin
  <2>2. req[w].pc = "idle" /\ UNCHANGED <<taskLock, issueLock>>
    BY <1>1 DEF Arrive, BeginCreateTask, BeginEditTask, BeginUpdateDeadline,
       BeginSubmitTask, BeginMarkTaskBilled, BeginReview, BeginCreateIssue,
       BeginResolveIssue, BeginAsAssignee, Begin
  <2>3. ~HoldsTask(w) /\ ~HoldsIssue(w)
    BY <2>2 DEF HoldsTask, HoldsIssue
  <2> QED BY <1>0, <2>1, <2>2, <2>3, FreeOwned
<1>2. ASSUME NEW w \in Worker, Step(w) \/ Abort(w)
      PROVE  LockOwned'
  <2>1. CASE \/ CheckEditTask(w) \/ CheckSubmitTask(w) \/ CheckMarkTaskBilled(w)
             \/ CheckReview(w) \/ LockResolvedTask(w) \/ CheckResolveIssue(w)
    BY <2>1, CheckOwned, CheckResolveOwned
  <2>2. CASE \/ CommitCreateTask(w) \/ CommitReviewBilling(w) \/ CommitCreateIssue(w)
             \/ Abort(w)
    BY <1>0, <2>2, ReleaseOwned
       DEF CommitCreateTask, CommitReviewBilling, CommitCreateIssue, Abort
  <2>3. CASE \/ CommitEditTask(w) \/ CommitUpdateDeadline(w) \/ CommitSubmitTask(w)
             \/ CommitMarkTaskBilled(w) \/ CommitReviewApproved(w)
             \/ CommitReviewReassigned(w)
    BY <1>0, <2>3, ReleaseOwned DEF CommitEditTask, CommitUpdateDeadline, CommitSubmitTask,
       CommitMarkTaskBilled, CommitReviewApproved, CommitReviewReassigned, CommitTask
  <2>4. CASE \/ CommitResolveClarified(w) \/ CommitResolveDeadlineAdjusted(w)
             \/ CommitResolveReassigned(w)
    BY <1>0, <2>4, ReleaseOwned DEF CommitResolveClarified, CommitResolveDeadlineAdjusted,
       CommitResolveReassigned, ResolveRows
  <2> QED BY <1>2, <2>1, <2>2, <2>3, <2>4 DEF Step
<1>3. CASE \/ \E o \in Owner, i \in Issue : MarkNotificationRead(o, i)
           \/ \E e \in Employee : SetEmployeeActive(e)
           \/ UNCHANGED vars
  BY <1>3 DEF MarkNotificationRead, SetEmployeeActive, vars, LockOwned, HoldsTask, HoldsIssue
<1> QED BY <1>1, <1>2, <1>3 DEF Next

\* The other half of LocksHeld: no lock outlives the request that took it.
THEOREM NoLockLeaks == Spec => []LockOwned
<1>1. Init => LockOwned
  BY DEF Init, LockOwned
<1> QED BY Invariant, <1>1, OwnedStep, PTL DEF Spec

\* A request that has a task row locked has all it needs.
LEMMA TaskHolderRuns ==
  ASSUME NEW w \in Worker, NEW v \in Worker, HoldsTask(w)
  PROVE  ~WaitsFor(w, v)
BY DEF HoldsTask, WaitsFor, NeedsTask, At

\* Whoever waits for a task row waits for a request that holds one; whoever
\* waits for an issue row has no lock yet, and waits for the issue's holder.
LEMMA ChainEnds ==
  ASSUME IInv, LockOwned, NEW w \in Worker, NEW v \in Worker, WaitsFor(w, v)
  PROVE  /\ HoldsTask(v) \/ (req[w].pc = "read" /\ HoldsIssue(v))
         /\ w # v
<1>1. v # None /\ RequestFits(w)
  BY NoneAssumption DEF IInv, RequestOK
<1>2. CASE NeedsTask(w) /\ taskLock[req[w].task] = v
  <2>1. req[w].task \in Task
    <3>1. req[w].op \notin {None, "create_task"}
      BY <1>1, <1>2, NoneAssumption DEF RequestFits, Resolving, Operations, NeedsTask, At
    <3> QED BY <1>1, <3>1 DEF RequestFits
  <2>2. HoldsTask(v)
    BY <1>1, <1>2, <2>1 DEF LockOwned
  <2>3. ~HoldsTask(w)
    BY <1>2 DEF NeedsTask, HoldsTask, At
  <2> QED BY <2>2, <2>3
<1>3. CASE req[w].pc = "read" /\ Resolving(req[w].op) /\ issueLock[req[w].issue] = v
  <2>1. req[w].issue \in Issue
    BY <1>1, <1>3 DEF RequestFits
  <2>2. HoldsIssue(v)
    BY <1>1, <1>3, <2>1 DEF LockOwned
  <2> QED BY <1>3, <2>2 DEF HoldsIssue
<1> QED BY <1>2, <1>3 DEF WaitsFor

\* However many requests there are, none waits for one that is gone, and none
\* is part of a wait that goes round in a circle.
THEOREM NobodyStandsStill == Spec => []NoStandstill
<1>1. IInv /\ LockOwned => NoStandstill
  <2> SUFFICES ASSUME IInv, LockOwned PROVE NoStandstill
    OBVIOUS
  <2>1. ASSUME NEW group \in SUBSET Worker, group # {},
               \A w \in group : \E v \in group : WaitsFor(w, v)
        PROVE  FALSE
    <3>1. PICK w \in group : TRUE
      BY <2>1
    <3>2. PICK v \in group : WaitsFor(w, v)
      BY <2>1
    <3>3. PICK u \in group : WaitsFor(v, u)
      BY <2>1
    <3>4. PICK x \in group : WaitsFor(u, x)
      BY <2>1
    <3>5. HoldsIssue(v)
      BY <3>2, <3>3, ChainEnds, TaskHolderRuns
    <3>6. HoldsTask(u)
      BY <3>3, <3>5, ChainEnds DEF HoldsIssue
    <3> QED BY <3>4, <3>6, TaskHolderRuns
  <2>2. \A w, v \in Worker :
          WaitsFor(w, v) => w # v /\ req[v].pc \in {"issue_locked", "checked"}
    BY ChainEnds DEF HoldsTask, HoldsIssue
  <2> QED BY <2>1, <2>2 DEF NoStandstill
<1> QED BY Invariant, NoLockLeaks, <1>1, PTL

=============================================================================
