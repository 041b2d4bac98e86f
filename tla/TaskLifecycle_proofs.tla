------------------------ MODULE TaskLifecycle_proofs ------------------------
(***************************************************************************)
(* TaskWorkflow implements TaskLifecycle: every step of every request is   *)
(* one lifecycle step or none, for any number of tasks, issues, people and *)
(* requests in flight.                                                     *)
(***************************************************************************)
EXTENDS TaskWorkflow_proofs

-----------------------------------------------------------------------------
(* The columns the lifecycle sees *)

LEMMA ColumnOf ==
  ASSUME NEW t \in Task
  PROVE  /\ Column("status")[t] = tasks[t].status
         /\ Column("assignee")[t] = tasks[t].assignee
         /\ Column("parent")[t] = tasks[t].parent
BY DEF Column

LEMMA IssueColumnOf ==
  ASSUME NEW i \in Issue
  PROVE  /\ IssueColumn("status")[i] = issues[i].status
         /\ IssueColumn("task")[i] = issues[i].task
BY DEF IssueColumn

\* What a lifecycle sees of a step that leaves a table alone.
LEMMA ColumnsStay ==
  /\ UNCHANGED tasks =>
       UNCHANGED <<Column("status"), Column("assignee"), Column("parent")>>
  /\ UNCHANGED issues => UNCHANGED <<IssueColumn("status"), IssueColumn("task")>>
BY DEF Column, IssueColumn

\* What it sees of one row that is written.
LEMMA RowWritten ==
  ASSUME tasks \in [Task -> TaskRow], NEW t \in Task, NEW row \in TaskRow,
         tasks' = [tasks EXCEPT ![t] = row]
  PROVE  /\ Column("status")' = [Column("status") EXCEPT ![t] = row.status]
         /\ Column("assignee")' = [Column("assignee") EXCEPT ![t] = row.assignee]
         /\ row.status = tasks[t].status => UNCHANGED Column("status")
         /\ row.assignee = tasks[t].assignee => UNCHANGED Column("assignee")
         /\ row.parent = tasks[t].parent => UNCHANGED Column("parent")
BY DEF Column

\* The same, for a step that only changes the status.
LEMMA StatusWritten ==
  ASSUME tasks \in [Task -> TaskRow], NEW t \in Task, NEW st \in Status,
         tasks' = [tasks EXCEPT ![t] = [tasks[t] EXCEPT !.status = st]]
  PROVE  /\ Column("status")' = [Column("status") EXCEPT ![t] = st]
         /\ UNCHANGED <<Column("assignee"), Column("parent")>>
<1> DEFINE row == [tasks[t] EXCEPT !.status = st]
<1>1. /\ row \in TaskRow /\ row.status = st
      /\ row.assignee = tasks[t].assignee /\ row.parent = tasks[t].parent
  BY WrittenRows
<1> HIDE DEF row
<1>2. tasks' = [tasks EXCEPT ![t] = row]
  BY DEF row
<1>3. /\ Column("status")' = [Column("status") EXCEPT ![t] = row.status]
      /\ row.assignee = tasks[t].assignee => UNCHANGED Column("assignee")
      /\ row.parent = tasks[t].parent => UNCHANGED Column("parent")
  BY <1>1, <1>2, RowWritten
<1> QED BY <1>1, <1>3

\* A row that goes back to somebody.
LEMMA ReassignedWritten ==
  ASSUME IInv, NEW t \in Task, NEW to \in Employee \cup {None},
         tasks' = [tasks EXCEPT ![t] = Reassigned(tasks[t], to)],
         Started(tasks[t])
  PROVE  \E e \in Employee :
           /\ Column("status")' = [Column("status") EXCEPT ![t] = "in_progress"]
           /\ Column("assignee")' = [Column("assignee") EXCEPT ![t] = e]
           /\ UNCHANGED Column("parent")
<1> DEFINE row == Reassigned(tasks[t], to)
           e == row.assignee
<1>1. tasks \in [Task -> TaskRow] /\ tasks[t] \in TaskRow /\ tasks[t].assignee # None
  BY DEF IInv, TypeOK, HandedOutHasAssignee, Started
<1>2. /\ row \in TaskRow /\ row.status = "in_progress" /\ row.parent = tasks[t].parent
      /\ e = IF to = None THEN tasks[t].assignee ELSE to
  BY <1>1, WrittenRows
<1>3. e \in Employee
  BY <1>1, <1>2 DEF TaskRow
<1> HIDE DEF row
<1>4. tasks' = [tasks EXCEPT ![t] = row]
  BY DEF row
<1>5. /\ Column("status")' = [Column("status") EXCEPT ![t] = row.status]
      /\ Column("assignee")' = [Column("assignee") EXCEPT ![t] = row.assignee]
      /\ row.parent = tasks[t].parent => UNCHANGED Column("parent")
  BY <1>1, <1>2, <1>4, RowWritten
<1> QED BY <1>2, <1>3, <1>5

-----------------------------------------------------------------------------
(* An id without a row bills nothing: IInv does not say so, and no lifecycle *)
(* step can change it                                                        *)

Unbilled == \A t \in Task : tasks[t].status = "absent" => tasks[t].parent = None

LEMMA UnbilledInit == Init => Unbilled
BY DEF Init, Unbilled, NoTask

LEMMA UnbilledStays ==
  ASSUME Unbilled, [Lifecycle!Next]_(Lifecycle!lifecycleVars)
  PROVE  Unbilled'
<1> SUFFICES ASSUME NEW t \in Task, tasks'[t].status = "absent"
             PROVE  tasks'[t].parent = None
  BY DEF Unbilled
<1>1. /\ Column("status")'[t] = "absent"
      /\ tasks'[t].parent = Column("parent")'[t]
  BY DEF Column
<1>2. /\ Column("status") \in [Task -> {Column("status")[s] : s \in Task}]
      /\ Column("parent") \in [Task -> {Column("parent")[s] : s \in Task}]
      /\ Column("status")[t] = "absent" => Column("parent")[t] = None
  BY DEF Column, Unbilled
<1>3. CASE UNCHANGED <<Column("status"), Column("parent")>>
  BY <1>1, <1>2, <1>3
<1>4. CASE UNCHANGED Lifecycle!lifecycleVars
  BY <1>3, <1>4 DEF Lifecycle!lifecycleVars
<1>5. CASE \E s \in Task, st \in Status \ {"absent"} :
             /\ Column("status")' = [Column("status") EXCEPT ![s] = st]
             /\ UNCHANGED Column("parent")
  BY <1>1, <1>2, <1>5
<1>6. CASE \E s \in Task : \/ Lifecycle!Create(s) \/ Lifecycle!HandIn(s)
                           \/ Lifecycle!Bill(s) \/ Lifecycle!Approve(s)
                           \/ \E e \in Employee : Lifecycle!Assign(s, e) \/ Lifecycle!SendBack(s, e)
  BY <1>5, <1>6 DEF Status, Lifecycle!Create, Lifecycle!HandIn, Lifecycle!Bill, Lifecycle!Approve,
     Lifecycle!Assign, Lifecycle!SendBack
<1>7. CASE \E s, b \in Task, e \in Employee : Lifecycle!Charge(s, b, e)
  BY <1>1, <1>2, <1>7 DEF Lifecycle!Charge
<1>8. CASE \E i \in Issue : \/ \E s \in Task : Lifecycle!Open(i, s)
                            \/ Lifecycle!Settle(i)
  BY <1>3, <1>8 DEF Lifecycle!Open, Lifecycle!Settle, Lifecycle!Resolve
<1>9. CASE \E i \in Issue, e \in Employee : Lifecycle!HandBack(i, e)
  BY <1>1, <1>2, <1>9 DEF Lifecycle!HandBack, Lifecycle!Resolve
<1> QED BY <1>4, <1>6, <1>7, <1>8, <1>9
        DEF Lifecycle!Next, Lifecycle!Documented, Lifecycle!Undocumented, Lifecycle!Submit,
            Lifecycle!SubmitBill, Lifecycle!Raise, Lifecycle!RaiseLate, Lifecycle!Reassign,
            Lifecycle!Reopen

-----------------------------------------------------------------------------
(* One lemma per commit: which lifecycle step it is *)

LEMMA CreateIsStep ==
  ASSUME IInv, Unbilled, NEW w \in Worker, CommitCreateTask(w)
  PROVE  \E t \in Task : Lifecycle!Create(t) \/ \E e \in Employee : Lifecycle!Assign(t, e)
<1> DEFINE to == req[w].to
           row == [NoTask EXCEPT !.status = IF to = None THEN "created" ELSE "assigned",
                                 !.assignee = to,
                                 !.deadline = req[w].deadline]
<1>1. PICK t \in Task : tasks[t].status = "absent" /\ tasks' = [tasks EXCEPT ![t] = row]
  BY DEF CommitCreateTask
<1>2. /\ to \in Employee \cup {None} /\ req[w].deadline \in Deadline \cup {None}
      /\ tasks \in [Task -> TaskRow] /\ tasks[t] \in TaskRow
  BY DEF IInv, TypeOK, Request
<1>3. /\ row \in TaskRow /\ row.assignee = to /\ row.parent = None
      /\ row.status = IF to = None THEN "created" ELSE "assigned"
  BY <1>2 DEF TaskRow, NoTask, Status
<1>4. tasks[t].assignee = None /\ tasks[t].parent = None
  BY <1>1 DEF IInv, HandedOutHasAssignee, Unbilled
<1>5. /\ Column("status")' = [Column("status") EXCEPT ![t] = row.status]
      /\ Column("assignee")' = [Column("assignee") EXCEPT ![t] = row.assignee]
      /\ row.assignee = tasks[t].assignee => UNCHANGED Column("assignee")
      /\ row.parent = tasks[t].parent => UNCHANGED Column("parent")
  <2> HIDE DEF row
  <2> QED BY <1>1, <1>2, <1>3, RowWritten
<1> HIDE DEF row
<1>6. UNCHANGED <<IssueColumn("status"), IssueColumn("task"), submissions, reviews, resolutions>>
  BY ColumnsStay DEF CommitCreateTask
<1>7. CASE to = None
  <2>1. Lifecycle!Create(t)
    BY <1>1, <1>3, <1>4, <1>5, <1>6, <1>7, ColumnOf DEF Lifecycle!Create
  <2> QED BY <2>1
<1>8. CASE to # None
  <2>1. to \in Employee
    BY <1>2, <1>8
  <2>2. Lifecycle!Assign(t, to)
    BY <1>1, <1>3, <1>4, <1>5, <1>6, <1>8, ColumnOf DEF Lifecycle!Assign
  <2> QED BY <2>1, <2>2
<1> QED BY <1>7, <1>8

LEMMA EditIsStep ==
  ASSUME IInv, NEW w \in Worker, CommitEditTask(w)
  PROVE  \E t \in Task, e \in Employee : Lifecycle!Assign(t, e)
<1> DEFINE t == req[w].task
           row == Edited(tasks[t], req[w].to)
<1>1. req[w].pc = "checked" /\ req[w].op = "edit_task" /\ HoldsTask(w)
  BY DEF CommitEditTask, At, HoldsTask
<1>2. /\ t \in Task /\ tasks[t] \in TaskRow /\ Editable(tasks[t]) /\ req[w].to \in Employee
  BY <1>1, OwnTask, NoneAssumption DEF Operations, DecisionHolds, At, RequestFits
<1>3. /\ tasks \in [Task -> TaskRow] /\ tasks' = [tasks EXCEPT ![t] = row]
      /\ UNCHANGED <<IssueColumn("status"), IssueColumn("task"),
                     submissions, reviews, resolutions>>
  BY ColumnsStay DEF CommitEditTask, CommitTask, IInv, TypeOK
<1>4. /\ row \in TaskRow /\ row.assignee = req[w].to /\ row.parent = tasks[t].parent
      /\ row.status = "assigned"
  BY <1>2, WrittenRows DEF Editable
<1>5. /\ Column("status")' = [Column("status") EXCEPT ![t] = row.status]
      /\ Column("assignee")' = [Column("assignee") EXCEPT ![t] = row.assignee]
      /\ row.parent = tasks[t].parent => UNCHANGED Column("parent")
  <2> HIDE DEF row, t
  <2> QED BY <1>2, <1>3, <1>4, RowWritten
<1> HIDE DEF row
<1> QED BY <1>2, <1>3, <1>4, <1>5, ColumnOf DEF Editable, Lifecycle!Assign

\* A deadline is no part of the lifecycle.
LEMMA DatedIsStutter ==
  ASSUME IInv, NEW t \in Task, NEW d \in Deadline \cup {None},
         tasks' = [tasks EXCEPT ![t] = [tasks[t] EXCEPT !.deadline = d]]
  PROVE  UNCHANGED <<Column("status"), Column("assignee"), Column("parent")>>
<1> DEFINE row == [tasks[t] EXCEPT !.deadline = d]
<1>1. tasks \in [Task -> TaskRow] /\ tasks[t] \in TaskRow
  BY DEF IInv, TypeOK
<1>2. /\ row \in TaskRow /\ row.status = tasks[t].status
      /\ row.assignee = tasks[t].assignee /\ row.parent = tasks[t].parent
  BY <1>1, WrittenRows
<1> HIDE DEF row
<1>3. tasks' = [tasks EXCEPT ![t] = row]
  BY DEF row
<1>4. /\ row.status = tasks[t].status => UNCHANGED Column("status")
      /\ row.assignee = tasks[t].assignee => UNCHANGED Column("assignee")
      /\ row.parent = tasks[t].parent => UNCHANGED Column("parent")
  BY <1>1, <1>2, <1>3, RowWritten
<1> QED BY <1>2, <1>4

LEMMA SubmitIsStep ==
  ASSUME IInv, NEW w \in Worker, CommitSubmitTask(w)
  PROVE  \E t \in Task : Lifecycle!Submit(t) \/ Lifecycle!SubmitBill(t)
<1> DEFINE t == req[w].task
<1>1. req[w].pc = "checked" /\ req[w].op = "submit_task"
  BY DEF CommitSubmitTask, At
<1>2. t \in Task /\ InHand(tasks[t])
  BY <1>1, OwnTask, NoneAssumption DEF Operations, DecisionHolds, At, Submittable
<1>3. /\ tasks' = [tasks EXCEPT ![t] = [tasks[t] EXCEPT !.status = "submitted"]]
      /\ tasks \in [Task -> TaskRow]
      /\ submissions' = [submissions EXCEPT ![t] = submissions[t] + 1]
      /\ UNCHANGED <<IssueColumn("status"), IssueColumn("task"), reviews, resolutions>>
  BY ColumnsStay DEF CommitSubmitTask, CommitTask, IInv, TypeOK
<1>4. /\ Column("status")' = [Column("status") EXCEPT ![t] = "submitted"]
      /\ UNCHANGED <<Column("assignee"), Column("parent")>>
  BY <1>2, <1>3, StatusWritten DEF Status
<1>5. Lifecycle!HandIn(t)
  BY <1>2, <1>3, <1>4, ColumnOf DEF InHand, Lifecycle!HandIn, Lifecycle!InHand
<1> QED BY <1>2, <1>5 DEF Lifecycle!Submit, Lifecycle!SubmitBill

LEMMA BillIsStep ==
  ASSUME IInv, NEW w \in Worker, CommitMarkTaskBilled(w)
  PROVE  \E t \in Task : Lifecycle!Bill(t)
<1> DEFINE t == req[w].task
<1>1. req[w].pc = "checked" /\ req[w].op = "mark_task_billed"
  BY DEF CommitMarkTaskBilled, At
<1>2. t \in Task /\ InHand(tasks[t]) /\ tasks[t].parent # None
  BY <1>1, OwnTask, NoneAssumption DEF Operations, DecisionHolds, At, Billable
<1>3. /\ tasks' = [tasks EXCEPT ![t] = [tasks[t] EXCEPT !.status = "billed"]]
      /\ tasks \in [Task -> TaskRow]
      /\ UNCHANGED <<IssueColumn("status"), IssueColumn("task"),
                     submissions, reviews, resolutions>>
  BY ColumnsStay DEF CommitMarkTaskBilled, CommitTask, IInv, TypeOK
<1>4. /\ Column("status")' = [Column("status") EXCEPT ![t] = "billed"]
      /\ UNCHANGED <<Column("assignee"), Column("parent")>>
  BY <1>2, <1>3, StatusWritten DEF Status
<1> QED BY <1>2, <1>3, <1>4, ColumnOf DEF InHand, Lifecycle!Bill, Lifecycle!InHand

\* What every review is to the lifecycle.
LEMMA VerdictIsReview ==
  ASSUME IInv, NEW w \in Worker, req[w].pc = "checked", Reviewing(req[w].op), ReviewRow(w)
  PROVE  req[w].task \in Task /\ Lifecycle!Review(req[w].task)
<1> DEFINE t == req[w].task
<1>1. t \in Task /\ tasks[t].status = "submitted"
  BY VerdictCounts
<1>2. /\ reviews' = [reviews EXCEPT ![t] = reviews[t] + 1]
      /\ UNCHANGED <<IssueColumn("status"), IssueColumn("task"), submissions, resolutions>>
  BY ColumnsStay DEF ReviewRow
<1> QED BY <1>1, <1>2, ColumnOf DEF Lifecycle!Review

LEMMA ApproveIsStep ==
  ASSUME IInv, NEW w \in Worker, CommitReviewApproved(w)
  PROVE  \E t \in Task : Lifecycle!Approve(t)
<1> DEFINE t == req[w].task
<1>1. /\ req[w].pc = "checked" /\ Reviewing(req[w].op) /\ ReviewRow(w)
      /\ tasks' = [tasks EXCEPT ![t] = [tasks[t] EXCEPT !.status = "completed"]]
      /\ tasks \in [Task -> TaskRow]
  BY DEF CommitReviewApproved, CommitTask, At, Reviewing, IInv, TypeOK
<1>2. t \in Task /\ Lifecycle!Review(t)
  BY <1>1, VerdictIsReview
<1>3. /\ Column("status")' = [Column("status") EXCEPT ![t] = "completed"]
      /\ UNCHANGED <<Column("assignee"), Column("parent")>>
  BY <1>1, <1>2, StatusWritten DEF Status
<1> QED BY <1>2, <1>3 DEF Lifecycle!Approve

LEMMA SendBackIsStep ==
  ASSUME IInv, NEW w \in Worker, CommitReviewReassigned(w)
  PROVE  \E t \in Task, e \in Employee : Lifecycle!SendBack(t, e)
<1> DEFINE t == req[w].task
<1>1. /\ req[w].pc = "checked" /\ Reviewing(req[w].op) /\ ReviewRow(w)
      /\ tasks' = [tasks EXCEPT ![t] = Reassigned(tasks[t], req[w].to)]
      /\ req[w].to \in Employee \cup {None}
  BY DEF CommitReviewReassigned, CommitTask, At, Reviewing, IInv, TypeOK, Request
<1>2. t \in Task /\ Lifecycle!Review(t) /\ Started(tasks[t])
  BY <1>1, VerdictIsReview, VerdictCounts DEF Started
<1>3. PICK e \in Employee :
        /\ Column("status")' = [Column("status") EXCEPT ![t] = "in_progress"]
        /\ Column("assignee")' = [Column("assignee") EXCEPT ![t] = e]
        /\ UNCHANGED Column("parent")
  BY <1>1, <1>2, ReassignedWritten
<1> QED BY <1>2, <1>3 DEF Lifecycle!SendBack

LEMMA ChargeIsStep ==
  ASSUME IInv, NEW w \in Worker, CommitReviewBilling(w)
  PROVE  \E t, b \in Task, e \in Employee : Lifecycle!Charge(t, b, e)
<1> DEFINE t == req[w].task
           e == req[w].to
<1>1. /\ req[w].pc = "checked" /\ req[w].op = "review_billing"
      /\ Reviewing(req[w].op) /\ ReviewRow(w)
  BY DEF CommitReviewBilling, At, Reviewing
<1>2. t \in Task /\ Lifecycle!Review(t) /\ tasks[t].status = "submitted"
  BY <1>1, VerdictIsReview, VerdictCounts
<1>3. e \in Employee
  BY <1>1 DEF IInv, RequestOK, RequestFits
<1>4. PICK b \in Task :
        /\ tasks[b].status = "absent"
        /\ tasks' = [tasks EXCEPT
             ![t].status = "completed",
             ![b] = BillingTask(t, e, req[w].deadline)]
  BY DEF CommitReviewBilling
<1>5. tasks \in [Task -> TaskRow] /\ b # t
  BY <1>2, <1>4 DEF IInv, TypeOK
<1>6. /\ tasks'[t] = [tasks[t] EXCEPT !.status = "completed"]
      /\ tasks'[b] = BillingTask(t, e, req[w].deadline)
      /\ \A s \in Task \ {t, b} : tasks'[s] = tasks[s]
  BY <1>2, <1>4, <1>5
<1>7. /\ tasks'[t].status = "completed" /\ tasks'[t].assignee = tasks[t].assignee
      /\ tasks'[t].parent = tasks[t].parent
      /\ tasks'[b].status = "assigned" /\ tasks'[b].assignee = e /\ tasks'[b].parent = t
  BY <1>2, <1>5, <1>6 DEF TaskRow, BillingTask
<1> HIDE DEF t, e
<1>8. /\ Column("status")' = [Column("status") EXCEPT ![t] = "completed", ![b] = "assigned"]
      /\ Column("assignee")' = [Column("assignee") EXCEPT ![b] = e]
      /\ Column("parent")' = [Column("parent") EXCEPT ![b] = t]
  BY <1>2, <1>5, <1>6, <1>7 DEF Column
<1> QED BY <1>2, <1>3, <1>4, <1>8, ColumnOf DEF Lifecycle!Charge

LEMMA RaiseIsStep ==
  ASSUME IInv, NEW w \in Worker, CommitCreateIssue(w)
  PROVE  \/ \E i \in Issue, t \in Task : Lifecycle!Raise(i, t) \/ Lifecycle!RaiseLate(i, t)
         \/ UNCHANGED Lifecycle!lifecycleVars
<1> DEFINE t == req[w].task
<1>1. req[w].op = "create_issue"
  BY DEF CommitCreateIssue, At
<1>2. t \in Task /\ Started(tasks[t])
  BY <1>1, OwnTask, NoneAssumption DEF Operations, RequestFits
<1>3. UNCHANGED <<Column("status"), Column("assignee"), Column("parent"),
                  submissions, reviews, resolutions>>
  BY ColumnsStay DEF CommitCreateIssue
<1>4. CASE UNCHANGED issues
  BY <1>3, <1>4, ColumnsStay DEF Lifecycle!lifecycleVars
<1>5. CASE \E i \in Issue :
             /\ issues[i].status = "absent"
             /\ issues' = [issues EXCEPT ![i] =
                  [status |-> "open", task |-> t, raiser |-> req[w].actor]]
  <2>1. PICK i \in Issue :
          /\ issues[i].status = "absent"
          /\ issues' = [issues EXCEPT ![i] =
               [status |-> "open", task |-> t, raiser |-> req[w].actor]]
    BY <1>5
  <2>2. /\ IssueColumn("status")' = [IssueColumn("status") EXCEPT ![i] = "open"]
        /\ IssueColumn("task")' = [IssueColumn("task") EXCEPT ![i] = t]
    BY <2>1 DEF IssueColumn, IInv, TypeOK
  <2>3. Lifecycle!Open(i, t)
    BY <1>2, <1>3, <2>1, <2>2, IssueColumnOf DEF Lifecycle!Open
  <2>4. Lifecycle!Started(t)
    BY <1>2, ColumnOf DEF Started, Lifecycle!Started
  <2> QED BY <1>2, <2>3, <2>4 DEF Lifecycle!Raise, Lifecycle!RaiseLate
<1> QED BY <1>4, <1>5 DEF CommitCreateIssue

\* A resolution finds its issue open, whatever became of the task.
LEMMA ResolveIs ==
  ASSUME IInv, NEW w \in Worker, NEW notes, req[w].pc = "checked", Resolving(req[w].op),
         ResolveRows(w, notes), UNCHANGED Column("parent")
  PROVE  /\ req[w].issue \in Issue /\ Lifecycle!Resolve(req[w].issue)
         /\ req[w].task \in Task /\ issues[req[w].issue].task = req[w].task
         /\ Started(tasks[req[w].task])
<1> DEFINE i == req[w].issue
<1>1. req[w].op \notin {None, "create_task"}
  BY NoneAssumption DEF Resolving, Operations
<1>2. /\ i \in Issue /\ issues[i].status = "open" /\ issues[i].task = req[w].task
      /\ req[w].task \in Task
  BY <1>1, OwnTask DEF RequestFits, DecisionHolds
<1>3. /\ issues' = [issues EXCEPT ![i].status = "resolved"]
      /\ resolutions' = [resolutions EXCEPT ![i] = resolutions[i] + 1]
      /\ UNCHANGED <<submissions, reviews>>
  BY DEF ResolveRows
<1>4. /\ IssueColumn("status")' = [IssueColumn("status") EXCEPT ![i] = "resolved"]
      /\ UNCHANGED IssueColumn("task")
  BY <1>2, <1>3 DEF IssueColumn, IInv, TypeOK, IssueRow
<1>5. Started(tasks[req[w].task])
  BY <1>2 DEF IInv, IssuesOK
<1> QED BY <1>2, <1>3, <1>4, <1>5, IssueColumnOf DEF Lifecycle!Resolve

LEMMA SettleIsStep ==
  ASSUME IInv, NEW w \in Worker,
         CommitResolveClarified(w) \/ CommitResolveDeadlineAdjusted(w)
  PROVE  \E i \in Issue : Lifecycle!Settle(i)
<1>1. /\ req[w].pc = "checked" /\ Resolving(req[w].op) /\ ResolveRows(w, {})
  BY DEF CommitResolveClarified, CommitResolveDeadlineAdjusted, At, Resolving
<1>2. UNCHANGED <<Column("status"), Column("assignee"), Column("parent")>>
  <2>1. CASE CommitResolveClarified(w)
    BY <2>1, ColumnsStay DEF CommitResolveClarified
  <2>2. CASE CommitResolveDeadlineAdjusted(w)
    <3>1. req[w].task \in Task /\ req[w].deadline \in Deadline \cup {None}
      BY <1>1, OwnTask, NoneAssumption DEF Resolving, Operations, Request
    <3>2. tasks' = [tasks EXCEPT ![req[w].task] =
                      [tasks[req[w].task] EXCEPT !.deadline = req[w].deadline]]
      BY <2>2 DEF CommitResolveDeadlineAdjusted
    <3> QED BY <3>1, <3>2, DatedIsStutter
  <2> QED BY <2>1, <2>2
<1> QED BY <1>1, <1>2, ResolveIs DEF Lifecycle!Settle

LEMMA ReopenIsStep ==
  ASSUME IInv, NEW w \in Worker, CommitResolveReassigned(w)
  PROVE  \E i \in Issue, e \in Employee : Lifecycle!Reassign(i, e) \/ Lifecycle!Reopen(i, e)
<1> DEFINE t == req[w].task
           i == req[w].issue
<1>1. /\ req[w].pc = "checked" /\ Resolving(req[w].op)
      /\ tasks' = [tasks EXCEPT ![t] = Reassigned(tasks[t], req[w].to)]
      /\ ResolveRows(w, ReassignNotes(t, tasks[t], Reassigned(tasks[t], req[w].to)))
  BY DEF CommitResolveReassigned, At, Resolving
<1>2. t \in Task /\ req[w].to \in Employee \cup {None}
  BY <1>1, OwnTask, NoneAssumption DEF Resolving, Operations, Request
<1>3. tasks[t] \in TaskRow /\ i \in Issue /\ issues[i].task = t /\ Started(tasks[t])
  BY <1>1, <1>2, OwnTask, NoneAssumption
     DEF Resolving, Operations, RequestFits, IInv, IssuesOK
<1>4. PICK e \in Employee :
        /\ Column("status")' = [Column("status") EXCEPT ![t] = "in_progress"]
        /\ Column("assignee")' = [Column("assignee") EXCEPT ![t] = e]
        /\ UNCHANGED Column("parent")
  BY <1>1, <1>2, <1>3, ReassignedWritten
<1>5. Lifecycle!Resolve(i)
  BY <1>1, <1>4, ResolveIs
<1>6. Lifecycle!HandBack(i, e)
  BY <1>3, <1>4, <1>5, IssueColumnOf DEF Lifecycle!HandBack
<1>7. Lifecycle!Started(IssueColumn("task")[i])
  BY <1>2, <1>3, ColumnOf, IssueColumnOf DEF Started, Lifecycle!Started
<1> QED BY <1>3, <1>6, <1>7 DEF Lifecycle!Reassign, Lifecycle!Reopen

-----------------------------------------------------------------------------
(* The step simulation *)

LEMMA StepIsLifecycle ==
  ASSUME IInv, Unbilled, [Next]_vars
  PROVE  [Lifecycle!Next]_(Lifecycle!lifecycleVars)
<1>1. ASSUME UNCHANGED <<tasks, issues, submissions, reviews, resolutions>>
      PROVE  UNCHANGED Lifecycle!lifecycleVars
  BY <1>1, ColumnsStay DEF Lifecycle!lifecycleVars
<1>2. ASSUME NEW w \in Worker, Step(w)
      PROVE  Lifecycle!Next \/ UNCHANGED Lifecycle!lifecycleVars
  <2>1. CASE \/ CheckEditTask(w) \/ CheckSubmitTask(w) \/ CheckMarkTaskBilled(w)
             \/ CheckReview(w) \/ LockResolvedTask(w) \/ CheckResolveIssue(w)
    BY <1>1, <2>1 DEF CheckEditTask, CheckSubmitTask, CheckMarkTaskBilled, CheckReview,
       LockResolvedTask, LockTaskThen, CheckResolveIssue
  <2>2. CASE CommitUpdateDeadline(w)
    <3>1. req[w].op \notin {None, "create_task"}
      BY <2>2, NoneAssumption DEF CommitUpdateDeadline, At, Operations
    <3>2. /\ req[w].task \in Task /\ tasks[req[w].task] \in TaskRow
          /\ req[w].deadline \in Deadline \cup {None}
      BY <3>1, OwnTask DEF Request
    <3>3. \E d \in Deadline \cup {None} :
            tasks' = [tasks EXCEPT ![req[w].task] =
                        [tasks[req[w].task] EXCEPT !.deadline = d]]
      BY <2>2, <3>2 DEF CommitUpdateDeadline, CommitTask, TaskRow
    <3>4. UNCHANGED <<Column("status"), Column("assignee"), Column("parent")>>
      BY <3>2, <3>3, DatedIsStutter
    <3> QED BY <2>2, <3>4, ColumnsStay DEF CommitUpdateDeadline, Lifecycle!lifecycleVars
  <2>3. CASE CommitCreateTask(w)
    BY <2>3, CreateIsStep
       DEF Lifecycle!Next, Lifecycle!Documented, Lifecycle!Undocumented
  <2>4. CASE CommitEditTask(w)
    BY <2>4, EditIsStep
       DEF Lifecycle!Next, Lifecycle!Documented, Lifecycle!Undocumented
  <2>5. CASE CommitSubmitTask(w) \/ CommitMarkTaskBilled(w) \/ CommitReviewApproved(w)
    BY <2>5, SubmitIsStep, BillIsStep, ApproveIsStep
       DEF Lifecycle!Next, Lifecycle!Documented, Lifecycle!Undocumented
  <2>6. CASE CommitReviewReassigned(w) \/ CommitReviewBilling(w)
    BY <2>6, SendBackIsStep, ChargeIsStep
       DEF Lifecycle!Next, Lifecycle!Documented, Lifecycle!Undocumented
  <2>7. CASE CommitCreateIssue(w)
    BY <2>7, RaiseIsStep
       DEF Lifecycle!Next, Lifecycle!Documented, Lifecycle!Undocumented
  <2>8. CASE \/ CommitResolveClarified(w) \/ CommitResolveDeadlineAdjusted(w)
             \/ CommitResolveReassigned(w)
    BY <2>8, SettleIsStep, ReopenIsStep
       DEF Lifecycle!Next, Lifecycle!Documented, Lifecycle!Undocumented
  <2> QED BY <1>2, <2>1, <2>2, <2>3, <2>4, <2>5, <2>6, <2>7, <2>8 DEF Step
<1>3. ASSUME NEW w \in Worker, Arrive(w) \/ Abort(w)
      PROVE  UNCHANGED Lifecycle!lifecycleVars
  BY <1>1, <1>3 DEF Arrive, BeginCreateTask, BeginEditTask, BeginUpdateDeadline,
     BeginSubmitTask, BeginMarkTaskBilled, BeginReview, BeginCreateIssue, BeginResolveIssue,
     BeginAsAssignee, Begin, Abort
<1>4. CASE \/ \E o \in Owner, i \in Issue : MarkNotificationRead(o, i)
           \/ \E e \in Employee : SetEmployeeActive(e)
           \/ UNCHANGED vars
  BY <1>1, <1>4 DEF MarkNotificationRead, SetEmployeeActive, vars
<1> QED BY <1>2, <1>3, <1>4 DEF Next

LEMMA InitIsLifecycle == Init => Lifecycle!Init
BY DEF Init, NoTask, NoIssue, Column, IssueColumn, Lifecycle!Init

\* Seen through the columns, TaskWorkflow is TaskLifecycle: whatever requests
\* overlap, each commit is one lifecycle step whose condition is true of the
\* rows it changes, and no other step is seen at all.
THEOREM Refinement == Spec => ImplementsLifecycle
<1>1. IInv /\ Unbilled /\ [Next]_vars
        => [Lifecycle!Next]_(Lifecycle!lifecycleVars) /\ Unbilled'
  BY StepIsLifecycle, UnbilledStays
<1> QED BY Invariant, UnbilledInit, InitIsLifecycle, <1>1, PTL
        DEF Spec, ImplementsLifecycle, Lifecycle!Spec

-----------------------------------------------------------------------------
(* What the lifecycle promises holds of the endpoints *)

Closed ==
  \A t \in Task : Column("status")[t] = "completed" => reviews[t] > 0

LEMMA ClosedStays ==
  ASSUME TypeOK, Closed, [Lifecycle!Next]_(Lifecycle!lifecycleVars)
  PROVE  Closed'
<1> SUFFICES ASSUME NEW t \in Task, Column("status")'[t] = "completed"
             PROVE  reviews'[t] > 0
  BY DEF Closed
<1>1. /\ reviews \in [Task -> Nat]
      /\ Column("status") \in [Task -> Status]
      /\ Column("status")[t] = "completed" => reviews[t] > 0
  BY DEF TypeOK, Column, TaskRow, Closed
<1>2. CASE UNCHANGED <<Column("status"), reviews>>
  BY <1>1, <1>2
<1>3. CASE UNCHANGED Lifecycle!lifecycleVars
  BY <1>2, <1>3 DEF Lifecycle!lifecycleVars
<1>4. CASE \E s \in Task, st \in Status \ {"completed"} :
             /\ Column("status")' = [Column("status") EXCEPT ![s] = st]
             /\ UNCHANGED reviews
  BY <1>1, <1>4
<1>5. CASE \E s \in Task : \/ Lifecycle!Create(s) \/ Lifecycle!HandIn(s) \/ Lifecycle!Bill(s)
                           \/ \E e \in Employee : Lifecycle!Assign(s, e)
  BY <1>4, <1>5 DEF Status, Lifecycle!Create, Lifecycle!HandIn, Lifecycle!Bill, Lifecycle!Assign
<1>6. CASE \E s \in Task : Lifecycle!Approve(s) \/ \E e \in Employee : Lifecycle!SendBack(s, e)
  BY <1>1, <1>6 DEF Lifecycle!Approve, Lifecycle!SendBack, Lifecycle!Review
<1>7. CASE \E s, b \in Task, e \in Employee : Lifecycle!Charge(s, b, e)
  BY <1>1, <1>7 DEF Lifecycle!Charge, Lifecycle!Review
<1>8. CASE \E i \in Issue : \/ \E s \in Task : Lifecycle!Open(i, s)
                            \/ Lifecycle!Settle(i)
  BY <1>2, <1>8 DEF Lifecycle!Open, Lifecycle!Settle, Lifecycle!Resolve
<1>9. CASE \E i \in Issue, e \in Employee : Lifecycle!HandBack(i, e)
  BY <1>1, <1>9 DEF Lifecycle!HandBack, Lifecycle!Resolve
<1> QED BY <1>3, <1>5, <1>6, <1>7, <1>8, <1>9
        DEF Lifecycle!Next, Lifecycle!Documented, Lifecycle!Undocumented, Lifecycle!Submit,
            Lifecycle!SubmitBill, Lifecycle!Raise, Lifecycle!RaiseLate, Lifecycle!Reassign,
            Lifecycle!Reopen

\* The invariants of the abstract specification hold of the columns: work is
\* completed only through a review and billed only as a bill, a submission is
\* reviewed once, an issue's raiser is told once.
THEOREM LifecyclePromises == Spec => []Lifecycle!LifecycleInv
<1>1. Init => Unbilled /\ Closed
  BY UnbilledInit DEF Init, NoTask, Column, Closed
<1>2. IInv /\ Unbilled /\ Closed /\ [Next]_vars => Unbilled' /\ Closed'
  BY StepIsLifecycle, UnbilledStays, ClosedStays DEF IInv
<1>3. ASSUME IInv, Closed
      PROVE  Lifecycle!LifecycleInv
  <2>1. Lifecycle!TypeOK
    BY <1>3 DEF IInv, TypeOK, Column, IssueColumn, TaskRow, IssueRow, Status, Lifecycle!TypeOK
  <2>2. Lifecycle!StartedHasAssignee
    BY <1>3, ColumnOf DEF IInv, HandedOutHasAssignee, Lifecycle!StartedHasAssignee,
       Lifecycle!Started
  <2>3. Lifecycle!ReviewsMatchSubmissions
    BY <1>3, ColumnOf DEF IInv, ReviewsMatchSubmissions, Lifecycle!ReviewsMatchSubmissions
  <2>4. Lifecycle!ClosedProperly
    BY <1>3, ColumnOf DEF IInv, HandedOutHasAssignee, Closed, Lifecycle!ClosedProperly
  <2>5. Lifecycle!ToldOnce
    BY <1>3, IssueColumnOf DEF IInv, IssueResolvedOnce, Lifecycle!ToldOnce
  <2> QED BY <2>1, <2>2, <2>3, <2>4, <2>5 DEF Lifecycle!LifecycleInv
<1> QED BY Invariant, <1>1, <1>2, <1>3, PTL DEF Spec
=============================================================================
