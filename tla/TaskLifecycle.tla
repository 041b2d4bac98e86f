---------------------------- MODULE TaskLifecycle ----------------------------
(***************************************************************************)
(* What the task endpoints promise, with no requests, locks or             *)
(* transactions: every change of a task or an issue happens in one step,   *)
(* whose condition is true of the very state it changes.  TaskWorkflow     *)
(* implements it.  Next keeps the lifecycle the documents describe         *)
(* (DATA_MODEL.md section 3, API_SPEC.md section 3) apart from the three   *)
(* steps the code takes besides.                                           *)
(***************************************************************************)
EXTENDS Naturals

CONSTANTS Task, Issue, Employee, None

VARIABLES
  status,       \* task -> lifecycle state, "absent" before it exists
  assignee,     \* task -> employee it is with
  billOf,       \* billing task -> the task it bills
  issue,        \* issue -> "absent", "open" or "resolved"
  about,        \* issue -> task
  submissions,  \* task -> times submitted
  reviews,      \* task -> times reviewed
  told          \* issue -> times its raiser was told it is resolved

lifecycleVars ==
  <<status, assignee, billOf, issue, about, submissions, reviews, told>>

Init ==
  /\ status = [t \in Task |-> "absent"]
  /\ assignee = [t \in Task |-> None]
  /\ billOf = [t \in Task |-> None]
  /\ issue = [i \in Issue |-> "absent"]
  /\ about = [i \in Issue |-> None]
  /\ submissions = [t \in Task |-> 0]
  /\ reviews = [t \in Task |-> 0]
  /\ told = [i \in Issue |-> 0]

InHand(t) == status[t] \in {"assigned", "in_progress"}

\* The state after assigned is only reached through an assignee.
Started(t) == status[t] \notin {"absent", "created"}

-----------------------------------------------------------------------------
Create(t) ==
  /\ status[t] = "absent"
  /\ status' = [status EXCEPT ![t] = "created"]
  /\ UNCHANGED <<assignee, billOf, issue, about, submissions, reviews, told>>

Assign(t, e) ==
  /\ status[t] \in {"absent", "created", "assigned"}
  /\ status' = [status EXCEPT ![t] = "assigned"]
  /\ assignee' = [assignee EXCEPT ![t] = e]
  /\ UNCHANGED <<billOf, issue, about, submissions, reviews, told>>

HandIn(t) ==
  /\ InHand(t)
  /\ status' = [status EXCEPT ![t] = "submitted"]
  /\ submissions' = [submissions EXCEPT ![t] = @ + 1]
  /\ UNCHANGED <<assignee, billOf, issue, about, reviews, told>>

Submit(t) == billOf[t] = None /\ HandIn(t)

\* Not in the documents, which give billing tasks no submitted state and no
\* review (DATA_MODEL.md:240-242, PRD.md:81): submit_task does not look at the
\* type.  A billing task is reviewed, sent back or charged only after it.
SubmitBill(t) == billOf[t] # None /\ HandIn(t)

Bill(t) ==
  /\ InHand(t)
  /\ billOf[t] # None
  /\ status' = [status EXCEPT ![t] = "billed"]
  /\ UNCHANGED <<assignee, billOf, issue, about, submissions, reviews, told>>

Review(t) ==
  /\ status[t] = "submitted"
  /\ reviews' = [reviews EXCEPT ![t] = @ + 1]
  /\ UNCHANGED <<issue, about, submissions, told>>

Approve(t) ==
  /\ Review(t)
  /\ status' = [status EXCEPT ![t] = "completed"]
  /\ UNCHANGED <<assignee, billOf>>

SendBack(t, e) ==
  /\ Review(t)
  /\ status' = [status EXCEPT ![t] = "in_progress"]
  /\ assignee' = [assignee EXCEPT ![t] = e]
  /\ UNCHANGED billOf

Charge(t, b, e) ==
  /\ Review(t)
  /\ status[b] = "absent"
  /\ status' = [status EXCEPT ![t] = "completed", ![b] = "assigned"]
  /\ assignee' = [assignee EXCEPT ![b] = e]
  /\ billOf' = [billOf EXCEPT ![b] = t]

Open(i, t) ==
  /\ issue[i] = "absent"
  /\ issue' = [issue EXCEPT ![i] = "open"]
  /\ about' = [about EXCEPT ![i] = t]
  /\ UNCHANGED <<status, assignee, billOf, submissions, reviews, told>>

Raise(i, t) == InHand(t) /\ Open(i, t)

\* Not in the documents, which have an issue raised on work in hand: the task
\* was submitted, or even closed, since create_issue read it.
RaiseLate(i, t) == Started(t) /\ ~InHand(t) /\ Open(i, t)

Resolve(i) ==
  /\ issue[i] = "open"
  /\ issue' = [issue EXCEPT ![i] = "resolved"]
  /\ told' = [told EXCEPT ![i] = @ + 1]
  /\ UNCHANGED <<billOf, about, submissions, reviews>>

Settle(i) ==
  /\ Resolve(i)
  /\ UNCHANGED <<status, assignee>>

HandBack(i, e) ==
  /\ Resolve(i)
  /\ status' = [status EXCEPT ![about[i]] = "in_progress"]
  /\ assignee' = [assignee EXCEPT ![about[i]] = e]

Reassign(i, e) == HandBack(i, e) /\ InHand(about[i])

\* Not in the documents, which let only a review take a submitted task back
\* and nothing a closed one: the resolution does not look at the status.
Reopen(i, e) == HandBack(i, e) /\ Started(about[i]) /\ ~InHand(about[i])

\* The lifecycle of the documents.
Documented ==
  \/ \E t \in Task : Create(t) \/ Submit(t) \/ Bill(t) \/ Approve(t)
  \/ \E t \in Task, e \in Employee : Assign(t, e) \/ SendBack(t, e)
  \/ \E t, b \in Task, e \in Employee : Charge(t, b, e)
  \/ \E i \in Issue, t \in Task : Raise(i, t)
  \/ \E i \in Issue : Settle(i)
  \/ \E i \in Issue, e \in Employee : Reassign(i, e)

\* What the code lets happen besides.
Undocumented ==
  \/ \E t \in Task : SubmitBill(t)
  \/ \E i \in Issue, t \in Task : RaiseLate(i, t)
  \/ \E i \in Issue, e \in Employee : Reopen(i, e)

Next == Documented \/ Undocumented

Spec == Init /\ [][Next]_lifecycleVars

-----------------------------------------------------------------------------
TypeOK ==
  /\ status \in [Task -> {"absent", "created", "assigned", "in_progress",
                          "submitted", "completed", "billed"}]
  /\ assignee \in [Task -> Employee \cup {None}]
  /\ billOf \in [Task -> Task \cup {None}]
  /\ issue \in [Issue -> {"absent", "open", "resolved"}]
  /\ about \in [Issue -> Task \cup {None}]
  /\ submissions \in [Task -> Nat]
  /\ reviews \in [Task -> Nat]
  /\ told \in [Issue -> Nat]

\* A task nobody holds is a task that was never handed out.
StartedHasAssignee == \A t \in Task : Started(t) <=> assignee[t] # None

\* A submission is reviewed at most once, and one still submitted is not yet.
ReviewsMatchSubmissions ==
  \A t \in Task : /\ reviews[t] <= submissions[t]
                  /\ status[t] = "submitted" => reviews[t] < submissions[t]

\* Work is completed only through a review, and billed only as a bill.
ClosedProperly ==
  \A t \in Task : /\ status[t] = "completed" => reviews[t] > 0
                  /\ status[t] = "billed" => billOf[t] # None

\* The raiser is told exactly once, when the issue is resolved.
ToldOnce == \A i \in Issue : told[i] = IF issue[i] = "resolved" THEN 1 ELSE 0

LifecycleInv ==
  TypeOK /\ StartedHasAssignee /\ ReviewsMatchSubmissions /\ ClosedProperly /\ ToldOnce
=============================================================================
