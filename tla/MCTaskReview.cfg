SPECIFICATION Spec
CONSTANTS
  Task = {t1, t2}
  Issue = {}
  Employee = {e1, e2}
  Owner = {o1}
  Worker = {w1, w2}
  Deadline = {d1}
  None = None
  MaxSubmissions = 2
  Endpoint = {"create_task", "edit_task", "submit_task", "mark_task_billed", "review_approved", "review_reassigned", "review_billing"}
SYMMETRY Symmetry
CHECK_DEADLOCK FALSE
INVARIANT DecisionsHold ReviewsMatchSubmissions HandedOutHasAssignee
PROPERTY HandoverNotified ImplementsLifecycle
