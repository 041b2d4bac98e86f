SPECIFICATION Spec
CONSTANTS
  Task = {t1}
  Issue = {i1}
  Employee = {e1, e2}
  Owner = {o1}
  Worker = {w1, w2}
  Deadline = {d1}
  None = None
  MaxSubmissions = 1
  Endpoint = {"create_task", "update_task_deadline", "submit_task", "review_approved", "create_issue", "resolve_clarified", "resolve_deadline_adjusted", "resolve_reassigned", "mark_notification_read", "set_employee_active"}
CHECK_DEADLOCK FALSE
PROPERTY ClosedStaysClosed
