--------------------------- MODULE EmployeeAccounts ---------------------------
(***************************************************************************)
(* The employees of one firm: an account at Supabase Auth, which holds the *)
(* password, and a row of profiles, which holds what the application       *)
(* decides on. No transaction spans the two. The owner hires, resets       *)
(* passwords and switches employees off and on; the employee changes a     *)
(* password at Supabase directly and then tells the application.           *)
(*                                                                         *)
(*   create   new -> calling -> called --Commit--> done                    *)
(*                                 \--> undoing --Compensate--> done       *)
(*   reset    new -> looked --Lock--> calling -> called --Commit--> done   *)
(*   toggle   new -> looked --Commit--> done                               *)
(*   confirm  new --ChangePassword--> looking -> looked --Commit--> done   *)
(*                                                                         *)
(* An account, and a password, is named by the request that made it; Own   *)
(* is any password an employee chose.                                      *)
(***************************************************************************)
EXTENDS FiniteSets

CONSTANTS
  Hired,     \* the employees the firm has at the start
  Email,     \* addresses employees can be hired under
  Key,       \* idempotency keys
  Worker,    \* requests
  Own,       \* a password chosen by the employee
  None       \* SQL NULL

User == Hired \cup Worker   \* ids of auth.users

ASSUME HiredAssumption == Hired \cap Worker = {}
ASSUME NoneAssumption == None \notin User \cup Email \cup Key \cup {Own}
ASSUME OwnAssumption == Own \notin Worker

VARIABLES
  account,   \* auth.users
  profile,   \* profiles, committed
  audit,     \* the requests whose audit_log row is committed
  keys,      \* committed idempotency_keys rows: key and employee
  locked,    \* who holds FOR UPDATE on an employee's profile
  late,      \* calls to the Admin API that nobody waits for any more
  toggled,   \* history: the last request to commit an activation change
  overtaken, \* history: the resets whose flag was cleared by a confirmation
             \* of a change that is older than the reset
  req        \* what each request is doing

vars == <<account, profile, audit, keys, locked, late, toggled, overtaken, req>>
tables == <<profile, audit, keys, toggled, overtaken>>

-----------------------------------------------------------------------------

Account == [email : Email \cup {None}, pw : Worker \cup {Own}]
NoAccount == [email |-> None, pw |-> None]

Profile == [active : BOOLEAN, mustChange : BOOLEAN,
            reset : Worker \cup {None}]   \* last_reset_by and last_reset_at
NoProfile == [active |-> FALSE, mustChange |-> FALSE, reset |-> Own]

\* `seen` is the column an unlocked read found; `base` is history: the last
\* change of its kind when the request (or the employee) looked.
Request ==
  [op : {"none", "create", "reset", "toggle", "confirm"},
   pc : {"new", "looking", "looked", "calling", "called", "undoing", "done"},
   user : User \cup {None},
   email : Email \cup {None},
   key : Key \cup {None},
   want : BOOLEAN,
   seen : BOOLEAN,
   base : Worker \cup {None},
   answer : {"none", "shown", "ok", "refused", "failed", "lost"}]

NewRequest ==
  [op |-> "none", pc |-> "new", user |-> None, email |-> None, key |-> None,
   want |-> FALSE, seen |-> FALSE, base |-> None, answer |-> "none"]

Call == {"none", "create_user", "update_user", "delete_user"}

TypeOK ==
  /\ account \in [User -> Account \cup {NoAccount}]
  /\ profile \in [User -> Profile \cup {NoProfile}]
  /\ audit \subseteq Worker
  /\ keys \subseteq Key \X User
  /\ locked \in [User -> Worker \cup {None}]
  /\ late \in [Worker -> Call]
  /\ toggled \in [User -> Worker \cup {None}]
  /\ overtaken \subseteq Worker
  /\ req \in [Worker -> Request]

\* (The trigger leaves the flag NULL.)
BadNewProfile == [active |-> TRUE, mustChange |-> None, reset |-> None]
NewProfile == [active |-> TRUE, mustChange |-> TRUE, reset |-> None]

Init ==
  /\ account = [u \in User |->
                  IF u \in Hired THEN [email |-> None, pw |-> Own] ELSE NoAccount]
  /\ profile = [u \in User |->
                  IF u \in Hired THEN [NewProfile EXCEPT !.mustChange = FALSE]
                                 ELSE NoProfile]
  /\ audit = {}
  /\ keys = {}
  /\ locked = [u \in User |-> None]
  /\ late = [w \in Worker |-> "none"]
  /\ toggled = [u \in User |-> None]
  /\ overtaken = {}
  /\ req = [w \in Worker |-> NewRequest]

-----------------------------------------------------------------------------
(* Definitions whose name starts with Bad are the bugs the properties are  *)
(* there to catch; no action uses them.                                    *)

At(w, op, pc) == req[w].op = op /\ req[w].pc = pc
UserOf(w) == req[w].user
InFlight(w) == req[w].pc \notin {"new", "done"}

HasAccount(u) == account[u] # NoAccount
HasProfile(u) == profile[u] # NoProfile

Begin(w, r) == req[w] = NewRequest /\ req' = [req EXCEPT ![w] = r]
Step(w, pc) == req' = [req EXCEPT ![w].pc = pc]
Finish(w, answer) ==
  req' = [req EXCEPT ![w].pc = "done", ![w].answer = answer]

\* A commit answers, unless the process or the connection dies first.
Answered(w, answer) == Finish(w, answer) \/ Finish(w, "lost")

\* A closed session and a commit release the row lock.
BadReleased(w) == locked
Released(w) == [u \in User |-> IF locked[u] = w THEN None ELSE locked[u]]

\* Updating the profile, or inserting a row that refers to it, waits for
\* whoever holds it FOR UPDATE.
BadRowFree(w, u) == TRUE
RowFree(w, u) == locked[u] \in {None, w}

-----------------------------------------------------------------------------
(* The Admin API, and the trigger on auth.users                            *)

EmailFree(e) == \A u \in User : HasAccount(u) => account[u].email # e

\* auth.users and the trigger's profile are one transaction of Supabase's.
CreateUser(w) ==
  /\ account' = [account EXCEPT ![UserOf(w)] = [email |-> req[w].email, pw |-> w]]
  /\ profile' = [profile EXCEPT ![UserOf(w)] = NewProfile]

\* The trigger fires on updates too, and leaves a profile that exists alone.
UpdateUser(w) ==
  /\ account' = [account EXCEPT ![UserOf(w)].pw = w]
  /\ UNCHANGED profile

\* profiles.id has no foreign key to auth.users: the profile stays.
DeleteUser(w) ==
  /\ account' = [account EXCEPT ![UserOf(w)] = NoAccount]
  /\ UNCHANGED profile

Perform(w, call) ==
  \/ call = "create_user" /\ EmailFree(req[w].email) /\ CreateUser(w)
  \/ call = "update_user" /\ HasAccount(UserOf(w)) /\ UpdateUser(w)
  \/ call = "delete_user" /\ HasAccount(UserOf(w)) /\ DeleteUser(w)

\* The call a request is making.
CallOf(w) ==
  CASE At(w, "create", "calling") -> "create_user"
    [] At(w, "reset", "calling") -> "update_user"
    [] At(w, "create", "undoing") -> "delete_user"
    [] OTHER -> "none"

\* Whatever became of the delete, create_employee raises.
BadAfterUndo(w) == Finish(w, "shown")
AfterUndo(w) == Finish(w, "failed")

AdminAnswers(w) ==
  /\ Perform(w, CallOf(w))
  /\ IF CallOf(w) = "delete_user" THEN AfterUndo(w) ELSE Step(w, "called")
  /\ UNCHANGED <<audit, keys, locked, late, toggled, overtaken>>

\* AuthApiError: the email is taken, the user is gone, or Supabase declines.
\* The session closes on what the handler raises.
AdminRefuses(w) ==
  /\ CallOf(w) # "none"
  /\ locked' = Released(w)
  /\ Finish(w, IF CallOf(w) = "create_user" THEN "refused" ELSE "failed")
  /\ UNCHANGED <<account, late, tables>>

\* AuthRetryableError: no answer in time, and the call is still under way.
AdminTimesOut(w) ==
  /\ CallOf(w) # "none"
  /\ late' = [late EXCEPT ![w] = CallOf(w)]
  /\ locked' = Released(w)
  /\ Finish(w, "failed")
  /\ UNCHANGED <<account, tables>>

\* A call that nobody waits for is performed after all, or never.
Land(w) ==
  /\ late[w] # "none"
  /\ Perform(w, late[w]) \/ UNCHANGED <<account, profile>>
  /\ late' = [late EXCEPT ![w] = "none"]
  /\ UNCHANGED <<audit, keys, locked, toggled, overtaken, req>>

-----------------------------------------------------------------------------
(* The handlers up to their commit                                         *)

\* POST /employees.
BeginCreate(w, e) ==
  /\ Begin(w, [NewRequest EXCEPT !.op = "create", !.pc = "calling",
                                 !.user = w, !.email = e])
  /\ UNCHANGED <<account, locked, late, tables>>

KeyUsed(w) == <<req[w].key, UserOf(w)>> \in keys

\* POST /employees/{id}/reset-password: get_employee, then
\* reject_if_idempotency_key_used; neither takes a lock.
BeginReset(w, u, k) ==
  /\ HasProfile(u)
  /\ Begin(w, [NewRequest EXCEPT
                 !.op = "reset", !.user = u, !.key = k,
                 !.pc = IF <<k, u>> \in keys THEN "done" ELSE "looked",
                 !.answer = IF <<k, u>> \in keys THEN "refused" ELSE "none"])
  /\ UNCHANGED <<account, locked, late, tables>>

\* reset_employee_password locks the profile before it calls Supabase.
LockProfile(w) ==
  /\ At(w, "reset", "looked") /\ RowFree(w, UserOf(w))
  /\ locked' = [locked EXCEPT ![UserOf(w)] = w]
  /\ Step(w, "calling")
  /\ UNCHANGED <<account, late, tables>>

\* PATCH /employees/{id}: get_employee, without a lock.
BeginToggle(w, u, want) ==
  /\ HasProfile(u)
  /\ Begin(w, [NewRequest EXCEPT !.op = "toggle", !.pc = "looked", !.user = u,
                                 !.want = want, !.seen = profile[u].active,
                                 !.base = toggled[u]])
  /\ UNCHANGED <<account, locked, late, tables>>

\* The passwords an employee can have been told.
Told(u) == {w \in Worker : UserOf(w) = u /\ req[w].answer = "shown"}

BadChanged(u) == account   \* the page goes on although Supabase refused
Changed(u) == [account EXCEPT ![u].pw = Own]

\* The page is shown while the flag is set. updateUser at Supabase asks for
\* the current password; only when it has succeeded does the page call
\* POST /auth/confirm-password-changed.
ChangePassword(w, u) ==
  /\ HasAccount(u) /\ account[u].pw \in Told(u) \cup {Own}
  /\ profile[u].mustChange
  /\ Begin(w, [NewRequest EXCEPT !.op = "confirm", !.pc = "looking",
                                 !.user = u, !.base = profile[u].reset])
  /\ account' = Changed(u)
  /\ UNCHANGED <<locked, late, tables>>

\* get_current_profile reads the caller's own row.
ReadOwnProfile(w) ==
  /\ At(w, "confirm", "looking")
  /\ IF profile[UserOf(w)].active
     THEN req' = [req EXCEPT ![w].pc = "looked",
                             ![w].seen = profile[UserOf(w)].mustChange]
     ELSE Finish(w, "refused")
  /\ UNCHANGED <<account, locked, late, tables>>

-----------------------------------------------------------------------------
(* The commits                                                             *)

\* The ORM writes a column only if it differs from what the session read.
BadChanges(w) == ~req[w].want
Changes(w) == req[w].want # req[w].seen

WriteCreate(w) ==
  /\ audit' = audit \cup {w}
  /\ UNCHANGED <<profile, keys, toggled, overtaken>>

WriteReset(w) ==
  /\ profile' = [profile EXCEPT ![UserOf(w)].mustChange = TRUE,
                                ![UserOf(w)].reset = w]
  /\ audit' = audit \cup {w}
  /\ keys' = keys \cup {<<req[w].key, UserOf(w)>>}
  /\ UNCHANGED <<toggled, overtaken>>

WriteToggle(w) ==
  /\ profile' = IF Changes(w)
                THEN [profile EXCEPT ![UserOf(w)].active = req[w].want]
                ELSE profile
  /\ audit' = audit \cup {w}
  /\ toggled' = [toggled EXCEPT ![UserOf(w)] = w]
  /\ UNCHANGED <<keys, overtaken>>

\* must_change_password = False, whatever was reset since the change that is
\* being confirmed.
WriteConfirm(w) ==
  /\ profile' = IF req[w].seen
                THEN [profile EXCEPT ![UserOf(w)].mustChange = FALSE]
                ELSE profile
  /\ overtaken' = IF req[w].seen
                  THEN overtaken \cup ({profile[UserOf(w)].reset} \ {req[w].base, None})
                  ELSE overtaken
  /\ UNCHANGED <<audit, keys, toggled>>

BadTaken(w) == FALSE
Taken(w) == req[w].op = "reset" /\ KeyUsed(w)   \* idempotency_keys PRIMARY KEY

Committing(w) ==
  IF req[w].op \in {"create", "reset"} THEN req[w].pc = "called"
                                      ELSE req[w].pc = "looked"

Write(w) ==
  \/ At(w, "create", "called") /\ WriteCreate(w)
  \/ At(w, "reset", "called") /\ ~Taken(w) /\ WriteReset(w)
  \/ At(w, "toggle", "looked") /\ WriteToggle(w)
  \/ At(w, "confirm", "looked") /\ WriteConfirm(w)

\* What is written or referred to is the employee's profile.
Writable(w) == Committing(w) /\ RowFree(w, UserOf(w))

\* create_employee and reset_password answer with the password.
Success(w) == IF req[w].op \in {"create", "reset"} THEN "shown" ELSE "ok"

Commit(w) ==
  /\ Writable(w) /\ Write(w)
  /\ locked' = Released(w)
  /\ Answered(w, Success(w))
  /\ UNCHANGED <<account, late>>

BadFailed(w) == IF req[w].op = "create" THEN Step(w, "undoing") ELSE Finish(w, "shown")
Failed(w) == IF req[w].op = "create" THEN Step(w, "undoing") ELSE Finish(w, "failed")

\* The commit raises: nothing was committed, or it was and the answer of the
\* database got lost.
CommitRaises(w) ==
  /\ Writable(w)
  /\ \/ Write(w)
     \/ UNCHANGED tables
  /\ locked' = Released(w)
  /\ Failed(w)
  /\ UNCHANGED <<account, late>>

\* commit_or_recover finds the row of whoever used the key first, takes the
\* race for benign and answers with the password that Supabase now has.
LoseKeyRace(w) ==
  /\ At(w, "reset", "called") /\ Taken(w)
  /\ locked' = Released(w)
  /\ Answered(w, "shown")
  /\ UNCHANGED <<account, late, tables>>

\* The process or the connection dies; a call under way goes on without it.
Lose(w) ==
  /\ InFlight(w)
  /\ late' \in {late, [late EXCEPT ![w] = CallOf(w)]}
  /\ locked' = Released(w)
  /\ Finish(w, "lost")
  /\ UNCHANGED <<account, tables>>

-----------------------------------------------------------------------------

Arrive(w) ==
  \/ \E e \in Email : BeginCreate(w, e)
  \/ \E u \in User, k \in Key : BeginReset(w, u, k)
  \/ \E u \in User, want \in BOOLEAN : BeginToggle(w, u, want)
  \/ \E u \in User : ChangePassword(w, u)

Serve(w) ==
  \/ AdminAnswers(w) \/ AdminRefuses(w) \/ AdminTimesOut(w)
  \/ LockProfile(w) \/ ReadOwnProfile(w)
  \/ Commit(w) \/ CommitRaises(w) \/ LoseKeyRace(w)

Next == \E w \in Worker : Arrive(w) \/ Serve(w) \/ Lose(w) \/ Land(w)

Spec == Init /\ [][Next]_vars

\* The server's threads run on, and every wait for Supabase has its time-out.
FairSpec == Spec /\ \A w \in Worker : WF_vars(Serve(w))

-----------------------------------------------------------------------------
(* Properties *)

\* A password is shown only if the audit log tells of it: of the hire, or of
\* the one reset that this employee's key stands for.
ShownIsAudited ==
  \A w \in Worker :
    req[w].answer = "shown" =>
      \/ w \in audit
      \/ \E v \in audit : /\ req[w].op = "reset" /\ req[v].op = "reset"
                          /\ UserOf(v) = UserOf(w) /\ req[v].key = req[w].key

\* One key resets one employee's password once, as far as the database tells.
OneResetPerKey ==
  \A v, w \in audit :
    /\ req[v].op = "reset" /\ req[w].op = "reset"
    /\ UserOf(v) = UserOf(w) /\ req[v].key = req[w].key
    => v = w

\* A call that Supabase performs after its caller gave up: nobody has its
\* password.
Stray(w) == req[w].answer \in {"failed", "lost"}

\* A hire that was answered with the password has its account, its profile
\* and its audit row; one that Supabase refused has left nothing. Only a hire
\* that failed or was lost leaves a half behind: an account with its profile
\* but no audit row, or, once the compensation has deleted the account, the
\* profile alone. An account without a profile, which the comments of
\* create_employee (crud.py:220-221 and :230-231) have the compensation
\* prevent, cannot be: the trigger on auth.users makes the profile.
HiresAreWhole ==
  /\ \A u \in User : HasAccount(u) => HasProfile(u)
  /\ \A w \in Worker :
       req[w].op = "create" =>
         /\ req[w].answer = "shown" => HasAccount(w) /\ w \in audit
         /\ req[w].answer = "refused" => ~HasAccount(w) /\ ~HasProfile(w)
         /\ HasProfile(w) /\ ~HasAccount(w) => Stray(w)

\* reset_employee_password: whichever response comes back reflects the
\* password that is live, because the profile stays locked from before the
\* Admin call until the commit. Only a stray call can come between, or the
\* deletion of an account whose hire is being undone.
CommittedResetIsLive ==
  [][\A w \in Worker :
       At(w, "reset", "called") /\ w \in audit' \ audit =>
         LET u == UserOf(w)
         IN \/ account[u].pw \in {w, None}
            \/ account[u].pw \in Worker /\ Stray(account[u].pw)]_vars

\* The flag that makes a generated password one-time. As long as a committed
\* hire's or reset's password is the live one its flag stays set, unless a
\* confirmation of a change made before that very reset committed came in
\* after it (confirm_password_changed clears the flag whatever happened since).
OneTimeUnlessOvertaken ==
  \A u \in User :
    LET w == account[u].pw
    IN w \in audit => profile[u].mustChange \/ w \in overtaken

\* An activation change that no other one overlaps is in force when it
\* commits.
UncontestedChangeHolds ==
  [][\A w \in Worker :
       /\ At(w, "toggle", "looked") /\ w \in audit' \ audit
       /\ toggled[UserOf(w)] = req[w].base
       => profile'[UserOf(w)].active = req[w].want]_vars

\* w's next statement waits for v, which has the profile FOR UPDATE.
WaitsFor(w, v) ==
  /\ At(w, "reset", "looked") \/ Committing(w)
  /\ locked[UserOf(w)] = v /\ v # w

\* The row lock is held across a call to Supabase, and everybody who needs the
\* profile waits meanwhile. Whoever is waited for is a reset of that very
\* employee, the only one past its lock, and waits for no row itself.
NoStandstill ==
  /\ \A w, v \in Worker :
       WaitsFor(w, v) =>
         /\ req[v].op = "reset" /\ UserOf(v) = UserOf(w)
         /\ req[v].pc \in {"calling", "called"}
         /\ \A x \in Worker : ~WaitsFor(v, x)
  /\ \A v, w \in Worker :
       /\ req[v].op = "reset" /\ req[v].pc \in {"calling", "called"}
       /\ req[w].op = "reset" /\ req[w].pc \in {"calling", "called"}
       /\ UserOf(v) = UserOf(w)
       => v = w

\* No request waits for ever, for the row lock or for Supabase.
RequestsEnd == \A w \in Worker : InFlight(w) ~> ~InFlight(w)

-----------------------------------------------------------------------------
(* What the documents say and the code does not do *)

\* DATA_MODEL.md: must_change_password is the mechanism that makes a
\* generated password one-time: while one that was shown is live, it is set.
ShownIsOneTime ==
  \A u \in User : account[u].pw \in Told(u) => profile[u].mustChange

=============================================================================
