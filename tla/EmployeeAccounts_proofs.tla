------------------------ MODULE EmployeeAccounts_proofs ------------------------
(***************************************************************************)
(* Proofs about EmployeeAccounts, for any number of employees, addresses,  *)
(* keys and requests.                                                      *)
(***************************************************************************)
EXTENDS EmployeeAccounts, TLAPS

-----------------------------------------------------------------------------
(* The inductive invariant, in named parts                                 *)

\* What a request has by the step it is at.
Fits(w) ==
  /\ (req[w].pc = "new") <=> (req[w] = NewRequest)
  /\ req[w].op = "none" => req[w].pc = "new"
  /\ req[w].op = "create" =>
       req[w].pc \in {"calling", "called", "undoing", "done"} /\ req[w].user = w
  /\ req[w].op = "reset" =>
       req[w].pc \in {"looked", "calling", "called", "done"} /\ req[w].key \in Key
  /\ req[w].op = "toggle" => req[w].pc \in {"looked", "done"}
  /\ req[w].op = "confirm" => req[w].pc \in {"looking", "looked", "done"}
  /\ req[w].op \in {"reset", "toggle", "confirm"} =>
       req[w].user \in User /\ HasProfile(req[w].user)
  /\ (req[w].answer = "none") <=> (req[w].pc # "done")
  /\ req[w].answer = "shown" => req[w].op \in {"create", "reset"}

RequestsFit == \A w \in Worker : Fits(w)

\* The row lock goes from before the Admin call to the commit.
LocksFit ==
  \A u \in User, w \in Worker :
    (locked[u] = w) <=> (/\ req[w].op = "reset" /\ req[w].user = u
                         /\ req[w].pc \in {"calling", "called"})

AuditFits ==
  \A w \in audit : /\ req[w].op \in {"create", "reset", "toggle"}
                   /\ req[w].pc = "done" \/ At(w, "create", "undoing")

IsReset(v, k, u) == req[v].op = "reset" /\ req[v].key = k /\ req[v].user = u

KeysFit ==
  \A k \in Key, u \in User :
    <<k, u>> \in keys <=> \E v \in audit : IsReset(v, k, u)

\* What was read of a committed change names one that is committed.
BasesFit ==
  /\ \A u \in User : /\ toggled[u] \in audit \cup {None}
                     /\ profile[u].reset \in audit \cup {None, Own}
  /\ \A w \in Worker : req[w].base \in audit \cup {None}

\* A call nobody waits for.
LateFits ==
  \A w \in Worker :
    late[w] # "none" =>
      /\ Stray(w)
      /\ late[w] = "create_user" => req[w].op = "create" /\ ~HasProfile(w)
      /\ late[w] = "update_user" => req[w].op = "reset"
      /\ late[w] = "delete_user" => req[w].op = "create"
      /\ late[w] \in {"create_user", "update_user"} => w \notin audit

\* An account is made once, by its hire; nothing else removes it.
HiresFit ==
  /\ \A u \in User : HasAccount(u) => HasProfile(u)
  /\ \A w \in Worker :
       /\ HasProfile(w) => req[w].op = "create"
       /\ req[w].op = "create" =>
            /\ (req[w].pc = "calling" \/ req[w].answer = "refused") => ~HasProfile(w)
            /\ (req[w].pc \in {"called", "undoing"} \/ req[w].answer = "shown")
                 => HasAccount(w)
            /\ HasProfile(w) /\ ~HasAccount(w) => Stray(w)

PasswordsFit ==
  \A u \in User : account[u].pw \in Worker =>
    UserOf(account[u].pw) = u /\ req[account[u].pw].op \in {"create", "reset"}

\* While a reset holds the lock, only a call nobody waits for changes what it
\* set, and that one was never committed.
LiveOrStray(w, pw) == pw \in {w, None} \/ (pw \in Worker /\ Stray(pw) /\ pw \notin audit)

ResetsFit ==
  \A w \in Worker : At(w, "reset", "called") => LiveOrStray(w, account[req[w].user].pw)

Confirms(c, u) == req[c].op = "confirm" /\ req[c].user = u

\* The password of a hire: nobody has changed it, so nobody has confirmed.
HiredLive ==
  \A w \in Worker : req[w].op = "create" /\ account[w].pw = w =>
    profile[w].mustChange /\ \A c \in Worker : ~Confirms(c, w)

\* The password of a committed reset: it is the last one, and every change that
\* may still be confirmed is older.
ResetLive ==
  \A u \in User : LET w == account[u].pw
                  IN w \in audit /\ req[w].op = "reset" =>
                       /\ profile[u].reset = w
                       /\ \A c \in Worker : Confirms(c, u) => req[c].base # w

TogglesFit ==
  \A w \in Worker :
    At(w, "toggle", "looked") /\ toggled[UserOf(w)] = req[w].base =>
      req[w].seen = profile[UserOf(w)].active

IInv ==
  /\ TypeOK /\ RequestsFit /\ LocksFit /\ AuditFits /\ KeysFit /\ BasesFit
  /\ LateFits /\ HiresFit /\ PasswordsFit /\ ResetsFit /\ HiredLive /\ ResetLive
  /\ TogglesFit /\ ShownIsAudited /\ OneResetPerKey /\ OneTimeUnlessOvertaken

-----------------------------------------------------------------------------
(* What a row is                                                           *)

LEMMA RowFacts ==
  ASSUME TypeOK, NEW u \in User
  PROVE  /\ HasAccount(u) => account[u] \in Account /\ account[u].pw # None
         /\ ~HasAccount(u) => account[u].pw = None
         /\ account[u].pw \in Worker \cup {Own, None}
         /\ HasProfile(u) => profile[u] \in Profile /\ profile[u].reset # Own
         /\ ~HasProfile(u) => ~profile[u].mustChange
         /\ profile[u].reset = Own => ~HasProfile(u)
<1>1. account[u] \in Account \cup {NoAccount} /\ profile[u] \in Profile \cup {NoProfile}
  BY DEF TypeOK
<1>2. None # Own /\ None \notin Worker /\ Own \notin Worker
  BY NoneAssumption, OwnAssumption DEF User
<1>3. account[u] \in Account => account[u] # NoAccount /\ account[u].pw \in Worker \cup {Own}
  BY <1>2 DEF Account, NoAccount
<1>4. profile[u] \in Profile =>
        profile[u] # NoProfile /\ profile[u].reset # Own
  BY <1>2 DEF Profile, NoProfile
<1>5. NoAccount.pw = None /\ NoProfile.reset = Own /\ ~NoProfile.mustChange
  BY DEF NoAccount, NoProfile
<1>6. /\ HasAccount(u) => account[u] \in Account /\ account[u].pw # None
      /\ ~HasAccount(u) => account[u].pw = None
      /\ account[u].pw \in Worker \cup {Own, None}
  BY <1>1, <1>2, <1>3, <1>5 DEF HasAccount
<1>7. HasProfile(u) => profile[u] \in Profile /\ profile[u].reset # Own
  BY <1>1, <1>4 DEF HasProfile
<1>8. ~HasProfile(u) => ~profile[u].mustChange
  BY <1>5, Zenon DEF HasProfile
<1>9. profile[u].reset = Own => ~HasProfile(u)
  BY <1>7, Zenon
<1> QED BY <1>6, <1>7, <1>8, <1>9, Zenon

LEMMA Distinct ==
  /\ None \notin Worker /\ None \notin Hired /\ None # Own /\ Own \notin Worker
  /\ None \notin Key /\ None \notin Email /\ None \notin User
BY NoneAssumption, OwnAssumption DEF User

-----------------------------------------------------------------------------
(* What a step does to the requests                                        *)

\* w takes a step; what it was sent stays.
Moves(w) ==
  /\ req' \in [Worker -> Request]
  /\ \A x \in Worker \ {w} : req'[x] = req[x]
  /\ InFlight(w)
  /\ req'[w].op = req[w].op /\ req'[w].user = req[w].user
  /\ req'[w].email = req[w].email /\ req'[w].key = req[w].key
  /\ req'[w].want = req[w].want /\ req'[w].base = req[w].base

Begins(w, r) ==
  /\ req' \in [Worker -> Request]
  /\ \A x \in Worker \ {w} : req'[x] = req[x]
  /\ req[w] = NewRequest
  /\ req'[w] = r

LEMMA StepMoves ==
  ASSUME TypeOK, NEW w \in Worker, InFlight(w),
         NEW pc \in {"looked", "calling", "called", "undoing"}, Step(w, pc)
  PROVE  /\ Moves(w)
         /\ req'[w].pc = pc
         /\ req'[w].answer = req[w].answer /\ req'[w].seen = req[w].seen
BY DEF TypeOK, Request, Step, Moves

LEMMA FinishMoves ==
  ASSUME TypeOK, NEW w \in Worker, InFlight(w),
         NEW answer \in {"shown", "ok", "refused", "failed", "lost"},
         Finish(w, answer)
  PROVE  /\ Moves(w)
         /\ req'[w].pc = "done"
         /\ req'[w].answer = answer /\ req'[w].seen = req[w].seen
BY DEF TypeOK, Request, Finish, Moves

LEMMA BeginBegins ==
  ASSUME TypeOK, NEW w \in Worker, NEW r \in Request, Begin(w, r)
  PROVE  Begins(w, r)
BY DEF TypeOK, Begin, Begins

\* A request that is past its first step: what every proof below starts from.
LEMMA Under ==
  ASSUME IInv, NEW w \in Worker, InFlight(w)
  PROVE  /\ UserOf(w) \in User /\ req[w].pc \notin {"new", "done"}
         /\ req[w].op \in {"create", "reset", "toggle", "confirm"}
         /\ req[w].op = "create" => UserOf(w) = w
         /\ req[w].op # "create" => HasProfile(UserOf(w))
         /\ req[w].answer = "none" /\ ~Stray(w) /\ late[w] = "none"
         /\ req[w].pc # "undoing" => w \notin audit
<1>1. req[w] \in Request /\ Fits(w)
  BY DEF IInv, TypeOK, RequestsFit
<1>2. req[w].pc \notin {"new", "done"}
  BY DEF InFlight
<1>3. req[w].op \in {"create", "reset", "toggle", "confirm"}
  BY <1>1, <1>2 DEF Request, Fits
<1>4. req[w].answer = "none" /\ ~Stray(w)
  BY <1>1, <1>2 DEF Fits, Stray
<1>5. late[w] = "none"
  BY <1>4 DEF IInv, LateFits
<1>6. req[w].pc # "undoing" => w \notin audit
  BY <1>2 DEF IInv, AuditFits, At
<1> QED BY <1>1, <1>2, <1>3, <1>4, <1>5, <1>6 DEF Fits, UserOf, User

-----------------------------------------------------------------------------
(* Steps that change no table and no account                               *)

\* The parts that only speak of what a request was sent, and of what is done.
LEMMA Quiet ==
  ASSUME IInv, NEW w \in Worker, Moves(w), UNCHANGED <<account, tables>>
  PROVE  /\ KeysFit' /\ BasesFit' /\ PasswordsFit' /\ HiredLive' /\ ResetLive'
         /\ OneResetPerKey' /\ OneTimeUnlessOvertaken'
<1>1. \A x \in Worker : /\ req'[x].op = req[x].op /\ req'[x].user = req[x].user
                        /\ req'[x].key = req[x].key /\ req'[x].base = req[x].base
                        /\ req[x].pc = "done" => req'[x].pc = "done"
  BY DEF Moves, InFlight
<1>2. audit \subseteq Worker /\ UNCHANGED <<account, profile, audit, keys, toggled, overtaken>>
  BY DEF IInv, TypeOK, tables
<1>3. KeysFit'
  <2> SUFFICES ASSUME NEW k \in Key, NEW u \in User
               PROVE  (<<k, u>> \in keys) <=> \E v \in audit : IsReset(v, k, u)'
    BY <1>2, Zenon DEF KeysFit
  <2>1. (<<k, u>> \in keys) <=> \E v \in audit : IsReset(v, k, u)
    BY DEF IInv, KeysFit
  <2>2. \A v \in audit : IsReset(v, k, u)' <=> IsReset(v, k, u)
    BY <1>1, <1>2 DEF IsReset
  <2> QED BY <2>1, <2>2, Zenon
<1>4. BasesFit'
  BY <1>1, <1>2 DEF IInv, BasesFit
<1>5. PasswordsFit'
  BY <1>1, <1>2 DEF IInv, PasswordsFit, UserOf
<1>6. HiredLive'
  BY <1>1, <1>2 DEF IInv, HiredLive, Confirms
<1>7. ResetLive'
  BY <1>1, <1>2 DEF IInv, ResetLive, Confirms
<1>8. OneResetPerKey'
  BY <1>1, <1>2 DEF IInv, OneResetPerKey, UserOf
<1>9. OneTimeUnlessOvertaken'
  BY <1>1, <1>2 DEF IInv, OneTimeUnlessOvertaken, UserOf
<1> QED BY <1>3, <1>4, <1>5, <1>6, <1>7, <1>8, <1>9

\* Releasing the lock of a request that no longer needs it.
LEMMA Releases ==
  ASSUME IInv, NEW w \in Worker, Moves(w), req'[w].pc \in {"done", "undoing"},
         locked' = Released(w)
  PROVE  LocksFit' /\ locked' \in [User -> Worker \cup {None}]
<1>1. locked' \in [User -> Worker \cup {None}]
  BY DEF IInv, TypeOK, Released
<1>2. \A u \in User, x \in Worker : (locked'[u] = x) <=> (locked[u] = x /\ x # w)
  BY Distinct DEF IInv, TypeOK, Released
<1>3. LocksFit'
  BY <1>2 DEF IInv, LocksFit, Moves
<1> QED BY <1>1, <1>3

\* A request that ends without having written anything, or whose hire is done
\* with: the shape of every refusal, failure, loss and lost race.
LEMMA Ends ==
  ASSUME IInv, NEW w \in Worker, Moves(w), UNCHANGED <<account, tables>>,
         locked' = Released(w), late' \in [Worker -> Call],
         req'[w].seen = req[w].seen,
         req'[w].pc \in {"done", "undoing"},
         req'[w].pc = "undoing" => At(w, "create", "called") /\ req'[w].answer = "none",
         req'[w].pc = "done" => req'[w].answer \in {"shown", "refused", "failed", "lost"},
         req'[w].answer = "shown" => At(w, "reset", "called") /\ Taken(w),
         req'[w].answer = "refused" => ~HasProfile(w) \/ req[w].op # "create",
         \A x \in Worker \ {w} : late'[x] = late[x],
         late'[w] # "none" => late'[w] = CallOf(w) /\ Stray(w)'
  PROVE  IInv'
<1> USE DEF Moves
<1>0. /\ InFlight(w) /\ audit \subseteq Worker /\ req[w] \in Request
      /\ UNCHANGED <<account, profile, audit, keys, toggled, overtaken>>
  BY DEF IInv, TypeOK, tables
<1>u. /\ UserOf(w) \in User /\ req[w].pc \notin {"new", "done"}
      /\ req[w].op \in {"create", "reset", "toggle", "confirm"}
      /\ req[w].op = "create" => UserOf(w) = w
      /\ req[w].op # "create" => HasProfile(UserOf(w))
      /\ req[w].answer = "none" /\ ~Stray(w) /\ late[w] = "none"
      /\ req[w].pc # "undoing" => w \notin audit
  BY <1>0, Under
<1>1. TypeOK'
  BY <1>0, Releases DEF IInv, TypeOK
<1>2. RequestsFit'
  <2> SUFFICES ASSUME NEW x \in Worker PROVE Fits(x)'
    BY DEF RequestsFit
  <2>1. Fits(x) /\ Fits(w)
    BY DEF IInv, RequestsFit
  <2>2. CASE x = w
    BY <1>0, <1>u, <2>1, <2>2 DEF Fits, HasProfile, At, UserOf, NewRequest
  <2>3. CASE x # w
    BY <1>0, <2>1, <2>3 DEF Fits, HasProfile
  <2> QED BY <2>2, <2>3
<1>3. LocksFit'
  BY Releases
<1>4. AuditFits'
  BY <1>0, <1>u DEF IInv, AuditFits, At
<1>5. LateFits'
  BY <1>0, <1>u DEF IInv, LateFits, HiresFit, Stray, CallOf, At, HasProfile
<1>6. HiresFit'
  BY <1>0, <1>u DEF IInv, HiresFit, Stray, At, HasProfile, HasAccount
<1>7. ResetsFit'
  BY <1>0, <1>u DEF IInv, ResetsFit, LiveOrStray, Stray, At
<1>8. TogglesFit'
  BY <1>0, <1>u DEF IInv, TogglesFit, At, UserOf
<1>9. ShownIsAudited'
  BY <1>0, <1>u DEF IInv, ShownIsAudited, KeysFit, IsReset, Taken, KeyUsed, At, UserOf, Fits, RequestsFit
<1>10. /\ KeysFit' /\ BasesFit' /\ PasswordsFit' /\ HiredLive' /\ ResetLive'
       /\ OneResetPerKey' /\ OneTimeUnlessOvertaken'
  BY Quiet
<1> QED BY <1>1, <1>2, <1>3, <1>4, <1>5, <1>6, <1>7, <1>8, <1>9, <1>10 DEF IInv

LEMMA CallFacts ==
  ASSUME NEW w \in Worker, CallOf(w) # "none"
  PROVE  /\ InFlight(w)
         /\ \/ CallOf(w) = "create_user" /\ At(w, "create", "calling")
            \/ CallOf(w) = "update_user" /\ At(w, "reset", "calling")
            \/ CallOf(w) = "delete_user" /\ At(w, "create", "undoing")
         /\ CallOf(w) \in Call
BY DEF CallOf, InFlight, At, Call

LEMMA AdminRefusesKeeps ==
  ASSUME IInv, NEW w \in Worker, AdminRefuses(w)
  PROVE  IInv'
<1> DEFINE answer == IF CallOf(w) = "create_user" THEN "refused" ELSE "failed"
<1>1. TypeOK /\ CallOf(w) # "none" /\ Finish(w, answer) /\ locked' = Released(w)
  BY DEF AdminRefuses, IInv
<1>2. InFlight(w)
  BY <1>1, CallFacts
<1>3. Moves(w) /\ req'[w].pc = "done" /\ req'[w].answer = answer /\ req'[w].seen = req[w].seen
  BY <1>1, <1>2, FinishMoves
<1>4. answer = "refused" => ~HasProfile(w)
  BY <1>1, CallFacts DEF IInv, HiresFit, At
<1>5. UNCHANGED <<account, tables, late>>
  BY DEF AdminRefuses
<1>6. late[w] = "none" /\ late \in [Worker -> Call]
  BY <1>2, Under DEF IInv, TypeOK
<1> QED BY <1>1, <1>3, <1>4, <1>5, <1>6, Ends

LEMMA AdminTimesOutKeeps ==
  ASSUME IInv, NEW w \in Worker, AdminTimesOut(w)
  PROVE  IInv'
<1>1. TypeOK /\ CallOf(w) # "none" /\ Finish(w, "failed") /\ locked' = Released(w)
  BY DEF AdminTimesOut, IInv
<1>2. InFlight(w) /\ CallOf(w) \in Call
  BY <1>1, CallFacts
<1>3. Moves(w) /\ req'[w].pc = "done" /\ req'[w].answer = "failed" /\ req'[w].seen = req[w].seen
  BY <1>1, <1>2, FinishMoves
<1>4. UNCHANGED <<account, tables>> /\ late' = [late EXCEPT ![w] = CallOf(w)]
  BY DEF AdminTimesOut
<1>5. late \in [Worker -> Call]
  BY <1>1 DEF TypeOK
<1>6. /\ late' \in [Worker -> Call] /\ \A x \in Worker \ {w} : late'[x] = late[x]
      /\ late'[w] = CallOf(w)
  BY <1>2, <1>4, <1>5
<1>7. Stray(w)'
  BY <1>3 DEF Stray
<1> QED BY <1>1, <1>3, <1>4, <1>6, <1>7, Ends

LEMMA LoseKeeps ==
  ASSUME IInv, NEW w \in Worker, Lose(w)
  PROVE  IInv'
<1>1. TypeOK /\ InFlight(w) /\ Finish(w, "lost") /\ locked' = Released(w)
  BY DEF Lose, IInv
<1>2. Moves(w) /\ req'[w].pc = "done" /\ req'[w].answer = "lost" /\ req'[w].seen = req[w].seen
  BY <1>1, FinishMoves
<1>3. UNCHANGED <<account, tables>> /\ late' \in {late, [late EXCEPT ![w] = CallOf(w)]}
  BY DEF Lose
<1>4. late \in [Worker -> Call] /\ late[w] = "none" /\ CallOf(w) \in Call
  BY <1>1, Under, CallFacts DEF TypeOK, Call
<1>5. /\ late' \in [Worker -> Call] /\ \A x \in Worker \ {w} : late'[x] = late[x]
      /\ late'[w] # "none" => late'[w] = CallOf(w)
  BY <1>3, <1>4
<1>6. Stray(w)'
  BY <1>2 DEF Stray
<1> QED BY <1>1, <1>2, <1>3, <1>5, <1>6, Ends

LEMMA LoseKeyRaceKeeps ==
  ASSUME IInv, NEW w \in Worker, LoseKeyRace(w)
  PROVE  IInv'
<1>1. /\ TypeOK /\ At(w, "reset", "called") /\ Taken(w) /\ locked' = Released(w)
      /\ UNCHANGED <<account, tables, late>>
  BY DEF LoseKeyRace, IInv
<1>2. InFlight(w)
  BY <1>1 DEF At, InFlight
<1>3. PICK answer \in {"shown", "lost"} : Finish(w, answer)
  BY DEF LoseKeyRace, Answered
<1>4. Moves(w) /\ req'[w].pc = "done" /\ req'[w].answer = answer /\ req'[w].seen = req[w].seen
  BY <1>1, <1>2, <1>3, FinishMoves
<1>5. late[w] = "none" /\ late \in [Worker -> Call]
  BY <1>2, Under DEF IInv, TypeOK
<1> QED BY <1>1, <1>4, <1>5, Ends

LEMMA NothingCommittedKeeps ==
  ASSUME IInv, NEW w \in Worker, CommitRaises(w), UNCHANGED tables
  PROVE  IInv'
<1>1. TypeOK /\ Committing(w) /\ Failed(w) /\ locked' = Released(w) /\ UNCHANGED <<account, tables, late>>
  BY DEF CommitRaises, Writable, IInv
<1>2. InFlight(w) /\ (req[w].op = "create" => At(w, "create", "called"))
  BY <1>1 DEF Committing, InFlight, At
<1>3. late[w] = "none" /\ late \in [Worker -> Call] /\ req[w].answer = "none"
  BY <1>2, Under DEF IInv, TypeOK
<1>4. CASE req[w].op = "create"
  <2>1. Moves(w) /\ req'[w].pc = "undoing" /\ req'[w].answer = "none" /\ req'[w].seen = req[w].seen
    BY <1>1, <1>2, <1>3, <1>4, StepMoves DEF Failed
  <2> QED BY <1>1, <1>2, <1>3, <1>4, <2>1, Ends
<1>5. CASE req[w].op # "create"
  <2>1. Moves(w) /\ req'[w].pc = "done" /\ req'[w].answer = "failed" /\ req'[w].seen = req[w].seen
    BY <1>1, <1>2, <1>5, FinishMoves DEF Failed
  <2> QED BY <1>1, <1>2, <1>3, <1>5, <2>1, Ends
<1> QED BY <1>4, <1>5

LEMMA LockProfileKeeps ==
  ASSUME IInv, NEW w \in Worker, LockProfile(w)
  PROVE  IInv'
<1>1. /\ TypeOK /\ At(w, "reset", "looked") /\ RowFree(w, UserOf(w)) /\ Step(w, "calling")
      /\ locked' = [locked EXCEPT ![UserOf(w)] = w]
      /\ UNCHANGED <<account, profile, audit, keys, toggled, overtaken, late>> /\ UNCHANGED tables
  BY DEF LockProfile, IInv, tables
<1>2. InFlight(w)
  BY <1>1 DEF At, InFlight
<1>3. UserOf(w) \in User /\ HasProfile(UserOf(w)) /\ req[w].answer = "none" /\ w \notin audit
  BY <1>1, <1>2, Under DEF At
<1>4. Moves(w) /\ req'[w].pc = "calling" /\ req'[w].answer = "none" /\ req'[w].seen = req[w].seen
  BY <1>1, <1>2, <1>3, StepMoves
<1> USE DEF Moves
<1>5. TypeOK'
  BY <1>1, <1>3, <1>4 DEF TypeOK
<1>6. RequestsFit'
  BY <1>1, <1>3, <1>4 DEF IInv, RequestsFit, Fits, At, NewRequest, HasProfile
<1>7. LocksFit'
  <2>1. \A u \in User : u # UserOf(w) => locked'[u] = locked[u]
    BY <1>1, <1>3 DEF TypeOK
  <2>2. locked'[UserOf(w)] = w /\ \A x \in Worker \ {w} : locked[UserOf(w)] # x
    BY <1>1, <1>3, Distinct DEF TypeOK, RowFree
  <2> QED BY <1>1, <1>3, <1>4, <2>1, <2>2 DEF IInv, LocksFit, At, UserOf
<1>8. AuditFits' /\ LateFits' /\ HiresFit' /\ ResetsFit' /\ TogglesFit' /\ ShownIsAudited'
  <2>1. AuditFits'
    BY <1>1, <1>3, <1>4 DEF IInv, AuditFits, TypeOK, At
  <2>2. LateFits'
    BY <1>1, <1>3, <1>4 DEF IInv, LateFits, Stray, At, HasProfile
  <2>3. HiresFit'
    BY <1>1, <1>3, <1>4 DEF IInv, HiresFit, Stray, At, HasProfile, HasAccount
  <2>4. ResetsFit' /\ TogglesFit'
    BY <1>1, <1>3, <1>4 DEF IInv, ResetsFit, LiveOrStray, TogglesFit, Stray, At, UserOf
  <2>5. ShownIsAudited'
    BY <1>1, <1>3, <1>4 DEF IInv, ShownIsAudited, UserOf, TypeOK
  <2> QED BY <2>1, <2>2, <2>3, <2>4, <2>5
<1> QED BY <1>1, <1>4, <1>5, <1>6, <1>7, <1>8, Quiet DEF IInv

LEMMA ReadOwnProfileKeeps ==
  ASSUME IInv, NEW w \in Worker, ReadOwnProfile(w)
  PROVE  IInv'
<1>1. /\ TypeOK /\ At(w, "confirm", "looking")
      /\ UNCHANGED <<account, profile, audit, keys, toggled, overtaken, late, locked>> /\ UNCHANGED tables
  BY DEF ReadOwnProfile, IInv, tables
<1>2. InFlight(w)
  BY <1>1 DEF At, InFlight
<1>3. /\ UserOf(w) \in User /\ HasProfile(UserOf(w)) /\ req[w].answer = "none"
      /\ w \notin audit /\ late[w] = "none"
  BY <1>1, <1>2, Under DEF At
<1>4. CASE ~profile[UserOf(w)].active
  <2>1. Moves(w) /\ req'[w].pc = "done" /\ req'[w].answer = "refused" /\ req'[w].seen = req[w].seen
    BY <1>1, <1>2, <1>4, FinishMoves DEF ReadOwnProfile
  <2>2. \A u \in User : locked[u] # w
    BY <1>1 DEF IInv, LocksFit, At
  <2>3. locked' = Released(w)
    BY <1>1, <2>2 DEF Released, TypeOK
  <2>4. late \in [Worker -> Call] /\ req[w].op = "confirm"
    BY <1>1 DEF TypeOK, At
  <2> QED BY <1>1, <1>3, <2>1, <2>3, <2>4, Ends
<1>5. CASE profile[UserOf(w)].active
  <2>1. req' = [req EXCEPT ![w].pc = "looked", ![w].seen = profile[UserOf(w)].mustChange]
    BY <1>5 DEF ReadOwnProfile
  <2>2. profile[UserOf(w)] \in Profile
    BY <1>1, <1>3, RowFacts
  <2>3. Moves(w) /\ req'[w].pc = "looked" /\ req'[w].answer = "none"
    <3>1. profile[UserOf(w)].mustChange \in BOOLEAN
      BY <2>2 DEF Profile
    <3>2. ASSUME NEW seen \in BOOLEAN
          PROVE  [req[w] EXCEPT !.pc = "looked", !.seen = seen] \in Request
      <4>1. req[w] \in Request
        BY <1>1 DEF TypeOK
      <4> QED BY <4>1 DEF Request
    <3>3. req' = [req EXCEPT ![w] = [req[w] EXCEPT !.pc = "looked",
                                       !.seen = profile[UserOf(w)].mustChange]]
      BY <1>1, <2>1 DEF TypeOK
    <3>4. req[w] \in Request /\ req \in [Worker -> Request]
      BY <1>1 DEF TypeOK
    <3>5. /\ req' \in [Worker -> Request] /\ \A x \in Worker \ {w} : req'[x] = req[x]
          /\ req'[w] = [req[w] EXCEPT !.pc = "looked",
                                      !.seen = profile[UserOf(w)].mustChange]
      BY <3>1, <3>2, <3>3, <3>4
    <3> QED BY <1>2, <1>3, <3>4, <3>5 DEF Moves, Request
  <2> USE DEF Moves
  <2>4. TypeOK'
    BY <1>1, <2>3 DEF TypeOK
  <2>5. RequestsFit'
    BY <1>1, <1>3, <2>3 DEF IInv, RequestsFit, Fits, At, NewRequest, HasProfile
  <2>6. LocksFit'
    BY <1>1, <2>3 DEF IInv, LocksFit, At
  <2>7. AuditFits'
    BY <1>1, <1>3, <2>3 DEF IInv, AuditFits, TypeOK, At
  <2>8. LateFits'
    BY <1>1, <1>3, <2>3 DEF IInv, LateFits, Stray, At, HasProfile
  <2>9. HiresFit'
    BY <1>1, <1>3, <2>3 DEF IInv, HiresFit, Stray, At, HasProfile, HasAccount
  <2>10. ResetsFit' /\ TogglesFit'
    BY <1>1, <1>3, <2>3 DEF IInv, ResetsFit, LiveOrStray, TogglesFit, Stray, At, UserOf
  <2>11. ShownIsAudited'
    BY <1>1, <1>3, <2>3 DEF IInv, ShownIsAudited, UserOf, TypeOK
  <2> QED BY <1>1, <2>3, <2>4, <2>5, <2>6, <2>7, <2>8, <2>9, <2>10, <2>11, Quiet DEF IInv
<1> QED BY <1>4, <1>5

-----------------------------------------------------------------------------
(* A request arrives                                                       *)

\* What a request can start as. A change of password has changed the account.
Starts(w, r) ==
  /\ r \in Request
  /\ r.op \in {"create", "reset", "toggle", "confirm"}
  /\ r.pc \in {"looking", "looked", "calling", "done"}
  /\ r.op = "create" => r.pc = "calling" /\ r.user = w
  /\ r.op = "reset" => r.pc \in {"looked", "done"} /\ r.key \in Key
  /\ r.op = "toggle" => r.pc = "looked" /\ r.seen = profile[r.user].active
  /\ r.op = "confirm" => r.pc = "looking"
  /\ r.op # "create" => r.user \in User /\ HasProfile(r.user)
  /\ r.answer = IF r.pc = "done" THEN "refused" ELSE "none"
  /\ r.base \in audit \cup {None}

LEMMA Idle ==
  ASSUME IInv, NEW w \in Worker, req[w] = NewRequest
  PROVE  /\ w \notin audit /\ ~HasProfile(w) /\ late[w] = "none" /\ ~Stray(w)
         /\ req[w].op = "none" /\ req[w].pc = "new" /\ req[w].answer = "none"
         /\ w \in User => account[w].pw # w
<1>1. req[w].op = "none" /\ req[w].pc = "new" /\ req[w].answer = "none"
  BY DEF NewRequest
<1>2. w \notin audit /\ ~HasProfile(w) /\ ~Stray(w)
  BY <1>1 DEF IInv, AuditFits, HiresFit, Stray
<1>3. late[w] = "none"
  BY <1>2 DEF IInv, LateFits
<1>4. w \in User => account[w].pw # w
  BY <1>1 DEF IInv, PasswordsFit
<1> QED BY <1>1, <1>2, <1>3, <1>4

\* The accounts of others and the tables stay; a confirmation may have changed
\* the password of its own.
LEMMA ArrivalKeeps ==
  ASSUME IInv, NEW w \in Worker, NEW r \in Request, Begins(w, r), Starts(w, r),
         UNCHANGED <<locked, late, tables>>,
         account' \in [User -> Account \cup {NoAccount}],
         \A u \in User : account'[u] = account[u] \/
           /\ account'[u].pw = Own /\ HasAccount(u) /\ HasAccount(u)'
           /\ account[u].pw \in Told(u) \cup {Own},
         r.op = "confirm" => account'[r.user].pw = Own
  PROVE  IInv'
<1> USE DEF Begins
<1>0. /\ TypeOK /\ audit \subseteq Worker /\ w \in User
      /\ UNCHANGED <<profile, audit, keys, toggled, overtaken, locked, late>>
  BY DEF IInv, TypeOK, tables, User
<1>u. /\ w \notin audit /\ ~HasProfile(w) /\ late[w] = "none" /\ ~Stray(w)
      /\ req[w].op = "none" /\ req[w].pc = "new" /\ req[w].answer = "none"
      /\ \A u \in User : account[u].pw # w
  BY <1>0, Idle DEF IInv, PasswordsFit
<1>w. /\ r.user \in User
      /\ \A u \in User : account'[u].pw # account[u].pw => account'[u].pw = Own
      /\ \A u \in User : HasAccount(u)' <=> HasAccount(u)
  BY <1>0 DEF Starts, HasAccount
<1>1. TypeOK'
  BY <1>0 DEF TypeOK
<1>2. RequestsFit'
  <2> SUFFICES ASSUME NEW x \in Worker PROVE Fits(x)'
    BY DEF RequestsFit
  <2>1. CASE x = w
    BY <1>0, <2>1 DEF Fits, Starts, NewRequest, HasProfile
  <2>2. CASE x # w
    BY <1>0, <2>2 DEF IInv, RequestsFit, Fits, HasProfile
  <2> QED BY <2>1, <2>2
<1>3. LocksFit'
  BY <1>0, <1>u DEF IInv, LocksFit, Starts
<1>4. AuditFits'
  BY <1>0, <1>u DEF IInv, AuditFits, At
<1>5. KeysFit'
  <2> SUFFICES ASSUME NEW k \in Key, NEW u \in User
               PROVE  (<<k, u>> \in keys) <=> \E v \in audit : IsReset(v, k, u)'
    BY <1>0, Zenon DEF KeysFit
  <2>1. (<<k, u>> \in keys) <=> \E v \in audit : IsReset(v, k, u)
    BY DEF IInv, KeysFit
  <2>2. \A v \in audit : IsReset(v, k, u)' <=> IsReset(v, k, u)
    BY <1>0, <1>u DEF IsReset
  <2> QED BY <2>1, <2>2, Zenon
<1>6. BasesFit'
  BY <1>0 DEF IInv, BasesFit, Starts
<1>7. LateFits'
  BY <1>0, <1>u DEF IInv, LateFits, Stray, HasProfile
<1>8. HiresFit'
  <2>1. \A u \in User : HasAccount(u)' => HasProfile(u)'
    BY <1>0, <1>w, Zenon DEF IInv, HiresFit, HasProfile
  <2>2. ~HasProfile(w)' /\ (req'[w].op = "create" => req'[w].pc = "calling" /\ req'[w].answer = "none")
    BY <1>0, <1>u DEF HasProfile, Starts
  <2>3. \A x \in Worker \ {w} : req'[x] = req[x] /\ (HasAccount(x)' <=> HasAccount(x))
                                 /\ (HasProfile(x)' <=> HasProfile(x))
    BY <1>0, <1>w DEF HasProfile, User
  <2> QED BY <2>1, <2>2, <2>3 DEF IInv, HiresFit, Stray
<1>9. PasswordsFit'
  BY <1>0, <1>u, <1>w, Distinct DEF IInv, PasswordsFit, UserOf
<1>10. ResetsFit'
  <2> SUFFICES ASSUME NEW x \in Worker, At(x, "reset", "called")'
               PROVE  LiveOrStray(x, account[req[x].user].pw)'
    BY DEF ResetsFit
  <2>1. x # w /\ At(x, "reset", "called") /\ req'[x].user = req[x].user
    BY DEF Starts, At
  <2>2. InFlight(x)
    BY <2>1 DEF At, InFlight
  <2>3. req[x].user \in User /\ req[x].answer = "none"
    BY <2>2, Under DEF UserOf
  <2>4. LiveOrStray(x, account[req[x].user].pw)
    BY <2>1 DEF IInv, ResetsFit
  <2>5. account'[req[x].user] = account[req[x].user]
    <3>1. SUFFICES ASSUME HasAccount(req[x].user),
                          account[req[x].user].pw \in Told(req[x].user) \cup {Own}
                   PROVE  FALSE
      BY <2>3
    <3>2. account[req[x].user].pw # None
      BY <1>0, <2>3, <3>1, RowFacts
    <3> QED BY <2>3, <2>4, <3>1, <3>2, Distinct DEF LiveOrStray, Told, Stray
  <2> QED BY <1>0, <1>u, <2>1, <2>3, <2>4, <2>5 DEF LiveOrStray, Stray
<1>11. HiredLive'
  <2> SUFFICES ASSUME NEW x \in Worker, req'[x].op = "create", account'[x].pw = x
               PROVE  profile'[x].mustChange /\ \A c \in Worker : ~Confirms(c, x)'
    BY DEF HiredLive
  <2>1. x \in User /\ account[x].pw = x
    BY <1>w, Distinct DEF User
  <2>2. x # w
    BY <1>0, <1>u, <2>1
  <2>3. profile[x].mustChange /\ \A c \in Worker : ~Confirms(c, x)
    BY <2>1, <2>2 DEF IInv, HiredLive
  <2>4. ~Confirms(w, x)'
    BY <2>1, Distinct DEF Confirms
  <2> QED BY <1>0, <2>3, <2>4 DEF Confirms
<1>12. ResetLive'
  <2> SUFFICES ASSUME NEW u \in User, account'[u].pw \in audit,
                      req'[account'[u].pw].op = "reset"
               PROVE  /\ profile[u].reset = account'[u].pw
                      /\ \A c \in Worker : Confirms(c, u)' => req'[c].base # account'[u].pw
    BY <1>0 DEF ResetLive
  <2>1. account'[u].pw = account[u].pw /\ account[u].pw # w /\ account[u].pw \in Worker
    BY <1>0, <1>u, <1>w, Distinct
  <2>2. /\ profile[u].reset = account[u].pw
        /\ \A c \in Worker : Confirms(c, u) => req[c].base # account[u].pw
    BY <2>1 DEF IInv, ResetLive
  <2>3. ~Confirms(w, u)'
    BY <2>1, Distinct DEF Confirms
  <2> QED BY <2>1, <2>2, <2>3 DEF Confirms
<1>13. TogglesFit'
  BY <1>0, <1>u DEF IInv, TogglesFit, Starts, At, UserOf
<1>14. ShownIsAudited'
  BY <1>0, <1>u DEF IInv, ShownIsAudited, Starts, UserOf
<1>15. OneResetPerKey'
  BY <1>0, <1>u DEF IInv, OneResetPerKey, UserOf
<1>16. OneTimeUnlessOvertaken'
  <2> SUFFICES ASSUME NEW u \in User, account'[u].pw \in audit, ~profile[u].mustChange
               PROVE  account'[u].pw \in overtaken
    BY <1>0 DEF OneTimeUnlessOvertaken
  <2>1. account'[u].pw = account[u].pw
    BY <1>0, <1>w, Distinct
  <2> QED BY <2>1 DEF IInv, OneTimeUnlessOvertaken
<1> QED BY <1>1, <1>2, <1>3, <1>4, <1>5, <1>6, <1>7, <1>8, <1>9, <1>10, <1>11, <1>12, <1>13, <1>14, <1>15, <1>16 DEF IInv

LEMMA BeginCreateKeeps ==
  ASSUME IInv, NEW w \in Worker, NEW e \in Email, BeginCreate(w, e)
  PROVE  IInv'
<1> DEFINE r == [NewRequest EXCEPT !.op = "create", !.pc = "calling",
                                   !.user = w, !.email = e]
<1>1. TypeOK /\ Begin(w, r) /\ UNCHANGED <<account, locked, late, tables>>
  BY DEF BeginCreate, IInv
<1>2. r \in Request
  BY DEF NewRequest, Request, User
<1>3. Starts(w, r)
  BY <1>2 DEF Starts, NewRequest
<1>4. r.op = "create" /\ Begins(w, r) /\ account' \in [User -> Account \cup {NoAccount}]
  BY <1>1, <1>2, BeginBegins DEF NewRequest, TypeOK
<1> HIDE DEF r
<1> QED BY <1>1, <1>2, <1>3, <1>4, ArrivalKeeps

LEMMA BeginResetKeeps ==
  ASSUME IInv, NEW w \in Worker, NEW u \in User, NEW k \in Key, BeginReset(w, u, k)
  PROVE  IInv'
<1> DEFINE r == [NewRequest EXCEPT
                   !.op = "reset", !.user = u, !.key = k,
                   !.pc = IF <<k, u>> \in keys THEN "done" ELSE "looked",
                   !.answer = IF <<k, u>> \in keys THEN "refused" ELSE "none"]
<1>1. TypeOK /\ HasProfile(u) /\ Begin(w, r) /\ UNCHANGED <<account, locked, late, tables>>
  BY DEF BeginReset, IInv
<1>2. r \in Request
  BY DEF NewRequest, Request
<1>3. Starts(w, r)
  BY <1>1, <1>2 DEF Starts, NewRequest
<1>4. r.op = "reset" /\ Begins(w, r) /\ account' \in [User -> Account \cup {NoAccount}]
  BY <1>1, <1>2, BeginBegins DEF NewRequest, TypeOK
<1> HIDE DEF r
<1> QED BY <1>1, <1>2, <1>3, <1>4, ArrivalKeeps

LEMMA BeginToggleKeeps ==
  ASSUME IInv, NEW w \in Worker, NEW u \in User, NEW want \in BOOLEAN,
         BeginToggle(w, u, want)
  PROVE  IInv'
<1> DEFINE r == [NewRequest EXCEPT !.op = "toggle", !.pc = "looked", !.user = u,
                                   !.want = want, !.seen = profile[u].active,
                                   !.base = toggled[u]]
<1>1. TypeOK /\ HasProfile(u) /\ Begin(w, r) /\ UNCHANGED <<account, locked, late, tables>>
  BY DEF BeginToggle, IInv
<1>2. profile[u] \in Profile
  BY <1>1, RowFacts
<1>3. profile[u].active \in BOOLEAN
  BY <1>2 DEF Profile
<1>4. toggled[u] \in Worker \cup {None} /\ toggled[u] \in audit \cup {None}
  BY <1>1 DEF TypeOK, IInv, BasesFit
<1>5. r \in Request
  <2>1. ASSUME NEW seen \in BOOLEAN
        PROVE  [NewRequest EXCEPT !.op = "toggle", !.pc = "looked", !.user = u,
                                  !.want = want, !.seen = seen,
                                  !.base = toggled[u]] \in Request
    BY <1>4 DEF NewRequest, Request
  <2> QED BY <1>3, <2>1
<1>6. Starts(w, r)
  BY <1>1, <1>4, <1>5 DEF Starts, NewRequest
<1>7. r.op = "toggle" /\ Begins(w, r) /\ account' \in [User -> Account \cup {NoAccount}]
  BY <1>1, <1>5, BeginBegins DEF NewRequest, TypeOK
<1> HIDE DEF r
<1> QED BY <1>1, <1>5, <1>6, <1>7, ArrivalKeeps

LEMMA ChangePasswordKeeps ==
  ASSUME IInv, NEW w \in Worker, NEW u \in User, ChangePassword(w, u)
  PROVE  IInv'
<1> DEFINE r == [NewRequest EXCEPT !.op = "confirm", !.pc = "looking",
                                   !.user = u, !.base = profile[u].reset]
<1>1. /\ TypeOK /\ HasAccount(u) /\ account[u].pw \in Told(u) \cup {Own}
      /\ profile[u].mustChange /\ Begin(w, r)
      /\ account' = [account EXCEPT ![u].pw = Own]
      /\ UNCHANGED <<locked, late, tables>>
  BY DEF ChangePassword, Changed, IInv
<1>2. account[u] \in Account /\ HasProfile(u)
  BY <1>1, RowFacts
<1>3. profile[u] \in Profile /\ profile[u].reset \in audit \cup {None}
  BY <1>1, <1>2, RowFacts DEF IInv, BasesFit
<1>4. r \in Request
  BY <1>3 DEF NewRequest, Request, Profile
<1>5. Starts(w, r)
  BY <1>2, <1>3, <1>4 DEF Starts, NewRequest
<1>6. r.op = "confirm" /\ r.user = u /\ Begins(w, r)
  BY <1>1, <1>4, BeginBegins DEF NewRequest
<1>7. [account[u] EXCEPT !.pw = Own] \in Account
  BY <1>2 DEF Account
<1>8. /\ account' \in [User -> Account \cup {NoAccount}]
      /\ \A v \in User \ {u} : account'[v] = account[v]
      /\ account'[u] = [account[u] EXCEPT !.pw = Own]
  BY <1>1, <1>7 DEF TypeOK
<1>9. account'[u].pw = Own /\ HasAccount(u)'
  BY <1>2, <1>7, <1>8, Distinct DEF Account, NoAccount, HasAccount
<1> HIDE DEF r
<1> QED BY <1>1, <1>4, <1>5, <1>6, <1>8, <1>9, ArrivalKeeps

-----------------------------------------------------------------------------
(* The Admin API performs a call: while its caller waits, or after it gave up *)

Performs(w) ==
  /\ req' \in [Worker -> Request]
  /\ \A x \in Worker \ {w} : req'[x] = req[x] /\ late'[x] = late[x]
  /\ req'[w].op = req[w].op /\ req'[w].user = req[w].user /\ req'[w].key = req[w].key
  /\ req'[w].base = req[w].base /\ req'[w].seen = req[w].seen
  /\ late' \in [Worker -> Call] /\ late'[w] = "none"
  /\ UNCHANGED <<audit, keys, locked, toggled, overtaken>>
  /\ \/ CallOf(w) # "none" /\ req'[w].pc = "called" /\ req'[w].answer = "none"
     \/ At(w, "create", "undoing") /\ req'[w].pc = "done" /\ req'[w].answer = "failed"
     \/ Stray(w) /\ req' = req

\* What performing a call leaves alone but the account and its profile.
LEMMA PerformsFrame ==
  ASSUME IInv, NEW w \in Worker, Performs(w), req[w].op \in {"create", "reset"},
         CallOf(w) = "delete_user" => req'[w].pc = "done",
         \A u \in User : HasProfile(u) => HasProfile(u)'
  PROVE  /\ RequestsFit' /\ LocksFit' /\ AuditFits' /\ KeysFit' /\ ShownIsAudited'
         /\ OneResetPerKey'
         /\ Stray(w) => Stray(w)'
         /\ \A x \in Worker \ {w} : Stray(x)' <=> Stray(x)
         /\ \A x \in Worker : /\ req'[x].op = req[x].op /\ req'[x].user = req[x].user
                              /\ req'[x].key = req[x].key /\ req'[x].base = req[x].base
                              /\ req[x].pc = "done" => req'[x].pc = "done"
<1> USE DEF Performs
<1>0. audit \subseteq Worker /\ req[w] \in Request /\ Fits(w)
  BY DEF IInv, TypeOK, RequestsFit
<1>1. \/ /\ At(w, "create", "calling") \/ At(w, "reset", "calling")
         /\ req'[w].pc = "called" /\ req'[w].answer = "none" /\ req[w].answer = "none"
         /\ w \notin audit
      \/ /\ At(w, "create", "undoing") /\ req'[w].pc = "done" /\ req'[w].answer = "failed"
         /\ req[w].answer = "none"
      \/ /\ Stray(w) /\ req' = req /\ req[w].pc = "done"
  <2>1. CASE CallOf(w) # "none" /\ req'[w].pc = "called" /\ req'[w].answer = "none"
    <3>1. At(w, "create", "calling") \/ At(w, "reset", "calling")
      BY <2>1, CallFacts DEF At
    <3> QED BY <2>1, <3>1, <1>0 DEF Fits, At, IInv, AuditFits
  <2>2. CASE At(w, "create", "undoing") /\ req'[w].pc = "done" /\ req'[w].answer = "failed"
    BY <2>2, <1>0 DEF Fits, At
  <2>3. CASE Stray(w) /\ req' = req
    BY <2>3, <1>0 DEF Fits, Stray
  <2> QED BY <2>1, <2>2, <2>3
<1>2. \A x \in Worker : /\ req'[x].op = req[x].op /\ req'[x].user = req[x].user
                        /\ req'[x].key = req[x].key /\ req'[x].base = req[x].base
                        /\ req[x].pc = "done" => req'[x].pc = "done"
  BY <1>1 DEF At
<1>3. RequestsFit'
  <2> SUFFICES ASSUME NEW x \in Worker PROVE Fits(x)'
    BY DEF RequestsFit
  <2>1. Fits(x) /\ (req[x].user \in User /\ HasProfile(req[x].user) => HasProfile(req[x].user)')
    BY DEF IInv, RequestsFit
  <2>2. CASE x = w /\ ~(Stray(w) /\ req' = req)
    BY <1>0, <1>1, <2>1, <2>2 DEF Fits, At, NewRequest
  <2>3. CASE x # w \/ (Stray(w) /\ req' = req)
    BY <1>1, <2>1, <2>3 DEF Fits
  <2> QED BY <2>2, <2>3
<1>4. LocksFit'
  BY <1>1, <1>2 DEF IInv, LocksFit, At
<1>5. AuditFits'
  BY <1>0, <1>1 DEF IInv, AuditFits, At
<1>6. KeysFit'
  <2> SUFFICES ASSUME NEW k \in Key, NEW u \in User
               PROVE  (<<k, u>> \in keys) <=> \E v \in audit : IsReset(v, k, u)'
    BY Zenon DEF KeysFit
  <2>1. (<<k, u>> \in keys) <=> \E v \in audit : IsReset(v, k, u)
    BY DEF IInv, KeysFit
  <2>2. \A v \in audit : IsReset(v, k, u)' <=> IsReset(v, k, u)
    BY <1>0, <1>2 DEF IsReset
  <2> QED BY <2>1, <2>2, Zenon
<1>7. ShownIsAudited'
  BY <1>0, <1>1, <1>2 DEF IInv, ShownIsAudited, UserOf, Stray
<1>8. OneResetPerKey'
  BY <1>0, <1>2 DEF IInv, OneResetPerKey, UserOf
<1>9. (Stray(w) => Stray(w)') /\ \A x \in Worker \ {w} : Stray(x)' <=> Stray(x)
  BY <1>1 DEF Stray
<1> QED BY <1>2, <1>3, <1>4, <1>5, <1>6, <1>7, <1>8, <1>9

LEMMA CreateUserKeeps ==
  ASSUME IInv, NEW w \in Worker, Performs(w), CreateUser(w),
         req[w].op = "create", ~HasProfile(w), w \notin audit, CallOf(w) # "delete_user"
  PROVE  IInv'
<1> USE DEF Performs
<1>0. /\ TypeOK /\ audit \subseteq Worker /\ w \in User /\ UserOf(w) = w /\ req[w] \in Request
      /\ req[w].email \in Email \cup {None} /\ req[w].user = w
  BY DEF IInv, TypeOK, RequestsFit, Fits, UserOf, User, Request
<1>1. /\ account' = [account EXCEPT ![w] = [email |-> req[w].email, pw |-> w]]
      /\ profile' = [profile EXCEPT ![w] = NewProfile]
  BY <1>0 DEF CreateUser
<1>2. NewProfile \in Profile /\ [email |-> req[w].email, pw |-> w] \in Account
  BY <1>0 DEF NewProfile, Profile, Account
<1>3. /\ account' \in [User -> Account \cup {NoAccount}]
      /\ profile' \in [User -> Profile \cup {NoProfile}]
      /\ \A u \in User \ {w} : account'[u] = account[u] /\ profile'[u] = profile[u]
      /\ account'[w].pw = w /\ account'[w] \in Account
      /\ profile'[w].mustChange /\ profile'[w].reset = None /\ profile'[w] \in Profile
  BY <1>0, <1>1, <1>2 DEF TypeOK, NewProfile
<1>4. TypeOK'
  BY <1>0, <1>3 DEF TypeOK
<1>5. HasAccount(w)' /\ HasProfile(w)'
  BY <1>0, <1>3, <1>4, Distinct DEF HasAccount, HasProfile, Account, NoAccount, Profile, NoProfile
<1>6. \A u \in User \ {w} : (HasProfile(u)' <=> HasProfile(u)) /\ (HasAccount(u)' <=> HasAccount(u))
  BY <1>3 DEF HasProfile, HasAccount
<1>7. \A u \in User : HasProfile(u) => HasProfile(u)'
  BY <1>5, <1>6
<1>8. /\ RequestsFit' /\ LocksFit' /\ AuditFits' /\ KeysFit' /\ ShownIsAudited' /\ OneResetPerKey'
      /\ Stray(w) => Stray(w)'
      /\ \A x \in Worker \ {w} : Stray(x)' <=> Stray(x)
      /\ \A x \in Worker : /\ req'[x].op = req[x].op /\ req'[x].user = req[x].user
                           /\ req'[x].key = req[x].key /\ req'[x].base = req[x].base
                           /\ req[x].pc = "done" => req'[x].pc = "done"
  BY <1>0, <1>7, PerformsFrame DEF At
<1>9. \A x \in Worker : req[x].op \in {"reset", "toggle", "confirm"} => req[x].user \in User \ {w}
  BY DEF IInv, RequestsFit, Fits
<1>10. BasesFit'
  BY <1>0, <1>3, <1>8 DEF IInv, BasesFit
<1>11. LateFits'
  BY <1>0, <1>6, <1>8 DEF IInv, LateFits, User
<1>12. HiresFit'
  <2>1. \A u \in User : HasAccount(u)' => HasProfile(u)'
    BY <1>5, <1>6 DEF IInv, HiresFit
  <2>2. req'[w].pc # "calling" /\ req'[w].answer # "refused"
    <3>1. At(w, "create", "undoing") => HasProfile(w)
      BY <1>0 DEF At, IInv, HiresFit
    <3> QED BY <3>1, <1>0 DEF Stray, IInv, RequestsFit, Fits
  <2> QED BY <1>0, <1>5, <1>6, <1>8, <2>1, <2>2 DEF IInv, HiresFit, User
<1>13. PasswordsFit'
  BY <1>0, <1>3, <1>8 DEF IInv, PasswordsFit, UserOf
<1>14. ResetsFit'
  BY <1>0, <1>3, <1>8, <1>9 DEF IInv, ResetsFit, LiveOrStray, At
<1>15. HiredLive'
  BY <1>0, <1>3, <1>8, <1>9 DEF IInv, HiredLive, Confirms, User
<1>16. ResetLive'
  BY <1>0, <1>3, <1>8 DEF IInv, ResetLive, Confirms
<1>17. TogglesFit'
  BY <1>0, <1>3, <1>8, <1>9 DEF IInv, TogglesFit, At, UserOf
<1>18. OneTimeUnlessOvertaken'
  BY <1>0, <1>3, <1>8 DEF IInv, OneTimeUnlessOvertaken, UserOf
<1> QED BY <1>4, <1>8, <1>10, <1>11, <1>12, <1>13, <1>14, <1>15, <1>16, <1>17, <1>18 DEF IInv

LEMMA UpdateUserKeeps ==
  ASSUME IInv, NEW w \in Worker, Performs(w), UpdateUser(w), HasAccount(UserOf(w)),
         req[w].op = "reset", w \notin audit, CallOf(w) # "delete_user"
  PROVE  IInv'
<1> USE DEF Performs
<1>0. PICK u \in User : u = req[w].user
  BY DEF IInv, RequestsFit, Fits
<1>1. /\ TypeOK /\ audit \subseteq Worker /\ req[w].user = u /\ HasAccount(u)
      /\ account' = [account EXCEPT ![u].pw = w] /\ UNCHANGED profile
  BY <1>0 DEF IInv, TypeOK, UserOf, UpdateUser
<1>2. account[u] \in Account
  BY <1>1, RowFacts
<1>3. [account[u] EXCEPT !.pw = w] \in Account
  BY <1>2 DEF Account
<1>4. /\ account' \in [User -> Account \cup {NoAccount}] /\ account'[u] \in Account
      /\ \A x \in User \ {u} : account'[x] = account[x]
      /\ account'[u].pw = w
  BY <1>1, <1>2, <1>3 DEF TypeOK, Account
<1>5. \A x \in User : (HasAccount(x)' <=> HasAccount(x)) /\ (HasProfile(x)' <=> HasProfile(x))
  <2>1. HasAccount(u)'
    BY <1>4, Distinct DEF HasAccount, Account, NoAccount
  <2> QED BY <1>1, <1>4, <2>1 DEF HasAccount, HasProfile
<1>6. TypeOK'
  BY <1>1, <1>4 DEF TypeOK
<1>7. /\ RequestsFit' /\ LocksFit' /\ AuditFits' /\ KeysFit' /\ ShownIsAudited' /\ OneResetPerKey'
      /\ Stray(w) => Stray(w)'
      /\ \A x \in Worker \ {w} : Stray(x)' <=> Stray(x)
      /\ \A x \in Worker : /\ req'[x].op = req[x].op /\ req'[x].user = req[x].user
                           /\ req'[x].key = req[x].key /\ req'[x].base = req[x].base
                           /\ req[x].pc = "done" => req'[x].pc = "done"
  BY <1>5, PerformsFrame
<1>8. BasesFit'
  BY <1>1, <1>7 DEF IInv, BasesFit
<1>9. LateFits'
  BY <1>1, <1>5, <1>7 DEF IInv, LateFits, User
<1>10. HiresFit'
  BY <1>1, <1>5, <1>7 DEF IInv, HiresFit, User
<1>11. PasswordsFit'
  BY <1>1, <1>4, <1>7 DEF IInv, PasswordsFit, UserOf
<1>12. ResetsFit'
  <2> SUFFICES ASSUME NEW x \in Worker, At(x, "reset", "called")'
               PROVE  LiveOrStray(x, account[req[x].user].pw)'
    BY DEF ResetsFit
  <2>1. CASE x = w
    BY <1>1, <1>4, <2>1 DEF LiveOrStray
  <2>2. CASE x # w /\ req[x].user # u
    <3>1. At(x, "reset", "called") /\ req[x].user \in User
      BY <2>2 DEF At, IInv, RequestsFit, Fits
    <3> QED BY <1>1, <1>4, <1>7, <2>2, <3>1 DEF IInv, ResetsFit, LiveOrStray
  <2>3. CASE x # w /\ req[x].user = u
    <3>1. locked[u] = x
      BY <1>1, <2>3 DEF At, IInv, LocksFit
    <3>2. ~At(w, "reset", "calling")
      BY <1>1, <2>3, <3>1 DEF At, IInv, LocksFit
    <3>3. Stray(w)'
      BY <3>2, <1>7, CallFacts DEF At
    <3> QED BY <1>1, <1>4, <2>3, <3>3 DEF LiveOrStray
  <2> QED BY <2>1, <2>2, <2>3
<1>13. HiredLive'
  BY <1>1, <1>4, <1>7 DEF IInv, HiredLive, Confirms, User
<1>14. ResetLive'
  BY <1>1, <1>4, <1>7 DEF IInv, ResetLive, Confirms
<1>15. TogglesFit'
  BY <1>1, <1>7 DEF IInv, TogglesFit, At, UserOf
<1>16. OneTimeUnlessOvertaken'
  BY <1>1, <1>4, <1>7 DEF IInv, OneTimeUnlessOvertaken, UserOf
<1> QED BY <1>6, <1>7, <1>8, <1>9, <1>10, <1>11, <1>12, <1>13, <1>14, <1>15, <1>16 DEF IInv

LEMMA DeleteUserKeeps ==
  ASSUME IInv, NEW w \in Worker, Performs(w), DeleteUser(w), HasAccount(w),
         req[w].op = "create", req'[w].pc = "done", Stray(w)'
  PROVE  IInv'
<1> USE DEF Performs
<1>1. /\ TypeOK /\ audit \subseteq Worker /\ w \in User /\ req[w].user = w
      /\ account' = [account EXCEPT ![w] = NoAccount] /\ UNCHANGED profile
  BY DEF IInv, TypeOK, RequestsFit, Fits, UserOf, User, DeleteUser
<1>2. /\ account' \in [User -> Account \cup {NoAccount}]
      /\ \A x \in User \ {w} : account'[x] = account[x]
      /\ account'[w] = NoAccount /\ account'[w].pw = None
  BY <1>1 DEF TypeOK, NoAccount
<1>3. /\ ~HasAccount(w)'
      /\ \A x \in User : HasProfile(x)' <=> HasProfile(x)
      /\ \A x \in User \ {w} : HasAccount(x)' <=> HasAccount(x)
  BY <1>1, <1>2 DEF HasAccount, HasProfile
<1>4. TypeOK'
  BY <1>1, <1>2 DEF TypeOK
<1>5. /\ RequestsFit' /\ LocksFit' /\ AuditFits' /\ KeysFit' /\ ShownIsAudited' /\ OneResetPerKey'
      /\ \A x \in Worker \ {w} : Stray(x)' <=> Stray(x)
      /\ \A x \in Worker : /\ req'[x].op = req[x].op /\ req'[x].user = req[x].user
                           /\ req'[x].key = req[x].key /\ req'[x].base = req[x].base
                           /\ req[x].pc = "done" => req'[x].pc = "done"
  BY <1>3, PerformsFrame
<1>6. BasesFit'
  BY <1>1, <1>5 DEF IInv, BasesFit
<1>7. LateFits'
  BY <1>1, <1>3, <1>5 DEF IInv, LateFits, User
<1>8. HiresFit'
  BY <1>1, <1>3, <1>5 DEF IInv, HiresFit, User, Stray
<1>9. PasswordsFit'
  BY <1>1, <1>2, <1>5, Distinct DEF IInv, PasswordsFit, UserOf
<1>10. ResetsFit'
  <2> SUFFICES ASSUME NEW x \in Worker, At(x, "reset", "called")'
               PROVE  LiveOrStray(x, account[req[x].user].pw)'
    BY DEF ResetsFit
  <2>1. x # w /\ At(x, "reset", "called") /\ req[x].user \in User
    BY <1>5 DEF At, IInv, RequestsFit, Fits
  <2>2. CASE req[x].user = w
    BY <1>2, <1>5, <2>2 DEF LiveOrStray
  <2>3. CASE req[x].user # w
    BY <1>1, <1>2, <1>5, <2>1, <2>3 DEF IInv, ResetsFit, LiveOrStray, PasswordsFit, UserOf
  <2> QED BY <2>2, <2>3
<1>11. HiredLive'
  BY <1>1, <1>2, <1>5, Distinct DEF IInv, HiredLive, Confirms, User
<1>12. ResetLive'
  BY <1>1, <1>2, <1>5, Distinct DEF IInv, ResetLive, Confirms
<1>13. TogglesFit'
  BY <1>1, <1>5 DEF IInv, TogglesFit, At, UserOf
<1>14. OneTimeUnlessOvertaken'
  BY <1>1, <1>2, <1>5, Distinct DEF IInv, OneTimeUnlessOvertaken, UserOf
<1> QED BY <1>4, <1>5, <1>6, <1>7, <1>8, <1>9, <1>10, <1>11, <1>12, <1>13, <1>14 DEF IInv

LEMMA AdminAnswersKeeps ==
  ASSUME IInv, NEW w \in Worker, AdminAnswers(w)
  PROVE  IInv'
<1>1. /\ TypeOK /\ Perform(w, CallOf(w))
      /\ UNCHANGED <<audit, keys, locked, late, toggled, overtaken>>
  BY DEF AdminAnswers, IInv
<1>2. CallOf(w) # "none"
  BY <1>1 DEF Perform
<1>3. InFlight(w)
  BY <1>2, CallFacts
<1>4. late[w] = "none" /\ late \in [Worker -> Call] /\ req[w].answer = "none" /\ ~Stray(w)
  BY <1>1, <1>3, Under DEF TypeOK
<1>5. CASE CallOf(w) = "delete_user"
  <2>1. At(w, "create", "undoing") /\ Finish(w, "failed")
    BY <1>2, <1>5, CallFacts DEF AdminAnswers, AfterUndo
  <2>2. Moves(w) /\ req'[w].pc = "done" /\ req'[w].answer = "failed" /\ req'[w].seen = req[w].seen
    BY <1>1, <1>3, <2>1, FinishMoves
  <2>3. Performs(w)
    BY <1>1, <1>4, <2>1, <2>2 DEF Performs, Moves
  <2>4. HasAccount(UserOf(w)) /\ DeleteUser(w)
    BY <1>1, <1>5 DEF Perform
  <2>5. UserOf(w) = w /\ req[w].op = "create" /\ Stray(w)'
    BY <1>3, <2>1, <2>2, Under DEF At, Stray
  <2>6. HasAccount(w)
    BY <2>4, <2>5
  <2> QED BY <2>2, <2>3, <2>4, <2>5, <2>6, DeleteUserKeeps
<1>6. CASE CallOf(w) # "delete_user"
  <2>1. Step(w, "called")
    BY <1>6 DEF AdminAnswers
  <2>2. Moves(w) /\ req'[w].pc = "called" /\ req'[w].answer = "none" /\ req'[w].seen = req[w].seen
    BY <1>1, <1>3, <1>4, <2>1, StepMoves
  <2>3. Performs(w)
    BY <1>1, <1>2, <1>4, <2>2 DEF Performs, Moves
  <2>4. CASE CallOf(w) = "create_user"
    <3>1. At(w, "create", "calling") /\ CreateUser(w)
      BY <1>1, <2>4, CallFacts DEF Perform
    <3>2. ~HasProfile(w) /\ w \notin audit /\ req[w].op = "create"
      BY <1>3, <3>1, Under DEF At, IInv, HiresFit
    <3> QED BY <1>6, <2>3, <3>1, <3>2, CreateUserKeeps
  <2>5. CASE CallOf(w) = "update_user"
    <3>1. At(w, "reset", "calling") /\ HasAccount(UserOf(w)) /\ UpdateUser(w)
      BY <1>1, <2>5, CallFacts DEF Perform
    <3>2. w \notin audit /\ req[w].op = "reset"
      BY <1>3, <3>1, Under DEF At
    <3> QED BY <1>6, <2>3, <3>1, <3>2, UpdateUserKeeps
  <2> QED BY <1>2, <1>6, <2>4, <2>5, CallFacts
<1> QED BY <1>5, <1>6

LEMMA LandKeeps ==
  ASSUME IInv, NEW w \in Worker, Land(w)
  PROVE  IInv'
<1>1. /\ TypeOK /\ late[w] # "none" /\ late' = [late EXCEPT ![w] = "none"]
      /\ UNCHANGED <<audit, keys, locked, toggled, overtaken, req>>
  BY DEF Land, IInv
<1>2. /\ late' \in [Worker -> Call] /\ late'[w] = "none"
      /\ \A x \in Worker \ {w} : late'[x] = late[x]
  BY <1>1 DEF TypeOK, Call
<1>3. /\ Stray(w)
      /\ late[w] = "create_user" => req[w].op = "create" /\ ~HasProfile(w)
      /\ late[w] = "update_user" => req[w].op = "reset"
      /\ late[w] = "delete_user" => req[w].op = "create"
      /\ late[w] \in {"create_user", "update_user"} => w \notin audit
  BY <1>1 DEF IInv, LateFits
<1>4. Performs(w) /\ Stray(w)'
  BY <1>1, <1>2, <1>3 DEF Performs, TypeOK, Stray
<1>5. CallOf(w) = "none" /\ req[w].pc = "done"
  BY <1>3 DEF IInv, RequestsFit, Fits, Stray, CallOf, At
<1>6. CASE UNCHANGED <<account, profile>>
  <2>1. /\ UNCHANGED <<account, profile, audit, keys, locked, toggled, overtaken, req>>
        /\ \A x \in Worker : late'[x] \in {late[x], "none"}
    BY <1>1, <1>2, <1>6
  <2>2. TypeOK'
    BY <1>1, <1>2, <2>1 DEF TypeOK
  <2>3. LateFits'
    BY <2>1 DEF IInv, LateFits, Stray, HasProfile
  <2>4. RequestsFit' /\ LocksFit' /\ AuditFits' /\ KeysFit' /\ BasesFit'
    BY <2>1 DEF IInv, RequestsFit, Fits, HasProfile, LocksFit, AuditFits, At, KeysFit,
                IsReset, BasesFit
  <2>5. HiresFit' /\ PasswordsFit' /\ ResetsFit' /\ TogglesFit'
    BY <2>1 DEF IInv, HiresFit, HasProfile, HasAccount, PasswordsFit, UserOf, ResetsFit,
                LiveOrStray, Stray, At, TogglesFit
  <2>6. HiredLive' /\ ResetLive' /\ ShownIsAudited' /\ OneResetPerKey' /\ OneTimeUnlessOvertaken'
    BY <2>1 DEF IInv, HiredLive, Confirms, ResetLive, ShownIsAudited, UserOf,
                OneResetPerKey, OneTimeUnlessOvertaken
  <2> QED BY <2>2, <2>3, <2>4, <2>5, <2>6 DEF IInv
<1>7. CASE Perform(w, late[w])
  <2>1. CASE late[w] = "create_user" /\ CreateUser(w)
    BY <1>3, <1>4, <1>5, <2>1, CreateUserKeeps
  <2>2. CASE late[w] = "update_user" /\ HasAccount(UserOf(w)) /\ UpdateUser(w)
    BY <1>3, <1>4, <1>5, <2>2, UpdateUserKeeps
  <2>3. CASE late[w] = "delete_user" /\ HasAccount(UserOf(w)) /\ DeleteUser(w)
    <3>1. UserOf(w) = w /\ req'[w].pc = "done"
      BY <1>1, <1>3, <1>5, <2>3 DEF IInv, RequestsFit, Fits, UserOf
    <3>2. HasAccount(w)
      BY <2>3, <3>1
    <3> QED BY <1>3, <1>4, <2>3, <3>1, <3>2, DeleteUserKeeps
  <2> QED BY <1>7, <2>1, <2>2, <2>3 DEF Perform
<1> QED BY <1>6, <1>7 DEF Land

-----------------------------------------------------------------------------
(* The commits                                                             *)

Commits(w) ==
  /\ Moves(w) /\ Committing(w) /\ locked' = Released(w) /\ UNCHANGED <<account, late>>
  /\ req'[w].seen = req[w].seen
  /\ \/ /\ req'[w].pc = "done"
        /\ req'[w].answer \in {"shown", "ok", "failed", "lost"}
        /\ req'[w].answer = "shown" => req[w].op \in {"create", "reset"}
        /\ req[w].op = "create" => req'[w].answer \in {"shown", "lost"}
     \/ At(w, "create", "called") /\ req'[w].pc = "undoing" /\ req'[w].answer = "none"

LEMMA CommitCommits ==
  ASSUME TypeOK, NEW w \in Worker, Fits(w), Commit(w) \/ CommitRaises(w)
  PROVE  Commits(w)
<1>1. Committing(w) /\ locked' = Released(w) /\ UNCHANGED <<account, late>>
  BY DEF Commit, CommitRaises, Writable
<1>2. InFlight(w) /\ (req[w].op = "create" => At(w, "create", "called"))
  BY <1>1 DEF Committing, InFlight, At
<1>3. req[w].answer = "none"
  BY <1>2 DEF Fits, InFlight
<1>4. CASE Commit(w)
  <2>1. PICK answer \in {Success(w), "lost"} : Finish(w, answer)
    BY <1>4 DEF Commit, Answered
  <2>2. answer \in {"shown", "ok", "lost"} /\ (answer = "shown" => req[w].op \in {"create", "reset"})
        /\ (req[w].op = "create" => answer # "ok")
    BY DEF Success
  <2>3. Moves(w) /\ req'[w].pc = "done" /\ req'[w].answer = answer /\ req'[w].seen = req[w].seen
    BY <1>2, <2>1, <2>2, FinishMoves
  <2> QED BY <1>1, <2>2, <2>3 DEF Commits
<1>5. CASE CommitRaises(w) /\ req[w].op = "create"
  <2>1. Step(w, "undoing")
    BY <1>5 DEF CommitRaises, Failed
  <2>2. Moves(w) /\ req'[w].pc = "undoing" /\ req'[w].answer = "none" /\ req'[w].seen = req[w].seen
    BY <1>2, <1>3, <2>1, StepMoves
  <2> QED BY <1>1, <1>2, <1>5, <2>2 DEF Commits
<1>6. CASE CommitRaises(w) /\ req[w].op # "create"
  <2>1. Finish(w, "failed")
    BY <1>6 DEF CommitRaises, Failed
  <2>2. Moves(w) /\ req'[w].pc = "done" /\ req'[w].answer = "failed" /\ req'[w].seen = req[w].seen
    BY <1>2, <2>1, FinishMoves
  <2> QED BY <1>1, <1>6, <2>2 DEF Commits
<1> QED BY <1>4, <1>5, <1>6

\* What every commit keeps, whatever it writes.
LEMMA CommitsFrame ==
  ASSUME IInv, NEW w \in Worker, Commits(w),
         req[w].op \in {"create", "reset", "toggle"} => audit' = audit \cup {w},
         req[w].op \notin {"create", "reset", "toggle"} => audit' = audit,
         profile' \in [User -> Profile \cup {NoProfile}],
         \A u \in User : HasProfile(u)' <=> HasProfile(u),
         keys' \subseteq Key \X User,
         toggled' \in [User -> Worker \cup {None}], overtaken' \subseteq Worker
  PROVE  /\ TypeOK' /\ RequestsFit' /\ LocksFit' /\ AuditFits' /\ LateFits' /\ HiresFit'
         /\ PasswordsFit' /\ ResetsFit' /\ ShownIsAudited'
         /\ \A x \in Worker : /\ req'[x].op = req[x].op /\ req'[x].user = req[x].user
                              /\ req'[x].key = req[x].key /\ req'[x].base = req[x].base
                              /\ req[x].pc = "done" => req'[x].pc = "done"
<1> USE DEF Commits, Moves
<1>0. InFlight(w) /\ TypeOK /\ audit \subseteq Worker /\ req[w] \in Request
  BY DEF IInv, TypeOK
<1>1. /\ UserOf(w) \in User /\ req[w].pc \in {"called", "looked"}
      /\ req[w].op \in {"create", "reset", "toggle", "confirm"}
      /\ req[w].op = "create" => UserOf(w) = w /\ req[w].pc = "called"
      /\ req[w].op # "create" => HasProfile(UserOf(w))
      /\ req[w].answer = "none" /\ ~Stray(w) /\ late[w] = "none" /\ w \notin audit
  BY <1>0, Under DEF Committing
<1>2. \A x \in Worker : /\ req'[x].op = req[x].op /\ req'[x].user = req[x].user
                        /\ req'[x].key = req[x].key /\ req'[x].base = req[x].base
                        /\ req[x].pc = "done" => req'[x].pc = "done"
  BY <1>1
<1>3. \A x \in Worker \ {w} : Stray(x)' <=> Stray(x)
  BY DEF Stray
<1>4. audit' \subseteq audit \cup {w} /\ audit \subseteq audit'
  OBVIOUS
<1>5. \A u \in User : HasAccount(u)' <=> HasAccount(u)
  BY DEF HasAccount
<1>6. TypeOK'
  BY <1>0, <1>4, Releases DEF TypeOK
<1>7. RequestsFit'
  <2> SUFFICES ASSUME NEW x \in Worker PROVE Fits(x)'
    BY DEF RequestsFit
  <2>1. Fits(x)
    BY DEF IInv, RequestsFit
  <2>2. CASE x = w
    BY <1>0, <1>1, <2>1, <2>2 DEF Fits, At, UserOf, NewRequest
  <2>3. CASE x # w
    BY <1>0, <2>1, <2>3 DEF Fits
  <2> QED BY <2>2, <2>3
<1>8. LocksFit'
  BY Releases
<1>9. AuditFits'
  BY <1>0, <1>1, <1>4 DEF IInv, AuditFits, At
<1>10. LateFits'
  BY <1>0, <1>1, <1>3, <1>4 DEF IInv, LateFits, User
<1>11. HiresFit'
  <2>1. \A u \in User : HasAccount(u)' => HasProfile(u)'
    BY <1>5 DEF IInv, HiresFit
  <2>2. req[w].op = "create" => HasAccount(w)
    BY <1>1 DEF IInv, HiresFit
  <2>3. ~HasProfile(w) \/ req[w].op = "create"
    BY DEF IInv, HiresFit
  <2>4. \A x \in Worker \ {w} :
          /\ HasProfile(x)' => req'[x].op = "create"
          /\ req'[x].op = "create" =>
               /\ (req'[x].pc = "calling" \/ req'[x].answer = "refused") => ~HasProfile(x)'
               /\ (req'[x].pc \in {"called", "undoing"} \/ req'[x].answer = "shown") => HasAccount(x)'
               /\ HasProfile(x)' /\ ~HasAccount(x)' => Stray(x)'
    BY <1>3, <1>5 DEF IInv, HiresFit, User
  <2>5. /\ HasProfile(w)' => req'[w].op = "create"
        /\ req'[w].op = "create" =>
             /\ req'[w].pc # "calling" /\ req'[w].answer # "refused" /\ HasAccount(w)'
    BY <1>1, <1>5, <2>2, <2>3 DEF User
  <2> QED BY <2>1, <2>4, <2>5 DEF HiresFit
<1>12. PasswordsFit'
  BY <1>2 DEF IInv, PasswordsFit, UserOf
<1>13. ResetsFit'
  BY <1>0, <1>1, <1>3, <1>4 DEF IInv, ResetsFit, LiveOrStray, At
<1>14. ShownIsAudited'
  BY <1>0, <1>1, <1>2, <1>4 DEF IInv, ShownIsAudited, UserOf
<1> QED BY <1>2, <1>6, <1>7, <1>8, <1>9, <1>10, <1>11, <1>12, <1>13, <1>14

LEMMA CommittingFacts ==
  ASSUME IInv, NEW w \in Worker, Commits(w)
  PROVE  /\ UserOf(w) \in User /\ UserOf(w) = req[w].user /\ w \notin audit
         /\ \A u \in User : audit \subseteq Worker /\ account'[u] = account[u]
         /\ req[w].op = "create" => UserOf(w) = w
         /\ req[w].op # "create" => HasProfile(UserOf(w)) /\ profile[UserOf(w)] \in Profile
         /\ req[w].pc # "done" /\ req'[w].op = req[w].op
<1>1. InFlight(w) /\ TypeOK /\ req[w].pc # "undoing" /\ req'[w].op = req[w].op
  BY DEF Commits, Moves, Committing, IInv
<1>2. /\ UserOf(w) \in User /\ w \notin audit /\ (req[w].op = "create" => UserOf(w) = w)
      /\ (req[w].op # "create" => HasProfile(UserOf(w)))
  BY <1>1, Under
<1>3. HasProfile(UserOf(w)) => profile[UserOf(w)] \in Profile
  BY <1>1, <1>2, RowFacts
<1> QED BY <1>1, <1>2, <1>3 DEF Commits, UserOf, TypeOK, InFlight

LEMMA WriteCreateKeeps ==
  ASSUME IInv, NEW w \in Worker, Commits(w), At(w, "create", "called"), WriteCreate(w)
  PROVE  IInv'
<1>1. /\ audit' = audit \cup {w} /\ UNCHANGED <<account, profile, keys, toggled, overtaken>> /\ TypeOK
      /\ req[w].op = "create"
  BY DEF WriteCreate, Commits, At, IInv
<1>2. audit \subseteq Worker /\ w \notin audit /\ UserOf(w) = w /\ req[w].pc # "done"
  BY <1>1, CommittingFacts DEF TypeOK
<1>3. \A u \in User : HasProfile(u)' <=> HasProfile(u)
  BY <1>1 DEF HasProfile
<1>4. /\ TypeOK' /\ RequestsFit' /\ LocksFit' /\ AuditFits' /\ LateFits' /\ HiresFit'
      /\ PasswordsFit' /\ ResetsFit' /\ ShownIsAudited'
      /\ \A x \in Worker : /\ req'[x].op = req[x].op /\ req'[x].user = req[x].user
                           /\ req'[x].key = req[x].key /\ req'[x].base = req[x].base
                           /\ req[x].pc = "done" => req'[x].pc = "done"
      /\ \A x \in Worker \ {w} : req'[x] = req[x]
  BY <1>1, <1>3, CommitsFrame DEF TypeOK, Commits, Moves
<1>5. KeysFit'
  <2> SUFFICES ASSUME NEW k \in Key, NEW u \in User
               PROVE  (<<k, u>> \in keys) <=> \E v \in audit' : IsReset(v, k, u)'
    BY <1>1, Zenon DEF KeysFit
  <2>1. (<<k, u>> \in keys) <=> \E v \in audit : IsReset(v, k, u)
    BY DEF IInv, KeysFit
  <2>2. (\A v \in audit : IsReset(v, k, u)' <=> IsReset(v, k, u)) /\ ~IsReset(w, k, u)'
    BY <1>1, <1>2, <1>4 DEF IsReset
  <2> QED BY <1>1, <2>1, <2>2
<1>6. BasesFit'
  BY <1>1, <1>4 DEF IInv, BasesFit
<1>7. HiredLive'
  BY <1>1, <1>4 DEF IInv, HiredLive, Confirms
<1>8. ResetLive'
  BY <1>1, <1>2, <1>4 DEF IInv, ResetLive, Confirms
<1>9. TogglesFit'
  BY <1>1, <1>2, <1>4 DEF IInv, TogglesFit, At, UserOf, Commits
<1>10. OneResetPerKey'
  BY <1>1, <1>2, <1>4 DEF IInv, OneResetPerKey, UserOf
<1>11. OneTimeUnlessOvertaken'
  <2> SUFFICES ASSUME NEW u \in User, account[u].pw \in audit \cup {w}, ~profile[u].mustChange
               PROVE  account[u].pw \in overtaken
    BY <1>1 DEF OneTimeUnlessOvertaken
  <2>1. account[u].pw # w
    BY <1>1, <1>2 DEF IInv, PasswordsFit, HiredLive
  <2> QED BY <2>1 DEF IInv, OneTimeUnlessOvertaken
<1> QED BY <1>4, <1>5, <1>6, <1>7, <1>8, <1>9, <1>10, <1>11 DEF IInv

LEMMA WriteResetKeeps ==
  ASSUME IInv, NEW w \in Worker, Commits(w), At(w, "reset", "called"), ~Taken(w), WriteReset(w)
  PROVE  IInv'
<1>0. PICK u \in User : u = UserOf(w) /\ u = req[w].user
  BY CommittingFacts
<1>1. /\ audit' = audit \cup {w} /\ keys' = keys \cup {<<req[w].key, u>>}
      /\ profile' = [profile EXCEPT ![u].mustChange = TRUE, ![u].reset = w]
      /\ UNCHANGED <<account, toggled, overtaken>> /\ TypeOK /\ req[w].op = "reset"
  BY <1>0 DEF WriteReset, Commits, At, IInv
<1>2. /\ audit \subseteq Worker /\ w \notin audit /\ req[w].pc # "done"
      /\ HasProfile(u) /\ profile[u] \in Profile /\ req[w].key \in Key
      /\ <<req[w].key, u>> \notin keys
  BY <1>0, <1>1, CommittingFacts DEF TypeOK, Taken, KeyUsed, IInv, RequestsFit, Fits
<1>3. /\ [profile[u] EXCEPT !.mustChange = TRUE, !.reset = w] \in Profile
      /\ profile' \in [User -> Profile \cup {NoProfile}]
      /\ \A v \in User \ {u} : profile'[v] = profile[v]
      /\ profile'[u] = [profile[u] EXCEPT !.mustChange = TRUE, !.reset = w]
  <2>1. [profile[u] EXCEPT !.mustChange = TRUE, !.reset = w] \in Profile
    BY <1>2 DEF Profile
  <2> QED BY <1>1, <2>1 DEF TypeOK
<1>4. /\ profile'[u].mustChange = TRUE /\ profile'[u].reset = w
      /\ profile'[u].active = profile[u].active /\ profile'[u] # NoProfile
  BY <1>2, <1>3, Distinct DEF Profile, NoProfile
<1>5. \A v \in User : HasProfile(v)' <=> HasProfile(v)
  BY <1>2, <1>3, <1>4 DEF HasProfile
<1>6. /\ TypeOK' /\ RequestsFit' /\ LocksFit' /\ AuditFits' /\ LateFits' /\ HiresFit'
      /\ PasswordsFit' /\ ResetsFit' /\ ShownIsAudited'
      /\ \A x \in Worker : /\ req'[x].op = req[x].op /\ req'[x].user = req[x].user
                           /\ req'[x].key = req[x].key /\ req'[x].base = req[x].base
                           /\ req[x].pc = "done" => req'[x].pc = "done"
      /\ \A x \in Worker \ {w} : req'[x] = req[x]
      /\ req'[w].pc = "done"
  BY <1>1, <1>2, <1>3, <1>5, CommitsFrame DEF TypeOK, Commits, Moves, At
<1>7. KeysFit'
  <2> SUFFICES ASSUME NEW k \in Key, NEW v \in User
               PROVE  (<<k, v>> \in keys') <=> \E x \in audit' : IsReset(x, k, v)'
    BY Zenon DEF KeysFit
  <2>1. (<<k, v>> \in keys) <=> \E x \in audit : IsReset(x, k, v)
    BY DEF IInv, KeysFit
  <2>2. \A x \in audit : IsReset(x, k, v)' <=> IsReset(x, k, v)
    BY <1>2, <1>6 DEF IsReset
  <2>3. IsReset(w, k, v)' <=> (k = req[w].key /\ v = u)
    BY <1>0, <1>1, <1>6 DEF IsReset
  <2>4. (<<k, v>> \in keys') <=> (<<k, v>> \in keys \/ (k = req[w].key /\ v = u))
    BY <1>1
  <2> QED BY <1>1, <2>1, <2>2, <2>3, <2>4
<1>8. BasesFit'
  BY <1>1, <1>3, <1>4, <1>6 DEF IInv, BasesFit
<1>9. HiredLive'
  <2> SUFFICES ASSUME NEW x \in Worker, req'[x].op = "create", account[x].pw = x
               PROVE  profile'[x].mustChange /\ \A c \in Worker : ~Confirms(c, x)'
    BY <1>1 DEF HiredLive
  <2>1. profile[x].mustChange /\ \A c \in Worker : ~Confirms(c, x)
    BY <1>6 DEF IInv, HiredLive
  <2>2. profile'[x].mustChange
    BY <1>3, <1>4, <2>1 DEF User
  <2> QED BY <1>6, <2>1, <2>2 DEF Confirms
<1>10. ResetLive'
  <2> SUFFICES ASSUME NEW v \in User, account[v].pw \in audit \cup {w},
                      req'[account[v].pw].op = "reset"
               PROVE  /\ profile'[v].reset = account[v].pw
                      /\ \A c \in Worker : Confirms(c, v)' => req'[c].base # account[v].pw
    BY <1>1 DEF ResetLive
  <2>1. CASE v = u
    <3>1. LiveOrStray(w, account[u].pw)
      BY <1>0 DEF IInv, ResetsFit
    <3>2. account[u].pw = w
      BY <1>2, <2>1, <3>1, Distinct DEF LiveOrStray
    <3>3. \A c \in Worker : req[c].base # w
      BY <1>2, Distinct DEF IInv, BasesFit
    <3> QED BY <1>4, <1>6, <2>1, <3>2, <3>3
  <2>2. CASE v # u
    <3>1. account[v].pw # w
      BY <1>0, <2>2 DEF IInv, PasswordsFit
    <3> QED BY <1>2, <1>3, <1>6, <2>2, <3>1 DEF IInv, ResetLive, Confirms
  <2> QED BY <2>1, <2>2
<1>11. TogglesFit'
  BY <1>1, <1>3, <1>4, <1>6 DEF IInv, TogglesFit, At, UserOf, RequestsFit, Fits
<1>12. OneResetPerKey'
  <2>1. \A v \in audit : ~(req[v].op = "reset" /\ UserOf(v) = u /\ req[v].key = req[w].key)
    BY <1>2 DEF IInv, KeysFit, IsReset, UserOf
  <2> QED BY <1>0, <1>1, <1>2, <1>6, <2>1 DEF IInv, OneResetPerKey, UserOf
<1>13. OneTimeUnlessOvertaken'
  <2> SUFFICES ASSUME NEW v \in User, account[v].pw \in audit \cup {w}, ~profile'[v].mustChange
               PROVE  account[v].pw \in overtaken
    BY <1>1 DEF OneTimeUnlessOvertaken
  <2>1. v # u /\ profile'[v] = profile[v]
    BY <1>3, <1>4
  <2>2. account[v].pw # w
    BY <1>0, <2>1 DEF IInv, PasswordsFit
  <2> QED BY <2>1, <2>2 DEF IInv, OneTimeUnlessOvertaken
<1> QED BY <1>6, <1>7, <1>8, <1>9, <1>10, <1>11, <1>12, <1>13 DEF IInv

LEMMA WriteToggleKeeps ==
  ASSUME IInv, NEW w \in Worker, Commits(w), At(w, "toggle", "looked"), WriteToggle(w)
  PROVE  IInv'
<1>0. PICK u \in User : u = UserOf(w) /\ u = req[w].user
  BY CommittingFacts
<1>1. /\ audit' = audit \cup {w} /\ toggled' = [toggled EXCEPT ![u] = w]
      /\ profile' = profile \/ profile' = [profile EXCEPT ![u].active = req[w].want]
      /\ UNCHANGED <<account, keys, overtaken>> /\ TypeOK /\ req[w].op = "toggle"
  BY <1>0 DEF WriteToggle, Commits, At, IInv
<1>2. /\ audit \subseteq Worker /\ w \notin audit /\ req[w].pc # "done"
      /\ HasProfile(u) /\ profile[u] \in Profile /\ req[w].want \in BOOLEAN
  BY <1>0, <1>1, CommittingFacts DEF TypeOK, Request
<1>3. ASSUME NEW want \in BOOLEAN
      PROVE  /\ [profile[u] EXCEPT !.active = want] \in Profile
             /\ [profile[u] EXCEPT !.active = want] # NoProfile
             /\ [profile[u] EXCEPT !.active = want].reset = profile[u].reset
             /\ [profile[u] EXCEPT !.active = want].mustChange = profile[u].mustChange
  BY <1>2, Distinct DEF Profile, NoProfile
<1>4. /\ profile' \in [User -> Profile \cup {NoProfile}]
      /\ \A v \in User \ {u} : profile'[v] = profile[v]
      /\ profile'[u] \in {profile[u], [profile[u] EXCEPT !.active = req[w].want]}
  BY <1>1, <1>2, <1>3 DEF TypeOK
<1>5. /\ \A v \in User : /\ HasProfile(v)' <=> HasProfile(v)
                         /\ profile'[v].reset = profile[v].reset
                         /\ profile'[v].mustChange = profile[v].mustChange
      /\ toggled'[u] = w /\ \A v \in User \ {u} : toggled'[v] = toggled[v]
      /\ toggled' \in [User -> Worker \cup {None}]
  BY <1>1, <1>2, <1>3, <1>4 DEF HasProfile, TypeOK
<1>6. /\ TypeOK' /\ RequestsFit' /\ LocksFit' /\ AuditFits' /\ LateFits' /\ HiresFit'
      /\ PasswordsFit' /\ ResetsFit' /\ ShownIsAudited'
      /\ \A x \in Worker : /\ req'[x].op = req[x].op /\ req'[x].user = req[x].user
                           /\ req'[x].key = req[x].key /\ req'[x].base = req[x].base
                           /\ req[x].pc = "done" => req'[x].pc = "done"
      /\ \A x \in Worker \ {w} : req'[x] = req[x]
      /\ req'[w].pc = "done"
  BY <1>1, <1>4, <1>5, CommitsFrame DEF TypeOK, Commits, Moves, At
<1>7. KeysFit'
  <2> SUFFICES ASSUME NEW k \in Key, NEW v \in User
               PROVE  (<<k, v>> \in keys) <=> \E x \in audit' : IsReset(x, k, v)'
    BY <1>1, Zenon DEF KeysFit
  <2>1. (<<k, v>> \in keys) <=> \E x \in audit : IsReset(x, k, v)
    BY DEF IInv, KeysFit
  <2>2. (\A x \in audit : IsReset(x, k, v)' <=> IsReset(x, k, v)) /\ ~IsReset(w, k, v)'
    BY <1>1, <1>2, <1>6 DEF IsReset
  <2> QED BY <1>1, <2>1, <2>2
<1>8. BasesFit'
  BY <1>1, <1>5, <1>6 DEF IInv, BasesFit
<1>9. HiredLive'
  BY <1>1, <1>5, <1>6 DEF IInv, HiredLive, Confirms, User
<1>10. \A v \in User : account[v].pw # w
  BY <1>1 DEF IInv, PasswordsFit
<1>11. ResetLive'
  BY <1>1, <1>2, <1>5, <1>6, <1>10 DEF IInv, ResetLive, Confirms
<1>12. TogglesFit'
  <2> SUFFICES ASSUME NEW x \in Worker, At(x, "toggle", "looked")',
                      toggled'[req'[x].user] = req'[x].base
               PROVE  req'[x].seen = profile'[req'[x].user].active
    BY DEF TogglesFit, UserOf
  <2>1. x # w /\ At(x, "toggle", "looked") /\ req'[x] = req[x] /\ req[x].user \in User
    BY <1>6 DEF At, IInv, RequestsFit, Fits
  <2>2. req[x].base # w
    BY <1>2, Distinct DEF IInv, BasesFit
  <2>3. req[x].user # u
    BY <1>5, <2>1, <2>2
  <2> QED BY <1>4, <1>5, <2>1, <2>3 DEF IInv, TogglesFit, UserOf
<1>13. OneResetPerKey'
  BY <1>1, <1>2, <1>6 DEF IInv, OneResetPerKey, UserOf
<1>14. OneTimeUnlessOvertaken'
  BY <1>1, <1>2, <1>5, <1>6, <1>10 DEF IInv, OneTimeUnlessOvertaken, UserOf
<1> QED BY <1>6, <1>7, <1>8, <1>9, <1>11, <1>12, <1>13, <1>14 DEF IInv

LEMMA WriteConfirmKeeps ==
  ASSUME IInv, NEW w \in Worker, Commits(w), At(w, "confirm", "looked"), WriteConfirm(w)
  PROVE  IInv'
<1>0. PICK u \in User : u = UserOf(w) /\ u = req[w].user
  BY CommittingFacts
<1>1. /\ UNCHANGED <<account, audit, keys, toggled>> /\ TypeOK /\ req[w].op = "confirm"
      /\ \/ profile' = profile
         \/ /\ profile' = [profile EXCEPT ![u].mustChange = FALSE]
            /\ overtaken' = overtaken \cup ({profile[u].reset} \ {req[w].base, None})
      /\ overtaken \subseteq overtaken'
      /\ overtaken' \subseteq overtaken \cup ({profile[u].reset} \ {req[w].base, None})
  BY <1>0 DEF WriteConfirm, Commits, At, IInv
<1>2. audit \subseteq Worker /\ w \notin audit /\ HasProfile(u) /\ profile[u] \in Profile
  BY <1>0, <1>1, CommittingFacts DEF TypeOK
<1>3. /\ [profile[u] EXCEPT !.mustChange = FALSE] \in Profile
      /\ [profile[u] EXCEPT !.mustChange = FALSE] # NoProfile
      /\ [profile[u] EXCEPT !.mustChange = FALSE].reset = profile[u].reset
      /\ [profile[u] EXCEPT !.mustChange = FALSE].active = profile[u].active
  BY <1>2, Distinct DEF Profile, NoProfile
<1>4. /\ profile' \in [User -> Profile \cup {NoProfile}]
      /\ \A v \in User \ {u} : profile'[v] = profile[v]
      /\ profile'[u] \in {profile[u], [profile[u] EXCEPT !.mustChange = FALSE]}
  BY <1>1, <1>3 DEF TypeOK
<1>5. \A v \in User : /\ HasProfile(v)' <=> HasProfile(v)
                      /\ profile'[v].reset = profile[v].reset
                      /\ profile'[v].active = profile[v].active
  BY <1>2, <1>3, <1>4 DEF HasProfile
<1>o. overtaken' \subseteq Worker
  BY <1>1, <1>2 DEF TypeOK, Profile
<1>6. /\ TypeOK' /\ RequestsFit' /\ LocksFit' /\ AuditFits' /\ LateFits' /\ HiresFit'
      /\ PasswordsFit' /\ ResetsFit' /\ ShownIsAudited'
      /\ \A x \in Worker : /\ req'[x].op = req[x].op /\ req'[x].user = req[x].user
                           /\ req'[x].key = req[x].key /\ req'[x].base = req[x].base
                           /\ req[x].pc = "done" => req'[x].pc = "done"
      /\ \A x \in Worker \ {w} : req'[x] = req[x]
      /\ req'[w].pc = "done"
  BY <1>1, <1>4, <1>5, <1>o, CommitsFrame DEF TypeOK, Commits, Moves, At
<1>7. KeysFit'
  <2> SUFFICES ASSUME NEW k \in Key, NEW v \in User
               PROVE  (<<k, v>> \in keys) <=> \E x \in audit : IsReset(x, k, v)'
    BY <1>1, Zenon DEF KeysFit
  <2>1. (<<k, v>> \in keys) <=> \E x \in audit : IsReset(x, k, v)
    BY DEF IInv, KeysFit
  <2>2. \A x \in audit : IsReset(x, k, v)' <=> IsReset(x, k, v)
    BY <1>2, <1>6 DEF IsReset
  <2> QED BY <2>1, <2>2, Zenon
<1>8. BasesFit'
  BY <1>1, <1>5, <1>6 DEF IInv, BasesFit
<1>9. HiredLive'
  <2> SUFFICES ASSUME NEW x \in Worker, req'[x].op = "create", account[x].pw = x
               PROVE  profile'[x].mustChange /\ \A c \in Worker : ~Confirms(c, x)'
    BY <1>1 DEF HiredLive
  <2>1. profile[x].mustChange /\ \A c \in Worker : ~Confirms(c, x)
    BY <1>6 DEF IInv, HiredLive
  <2>2. x # u
    BY <1>0, <1>1, <2>1 DEF Confirms
  <2> QED BY <1>4, <1>6, <2>1, <2>2 DEF Confirms, User
<1>10. ResetLive'
  BY <1>1, <1>2, <1>5, <1>6 DEF IInv, ResetLive, Confirms
<1>11. TogglesFit'
  BY <1>1, <1>5, <1>6 DEF IInv, TogglesFit, At, UserOf, RequestsFit, Fits
<1>12. OneResetPerKey'
  BY <1>1, <1>2, <1>6 DEF IInv, OneResetPerKey, UserOf
<1>13. OneTimeUnlessOvertaken'
  <2> SUFFICES ASSUME NEW v \in User, account[v].pw \in audit, ~profile'[v].mustChange
               PROVE  account[v].pw \in overtaken'
    BY <1>1 DEF OneTimeUnlessOvertaken
  <2>1. CASE profile'[v] = profile[v]
    BY <1>1, <2>1 DEF IInv, OneTimeUnlessOvertaken
  <2>2. CASE profile'[v] # profile[v]
    <3> DEFINE p == account[v].pw
    <3>1. v = u /\ p \in Worker /\ Confirms(w, v)
      BY <1>0, <1>1, <1>2, <1>4, <2>2 DEF Confirms
    <3>2. req[p].user = v /\ req[p].op \in {"create", "reset"}
      BY <3>1 DEF IInv, PasswordsFit, UserOf
    <3>3. req[p].op # "create"
      BY <3>1, <3>2 DEF IInv, RequestsFit, Fits, HiredLive
    <3>4. profile[v].reset = p /\ req[w].base # p
      BY <3>1, <3>2, <3>3 DEF IInv, ResetLive
    <3>5. overtaken' = overtaken \cup ({profile[u].reset} \ {req[w].base, None})
      BY <1>1, <2>2
    <3> QED BY <3>1, <3>4, <3>5, Distinct
  <2> QED BY <2>1, <2>2
<1> QED BY <1>6, <1>7, <1>8, <1>9, <1>10, <1>11, <1>12, <1>13 DEF IInv

LEMMA WriteKeeps ==
  ASSUME IInv, NEW w \in Worker, Commit(w) \/ CommitRaises(w), Write(w)
  PROVE  IInv'
<1>1. Commits(w)
  BY CommitCommits DEF IInv, RequestsFit
<1> QED BY <1>1, WriteCreateKeeps, WriteResetKeeps, WriteToggleKeeps, WriteConfirmKeeps DEF Write

-----------------------------------------------------------------------------
(* The theorems                                                            *)

LEMMA InitEstablishes == Init => IInv
<1> SUFFICES ASSUME Init PROVE IInv
  OBVIOUS
<1>1. /\ \A w \in Worker : /\ req[w] = NewRequest /\ req[w].op = "none" /\ req[w].pc = "new"
                           /\ req[w].answer = "none" /\ req[w].base = None
                           /\ late[w] = "none"
      /\ audit = {} /\ keys = {} /\ \A u \in User : locked[u] = None /\ toggled[u] = None
  BY DEF Init, NewRequest
<1>2. \A u \in User :
        /\ u \in Hired => account[u] = [email |-> None, pw |-> Own]
                          /\ profile[u] = [NewProfile EXCEPT !.mustChange = FALSE]
        /\ u \notin Hired => account[u] = NoAccount /\ profile[u] = NoProfile
  BY DEF Init
<1>3. /\ [email |-> None, pw |-> Own] \in Account
      /\ [NewProfile EXCEPT !.mustChange = FALSE] \in Profile
      /\ [NewProfile EXCEPT !.mustChange = FALSE] # NoProfile
      /\ [NewProfile EXCEPT !.mustChange = FALSE].reset = None
  BY Distinct DEF Account, Profile, NewProfile, NoProfile
<1>4. TypeOK
  <2>1. NewRequest \in Request
    BY DEF NewRequest, Request
  <2> QED BY <1>3, <2>1 DEF Init, TypeOK, Call
<1>5. \A u \in User : /\ account[u].pw \notin Worker
                      /\ HasAccount(u) => HasProfile(u)
                      /\ HasProfile(u) => u \in Hired
                      /\ profile[u].reset \in {None, Own}
  <2> SUFFICES ASSUME NEW u \in User
               PROVE  /\ account[u].pw \notin Worker
                      /\ HasAccount(u) => HasProfile(u)
                      /\ HasProfile(u) => u \in Hired
                      /\ profile[u].reset \in {None, Own}
    OBVIOUS
  <2>1. CASE u \in Hired
    <3>1. profile[u] # NoProfile /\ profile[u].reset = None
      BY <1>2, <1>3, <2>1
    <3>2. account[u].pw = Own
      BY <1>2, <2>1
    <3> QED BY <2>1, <3>1, <3>2, Distinct DEF HasProfile
  <2>2. CASE u \notin Hired
    <3>1. account[u] = NoAccount /\ profile[u] = NoProfile
      BY <1>2, <2>2
    <3>2. NoAccount.pw = None /\ NoProfile.reset = Own
      BY DEF NoAccount, NoProfile
    <3> QED BY <3>1, <3>2, Distinct DEF HasAccount, HasProfile
  <2> QED BY <2>1, <2>2
<1>6. RequestsFit
  BY <1>1 DEF RequestsFit, Fits
<1>7. LocksFit /\ AuditFits /\ KeysFit /\ BasesFit /\ LateFits
  BY <1>1, <1>5, Distinct DEF LocksFit, AuditFits, KeysFit, BasesFit, LateFits
<1>8. HiresFit
  BY <1>1, <1>5, HiredAssumption DEF HiresFit, User
<1>9. PasswordsFit /\ ResetsFit /\ HiredLive /\ ResetLive /\ TogglesFit
  BY <1>1, <1>5 DEF PasswordsFit, ResetsFit, HiredLive, ResetLive, TogglesFit, At
<1>10. ShownIsAudited /\ OneResetPerKey /\ OneTimeUnlessOvertaken
  BY <1>1 DEF ShownIsAudited, OneResetPerKey, OneTimeUnlessOvertaken
<1> QED BY <1>4, <1>6, <1>7, <1>8, <1>9, <1>10 DEF IInv

LEMMA StutterKeeps ==
  ASSUME IInv, UNCHANGED vars
  PROVE  IInv'
<1>1. UNCHANGED <<account, profile, audit, keys, locked, late, toggled, overtaken, req>>
  BY DEF vars
<1>2. TypeOK' /\ RequestsFit' /\ LocksFit' /\ AuditFits' /\ KeysFit' /\ BasesFit' /\ LateFits'
  BY <1>1 DEF IInv, TypeOK, RequestsFit, Fits, HasProfile, LocksFit, AuditFits, At, KeysFit,
              IsReset, BasesFit, LateFits, Stray
<1>3. HiresFit' /\ PasswordsFit' /\ ResetsFit' /\ HiredLive' /\ ResetLive' /\ TogglesFit'
  BY <1>1 DEF IInv, HiresFit, HasProfile, HasAccount, PasswordsFit, UserOf, ResetsFit,
              LiveOrStray, Stray, At, HiredLive, Confirms, ResetLive, TogglesFit
<1>4. ShownIsAudited' /\ OneResetPerKey' /\ OneTimeUnlessOvertaken'
  BY <1>1 DEF IInv, ShownIsAudited, UserOf, OneResetPerKey, OneTimeUnlessOvertaken
<1> QED BY <1>2, <1>3, <1>4 DEF IInv

LEMMA NextKeeps == IInv /\ [Next]_vars => IInv'
<1> SUFFICES ASSUME IInv, [Next]_vars PROVE IInv'
  OBVIOUS
<1>1. ASSUME NEW w \in Worker, Arrive(w) PROVE IInv'
  BY <1>1, BeginCreateKeeps, BeginResetKeeps, BeginToggleKeeps, ChangePasswordKeeps DEF Arrive
<1>2. ASSUME NEW w \in Worker, Serve(w) PROVE IInv'
  <2>1. CASE Commit(w) \/ CommitRaises(w)
    BY <2>1, WriteKeeps, NothingCommittedKeeps DEF Commit, CommitRaises
  <2> QED BY <1>2, <2>1, AdminAnswersKeeps, AdminRefusesKeeps, AdminTimesOutKeeps,
             LockProfileKeeps, ReadOwnProfileKeeps, LoseKeyRaceKeeps DEF Serve
<1>3. ASSUME NEW w \in Worker, Lose(w) \/ Land(w) PROVE IInv'
  BY <1>3, LoseKeeps, LandKeeps
<1> QED BY <1>1, <1>2, <1>3, StutterKeeps DEF Next

\* The invariant holds throughout, whatever the firm, the requests and the
\* faults of Supabase and of the database.
THEOREM Invariant == Spec => []IInv
<1>1. Init => IInv
  BY InitEstablishes
<1>2. IInv /\ [Next]_vars => IInv'
  BY NextKeeps
<1> QED BY <1>1, <1>2, PTL DEF Spec

\* Accounts, profiles, locks and requests keep their types.
THEOREM TypeCorrect == Spec => []TypeOK
<1>1. IInv => TypeOK
  BY DEF IInv
<1> QED BY <1>1, Invariant, PTL

\* reset_password and create_employee never show a password the audit log does
\* not account for.
THEOREM Accounted == Spec => []ShownIsAudited
<1>1. IInv => ShownIsAudited
  BY DEF IInv
<1> QED BY <1>1, Invariant, PTL

\* reject_if_idempotency_key_used and the key's row let one key commit one
\* reset of an employee, however its retries interleave.
THEOREM OneReset == Spec => []OneResetPerKey
<1>1. IInv => OneResetPerKey
  BY DEF IInv
<1> QED BY <1>1, Invariant, PTL

\* create_employee and its compensation: a hire that is answered is whole, one
\* that is refused leaves nothing, and no hire leaves an account that has no
\* profile.
THEOREM Whole == Spec => []HiresAreWhole
<1>1. IInv => HiresAreWhole
  <2> SUFFICES ASSUME IInv PROVE HiresAreWhole
    OBVIOUS
  <2>1. \A u \in User : HasAccount(u) => HasProfile(u)
    BY DEF IInv, HiresFit
  <2>2. ASSUME NEW w \in Worker, req[w].op = "create"
        PROVE  /\ req[w].answer = "shown" => HasAccount(w) /\ w \in audit
               /\ req[w].answer = "refused" => ~HasAccount(w) /\ ~HasProfile(w)
               /\ HasProfile(w) /\ ~HasAccount(w) => Stray(w)
    <3>1. w \in User
      BY DEF User
    <3> QED BY <2>1, <2>2, <3>1 DEF IInv, HiresFit, ShownIsAudited
  <2> QED BY <2>1, <2>2 DEF HiresAreWhole
<1> QED BY <1>1, Invariant, PTL

\* The flag of a live, audited password is only ever cleared by a confirmation
\* of a change that was made before the reset and that committed after it.
THEOREM OneTime == Spec => []OneTimeUnlessOvertaken
<1>1. IInv => OneTimeUnlessOvertaken
  BY DEF IInv
<1> QED BY <1>1, Invariant, PTL

\* The row lock from before the Admin call to the commit: the password a reset
\* shows is the one that is live when it commits.
THEOREM ResetIsLive == Spec => CommittedResetIsLive
<1>1. IInv /\ [Next]_vars =>
        [\A w \in Worker :
           At(w, "reset", "called") /\ w \in audit' \ audit =>
             LET u == UserOf(w)
             IN \/ account[u].pw \in {w, None}
                \/ account[u].pw \in Worker /\ Stray(account[u].pw)]_vars
  BY DEF IInv, ResetsFit, LiveOrStray, UserOf
<1> QED BY <1>1, Invariant, PTL DEF Spec, CommittedResetIsLive

LEMMA OneCommitAtATime ==
  ASSUME IInv, Next, NEW w \in Worker, w \in audit' \ audit, At(w, "toggle", "looked")
  PROVE  WriteToggle(w)
<1> SUFFICES ASSUME ~WriteToggle(w) PROVE FALSE
  OBVIOUS
<1>1. PICK v \in Worker : Arrive(v) \/ Serve(v) \/ Lose(v) \/ Land(v)
  BY DEF Next
<1>2. ~UNCHANGED audit /\ ~UNCHANGED tables
  BY DEF tables
<1>3. ~Arrive(v) /\ ~Lose(v) /\ ~Land(v)
  BY <1>2 DEF Arrive, BeginCreate, BeginReset, BeginToggle, ChangePassword, Lose, Land
<1>4. (Commit(v) \/ CommitRaises(v)) /\ Write(v)
  BY <1>1, <1>2, <1>3 DEF Serve, AdminAnswers, AdminRefuses, AdminTimesOut, LockProfile,
                          ReadOwnProfile, LoseKeyRace, Commit, CommitRaises
<1>5. w = v
  BY <1>4 DEF Write, WriteCreate, WriteReset, WriteToggle, WriteConfirm
<1> QED BY <1>4, <1>5 DEF Write, At

\* set_employee_active writes without a lock: a change that none overlapped is
\* in force once it has committed.
THEOREM Uncontested == Spec => UncontestedChangeHolds
<1>1. IInv /\ [Next]_vars =>
        [\A w \in Worker :
           /\ At(w, "toggle", "looked") /\ w \in audit' \ audit
           /\ toggled[UserOf(w)] = req[w].base
           => profile'[UserOf(w)].active = req[w].want]_vars
  <2> SUFFICES ASSUME IInv, Next, NEW w \in Worker, At(w, "toggle", "looked"),
                      w \in audit' \ audit, toggled[UserOf(w)] = req[w].base
               PROVE  profile'[UserOf(w)].active = req[w].want
    OBVIOUS
  <2>1. WriteToggle(w) /\ req[w].seen = profile[UserOf(w)].active
    BY OneCommitAtATime DEF IInv, TogglesFit
  <2>2. TypeOK /\ UserOf(w) \in User /\ HasProfile(UserOf(w))
    BY DEF IInv, RequestsFit, Fits, At, UserOf
  <2>3. profile[UserOf(w)] \in Profile
    BY <2>2, RowFacts
  <2>4. CASE Changes(w)
    BY <2>1, <2>2, <2>3, <2>4 DEF WriteToggle, TypeOK, Profile
  <2>5. CASE ~Changes(w)
    BY <2>1, <2>5 DEF WriteToggle, Changes
  <2> QED BY <2>4, <2>5
<1> QED BY <1>1, Invariant, PTL DEF Spec, UncontestedChangeHolds

\* The row lock of reset_employee_password makes nobody wait for a request that
\* itself waits for a row, and lets one reset of an employee through at a time.
THEOREM NobodyStandsStill == Spec => []NoStandstill
<1>1. ASSUME IInv PROVE NoStandstill
  <2>1. ASSUME NEW w \in Worker, NEW v \in Worker, WaitsFor(w, v)
        PROVE  /\ req[v].op = "reset" /\ UserOf(v) = UserOf(w)
               /\ req[v].pc \in {"calling", "called"}
               /\ \A x \in Worker : ~WaitsFor(v, x)
    <3>1. UserOf(w) \in User
      <4>1. req[w].op \in {"none", "create", "reset", "toggle", "confirm"}
        BY <1>1 DEF IInv, TypeOK, Request
      <4>2. Fits(w) /\ req[w].op # "none"
        BY <1>1, <2>1 DEF IInv, RequestsFit, Fits, WaitsFor, At, Committing
      <4> QED BY <4>1, <4>2 DEF Fits, UserOf, User
    <3>2. /\ req[v].op = "reset" /\ UserOf(v) = UserOf(w)
          /\ req[v].pc \in {"calling", "called"}
      BY <1>1, <2>1, <3>1 DEF IInv, LocksFit, WaitsFor, UserOf
    <3>3. locked[UserOf(v)] = v
      BY <2>1, <3>2 DEF WaitsFor
    <3> QED BY <3>2, <3>3 DEF WaitsFor
  <2>2. ASSUME NEW v \in Worker, NEW w \in Worker,
               req[v].op = "reset", req[v].pc \in {"calling", "called"},
               req[w].op = "reset", req[w].pc \in {"calling", "called"},
               UserOf(v) = UserOf(w)
        PROVE  v = w
    <3>1. UserOf(v) \in User
      BY <1>1, <2>2 DEF IInv, RequestsFit, Fits, UserOf
    <3>2. locked[UserOf(v)] = v /\ locked[UserOf(v)] = w
      BY <1>1, <2>2, <3>1 DEF IInv, LocksFit, UserOf
    <3> QED BY <3>2
  <2> QED BY <2>1, <2>2 DEF NoStandstill
<1> QED BY <1>1, Invariant, PTL

=============================================================================
