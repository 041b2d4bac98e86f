------------------------ MODULE DeadlineScan_proofs ------------------------
(***************************************************************************)
(* Proofs about DeadlineScan for any number of tasks, people and polls.    *)
(***************************************************************************)
EXTENDS DeadlineScan, TLAPS

-----------------------------------------------------------------------------
(* What the scan works out *)

\* A deadline note that is due on an earlier day of the same tasks says what
\* is true today, and goes to an owner or to the task's assignee.
LEMMA DueIsTrue ==
  ASSUME TypeOK, NEW day \in Day, day <= now
  PROVE  Due(day) \subseteq TrueNow /\ Due(day) \subseteq Note
<1> SUFFICES ASSUME NEW n \in Due(day)
             PROVE  n \in TrueNow /\ n \in Note
  OBVIOUS
<1>1. PICK t \in Watched :
        n \in Notes(Owner, OwnerType(tasks[t].deadline, day), t)
              \cup Notes(AssigneeOf(t), AssigneeType(tasks[t].deadline, day), t)
  BY DEF Due
<1>2. /\ t \in Task /\ tasks[t].deadline \in Nat
      /\ tasks[t].assignee \in Employee \cup {None}
      /\ day \in Nat /\ now \in Nat
  <2>1. t \in Task /\ tasks[t].deadline # None
    BY DEF Watched
  <2>2. /\ tasks[t].deadline \in Deadline \cup {None}
        /\ tasks[t].assignee \in Employee \cup {None}
    BY <2>1 DEF TypeOK, TaskRow
  <2>3. day \in Nat /\ now \in Nat
    BY MaxNowAssumption DEF TypeOK, Day
  <2> QED BY <2>1, <2>2, <2>3, DeadlineAssumption
<1>3. CASE n \in Notes(Owner, OwnerType(tasks[t].deadline, day), t)
  <2>1. /\ n.task = t /\ n.to \in Owner
        /\ \/ n.type = "task_overdue" /\ tasks[t].deadline < day
           \/ n.type = "task_deadline_1_day" /\ tasks[t].deadline <= day + 1
    BY <1>3 DEF Notes, OwnerType, Overdue, Within, UrgentWindow
  <2>2. n \in Note
    BY <1>2, <1>3 DEF Note, Notes, OwnerType
  <2>3. /\ n.type \in {"task_overdue", "task_overdue_own"} => tasks[t].deadline - now < 0
        /\ n.type = "task_deadline_1_day" => tasks[t].deadline - now <= 1
        /\ n.type # "task_deadline_approaching"
    BY <1>2, <2>1
  <2> QED BY <2>1, <2>2, <2>3 DEF TrueNow
<1>4. CASE n \in Notes(AssigneeOf(t), AssigneeType(tasks[t].deadline, day), t)
  <2>1. /\ n.task = t /\ n.to = tasks[t].assignee
        /\ \/ n.type = "task_overdue_own" /\ tasks[t].deadline < day
           \/ n.type = "task_deadline_approaching" /\ tasks[t].deadline <= day + 3
    BY <1>4 DEF Notes, AssigneeOf, AssigneeType, Overdue, Within, ApproachingWindow
  <2>2. n \in Note
    BY <1>2, <1>4 DEF Note, Notes, AssigneeOf, AssigneeType
  <2>3. /\ n.type \in {"task_overdue", "task_overdue_own"} => tasks[t].deadline - now < 0
        /\ n.type # "task_deadline_1_day"
        /\ n.type = "task_deadline_approaching" => tasks[t].deadline - now <= 3
    BY <1>2, <2>1
  <2> QED BY <2>1, <2>2, <2>3 DEF TrueNow
<1> QED BY <1>1, <1>3, <1>4

-----------------------------------------------------------------------------
(* One lemma per action of a poll *)

\* Another poll's state changes no fact about a note that is not p's.
LEMMA PollOnly ==
  ASSUME IInv, NEW p \in Poll, NEW r \in PollRow,
         poll' = [poll EXCEPT ![p] = r],
         UNCHANGED <<now, tasks, stored, entries, reached>>,
         r.at <= now, r.todo \subseteq reached,
         ~At(p, "inserting")
  PROVE  IInv'
<1>1. /\ poll' \in [Poll -> PollRow]
      /\ poll'[p] = r
      /\ \A q \in Poll \ {p} : poll'[q] = poll[q]
  BY DEF IInv, TypeOK
<1>2. TypeOK'
  BY <1>1 DEF IInv, TypeOK
<1>3. NotifiedOnce' /\ NeverEarly'
  BY DEF IInv, NotifiedOnce, NeverEarly
<1>4. EntriesAreOpen'
  BY <1>1 DEF IInv, TypeOK, EntriesAreOpen, At
<1>5. PollsFit'
  <2>1. TrueNow' = TrueNow
    BY DEF TrueNow, Watched
  <2> QED BY <1>1, <2>1 DEF IInv, PollsFit
<1> QED BY <1>2, <1>3, <1>4, <1>5 DEF IInv

LEMMA ReadKeeps ==
  ASSUME IInv, NEW p \in Poll,
         StartPoll(p) \/ ReadTasks(p) \/ ReadStored(p) \/ PollAgain(p)
  PROVE  IInv'
<1>1. /\ poll \in [Poll -> PollRow] /\ now \in Day /\ 0 \in Day
      /\ poll[p].at <= now /\ poll[p].at \in Day /\ poll[p].todo \subseteq reached
      /\ now \in Nat /\ TrueNow \subseteq reached
  BY MaxNowAssumption DEF IInv, TypeOK, PollsFit, Day, PollRow
<1>2. CASE StartPoll(p)
  <2> DEFINE r == [pc |-> "clocked", at |-> now, todo |-> {}]
  <2>1. r \in PollRow /\ r.at <= now
    BY <1>1 DEF PollRow
  <2> QED BY <1>2, <2>1, PollOnly DEF StartPoll, At
<1>3. CASE ReadTasks(p)
  <2> DEFINE r == [pc |-> "scanned", at |-> 0, todo |-> Due(poll[p].at)]
  <2>1. Due(poll[p].at) \subseteq TrueNow /\ Due(poll[p].at) \subseteq Note
    BY <1>1, DueIsTrue DEF IInv
  <2>2. r \in PollRow /\ r.at <= now /\ r.todo \subseteq reached
    BY <1>1, <2>1 DEF PollRow
  <2> QED BY <1>3, <2>2, PollOnly DEF ReadTasks, At
<1>4. CASE ReadStored(p)
  <2> DEFINE r == [poll[p] EXCEPT !.pc = "inserting", !.todo = Missing(@)]
  <2>1. r \in PollRow /\ r.at <= now /\ r.todo \subseteq reached
    BY <1>1 DEF PollRow, Missing
  <2>2. poll' = [poll EXCEPT ![p] = r]
    BY <1>1, <1>4 DEF ReadStored
  <2> QED BY <1>4, <2>1, <2>2, PollOnly DEF ReadStored, At
<1>5. CASE PollAgain(p)
  <2> DEFINE r == [poll[p] EXCEPT !.pc = "idle"]
  <2>1. r \in PollRow /\ r.at <= now /\ r.todo \subseteq reached
    BY <1>1 DEF PollRow
  <2>2. poll' = [poll EXCEPT ![p] = r]
    BY <1>1, <1>5 DEF PollAgain
  <2> QED BY <1>5, <2>1, <2>2, PollOnly DEF PollAgain, At
<1> QED BY <1>2, <1>3, <1>4, <1>5

LEMMA InsertKeeps ==
  ASSUME IInv, NEW p \in Poll, Insert(p)
  PROVE  IInv'
<1>1. /\ poll \in [Poll -> PollRow] /\ entries \in [Note -> Poll \cup {None}]
      /\ stored \in [Note -> Nat] /\ poll[p].todo \subseteq Note
      /\ p # None
  BY NoneAssumption DEF IInv, TypeOK, PollRow
<1>2. PICK n \in poll[p].todo :
        /\ entries[n] = None /\ ~Taken(n)
        /\ entries' = [entries EXCEPT ![n] = p]
        /\ poll' = [poll EXCEPT ![p].todo = @ \ {n}]
  BY DEF Insert
<1>3. /\ poll'[p] = [poll[p] EXCEPT !.todo = @ \ {n}]
      /\ \A q \in Poll \ {p} : poll'[q] = poll[q]
      /\ entries'[n] = p /\ n \in Note
      /\ \A m \in Note \ {n} : entries'[m] = entries[m]
      /\ UNCHANGED <<now, tasks, stored, reached>>
  BY <1>1, <1>2 DEF Insert
<1>4. /\ poll'[p].pc = "inserting" /\ poll'[p].at = poll[p].at
      /\ poll'[p].todo = poll[p].todo \ {n} /\ poll'[p] \in PollRow
  BY <1>1, <1>3 DEF Insert, At, PollRow
<1>5. TypeOK'
  <2>1. poll' \in [Poll -> PollRow]
    BY <1>1, <1>2, <1>4
  <2>2. entries' \in [Note -> Poll \cup {None}]
    BY <1>1, <1>2
  <2> QED BY <2>1, <2>2, <1>3 DEF IInv, TypeOK
<1>6. NotifiedOnce' /\ NeverEarly'
  BY <1>3 DEF IInv, NotifiedOnce, NeverEarly
<1>7. EntriesAreOpen'
  <2> SUFFICES ASSUME NEW m \in Note, entries'[m] # None
               PROVE  /\ poll'[entries'[m]].pc = "inserting"
                      /\ stored'[m] = 0
                      /\ m \notin poll'[entries'[m]].todo
    BY DEF EntriesAreOpen, At
  <2>1. CASE m = n
    <3>1. stored[n] = 0
      BY <1>1, <1>2, <1>3 DEF Taken
    <3> QED BY <2>1, <3>1, <1>3, <1>4
  <2>2. CASE m # n
    <3>1. /\ entries'[m] = entries[m] /\ entries[m] \in Poll
          /\ poll[entries[m]].pc = "inserting" /\ stored[m] = 0
          /\ m \notin poll[entries[m]].todo
      BY <2>2, <1>1, <1>3 DEF IInv, EntriesAreOpen, At
    <3> QED BY <3>1, <1>3, <1>4
  <2> QED BY <2>1, <2>2
<1>8. PollsFit'
  <2>1. TrueNow' = TrueNow
    BY <1>3 DEF TrueNow, Watched
  <2> QED BY <2>1, <1>3, <1>4 DEF IInv, PollsFit
<1> QED BY <1>5, <1>6, <1>7, <1>8 DEF IInv

\* A committed row was open to nobody else, so it is the first of its key, and
\* the scan that put it there had read that it was true.
LEMMA CommitKeeps ==
  ASSUME IInv, NEW p \in Poll, Commit(p)
  PROVE  IInv'
<1>1. /\ poll \in [Poll -> PollRow] /\ entries \in [Note -> Poll \cup {None}]
      /\ stored \in [Note -> Nat] /\ p # None /\ 0 \in Day
      /\ now \in Nat
  BY MaxNowAssumption, NoneAssumption DEF IInv, TypeOK, Day
<1>2. /\ stored' = [n \in Note |-> stored[n] + (IF entries[n] = p THEN 1 ELSE 0)]
      /\ entries' = [n \in Note |-> IF entries[n] = p THEN None ELSE entries[n]]
      /\ poll' = [poll EXCEPT ![p] = IdlePoll]
      /\ UNCHANGED <<now, tasks, reached>>
  <2>1. /\ stored' = [n \in Note |-> stored[n] + (IF n \in Mine(p) THEN 1 ELSE 0)]
        /\ UNCHANGED <<now, tasks, reached>>
    BY DEF Commit
  <2>2. /\ entries' = [n \in Note |-> IF n \in Mine(p) THEN None ELSE entries[n]]
        /\ poll' = [poll EXCEPT ![p] = [IdlePoll EXCEPT !.pc = "idle"]]
    BY DEF Commit, Leave
  <2>3. \A n \in Note : n \in Mine(p) <=> entries[n] = p
    BY DEF Mine
  <2>4. [IdlePoll EXCEPT !.pc = "idle"] = IdlePoll
    BY DEF IdlePoll
  <2> QED BY <2>1, <2>2, <2>3, <2>4
<1>3. /\ poll'[p] = IdlePoll /\ IdlePoll \in PollRow
      /\ \A q \in Poll \ {p} : poll'[q] = poll[q]
  BY <1>1, <1>2 DEF IdlePoll, PollRow
<1>4. TypeOK'
  BY <1>1, <1>2, <1>3 DEF IInv, TypeOK
<1>5. NotifiedOnce' /\ NeverEarly'
  <2> SUFFICES ASSUME NEW n \in Note
               PROVE  /\ stored'[n] <= 1
                      /\ stored'[n] > 0 => n \in reached
    BY <1>2 DEF NotifiedOnce, NeverEarly
  <2>1. CASE entries[n] = p
    <3>1. stored[n] = 0 /\ n \in reached
      BY <2>1, <1>1 DEF IInv, EntriesAreOpen, PollsFit
    <3> QED BY <3>1, <2>1, <1>2
  <2>2. CASE entries[n] # p
    <3>1. stored'[n] = stored[n]
      BY <2>2, <1>1, <1>2
    <3> QED BY <3>1 DEF IInv, NotifiedOnce, NeverEarly
  <2> QED BY <2>1, <2>2
<1>6. EntriesAreOpen'
  <2> SUFFICES ASSUME NEW n \in Note, entries'[n] # None
               PROVE  /\ poll'[entries'[n]].pc = "inserting"
                      /\ stored'[n] = 0
                      /\ n \notin poll'[entries'[n]].todo
    BY DEF EntriesAreOpen, At
  <2>1. /\ entries'[n] = entries[n] /\ entries[n] # p /\ entries[n] # None
        /\ entries[n] \in Poll
    BY <1>1, <1>2
  <2>2. stored'[n] = stored[n]
    BY <2>1, <1>1, <1>2
  <2> QED BY <2>1, <2>2, <1>3 DEF IInv, EntriesAreOpen, At
<1>7. PollsFit'
  <2>1. TrueNow' = TrueNow
    BY <1>2 DEF TrueNow, Watched
  <2>2. \A n \in Note : entries'[n] # None => n \in reached
    BY <1>2 DEF IInv, PollsFit
  <2> QED BY <1>1, <2>1, <2>2, <1>2, <1>3 DEF IInv, PollsFit, IdlePoll
<1> QED BY <1>4, <1>5, <1>6, <1>7 DEF IInv

\* A rolled back batch leaves nothing behind.
LEMMA UndoneKeeps ==
  ASSUME IInv, NEW p \in Poll, Conflict(p) \/ Deadlock(p)
  PROVE  IInv'
<1>1. /\ poll \in [Poll -> PollRow] /\ entries \in [Note -> Poll \cup {None}]
      /\ p # None /\ 0 \in Day /\ now \in Nat
  BY MaxNowAssumption, NoneAssumption DEF IInv, TypeOK, Day
<1>2. PICK pc \in {"idle", "victim"} :
        Leave(p, pc) /\ UNCHANGED <<now, tasks, stored, reached>>
  BY DEF Conflict, Deadlock
<1>3. /\ entries' = [n \in Note |-> IF entries[n] = p THEN None ELSE entries[n]]
      /\ poll' = [poll EXCEPT ![p] = [pc |-> pc, at |-> 0, todo |-> {}]]
  <2>1. /\ entries' = [n \in Note |-> IF n \in Mine(p) THEN None ELSE entries[n]]
        /\ poll' = [poll EXCEPT ![p] = [IdlePoll EXCEPT !.pc = pc]]
    BY <1>2 DEF Leave
  <2>2. \A n \in Note : n \in Mine(p) <=> entries[n] = p
    BY DEF Mine
  <2>3. [IdlePoll EXCEPT !.pc = pc] = [pc |-> pc, at |-> 0, todo |-> {}]
    BY DEF IdlePoll
  <2> QED BY <2>1, <2>2, <2>3
<1>4. /\ poll'[p] = [pc |-> pc, at |-> 0, todo |-> {}]
      /\ poll'[p] \in PollRow
      /\ \A q \in Poll \ {p} : poll'[q] = poll[q]
  BY <1>1, <1>3 DEF PollRow
<1>5. TypeOK'
  BY <1>1, <1>2, <1>3, <1>4 DEF IInv, TypeOK
<1>6. NotifiedOnce' /\ NeverEarly'
  BY <1>2 DEF IInv, NotifiedOnce, NeverEarly
<1>7. EntriesAreOpen'
  <2> SUFFICES ASSUME NEW n \in Note, entries'[n] # None
               PROVE  /\ poll'[entries'[n]].pc = "inserting"
                      /\ stored'[n] = 0
                      /\ n \notin poll'[entries'[n]].todo
    BY DEF EntriesAreOpen, At
  <2>1. /\ entries'[n] = entries[n] /\ entries[n] # p /\ entries[n] # None
        /\ entries[n] \in Poll
    BY <1>1, <1>3
  <2> QED BY <2>1, <1>2, <1>4 DEF IInv, EntriesAreOpen, At
<1>8. PollsFit'
  <2>1. TrueNow' = TrueNow
    BY <1>2 DEF TrueNow, Watched
  <2>2. \A n \in Note : entries'[n] # None => n \in reached
    BY <1>3 DEF IInv, PollsFit
  <2> QED BY <1>1, <2>1, <2>2, <1>2, <1>4 DEF IInv, PollsFit
<1> QED BY <1>5, <1>6, <1>7, <1>8 DEF IInv

-----------------------------------------------------------------------------
(* The calendar and the task endpoints, and the specification *)

LEMMA ElsewhereKeeps ==
  ASSUME IInv, Elsewhere
  PROVE  IInv'
<1>1. /\ poll \in [Poll -> PollRow] /\ now \in Nat /\ Day \subseteq Nat
      /\ tasks \in [Task -> TaskRow]
  BY MaxNowAssumption DEF IInv, TypeOK, Day
<1>2. /\ UNCHANGED <<stored, entries, poll>>
      /\ now' \in Day /\ now <= now'
      /\ reached' = reached \cup TrueNow'
  <2>1. UNCHANGED <<stored, entries, poll>> /\ (Tick \/ now' = now)
    BY DEF Elsewhere, Tick, SetDeadline, Reassign, Close, Unpolled
  <2>2. now' \in Day /\ now <= now'
    BY <1>1, <2>1, MaxNowAssumption DEF Tick, IInv, TypeOK, Day
  <2> QED BY <2>1, <2>2 DEF Elsewhere
<1>3. tasks' \in [Task -> TaskRow]
  <2>1. CASE Tick
    BY <2>1, <1>1 DEF Tick
  <2>2. ASSUME NEW t \in Task, NEW d \in Deadline, SetDeadline(t, d)
        PROVE  tasks' \in [Task -> TaskRow]
    BY <2>2, <1>1 DEF SetDeadline, TaskRow
  <2>3. ASSUME NEW t \in Task, NEW e \in Employee, Reassign(t, e)
        PROVE  tasks' \in [Task -> TaskRow]
    BY <2>3, <1>1 DEF Reassign, TaskRow
  <2>4. ASSUME NEW t \in Task, Close(t)
        PROVE  tasks' \in [Task -> TaskRow]
    BY <2>4, <1>1 DEF Close, TaskRow
  <2> QED BY <2>1, <2>2, <2>3, <2>4 DEF Elsewhere
<1>4. TrueNow' \subseteq Note
  BY DEF TrueNow
<1>5. TypeOK'
  BY <1>2, <1>3, <1>4 DEF IInv, TypeOK
<1>6. NotifiedOnce' /\ NeverEarly' /\ EntriesAreOpen'
  BY <1>2 DEF IInv, NotifiedOnce, NeverEarly, EntriesAreOpen, At
<1>7. PollsFit'
  <2>1. \A p \in Poll : poll[p].at \in Nat /\ poll[p].at <= now
    BY <1>1 DEF IInv, PollsFit, PollRow
  <2>2. \A p \in Poll : poll[p].at <= now'
    BY <2>1, <1>1, <1>2
  <2> QED BY <2>2, <1>2 DEF IInv, PollsFit
<1> QED BY <1>5, <1>6, <1>7 DEF IInv

LEMMA InitKeeps == Init => IInv
<1> SUFFICES ASSUME Init PROVE IInv
  OBVIOUS
<1>1. TrueNow = {}
  BY DEF Init, TrueNow, Watched
<1>2. TypeOK
  BY MaxNowAssumption DEF Init, TypeOK, Day, TaskRow, PollRow, IdlePoll
<1>3. NotifiedOnce /\ NeverEarly /\ EntriesAreOpen
  BY DEF Init, NotifiedOnce, NeverEarly, EntriesAreOpen
<1>4. PollsFit
  BY <1>1 DEF Init, PollsFit, IdlePoll
<1> QED BY <1>2, <1>3, <1>4 DEF IInv

LEMMA StepKeeps == IInv /\ [Next]_vars => IInv'
<1> SUFFICES ASSUME IInv, [Next]_vars
             PROVE  IInv'
  OBVIOUS
<1>1. ASSUME NEW p \in Poll, StartPoll(p) \/ Advance(p)
      PROVE  IInv'
  BY <1>1, ReadKeeps, InsertKeeps, CommitKeeps, UndoneKeeps DEF Advance
<1>2. CASE UNCHANGED vars
  <2>1. TrueNow' = TrueNow
    BY <1>2 DEF vars, TrueNow, Watched
  <2> QED
    BY <1>2, <2>1 DEF vars, IInv, TypeOK, NotifiedOnce, NeverEarly,
         EntriesAreOpen, PollsFit, At
<1> QED BY <1>1, <1>2, ElsewhereKeeps DEF Next

\* The inductive invariant: what an open batch holds was true when it was
\* read, and no committed row stands beside an uncommitted one of its key.
THEOREM Invariant == Spec => []IInv
  BY InitKeeps, StepKeeps, PTL DEF Spec

\* Every row and every poll has its type.
THEOREM TypeCorrect == Spec => []TypeOK
<1>1. IInv => TypeOK
  BY DEF IInv
<1> QED BY <1>1, Invariant, PTL

\* A recipient is told of a deadline at most once, for any number of polls.
THEOREM ToldOnce == Spec => []NotifiedOnce
<1>1. IInv => NotifiedOnce
  BY DEF IInv
<1> QED BY <1>1, Invariant, PTL

\* What a stored notification says was true at some moment, however old the
\* reads its poll worked from.
THEOREM ToldTheTruth == Spec => []NeverEarly
<1>1. IInv => NeverEarly
  BY DEF IInv
<1> QED BY <1>1, Invariant, PTL

\* Uncommitted index entries belong to polls that are still inserting.
THEOREM EntriesGo == Spec => []EntriesAreOpen
<1>1. IInv => EntriesAreOpen
  BY DEF IInv
<1> QED BY <1>1, Invariant, PTL

-----------------------------------------------------------------------------
(* The polls implement TellOnce, one committed batch at a time *)

\* What holds today depends on the tasks and the day alone.
LEMMA TrueNowFrame ==
  ASSUME UNCHANGED <<now, tasks>>
  PROVE  TrueNow' = TrueNow
  BY DEF TrueNow, Watched

LEMMA InitMaps == Init => Promise!Init
<1>1. ASSUME Init PROVE TrueNow = {}
  BY <1>1 DEF Init, TrueNow, Watched
<1> QED BY <1>1 DEF Init, Promise!Init

\* Until it commits, a poll has told nobody anything.
LEMMA UncommittedMaps ==
  ASSUME NEW p \in Poll,
         StartPoll(p) \/ (Advance(p) /\ ~Commit(p))
  PROVE  UNCHANGED Promise!vars
<1>1. UNCHANGED <<now, tasks, stored, reached>>
  BY DEF StartPoll, Advance, ReadTasks, ReadStored, Insert, Conflict, Deadlock,
       PollAgain
<1> QED BY <1>1, TrueNowFrame DEF Promise!vars

\* The batch of a poll is the notes whose index entries it holds. Each was
\* true when it was read, and none of them is stored beside its entry.
LEMMA CommitMaps ==
  ASSUME IInv, NEW p \in Poll, Commit(p)
  PROVE  Promise!Tell(Mine(p))
<1>1. p # None /\ stored \in [Note -> Nat]
  BY NoneAssumption DEF IInv, TypeOK
<1>2. /\ Mine(p) \subseteq reached
      /\ \A n \in Mine(p) : n \in Note /\ stored[n] = 0
  BY <1>1 DEF IInv, PollsFit, EntriesAreOpen, Mine
<1>3. /\ stored' = [n \in Note |-> stored[n] + (IF n \in Mine(p) THEN 1 ELSE 0)]
      /\ UNCHANGED <<now, tasks, reached>>
  BY DEF Commit
<1>4. stored' = [n \in Note |-> IF n \in Mine(p) THEN 1 ELSE stored[n]]
  <2>1. \A n \in Note : stored[n] + (IF n \in Mine(p) THEN 1 ELSE 0)
                          = IF n \in Mine(p) THEN 1 ELSE stored[n]
    BY <1>1, <1>2
  <2> QED BY <2>1, <1>3
<1>5. TrueNow' = TrueNow
  BY <1>3, TrueNowFrame
<1> QED BY <1>2, <1>3, <1>4, <1>5 DEF Promise!Tell

LEMMA ElsewhereMaps ==
  ASSUME Elsewhere
  PROVE  Promise!World
<1>1. stored' = stored /\ reached' = reached \cup TrueNow'
  BY DEF Elsewhere, Tick, SetDeadline, Reassign, Close, Unpolled
<1>2. TrueNow' \subseteq Note
  BY DEF TrueNow
<1> QED BY <1>1, <1>2 DEF Promise!World

LEMMA StepMaps == IInv /\ [Next]_vars => [Promise!Next]_(Promise!vars)
<1> SUFFICES ASSUME IInv, [Next]_vars
             PROVE  Promise!Next \/ UNCHANGED Promise!vars
  OBVIOUS
<1>1. CASE Elsewhere
  BY <1>1, ElsewhereMaps DEF Promise!Next
<1>2. ASSUME NEW p \in Poll, StartPoll(p) \/ Advance(p)
      PROVE  Promise!Next \/ UNCHANGED Promise!vars
  <2>1. CASE Commit(p)
    <3>1. Promise!Tell(Mine(p))
      BY <2>1, CommitMaps
    <3>2. PICK batch \in SUBSET Note : batch = Mine(p)
      BY DEF Mine
    <3>3. Promise!Tell(batch)
      BY <3>1, <3>2
    <3> QED BY <3>3 DEF Promise!Next
  <2>2. CASE ~Commit(p)
    BY <1>2, <2>2, UncommittedMaps
  <2> QED BY <2>1, <2>2
<1>3. CASE UNCHANGED vars
  BY <1>3, TrueNowFrame DEF vars, Promise!vars
<1> QED BY <1>1, <1>2, <1>3 DEF Next

\* Every poll's commit tells, in one step, claims that were true and had not
\* been told before, and nothing but a commit tells or takes back anything:
\* the scan's refinement of the abstract promise, for any number of polls.
THEOREM TellOnceImplemented == Spec => ImplementsTellOnce
  BY Invariant, InitMaps, StepMaps, PTL
     DEF Spec, ImplementsTellOnce, Promise!Spec

=============================================================================
