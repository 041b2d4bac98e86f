--------------------------- MODULE ApiServer_proofs ---------------------------
(***************************************************************************)
(* Proofs about ApiServer, for any number of connections, threads,         *)
(* requests, firms, probe threads and checks.                              *)
(***************************************************************************)
EXTENDS ApiServer, SequenceTheorems, TLAPS

-----------------------------------------------------------------------------
(* The paths                                                               *)

\* What needs no tenant, and what leaves none behind.
Untenanted == {"verify", "tenant", "undo"}
Ending == {"verify", "end", "undo"}

\* Whatever leaves no tenant behind is followed by what needs none.
WellFormed(s) ==
  \A i \in 1 .. Len(s) - 1 : s[i] \in Ending => s[i + 1] \in Untenanted

\* What a request may still have to do when its tenant is set.
Tenanted(s) ==
  /\ s \in Seq(Op) /\ WellFormed(s)
  /\ s # <<>> /\ Head(s) \notin Untenanted

\* A well-formed path that begins with h and ends with l.
Fits(s, h, l) ==
  /\ s \in Seq(Op) /\ WellFormed(s)
  /\ s # <<>> /\ Head(s) = h /\ s[Len(s)] = l

LEMMA ConcatFits ==
  ASSUME NEW s, NEW t, NEW h, NEW l, NEW m, NEW n,
         Fits(s, h, l), Fits(t, m, n), l \in Ending => m \in Untenanted
  PROVE  Fits(s \o t, h, n)
<1>1. /\ s \in Seq(Op) /\ t \in Seq(Op)
      /\ Len(s) \in Nat \ {0} /\ Len(t) \in Nat \ {0}
      /\ s[1] = h /\ s[Len(s)] = l /\ t[1] = m /\ t[Len(t)] = n
  BY DEF Fits
<1>2. /\ s \o t \in Seq(Op)
      /\ Len(s \o t) = Len(s) + Len(t)
      /\ \A i \in 1 .. Len(s) : (s \o t)[i] = s[i]
      /\ \A i \in 1 .. Len(t) : (s \o t)[Len(s) + i] = t[i]
  BY <1>1
<1>3. WellFormed(s \o t)
  <2> SUFFICES ASSUME NEW i \in 1 .. Len(s) + Len(t) - 1, (s \o t)[i] \in Ending
               PROVE  (s \o t)[i + 1] \in Untenanted
    BY <1>1, <1>2 DEF WellFormed
  <2>1. CASE i < Len(s)
    BY <2>1, <1>1, <1>2 DEF Fits, WellFormed
  <2>2. CASE i = Len(s)
    BY <2>2, <1>1, <1>2
  <2>3. CASE i > Len(s)
    <3>1. /\ i - Len(s) \in 1 .. Len(t) - 1
          /\ (s \o t)[i] = t[i - Len(s)]
          /\ (s \o t)[i + 1] = t[i - Len(s) + 1]
      BY <2>3, <1>1, <1>2
    <3> QED BY <3>1 DEF Fits, WellFormed
  <2> QED BY <2>1, <2>2, <2>3, <1>1
<1>4. /\ s \o t # <<>> /\ Head(s \o t) = h
      /\ (s \o t)[Len(s \o t)] = n
  BY <1>1, <1>2
<1> QED BY <1>2, <1>3, <1>4 DEF Fits

LEMMA DependenciesFit ==
  ASSUME NEW gate \in Gate
  PROVE  Fits(Dependencies(gate), "verify", "next")
<1>1. Fits(<<"next">>, "next", "next")
  BY DEF Fits, WellFormed, Op
<1>2. "next" \notin Ending
  BY DEF Ending
<1>3. Fits(GetCurrentProfile, "verify", "next")
  BY DEF Fits, WellFormed, Untenanted, Ending, Op, GetCurrentProfile
<1>4. Fits(GetCurrentProfile \o RequirePasswordSet, "verify", "next")
  BY <1>1, <1>2, <1>3, ConcatFits DEF RequirePasswordSet
<1>5. Fits(GetCurrentProfile \o RequirePasswordSet \o RequireOwner, "verify", "next")
  BY <1>1, <1>2, <1>4, ConcatFits DEF RequireOwner
<1> QED BY <1>3, <1>4, <1>5 DEF Dependencies, Gate

LEMMA HandlersFit ==
  ASSUME NEW gate \in Gate, NEW s \in Handlers(gate)
  PROVE  Tenanted(s)
<1>1. /\ Fits(<<"sql">>, "sql", "sql")
      /\ Fits(<<"sql", "end">>, "sql", "end")
      /\ Fits(<<"end", "tenant">>, "end", "tenant")
      /\ Fits(<<"sql", "admin", "sql">>, "sql", "sql")
      /\ Fits(<<"admin", "sql", "end">>, "admin", "end")
      /\ Fits(<<"admin", "sql", "end", "undo">>, "admin", "undo")
  BY DEF Fits, WellFormed, Untenanted, Ending, Op
<1>2. "sql" \notin Ending /\ "tenant" \notin Ending
  BY DEF Ending
<1>3. Fits(<<"sql">> \o RecordAccessDenial, "sql", "end")
  BY <1>1, <1>2, ConcatFits DEF RecordAccessDenial
<1>4. Fits(<<"sql">> \o Settle, "sql", "tenant")
  BY <1>1, <1>2, ConcatFits DEF Settle
<1>5. Fits(<<"sql">> \o Settle \o <<"sql">>, "sql", "sql")
  BY <1>1, <1>2, <1>4, ConcatFits
<1>6. Fits(<<"sql", "admin", "sql">> \o Settle, "sql", "tenant")
  BY <1>1, <1>2, ConcatFits DEF Settle
<1>7. Fits(<<"sql", "admin", "sql">> \o Settle \o <<"sql">>, "sql", "sql")
  BY <1>1, <1>2, <1>6, ConcatFits
<1>8. \A t \in Handlers(gate) :
        \E h \in {"sql", "admin"}, l \in {"sql", "end", "tenant", "undo"} : Fits(t, h, l)
  BY <1>1, <1>3, <1>4, <1>5, <1>6, <1>7
     DEF Handlers, Gate, WithIdempotency, RecoverWinner, ResetPassword,
         CreateEmployee, GetTask, ListNotifications, RequireAssignee,
         MarkNotificationRead, ConfirmPasswordChanged, WrongRole,
         RecordAccessDenial, ListJobTypes, ListTasks, GetIssue, ListEmployees,
         UpdateEmployee, CreateJobType, UpdateJobType, UpdateTaskDeadline, EditTask
<1> QED BY <1>8 DEF Fits, Tenanted, Untenanted

LEMMA TailFits ==
  ASSUME NEW s \in Seq(Op), s # <<>>, WellFormed(s)
  PROVE  /\ Head(s) \in Op
         /\ Tail(s) \in Seq(Op) /\ WellFormed(Tail(s))
         /\ Tail(s) = <<>> => Head(s) = s[Len(s)]
         /\ Tail(s) # <<>> =>
              /\ Tail(s)[Len(Tail(s))] = s[Len(s)]
              /\ Head(s) \in Ending => Head(Tail(s)) \in Untenanted
<1>1. /\ Len(s) \in Nat \ {0} /\ Head(s) = s[1] /\ Head(s) \in Op
      /\ Tail(s) \in Seq(Op) /\ Len(Tail(s)) = Len(s) - 1
      /\ \A i \in 1 .. Len(s) - 1 : Tail(s)[i] = s[i + 1]
  <2>1. Len(s) \in Nat /\ Len(s) # 0 /\ Head(s) = s[1] /\ s[1] \in Op
    OBVIOUS
  <2>2. Tail(s) \in Seq(Op) /\ Len(Tail(s)) = Len(s) - 1
    BY HeadTailProperties, SMT
  <2>3. \A i \in 1 .. Len(s) - 1 : Tail(s)[i] = s[i + 1]
    BY HeadTailProperties
  <2> QED BY <2>1, <2>2, <2>3
<1>2. WellFormed(Tail(s))
  <2> SUFFICES ASSUME NEW i \in 1 .. Len(s) - 2, Tail(s)[i] \in Ending
               PROVE  Tail(s)[i + 1] \in Untenanted
    BY <1>1 DEF WellFormed
  <2>1. /\ i + 1 \in 1 .. Len(s) - 1
        /\ Tail(s)[i] = s[i + 1] /\ Tail(s)[i + 1] = s[i + 1 + 1]
    BY <1>1
  <2> QED BY <2>1 DEF WellFormed
<1>3. CASE Tail(s) = <<>>
  <2>1. Len(Tail(s)) = 0
    BY <1>3, EmptySeq
  <2>2. Head(s) = s[Len(s)]
    BY <2>1, <1>1
  <2> QED BY <2>2, <1>1, <1>2, <1>3
<1>4. CASE Tail(s) # <<>>
  <2>1. Len(s) - 1 \in 1 .. Len(s) - 1 /\ 1 \in 1 .. Len(s) - 1
    BY <1>1, <1>4
  <2>2. Tail(s)[Len(Tail(s))] = s[Len(s)]
    BY <2>1, <1>1
  <2>3. Head(Tail(s)) = s[1 + 1]
    BY <2>1, <1>1, <1>4
  <2> QED BY <2>1, <2>2, <2>3, <1>1, <1>2, <1>4 DEF WellFormed
<1> QED BY <1>3, <1>4

-----------------------------------------------------------------------------
(* The inductive invariant                                                 *)

HasTenant(r) == \E c \in Conn : pool[c] = [by |-> r, tenant |-> FirmOf[r]]

\* The next thing a request does needs its tenant: a handler's first one does.
NeedsTenant(r) ==
  IF req[r].todo = <<>> THEN req[r].gate # None
                        ELSE Head(req[r].todo) \notin Untenanted

RequestInv ==
  /\ \A c \in Free : pool[c].tenant = None
  /\ \A r \in Request :
       /\ WellFormed(req[r].todo)
       /\ req[r].gate # None /\ req[r].todo # <<>> =>
            req[r].todo[Len(req[r].todo)] = "next"
       /\ req[r].pc \in {"idle", "closing"} => req[r].gate = None /\ req[r].todo = <<>>
       /\ NeedsTenant(r) => HasTenant(r)

ProbeInv ==
  /\ \A p \in Prober : InProgress(p) => inflight = p /\ ~probe[p].ok
  /\ cached.ok /\ cached.left > 0 => okAge + cached.left <= Ttl
  /\ \A k \in Check : check[k].pc = "polling" =>
       /\ check[k].future # None
       /\ Result(k).pc = "done" /\ Result(k).ok => okAge = 0

IInv == TypeOK /\ RequestInv /\ ProbeInv

LEMMA InitInv == Init => IInv
<1> SUFFICES ASSUME Init PROVE IInv
  OBVIOUS
<1> USE DEF Init, PoolInit, RequestInit, ProbeInit, IdleRequest, IdleCheck, Clean
<1>1. <<>> \in Seq(Op) /\ Len(<<>>) = 0
  BY EmptySeq
<1>2. TypeOK
  BY <1>1, ProbeAssumption
     DEF TypeOK, PoolTypeOK, RequestTypeOK, ProbeTypeOK
<1>3. RequestInv
  BY <1>1 DEF RequestInv, Free, WellFormed, NeedsTenant
<1>4. ProbeInv
  BY DEF ProbeInv, InProgress, Result
<1> QED BY <1>2, <1>3, <1>4 DEF IInv

\* What a request does to its connection leaves every other request's alone.
LEMMA OthersKeep ==
  ASSUME IInv, NEW x \in Borrower, NEW r \in Request, r # x, HasTenant(r),
         \/ UNCHANGED pool
         \/ pool' = Returned(x)
         \/ \E c \in Usable(x) : \E v : pool' = [pool EXCEPT ![c] = v]
  PROVE  HasTenant(r)'
<1>1. PICK d \in Conn : pool[d] = [by |-> r, tenant |-> FirmOf[r]]
  BY DEF HasTenant
<1>2. r # None /\ pool[d].by = r
  BY <1>1, PoolAssumption
<1>3. pool'[d] = pool[d]
  BY <1>2 DEF Usable, HeldBy, Free, Returned, IInv, TypeOK, PoolTypeOK
<1> QED BY <1>1, <1>3 DEF HasTenant

-----------------------------------------------------------------------------
(* The steps of a request                                                  *)

RequestState ==
  [pc : {"idle", "waiting", "running", "closing"}, gate : Gate \cup {None},
   todo : Seq(Op)]

\* What the invariant asks of the state a request goes to.
Sound(q, tenant) ==
  /\ q \in RequestState /\ WellFormed(q.todo)
  /\ q.gate # None /\ q.todo # <<>> => q.todo[Len(q.todo)] = "next"
  /\ q.pc \in {"idle", "closing"} => q.gate = None /\ q.todo = <<>>
  /\ (IF q.todo = <<>> THEN q.gate # None ELSE Head(q.todo) \notin Untenanted)
       => tenant

LEMMA RequestStep ==
  ASSUME IInv, UNCHANGED probeVars, NEW r \in Request, NEW q,
         req' = [req EXCEPT ![r] = q], Sound(q, HasTenant(r)'),
         PoolTypeOK', \A c \in Free' : pool'[c].tenant = None,
         \/ UNCHANGED pool
         \/ pool' = Returned(r)
         \/ \E c \in Usable(r) : \E v : pool' = [pool EXCEPT ![c] = v]
  PROVE  IInv'
<1>1. TypeOK'
  BY DEF TypeOK, RequestTypeOK, ProbeTypeOK, probeVars, IInv, Sound, RequestState
<1>2. RequestInv'
  <2> SUFFICES ASSUME NEW o \in Request
               PROVE  /\ WellFormed(req[o].todo)'
                      /\ (req[o].gate # None /\ req[o].todo # <<>> =>
                           req[o].todo[Len(req[o].todo)] = "next")'
                      /\ (req[o].pc \in {"idle", "closing"} =>
                           req[o].gate = None /\ req[o].todo = <<>>)'
                      /\ (NeedsTenant(o) => HasTenant(o))'
    BY DEF RequestInv
  <2>1. CASE o = r
    <3>1. req'[o] = q
      BY <2>1 DEF IInv, TypeOK, RequestTypeOK
    <3> QED BY <3>1, <2>1 DEF Sound, NeedsTenant, WellFormed
  <2>2. CASE o # r
    <3>1. req'[o] = req[o]
      BY <2>2 DEF IInv, TypeOK, RequestTypeOK
    <3>2. HasTenant(o) => HasTenant(o)'
      BY <2>2, OthersKeep DEF Borrower
    <3> QED BY <3>1, <3>2 DEF IInv, RequestInv, NeedsTenant, WellFormed
  <2> QED BY <2>1, <2>2
<1>3. ProbeInv'
  BY DEF ProbeInv, IInv, InProgress, Result, probeVars
<1> QED BY <1>1, <1>2, <1>3 DEF IInv

\* After one operation: only one that leaves no tenant behind may have lost it.
LEMMA AdvanceSound ==
  ASSUME IInv, NEW r \in Request, NEW pc \in {"waiting", "running"}, NEW tenant,
         req[r].todo # <<>>, Head(req[r].todo) \notin Ending => tenant
  PROVE  Sound([req[r] EXCEPT !.pc = pc, !.todo = Tail(req[r].todo)], tenant)
<1> DEFINE s == req[r].todo
           q == [req[r] EXCEPT !.pc = pc, !.todo = Tail(s)]
<1>1. /\ s \in Seq(Op) /\ s # <<>> /\ WellFormed(s)
      /\ req[r] \in RequestState
      /\ req[r].gate # None => s[Len(s)] = "next"
  BY DEF IInv, TypeOK, RequestTypeOK, RequestInv, RequestState
<1>2. /\ Tail(s) \in Seq(Op) /\ WellFormed(Tail(s))
      /\ Tail(s) = <<>> => Head(s) = s[Len(s)]
      /\ Tail(s) # <<>> =>
           /\ Tail(s)[Len(Tail(s))] = s[Len(s)]
           /\ Head(s) \in Ending => Head(Tail(s)) \in Untenanted
  BY <1>1, TailFits
<1> HIDE DEF s
<1>3. /\ q \in RequestState /\ q.todo = Tail(s) /\ q.pc = pc
      /\ q.gate = req[r].gate
  BY <1>1, <1>2 DEF RequestState
<1>4. "next" \notin Ending
  BY DEF Ending
<1>5. (IF Tail(s) = <<>> THEN req[r].gate # None ELSE Head(Tail(s)) \notin Untenanted)
        => tenant
  BY <1>1, <1>2, <1>4 DEF s
<1> HIDE DEF q
<1>6. Sound(q, tenant)
  BY <1>1, <1>2, <1>3, <1>5 DEF Sound
<1> QED BY <1>6 DEF q, s

LEMMA FreeAreClean ==
  ASSUME IInv
  PROVE  \A c \in Free : pool[c].tenant = None
  BY DEF IInv, RequestInv

LEMMA ArriveInv ==
  ASSUME IInv, UNCHANGED probeVars, NEW r \in Request, Arrive(r)
  PROVE  IInv'
<1>1. PICK gate \in Gate :
        req' = [req EXCEPT ![r] = [pc |-> "waiting", gate |-> gate,
                                   todo |-> Dependencies(gate)]]
  BY DEF Arrive
<1> DEFINE q == [pc |-> "waiting", gate |-> gate, todo |-> Dependencies(gate)]
<1>2. Sound(q, HasTenant(r)')
  BY DependenciesFit DEF Sound, RequestState, Fits, Untenanted
<1>3. PoolTypeOK' /\ \A c \in Free' : pool'[c].tenant = None
  BY FreeAreClean DEF Arrive, IInv, TypeOK, PoolTypeOK, Free
<1> HIDE DEF q
<1> QED BY <1>1, <1>2, <1>3, RequestStep DEF Arrive, q

LEMMA AdmitInv ==
  ASSUME IInv, UNCHANGED probeVars, NEW r \in Request, Admit(r)
  PROVE  IInv'
<1> DEFINE q == [req[r] EXCEPT !.pc = "running"]
<1>1. req' = [req EXCEPT ![r] = q]
  BY DEF Admit
<1>2. HasTenant(r)' <=> HasTenant(r)
  BY DEF Admit, HasTenant
<1>3. Sound(q, HasTenant(r)')
  <2>1. /\ req[r] \in RequestState /\ req[r].pc = "waiting"
        /\ q \in RequestState /\ q.pc = "running"
        /\ q.todo = req[r].todo /\ q.gate = req[r].gate
    BY DEF Admit, RequestState, IInv, TypeOK, RequestTypeOK
  <2> HIDE DEF q
  <2>2. /\ WellFormed(q.todo)
        /\ q.gate # None /\ q.todo # <<>> => q.todo[Len(q.todo)] = "next"
        /\ NeedsTenant(r) => HasTenant(r)
    BY <2>1 DEF IInv, RequestInv
  <2> QED BY <1>2, <2>1, <2>2 DEF Sound, NeedsTenant
<1>4. PoolTypeOK' /\ \A c \in Free' : pool'[c].tenant = None
  BY FreeAreClean DEF Admit, IInv, TypeOK, PoolTypeOK, Free
<1> HIDE DEF q
<1> QED BY <1>1, <1>3, <1>4, RequestStep DEF Admit

\* The request does not go back to idle or wait for a tenant.
LEMMA EndInv ==
  ASSUME IInv, UNCHANGED probeVars, NEW r \in Request, End(r), UNCHANGED pool
  PROVE  IInv'
<1> DEFINE q == [pc |-> "closing", gate |-> None, todo |-> <<>>]
<1>1. req' = [req EXCEPT ![r] = q]
  <2>1. [IdleRequest EXCEPT !.pc = "closing"] = q
    BY DEF IdleRequest
  <2> QED BY <2>1 DEF End
<1>2. Sound(q, HasTenant(r)')
  BY EmptySeq DEF Sound, RequestState, WellFormed, Gate
<1>3. PoolTypeOK' /\ \A c \in Free' : pool'[c].tenant = None
  BY FreeAreClean DEF IInv, TypeOK, PoolTypeOK, Free
<1> HIDE DEF q
<1> QED BY <1>1, <1>2, <1>3, RequestStep

LEMMA CloseInv ==
  ASSUME IInv, UNCHANGED probeVars, NEW r \in Request, Close(r)
  PROVE  IInv'
<1>1. req' = [req EXCEPT ![r] = IdleRequest] /\ pool' = Returned(r)
  BY DEF Close
<1>2. Sound(IdleRequest, HasTenant(r)')
  BY EmptySeq DEF Sound, RequestState, IdleRequest, WellFormed
<1>3. PoolTypeOK' /\ \A c \in Free' : pool'[c].tenant = None
  BY <1>1, FreeAreClean DEF IInv, TypeOK, PoolTypeOK, Free, Returned, Clean
<1> QED BY <1>1, <1>2, <1>3, RequestStep

LEMMA HandleInv ==
  ASSUME IInv, UNCHANGED probeVars, NEW r \in Request, Handle(r)
  PROVE  IInv'
<1>1. PICK path \in Handlers(req[r].gate) :
        req' = [req EXCEPT ![r].gate = None, ![r].todo = path]
  BY DEF Handle
<1> DEFINE q == [req[r] EXCEPT !.gate = None, !.todo = path]
<1>2. req[r] \in RequestState /\ req[r].gate \in Gate /\ req[r].pc = "running"
  BY DEF Handle, Running, IInv, TypeOK, RequestTypeOK, RequestState
<1>3. Tenanted(path)
  BY <1>2, HandlersFit
<1>4. HasTenant(r)'
  BY DEF Handle, IInv, RequestInv, NeedsTenant, HasTenant
<1>5. Sound(q, HasTenant(r)')
  BY <1>2, <1>3, <1>4 DEF Sound, RequestState, Tenanted
<1>6. PoolTypeOK' /\ \A c \in Free' : pool'[c].tenant = None
  BY FreeAreClean DEF Handle, IInv, TypeOK, PoolTypeOK, Free
<1>7. req' = [req EXCEPT ![r] = q]
  BY <1>1
<1> HIDE DEF q
<1> QED BY <1>5, <1>6, <1>7, RequestStep DEF Handle

LEMMA SetTenantInv ==
  ASSUME IInv, UNCHANGED probeVars, NEW r \in Request, SetTenant(r)
  PROVE  IInv'
<1> DEFINE v == [by |-> r, tenant |-> FirmOf[r]]
           q == [req[r] EXCEPT !.pc = "running", !.todo = Tail(req[r].todo)]
<1>1. PICK c \in Usable(r) : pool' = [pool EXCEPT ![c] = v]
  BY DEF SetTenant
<1>2. c \in Conn
  BY DEF Usable, HeldBy, Free
<1>3. HasTenant(r)'
  BY <1>1, <1>2 DEF HasTenant, IInv, TypeOK, PoolTypeOK
<1>4. req[r].todo # <<>> /\ req[r].pc = "running"
  BY DEF SetTenant, Doing, Running
<1>5. req' = [req EXCEPT ![r] = q]
  BY <1>4 DEF SetTenant, Advance, IInv, TypeOK, RequestTypeOK
<1>6. Sound(q, HasTenant(r)')
  BY <1>3, <1>4, AdvanceSound
<1>7. PoolTypeOK' /\ \A d \in Free' : pool'[d].tenant = None
  BY <1>1, <1>2, FreeAreClean, PoolAssumption, FirmOfAssumption
     DEF IInv, TypeOK, PoolTypeOK, Free, Borrower
<1> HIDE DEF q, v
<1> QED BY <1>1, <1>5, <1>6, <1>7, RequestStep

LEMMA ExecuteInv ==
  ASSUME IInv, UNCHANGED probeVars, NEW r \in Request, Execute(r)
  PROVE  IInv'
<1> DEFINE q == [req[r] EXCEPT !.pc = "running", !.todo = Tail(req[r].todo)]
<1>1. /\ req[r].todo # <<>> /\ req[r].pc = "running" /\ Head(req[r].todo) = "sql"
  BY DEF Execute, Doing, Running
<1>2. HasTenant(r)
  BY <1>1 DEF IInv, RequestInv, NeedsTenant, Untenanted
<1>3. UNCHANGED pool
  <2>1. PICK c \in Usable(r) : pool' = [pool EXCEPT ![c].by = r]
    BY DEF Execute
  <2>2. c \in Conn /\ pool[c].by = r
    BY <1>2 DEF Usable, HeldBy, HasTenant
  <2> QED BY <2>1, <2>2 DEF IInv, TypeOK, PoolTypeOK
<1>4. HasTenant(r)'
  BY <1>2, <1>3 DEF HasTenant
<1>5. req' = [req EXCEPT ![r] = q]
  BY <1>1 DEF Execute, Advance, IInv, TypeOK, RequestTypeOK
<1>6. Sound(q, HasTenant(r)')
  BY <1>1, <1>4, AdvanceSound
<1>7. PoolTypeOK' /\ \A d \in Free' : pool'[d].tenant = None
  BY <1>3, FreeAreClean DEF IInv, TypeOK, PoolTypeOK, Free
<1> HIDE DEF q
<1> QED BY <1>3, <1>5, <1>6, <1>7, RequestStep

LEMMA EndTransactionInv ==
  ASSUME IInv, UNCHANGED probeVars, NEW r \in Request, EndTransaction(r)
  PROVE  IInv'
<1> DEFINE q == [req[r] EXCEPT !.pc = "running", !.todo = Tail(req[r].todo)]
<1>1. /\ req[r].todo # <<>> /\ req[r].pc = "running" /\ Head(req[r].todo) \in Ending
  BY DEF EndTransaction, Doing, Running, Ending
<1>2. req' = [req EXCEPT ![r] = q]
  BY <1>1 DEF EndTransaction, Advance, IInv, TypeOK, RequestTypeOK
<1>3. Sound(q, HasTenant(r)')
  BY <1>1, AdvanceSound
<1>4. pool' = Returned(r)
  BY DEF EndTransaction
<1>5. PoolTypeOK' /\ \A c \in Free' : pool'[c].tenant = None
  BY <1>4, FreeAreClean DEF IInv, TypeOK, PoolTypeOK, Free, Returned, Clean
<1> HIDE DEF q
<1> QED BY <1>2, <1>3, <1>4, <1>5, RequestStep

\* A call to somewhere else and a hop keep the connection and its tenant.
LEMMA KeepInv ==
  ASSUME IInv, UNCHANGED probeVars, UNCHANGED pool, NEW r \in Request,
         NEW pc \in {"waiting", "running"},
         Doing(r, {"verify", "admin", "undo", "next"}),
         req' = [req EXCEPT ![r].pc = pc, ![r].todo = Tail(@)]
  PROVE  IInv'
<1> DEFINE q == [req[r] EXCEPT !.pc = pc, !.todo = Tail(req[r].todo)]
<1>1. req[r].todo # <<>>
  BY DEF Doing
<1>2. Head(req[r].todo) \notin Ending => HasTenant(r)'
  <2>1. Head(req[r].todo) \notin Ending => Head(req[r].todo) \notin Untenanted
    BY DEF Doing, Ending, Untenanted
  <2> QED BY <1>1, <2>1 DEF IInv, RequestInv, NeedsTenant, HasTenant
<1>3. req' = [req EXCEPT ![r] = q]
  BY DEF IInv, TypeOK, RequestTypeOK
<1>4. Sound(q, HasTenant(r)')
  BY <1>1, <1>2, AdvanceSound
<1>5. PoolTypeOK' /\ \A c \in Free' : pool'[c].tenant = None
  BY FreeAreClean DEF IInv, TypeOK, PoolTypeOK, Free
<1> HIDE DEF q
<1> QED BY <1>3, <1>4, <1>5, RequestStep

LEMMA RequestNextInv ==
  ASSUME IInv, UNCHANGED probeVars, RequestNext
  PROVE  IInv'
<1> PICK r \in Request : Arrive(r) \/ Admit(r) \/ Serve(r) \/ Stop(r)
  BY DEF RequestNext
<1>1. CASE Arrive(r) BY <1>1, ArriveInv
<1>2. CASE Admit(r) BY <1>2, AdmitInv
<1>3. CASE SetTenant(r) BY <1>3, SetTenantInv
<1>4. CASE Execute(r) BY <1>4, ExecuteInv
<1>5. CASE EndTransaction(r) BY <1>5, EndTransactionInv
<1>6. CASE CallOut(r)
  <2>1. req' = [req EXCEPT ![r].pc = "running", ![r].todo = Tail(@)]
    BY <1>6 DEF CallOut, Advance, Doing, Running, IInv, TypeOK, RequestTypeOK
  <2> QED BY <1>6, <2>1, KeepInv DEF CallOut, Doing
<1>7. CASE Hop(r)
  BY <1>7, KeepInv DEF Hop, Doing
<1>8. CASE Handle(r) BY <1>8, HandleInv
<1>9. CASE GiveUp(r) BY <1>9, EndInv DEF GiveUp
<1>10. CASE Finish(r) BY <1>10, EndInv DEF Finish
<1>11. CASE Close(r) BY <1>11, CloseInv
<1>12. CASE Stop(r) BY <1>12, EndInv DEF Stop
<1> QED
  BY <1>1, <1>2, <1>3, <1>4, <1>5, <1>6, <1>7, <1>8, <1>9, <1>10, <1>11, <1>12
     DEF Serve

-----------------------------------------------------------------------------
(* The steps of the probe                                                  *)

\* A step that leaves the pool alone says nothing new about the requests.
LEMMA PoolKept ==
  ASSUME IInv, UNCHANGED <<pool, req>>
  PROVE  PoolTypeOK' /\ RequestTypeOK' /\ RequestInv'
<1>1. PoolTypeOK' /\ RequestTypeOK'
  BY DEF IInv, TypeOK, PoolTypeOK, RequestTypeOK
<1>2. RequestInv'
  BY DEF IInv, RequestInv, Free, WellFormed, NeedsTenant, HasTenant
<1> QED BY <1>1, <1>2

\* Nor does a probe that takes or returns a connection.
LEMMA PoolShared ==
  ASSUME IInv, UNCHANGED req, NEW p \in Prober,
         \/ pool' = Returned(p)
         \/ \E c \in Free : pool' = [pool EXCEPT ![c].by = p]
  PROVE  PoolTypeOK' /\ RequestTypeOK' /\ RequestInv'
<1>1. PoolTypeOK'
  BY DEF IInv, TypeOK, PoolTypeOK, Returned, Clean, Borrower, Free
<1>2. \A c \in Free' : pool'[c].tenant = None
  BY FreeAreClean, PoolAssumption
     DEF IInv, TypeOK, PoolTypeOK, Returned, Clean, Free
<1>3. ASSUME NEW r \in Request, HasTenant(r)
      PROVE  HasTenant(r)'
  <2>1. PICK d \in Conn : pool[d] = [by |-> r, tenant |-> FirmOf[r]]
    BY <1>3 DEF HasTenant
  <2>2. pool[d].by = r /\ r # None /\ r # p
    BY <2>1, PoolAssumption
  <2>3. pool'[d] = pool[d]
    BY <2>2 DEF Free, Returned, IInv, TypeOK, PoolTypeOK
  <2> QED BY <2>1, <2>3 DEF HasTenant
<1>4. RequestInv'
  BY <1>2, <1>3 DEF IInv, RequestInv, WellFormed, NeedsTenant
<1> QED BY <1>1, <1>4 DEF IInv, TypeOK, RequestTypeOK

LEMMA CheckInv ==
  ASSUME IInv, UNCHANGED req, NEW k \in Check, CheckNext(k)
  PROVE  IInv'
<1> USE ProbeAssumption
<1>1. CASE Hit(k)
  <2>1. ProbeTypeOK'
    BY <1>1 DEF Hit, Answer, AfterHit, IdleCheck, IInv, TypeOK, ProbeTypeOK
  <2>2. ProbeInv'
    BY <1>1 DEF Hit, Answer, AfterHit, IdleCheck, IInv, TypeOK, ProbeTypeOK,
                ProbeInv, InProgress, Result
  <2> QED BY <1>1, <2>1, <2>2, PoolKept DEF Hit, IInv, TypeOK
<1>2. CASE ReportSaturation(k)
  <2>1. ProbeTypeOK'
    BY <1>2 DEF ReportSaturation, Store, Expiry, Answer, IdleCheck, IInv, TypeOK,
                ProbeTypeOK
  <2>2. ProbeInv'
    BY <1>2 DEF ReportSaturation, Store, Answer, IdleCheck, IInv, TypeOK,
                ProbeTypeOK, ProbeInv, InProgress, Result
  <2> QED BY <1>2, <2>1, <2>2, PoolKept DEF ReportSaturation, IInv, TypeOK
<1>3. CASE Join(k)
  <2>1. ProbeTypeOK'
    BY <1>3 DEF Join, Await, IInv, TypeOK, ProbeTypeOK
  <2>2. ProbeInv'
    BY <1>3 DEF Join, Joinable, Await, IInv, TypeOK, ProbeTypeOK, ProbeInv,
                InProgress, Result
  <2> QED BY <1>3, <2>1, <2>2, PoolKept DEF Join, IInv, TypeOK
<1>4. ASSUME NEW p \in Prober, Start(k, p)
      PROVE  IInv'
  <2>1. ProbeTypeOK'
    BY <1>4 DEF Start, Await, IInv, TypeOK, ProbeTypeOK
  <2>2. ProbeInv'
    BY <1>4, PoolAssumption
       DEF Start, Joinable, Await, IInv, TypeOK, ProbeTypeOK, ProbeInv,
           InProgress, Result
  <2> QED BY <1>4, <2>1, <2>2, PoolKept DEF Start, IInv, TypeOK
<1>5. CASE Resume(k)
  <2>1. ProbeTypeOK'
    BY <1>5 DEF Resume, Store, Expiry, Answer, IdleCheck, IInv, TypeOK, ProbeTypeOK
  <2>2. check[k].pc = "polling" /\ check[k].future \in Prober
    BY <1>5 DEF Resume, Due, IInv, TypeOK, ProbeTypeOK, ProbeInv
  <2>3. PICK ok \in BOOLEAN : /\ Store(ok) /\ Answer(k, ok)
                              /\ ok => Result(k).pc = "done" /\ Result(k).ok
    BY <1>5, <2>2 DEF Resume, IInv, TypeOK, ProbeTypeOK, Result
  <2>4. ok => okAge = 0
    BY <2>2, <2>3 DEF IInv, ProbeInv
  <2>5. cached'.ok => okAge' + cached'.left <= Ttl
    BY <1>5, <2>3, <2>4 DEF Resume, Store, Expiry, IInv, TypeOK, ProbeTypeOK
  <2>6. \A j \in Check : check'[j].pc = "polling" => check'[j] = check[j]
    BY <2>3 DEF Answer, IdleCheck, IInv, TypeOK, ProbeTypeOK
  <2>7. ProbeInv'
    BY <1>5, <2>5, <2>6 DEF Resume, IInv, ProbeInv, InProgress, Result
  <2> QED BY <1>5, <2>1, <2>7, PoolKept DEF Resume, IInv, TypeOK
<1>6. CASE Respond(k)
  <2>1. ProbeTypeOK'
    BY <1>6 DEF Respond, IdleCheck, IInv, TypeOK, ProbeTypeOK
  <2>2. ProbeInv'
    BY <1>6 DEF Respond, IdleCheck, IInv, TypeOK, ProbeTypeOK, ProbeInv,
                InProgress, Result
  <2> QED BY <1>6, <2>1, <2>2, PoolKept DEF Respond, IInv, TypeOK
<1> QED BY <1>1, <1>2, <1>3, <1>4, <1>5, <1>6 DEF CheckNext

LEMMA ThreadInv ==
  ASSUME IInv, UNCHANGED req, NEW p \in Prober, Connect(p) \/ Succeed(p) \/ Fail(p)
  PROVE  IInv'
<1>1. PoolTypeOK' /\ RequestTypeOK' /\ RequestInv'
  BY PoolShared DEF Connect, Succeed, Fail
<1>2. CASE Connect(p)
  <2>1. ProbeTypeOK'
    BY <1>2 DEF Connect, IInv, TypeOK, ProbeTypeOK
  <2>2. ProbeInv'
    BY <1>2 DEF Connect, IInv, TypeOK, ProbeTypeOK, ProbeInv, InProgress, Result
  <2> QED BY <1>1, <2>1, <2>2 DEF IInv, TypeOK
<1>3. CASE Succeed(p)
  <2>1. ProbeTypeOK'
    BY <1>3, ProbeAssumption DEF Succeed, IInv, TypeOK, ProbeTypeOK
  <2>2. ProbeInv'
    BY <1>3, <2>1
       DEF Succeed, IInv, TypeOK, ProbeTypeOK, ProbeInv, InProgress, Result
  <2> QED BY <1>1, <2>1, <2>2 DEF IInv, TypeOK
<1>4. CASE Fail(p)
  <2>1. ProbeTypeOK'
    BY <1>4 DEF Fail, InProgress, IInv, TypeOK, ProbeTypeOK
  <2>2. ProbeInv'
    BY <1>4 DEF Fail, IInv, TypeOK, ProbeTypeOK, ProbeInv, InProgress, Result
  <2> QED BY <1>1, <2>1, <2>2 DEF IInv, TypeOK
<1> QED BY <1>2, <1>3, <1>4

LEMMA TickInv ==
  ASSUME IInv, UNCHANGED req, Tick
  PROVE  IInv'
<1>1. /\ cached \in [ok : BOOLEAN, left : 0..Ttl] /\ okAge \in 0 .. Ttl + 1
      /\ cached' = [cached EXCEPT !.left = Before(@)]
      /\ okAge' = IF okAge > Ttl THEN okAge ELSE okAge + 1
      /\ Ttl \in Nat
  BY ProbeAssumption DEF Tick, IInv, TypeOK, ProbeTypeOK
<1>2. /\ cached' \in [ok : BOOLEAN, left : 0..Ttl] /\ okAge' \in 0 .. Ttl + 1
      /\ cached'.ok = cached.ok /\ cached'.left = Before(cached.left)
  BY <1>1 DEF Before
<1>3. ASSUME NEW k \in Check
      PROVE  /\ check'[k] \in [pc : {"idle", "polling", "yes", "no"},
                                future : Prober \cup {None}, left : 0..Timeout]
             /\ check'[k].pc = check[k].pc /\ check'[k].future = check[k].future
  BY ProbeAssumption DEF Tick, Before, IInv, TypeOK, ProbeTypeOK
<1>4. ProbeTypeOK'
  <2>1. check' = [k \in Check |-> check'[k]]
    BY DEF Tick
  <2>2. check' \in [Check -> [pc : {"idle", "polling", "yes", "no"},
                             future : Prober \cup {None}, left : 0..Timeout]]
    BY <2>1, <1>3
  <2> QED BY <1>2, <2>2 DEF Tick, IInv, TypeOK, ProbeTypeOK
<1>5. ProbeInv'
  <2>1. cached'.ok /\ cached'.left > 0 => okAge' + cached'.left <= Ttl
    BY <1>1, <1>2 DEF Before, IInv, ProbeInv
  <2>2. \A k \in Check : check[k].pc = "polling" => Result(k).pc # "done"
    BY DEF Tick, Due
  <2> QED BY <1>3, <2>1, <2>2 DEF Tick, IInv, ProbeInv, InProgress, Result
<1> QED BY <1>4, <1>5, PoolKept DEF Tick, IInv, TypeOK

-----------------------------------------------------------------------------

LEMMA StepInv ==
  ASSUME IInv, [Next]_vars
  PROVE  IInv'
<1>1. CASE RequestNext /\ UNCHANGED probeVars
  BY <1>1, RequestNextInv
<1>2. CASE ProbeNext /\ UNCHANGED req
  BY <1>2, CheckInv, ThreadInv, TickInv DEF ProbeNext
<1>3. CASE UNCHANGED vars
  <2>1. UNCHANGED <<pool, req>> /\ UNCHANGED probeVars
    BY <1>3 DEF vars, probeVars
  <2>2. ProbeTypeOK' /\ ProbeInv'
    BY <2>1 DEF IInv, TypeOK, ProbeTypeOK, ProbeInv, InProgress, Result, probeVars
  <2> QED BY <2>1, <2>2, PoolKept DEF IInv, TypeOK
<1> QED BY <1>1, <1>2, <1>3 DEF Next

\* The inductive invariant: what a request may still have to do fits the
\* tenant of its connection; the running probe is the one in flight, and what
\* the cache says is not older than it claims.
THEOREM Invariant == Spec => []IInv
<1>1. Init => IInv
  BY InitInv
<1>2. IInv /\ [Next]_vars => IInv'
  BY StepInv
<1> QED BY <1>1, <1>2, PTL DEF Spec

\* The pool, the requests, the probes and the checks keep their types.
THEOREM TypeCorrect == Spec => []TypeOK
<1>1. IInv => TypeOK
  BY DEF IInv
<1> QED BY <1>1, Invariant, PTL

\* db.py and deps.py: no endpoint executes a statement without its tenant,
\* or with another firm's, whatever was committed or rolled back before it.
THEOREM TenantSafe == Spec => []StatementsSeeTenant
<1>1. IInv => StatementsSeeTenant
  <2> SUFFICES ASSUME IInv PROVE StatementsSeeTenant
    OBVIOUS
  <2>1. ASSUME NEW r \in Request, Doing(r, {"sql"})
        PROVE  HasTenant(r)
    BY <2>1 DEF IInv, RequestInv, NeedsTenant, Doing, Untenanted
  <2> QED BY <2>1, FreeAreClean DEF StatementsSeeTenant, HasTenant
<1> QED BY <1>1, Invariant, PTL

\* health.py: one probe at a time, whatever hangs and whoever gives up.
THEOREM SingleProbe == Spec => []OneProbeInFlight
<1>1. IInv => OneProbeInFlight
  BY DEF IInv, ProbeInv, OneProbeInFlight
<1> QED BY <1>1, Invariant, PTL

\* health.py: a yes is never older than the time to live of the cache.
THEOREM FreshReady == Spec => ReadyIsFresh
<1>1. ASSUME IInv, [Next]_vars, NEW k \in Check,
             check[k].pc # "yes", check'[k].pc = "yes"
      PROVE  okAge <= Ttl
  <2>1. PICK j \in Check : CheckNext(j)
    <3>1. ~(RequestNext /\ UNCHANGED probeVars) /\ ~UNCHANGED vars
      BY <1>1 DEF probeVars, vars
    <3>2. \A p \in Prober : ~Connect(p) /\ ~Succeed(p) /\ ~Fail(p)
      BY <1>1 DEF Connect, Succeed, Fail
    <3>3. ~Tick
      BY <1>1 DEF Tick, IInv, TypeOK, ProbeTypeOK
    <3> QED BY <1>1, <3>1, <3>2, <3>3 DEF Next, ProbeNext
  <2>2. CASE Hit(j)
    BY <1>1, <2>2, ProbeAssumption
       DEF Hit, Answer, IdleCheck, IInv, ProbeInv, TypeOK, ProbeTypeOK
  <2>3. CASE Resume(j)
    <3>1. PICK ok : Answer(j, ok) /\ (ok => Result(j).pc = "done" /\ Result(j).ok)
      BY <2>3 DEF Resume
    <3>2. j = k /\ ok
      BY <1>1, <3>1 DEF Answer, IdleCheck, IInv, TypeOK, ProbeTypeOK
    <3>3. okAge = 0
      BY <1>1, <2>3, <3>1, <3>2 DEF Resume, Due, IInv, ProbeInv
    <3> QED BY <3>3, ProbeAssumption
  <2>4. CASE ReportSaturation(j) \/ Join(j) \/ Respond(j)
    <3>1. CASE ReportSaturation(j)
      BY <1>1, <3>1 DEF ReportSaturation, Answer, IdleCheck, IInv, TypeOK, ProbeTypeOK
    <3>2. CASE Join(j)
      BY <1>1, <3>2 DEF Join, Await, IInv, TypeOK, ProbeTypeOK
    <3>3. CASE Respond(j)
      BY <1>1, <3>3 DEF Respond, IdleCheck, IInv, TypeOK, ProbeTypeOK
    <3> QED BY <2>4, <3>1, <3>2, <3>3
  <2>5. CASE \E p \in Prober : Start(j, p)
    BY <1>1, <2>5 DEF Start, Await, IInv, TypeOK, ProbeTypeOK
  <2> QED BY <2>1, <2>2, <2>3, <2>4, <2>5 DEF CheckNext
<1>2. IInv /\ [Next]_vars =>
        [\A k \in Check :
           check[k].pc # "yes" /\ check'[k].pc = "yes" => okAge <= Ttl]_probeVars
  BY <1>1
<1> QED BY <1>2, Invariant, PTL DEF Spec, ReadyIsFresh

-----------------------------------------------------------------------------
(* Connections come back                                                   *)

\* What a step may do to the pool on behalf of x: leave it alone, return what
\* x has, or hand x one connection, the one it has if there is one.
UsesPool(x) ==
  \/ UNCHANGED pool
  \/ pool' = Returned(x)
  \/ \E c \in Usable(x) : \E v : v.by = x /\ pool' = [pool EXCEPT ![c] = v]

\* x has something to come back from, or nothing to bring back.
Stays(x) == Busy(x)' \/ pool' = Returned(x) \/ (UNCHANGED pool /\ HeldBy(x) = {})

LEMMA ComeBackKept ==
  ASSUME TypeOK, ConnectionsComeBack, NEW x \in Borrower, UsesPool(x), Stays(x),
         \A y \in Borrower \ {x} : Busy(y) => Busy(y)'
  PROVE  ConnectionsComeBack'
<1>1. pool = [c \in Conn |-> pool[c]] /\ x # None
  BY PoolAssumption DEF TypeOK, PoolTypeOK, Borrower
<1>2. ASSUME NEW y \in Borrower \ {x} PROVE HeldBy(y)' \subseteq HeldBy(y)
  <2>1. y # None
    BY PoolAssumption DEF Borrower
  <2>2. CASE UNCHANGED pool
    BY <2>2 DEF HeldBy
  <2>3. CASE pool' = Returned(x)
    BY <2>1, <2>3 DEF HeldBy, Returned, Clean
  <2>4. CASE \E c \in Usable(x) : \E v : v.by = x /\ pool' = [pool EXCEPT ![c] = v]
    BY <1>1, <2>4 DEF HeldBy
  <2> QED BY <2>2, <2>3, <2>4 DEF UsesPool
<1>3. \A c, d \in HeldBy(x)' : c = d
  <2>1. CASE UNCHANGED pool
    BY <2>1 DEF HeldBy, ConnectionsComeBack
  <2>2. CASE pool' = Returned(x)
    BY <1>1, <2>2 DEF HeldBy, Returned, Clean
  <2>3. CASE \E c \in Usable(x) : \E v : v.by = x /\ pool' = [pool EXCEPT ![c] = v]
    <3>1. PICK c \in Usable(x) : \E v : v.by = x /\ pool' = [pool EXCEPT ![c] = v]
      BY <2>3
    <3>2. c \in Conn /\ HeldBy(x) \subseteq {c}
      <4>1. CASE HeldBy(x) = {}
        BY <3>1, <4>1 DEF Usable, Free
      <4>2. CASE HeldBy(x) # {}
        <5>1. c \in HeldBy(x)
          BY <3>1, <4>2 DEF Usable
        <5> QED BY <5>1 DEF ConnectionsComeBack, HeldBy
      <4> QED BY <4>1, <4>2
    <3>3. HeldBy(x)' \subseteq {c}
      BY <1>1, <3>1, <3>2 DEF HeldBy
    <3> QED BY <3>3
  <2> QED BY <2>1, <2>2, <2>3 DEF UsesPool
<1>4. HeldBy(x)' # {} => Busy(x)'
  <2>1. CASE pool' = Returned(x)
    BY <1>1, <2>1 DEF HeldBy, Returned, Clean
  <2>2. CASE UNCHANGED pool /\ HeldBy(x) = {}
    BY <2>2 DEF HeldBy
  <2> QED BY <2>1, <2>2 DEF Stays
<1>5. ASSUME NEW y \in Borrower \ {x}
      PROVE  (HeldBy(y)' # {} => Busy(y)') /\ \A c, d \in HeldBy(y)' : c = d
  BY <1>2, <1>5 DEF ConnectionsComeBack
<1> QED BY <1>3, <1>4, <1>5 DEF ConnectionsComeBack, Borrower

\* Ending, a request still has to close its session.
LEMMA RequestComesBack ==
  ASSUME TypeOK, ConnectionsComeBack, UNCHANGED probeVars, NEW r \in Request,
         Arrive(r) \/ Admit(r) \/ Serve(r) \/ Stop(r)
  PROVE  ConnectionsComeBack'
<1>1. req \in [Request -> RequestState] /\ r \in Borrower /\ r \notin Prober
  BY PoolAssumption DEF TypeOK, RequestTypeOK, RequestState, Borrower
<1>2. PICK q : req' = [req EXCEPT ![r] = q]
  BY DEF Arrive, Admit, Serve, SetTenant, Execute, EndTransaction, CallOut, Hop,
       Handle, GiveUp, Finish, Close, Stop, Advance, End
<1>3. \A y \in Borrower \ {r} : Busy(y) => Busy(y)'
  BY <1>1, <1>2 DEF Busy, probeVars
<1>4. UsesPool(r)
  <2>1. CASE SetTenant(r)
    <3>1. PICK c \in Usable(r) : pool' = [pool EXCEPT ![c] = [by |-> r, tenant |-> FirmOf[r]]]
      BY <2>1 DEF SetTenant
    <3> QED BY <3>1 DEF UsesPool
  <2>2. CASE Execute(r)
    <3>1. PICK c \in Usable(r) : pool' = [pool EXCEPT ![c].by = r]
      BY <2>2 DEF Execute
    <3>2. c \in Conn
      BY DEF Usable, HeldBy, Free
    <3>3. [pool[c] EXCEPT !.by = r].by = r
      BY <3>2 DEF TypeOK, PoolTypeOK
    <3>4. pool' = [pool EXCEPT ![c] = [pool[c] EXCEPT !.by = r]]
      BY <3>1
    <3> QED BY <3>3, <3>4 DEF UsesPool
  <2>3. CASE EndTransaction(r) \/ Close(r)
    BY <2>3 DEF UsesPool, EndTransaction, Close
  <2>4. CASE UNCHANGED pool
    BY <2>4 DEF UsesPool
  <2> QED
    BY <2>1, <2>2, <2>3, <2>4
       DEF Arrive, Admit, Serve, CallOut, Hop, Handle, GiveUp, Finish, Stop
<1>5. Stays(r)
  <2>1. CASE Close(r)
    BY <2>1 DEF Close, Stays
  <2>2. CASE Arrive(r)
    BY <2>2, <1>1 DEF Arrive, Stays, Busy
  <2>3. CASE Admit(r)
    BY <2>3, <1>1 DEF Admit, Stays, Busy, RequestState
  <2>4. CASE End(r)
    BY <2>4, <1>1 DEF End, Stays, Busy, IdleRequest
  <2>5. CASE r \in Running /\ Advance(r)
    BY <2>5, <1>1 DEF Running, Advance, Stays, Busy, RequestState
  <2>6. CASE Hop(r) \/ Handle(r)
    BY <2>6, <1>1 DEF Hop, Handle, Doing, Running, Stays, Busy, RequestState
  <2> QED
    BY <2>1, <2>2, <2>3, <2>4, <2>5, <2>6
       DEF Serve, SetTenant, Execute, EndTransaction, CallOut, GiveUp, Finish,
           Stop, Doing
<1> QED BY <1>1, <1>3, <1>4, <1>5, ComeBackKept

\* A thread that is started again has brought back what it had.
LEMMA ThreadComesBack ==
  ASSUME TypeOK, ConnectionsComeBack, UNCHANGED req, NEW p \in Prober,
         \/ \E k \in Check : Start(k, p)
         \/ Connect(p) \/ Succeed(p) \/ Fail(p)
  PROVE  ConnectionsComeBack'
<1>1. /\ DOMAIN probe = Prober
      /\ \A q \in Prober : DOMAIN probe[q] = {"pc", "ok"}
      /\ p \in Borrower /\ p \notin Request
  BY PoolAssumption DEF TypeOK, ProbeTypeOK, Borrower
<1>2. PICK q : probe' = [probe EXCEPT ![p] = q]
  BY DEF Start, Connect, Succeed, Fail
<1>3. \A y \in Borrower \ {p} : Busy(y) => Busy(y)'
  BY <1>1, <1>2 DEF Busy
<1>4. ~InProgress(p) \/ probe[p].pc = "connecting" => HeldBy(p) = {}
  BY <1>1 DEF InProgress, Busy, ConnectionsComeBack
<1>5. UsesPool(p) /\ Stays(p)
  <2>1. CASE \E k \in Check : Start(k, p)
    BY <2>1, <1>4 DEF Start, UsesPool, Stays
  <2>2. CASE Connect(p)
    <3>1. PICK c \in Free : pool' = [pool EXCEPT ![c].by = p]
      BY <2>2 DEF Connect
    <3>2. c \in Usable(p) /\ c \in Conn
      BY <2>2, <1>4 DEF Connect, Usable, Free
    <3>3. [pool[c] EXCEPT !.by = p].by = p
      BY <3>2 DEF TypeOK, PoolTypeOK
    <3>4. pool' = [pool EXCEPT ![c] = [pool[c] EXCEPT !.by = p]]
      BY <3>1
    <3>5. Busy(p)'
      BY <2>2, <1>1 DEF Connect, Busy
    <3> QED BY <3>2, <3>3, <3>4, <3>5 DEF UsesPool, Stays
  <2>3. CASE Succeed(p) \/ Fail(p)
    BY <2>3 DEF Succeed, Fail, UsesPool, Stays
  <2> QED BY <2>1, <2>2, <2>3
<1> QED BY <1>1, <1>3, <1>5, ComeBackKept

LEMMA ComeBackStep ==
  TypeOK /\ ConnectionsComeBack /\ [Next]_vars => ConnectionsComeBack'
<1> SUFFICES ASSUME TypeOK, ConnectionsComeBack, [Next]_vars
             PROVE  ConnectionsComeBack'
  OBVIOUS
<1>1. CASE RequestNext /\ UNCHANGED probeVars
  BY <1>1, RequestComesBack DEF RequestNext
<1>2. CASE ProbeNext /\ UNCHANGED req
  <2>1. CASE UNCHANGED <<pool, probe>>
    BY <1>2, <2>1 DEF ConnectionsComeBack, HeldBy, Busy
  <2>2. CASE \E p \in Prober :
               \/ \E k \in Check : Start(k, p)
               \/ Connect(p) \/ Succeed(p) \/ Fail(p)
    BY <1>2, <2>2, ThreadComesBack
  <2> QED
    BY <1>2, <2>1, <2>2
       DEF ProbeNext, CheckNext, Hit, ReportSaturation, Join, Resume, Respond, Tick
<1>3. CASE UNCHANGED vars
  BY <1>3 DEF vars, ConnectionsComeBack, HeldBy, Busy
<1> QED BY <1>1, <1>2, <1>3 DEF Next

\* However a request is left - answered, refused, out of time, or stopped by an
\* exception - and however a probe ends, its connection comes back, and nobody
\* ever sits on one while waiting for another.
THEOREM NoConnectionLeaks == Spec => []ConnectionsComeBack
<1>1. Init => ConnectionsComeBack
  BY PoolAssumption
     DEF Init, PoolInit, ConnectionsComeBack, HeldBy, Clean, Borrower
<1>2. IInv => TypeOK
  BY DEF IInv
<1> QED BY <1>1, <1>2, ComeBackStep, Invariant, PTL DEF Spec

=============================================================================
