------------------------- MODULE Idempotency_proofs -------------------------
(***************************************************************************)
(* Proofs about Idempotency for any number of requests, keys and bodies.   *)
(***************************************************************************)
EXTENDS Idempotency, FiniteSetTheorems, TLAPS

-----------------------------------------------------------------------------
(* Frame lemmas *)

\* A step of request w that keeps the tables keeps the invariant if what it
\* makes of w fits: the tables give every other request what it had.
LEMMA OnlyRequest ==
  ASSUME IInv, NEW w \in Worker, NEW r \in Request,
         req' = [req EXCEPT ![w] = r],
         UNCHANGED <<rows, indexed, lock, ready, rounds, effects>>,
         r.answer = "ok" <=> r.of # None,
         RequestFits(w)',
         req[w].pc \notin {"worked", "inserted"},
         w \in effects => r.key = KeyOf(w),
         r.answer = "ok" =>
           r.of \in effects /\ (r.of = w \/ KeyOf(r.of) = r.key),
         r.answer \in {"refused", "reused", "failed"} => w \notin effects,
         r.pc = "conflict" => Stored(r.key)
  PROVE  IInv'
<1>0. req \in [Worker -> Request] /\ effects \subseteq Worker
  BY DEF IInv, TypeOK
<1>1. /\ req' \in [Worker -> Request]
      /\ req'[w] = r
      /\ \A v \in Worker \ {w} : req'[v] = req[v]
  BY <1>0
<1>2. \A v \in effects : KeyOf(v)' = KeyOf(v)
  BY <1>0, <1>1 DEF KeyOf
<1>3. TypeOK'
  BY <1>1 DEF IInv, TypeOK
<1>4. RequestsOK'
  BY <1>1 DEF IInv, RequestsOK, RequestFits, At, KeyOf, Stored
<1>5. HeldWhileOpen'
  BY <1>1 DEF IInv, HeldWhileOpen, TypeOK, At, KeyOf
<1>6. RowsOwned'
  BY <1>2 DEF IInv, RowsOwned, Stored, NoRow
<1>7. EffectsRecorded'
  <2> SUFFICES ASSUME NEW v \in Worker
               PROVE  (v \in effects <=> KeyOf(v) # None /\ rows[KeyOf(v)].by = v)'
    BY DEF EffectsRecorded
  <2>1. CASE v \in effects
    BY <2>1, <1>2 DEF IInv, EffectsRecorded
  <2>2. CASE v \notin effects
    <3>1. \A k \in Key : rows[k].by # v
      BY <2>2, NoneAssumption DEF IInv, RowsOwned, TypeOK, Row, NoRow, Stored
    <3>2. KeyOf(v)' \in Key \cup {None}
      BY <1>1 DEF KeyOf, Request
    <3> QED BY <2>2, <3>1, <3>2
  <2> QED BY <2>1, <2>2
<1>8. AnswersAreTrue'
  <2> SUFFICES ASSUME NEW v \in Worker
               PROVE  (/\ req[v].answer = "ok" =>
                            req[v].of \in effects /\ KeyOf(req[v].of) = KeyOf(v)
                       /\ req[v].answer \in {"refused", "reused", "failed"} =>
                            v \notin effects
                       /\ At(v, "conflict") => Stored(KeyOf(v)))'
    BY DEF AnswersAreTrue
  <2>1. CASE v = w
    BY <2>1, <1>1, <1>2 DEF KeyOf, At, Stored
  <2>2. CASE v # w
    BY <2>2, <1>1, <1>2 DEF IInv, AnswersAreTrue, KeyOf, At, Stored
  <2> QED BY <2>1, <2>2
<1>9. OncePerRound'
  <2>1. {v \in effects : KeyOf(v) \in Gated}' = {v \in effects : KeyOf(v) \in Gated}
    BY <1>2
  <2> QED BY <2>1 DEF IInv, OncePerRound
<1> QED BY <1>3, <1>4, <1>5, <1>6, <1>7, <1>8, <1>9 DEF IInv
\* A step that only adds effects and rows, and gives no answer, keeps the
\* answers true.
LEMMA AnswersFrame ==
  ASSUME IInv, effects \subseteq effects',
         \A k \in Key : Stored(k) => Stored(k)',
         \A v \in Worker :
           /\ KeyOf(v)' = KeyOf(v)
           /\ \/ req'[v].answer = req[v].answer /\ req'[v].of = req[v].of
              \/ req'[v].answer = "lost"
           /\ v \in effects' => v \in effects \/ req'[v].answer = "none"
           /\ At(v, "conflict")' => At(v, "conflict") \/ Stored(KeyOf(v))'
  PROVE  AnswersAreTrue'
<1> SUFFICES ASSUME NEW v \in Worker
             PROVE  (/\ req[v].answer = "ok" =>
                          req[v].of \in effects /\ KeyOf(req[v].of) = KeyOf(v)
                     /\ req[v].answer \in {"refused", "reused", "failed"} =>
                          v \notin effects
                     /\ At(v, "conflict") => Stored(KeyOf(v)))'
  BY DEF AnswersAreTrue
<1>1. req'[v].answer = "ok" => (req[v].of \in effects /\ KeyOf(req[v].of) = KeyOf(v))'
  <2> SUFFICES ASSUME req'[v].answer = "ok"
               PROVE  req'[v].of \in effects' /\ KeyOf(req[v].of)' = KeyOf(v)'
    OBVIOUS
  <2>1. /\ req'[v].of = req[v].of
        /\ req[v].of \in effects /\ KeyOf(req[v].of) = KeyOf(v)
    BY DEF IInv, AnswersAreTrue
  <2>2. req[v].of \in Worker
    BY <2>1 DEF IInv, TypeOK
  <2>3. KeyOf(req[v].of)' = req'[req'[v].of].key
    BY DEF KeyOf
  <2>4. req'[req[v].of].key = KeyOf(req[v].of)
    BY <2>2 DEF KeyOf
  <2> QED BY <2>1, <2>3, <2>4
<1>2. req'[v].answer \in {"refused", "reused", "failed"} => v \notin effects'
  BY DEF IInv, AnswersAreTrue
<1>3. At(v, "conflict")' => Stored(KeyOf(v))'
  <2> SUFFICES ASSUME At(v, "conflict")', At(v, "conflict")
               PROVE  Stored(KeyOf(v))'
    OBVIOUS
  <2>1. Stored(KeyOf(v)) /\ KeyOf(v) \in Key
    BY DEF IInv, TypeOK, AnswersAreTrue, RequestsOK, RequestFits, At, KeyOf, Request
  <2>2. rows'[req[v].key] # NoRow
    BY <2>1 DEF Stored, KeyOf
  <2> QED BY <2>2 DEF Stored, KeyOf
<1> QED BY <1>1, <1>2, <1>3

-----------------------------------------------------------------------------
(* One lemma per action *)

LEMMA FinishKeeps ==
  ASSUME IInv, NEW w \in Worker, NEW answer, NEW of \in Worker \cup {None},
         req[w].pc \in {"missed", "committed", "conflict"},
         answer \in {"ok", "refused", "failed"},
         answer = "ok" <=> of # None,
         answer = "ok" => of \in effects /\ KeyOf(of) = KeyOf(w),
         answer # "ok" => w \notin effects,
         Finish(w, answer, of),
         UNCHANGED <<rows, indexed, lock, ready, rounds, effects>>
  PROVE  IInv'
<1> DEFINE r == [req[w] EXCEPT !.pc = "done", !.answer = answer, !.of = of]
<1>1. req \in [Worker -> Request]
  BY DEF IInv, TypeOK
<1>2. /\ r \in Request
      /\ r.pc = "done" /\ r.answer = answer /\ r.of = of
      /\ r.key = KeyOf(w) /\ r.body = req[w].body
  BY <1>1 DEF Request, KeyOf
<1>3. req' = [req EXCEPT ![w] = r] /\ req'[w] = r
  BY <1>1 DEF Finish
<1>4. RequestFits(w)'
  BY <1>2, <1>3 DEF IInv, RequestsOK, RequestFits, At, KeyOf
<1> HIDE DEF r
<1> QED BY <1>2, <1>3, <1>4, OnlyRequest

LEMMA ArrivedKeeps ==
  ASSUME IInv, NEW w \in Worker, NEW k \in Key, NEW b \in Body,
         NEW pc \in {"missed", "done"}, NEW answer, NEW of \in Worker \cup {None},
         answer \in {"none", "ok", "reused", "failed"},
         pc = "done" <=> answer # "none",
         answer = "ok" <=> of # None,
         answer = "ok" => of \in effects /\ KeyOf(of) = k,
         Arrived(w, k, b, pc, answer, of)
  PROVE  IInv'
<1> DEFINE r == [pc |-> pc, key |-> k, body |-> b, answer |-> answer, of |-> of]
<1>1. req \in [Worker -> Request]
  BY DEF IInv, TypeOK
<1>2. At(w, "new") /\ w \notin effects
  BY DEF Arrived, IInv, RequestsOK, RequestFits, At
<1>3. r \in Request
  BY DEF Request
<1>4. /\ req' = [req EXCEPT ![w] = r] /\ req'[w] = r
      /\ UNCHANGED <<rows, indexed, lock, ready, rounds, effects>>
  BY <1>1 DEF Arrived
<1>5. RequestFits(w)'
  BY <1>2, <1>4, NoneAssumption DEF RequestFits, At, KeyOf
<1> QED BY <1>2, <1>3, <1>4, <1>5, OnlyRequest DEF At

LEMMA LookUpKeeps ==
  ASSUME IInv, NEW w \in Worker, NEW k \in Key, NEW b \in Body, LookUp(w, k, b)
  PROVE  IInv'
<1>1. rows[k] \in Row \cup {NoRow}
  BY DEF IInv, TypeOK
<1>2. CASE Replay(w, k, b)
  <2>1. Stored(k) /\ Found(k).by = rows[k].by
    BY <1>2 DEF Replay, Found, Stored, NoRow
  <2>2. rows[k].by \in Worker
    BY <1>1, <2>1 DEF Row, Stored
  <2>3. rows[k].by \in effects /\ KeyOf(rows[k].by) = k
    BY <2>1 DEF IInv, RowsOwned
  <2> QED BY <1>2, <2>1, <2>2, <2>3, NoneAssumption, ArrivedKeeps DEF Replay
<1>3. CASE RejectReuse(w, k, b)
  BY <1>3, ArrivedKeeps DEF RejectReuse
<1>4. CASE ClearExpired(w, k, b)
  BY <1>4, ArrivedKeeps DEF ClearExpired
<1>5. CASE Miss(w, k, b)
  BY <1>5, ArrivedKeeps DEF Miss
<1> QED BY <1>2, <1>3, <1>4, <1>5 DEF LookUp

LEMMA AnswerKeeps ==
  ASSUME IInv, NEW w \in Worker, Refuse(w) \/ Reply(w) \/ RecoverWinner(w)
  PROVE  IInv'
<1>1. /\ req[w].pc \in {"missed", "conflict"} => w \notin effects
      /\ req[w].pc = "committed" => w \in effects
  BY DEF IInv, RequestsOK, RequestFits, At
<1>2. CASE Refuse(w)
  BY <1>1, <1>2, FinishKeeps DEF Refuse, At
<1>3. CASE Reply(w)
  BY <1>1, <1>3, NoneAssumption, FinishKeeps DEF Reply, At
<1>4. CASE RecoverWinner(w)
  <2>1. KeyOf(w) \in Key
    BY <1>4 DEF RecoverWinner, IInv, TypeOK, RequestsOK, RequestFits, Request, At, KeyOf
  <2>2. Found(KeyOf(w)) # NoRow /\ Stored(KeyOf(w))
    BY <1>4 DEF RecoverWinner, IInv, AnswersAreTrue, Stored, Found
  <2>3. Found(KeyOf(w)).by \in effects /\ KeyOf(Found(KeyOf(w)).by) = KeyOf(w)
    BY <2>1, <2>2 DEF IInv, RowsOwned, Found
  <2>4. effects \subseteq Worker
    BY DEF IInv, TypeOK
  <2> QED BY <1>4, <2>2, <2>3, <2>4, NoneAssumption, FinishKeeps DEF RecoverWinner, At
<1> QED BY <1>2, <1>3, <1>4
LEMMA WorkKeeps ==
  ASSUME IInv, NEW w \in Worker, WorkOpen(w) \/ WorkGated(w)
  PROVE  IInv'
<1> DEFINE r == [req[w] EXCEPT !.pc = "worked"]
<1>1. req \in [Worker -> Request]
  BY DEF IInv, TypeOK
<1>2. At(w, "missed") /\ req' = [req EXCEPT ![w] = r] /\ req'[w] = r
  BY <1>1 DEF WorkOpen, WorkGated, Step
<1>3. /\ r \in Request
      /\ r.pc = "worked" /\ r.key = KeyOf(w) /\ r.body = req[w].body
      /\ r.answer = req[w].answer /\ r.of = req[w].of
  BY <1>1 DEF Request, KeyOf
<1>4. w \notin effects /\ r.answer = "none" /\ r.of = None
  BY <1>1, <1>2, <1>3 DEF IInv, TypeOK, RequestsOK, RequestFits, At, Request
<1> HIDE DEF r
<1>5. CASE WorkOpen(w)
  <2>1. RequestFits(w)'
    BY <1>5, <1>2, <1>3, <1>4 DEF WorkOpen, IInv, RequestsOK, RequestFits, At, KeyOf
  <2> QED BY <1>5, <1>2, <1>3, <1>4, <2>1, OnlyRequest DEF WorkOpen, At
<1>6. CASE WorkGated(w)
  <2> USE <1>6, <1>2, <1>3, <1>4 DEF WorkGated
  <2>1. \A v \in Worker \ {w} : req'[v] = req[v]
    BY <1>1
  <2>2. \A v \in Worker : KeyOf(v)' = KeyOf(v)
    BY <2>1 DEF KeyOf
  <2>3. TypeOK'
    BY <1>1 DEF IInv, TypeOK
  <2>4. RequestsOK'
    BY <2>1, NoneAssumption
    DEF LockFree, IInv, RequestsOK, RequestFits, At, KeyOf, Stored
  <2>5. HeldWhileOpen'
    BY <2>1, <2>2 DEF IInv, HeldWhileOpen, At, TypeOK
  <2>6. RowsOwned'
    BY <2>2 DEF IInv, RowsOwned, TypeOK, Row, Stored, NoRow
  <2>7. EffectsRecorded'
    BY <2>2 DEF IInv, EffectsRecorded
  <2>8. AnswersAreTrue'
    BY <2>1, <2>2 DEF IInv, TypeOK, AnswersAreTrue, At, Stored
  <2>9. OncePerRound'
    <3>1. {v \in effects : KeyOf(v) \in Gated}' = {v \in effects : KeyOf(v) \in Gated}
      BY <2>2 DEF IInv, TypeOK
    <3> QED BY <3>1 DEF IInv, OncePerRound
  <2> QED BY <2>3, <2>4, <2>5, <2>6, <2>7, <2>8, <2>9 DEF IInv
<1> QED BY <1>5, <1>6

LEMMA InsertKeyKeeps ==
  ASSUME IInv, NEW w \in Worker, InsertKey(w)
  PROVE  IInv'
<1> USE DEF InsertKey
<1>1. /\ req \in [Worker -> Request] /\ indexed \in [Key -> Worker \cup {None}]
      /\ effects \subseteq Worker
  BY DEF IInv, TypeOK
<1>2. At(w, "worked") /\ KeyOf(w) \in Key
  BY <1>1 DEF IInv, RequestsOK, RequestFits, At, KeyOf, Request
<1>3. /\ req'[w] = [req[w] EXCEPT !.pc = "inserted"]
      /\ \A v \in Worker \ {w} : req'[v] = req[v]
      /\ req' \in [Worker -> Request]
  BY <1>1 DEF Step, Request
<1>4. /\ \A v \in Worker : /\ KeyOf(v)' = KeyOf(v)
                           /\ req'[v].answer = req[v].answer
                           /\ req'[v].of = req[v].of
                           /\ req'[v].body = req[v].body
      /\ req'[w].pc = "inserted"
  BY <1>1, <1>3 DEF KeyOf, Request
<1>5. /\ indexed'[KeyOf(w)] = w
      /\ \A k \in Key \ {KeyOf(w)} : indexed'[k] = indexed[k]
      /\ indexed' \in [Key -> Worker \cup {None}]
  BY <1>1, <1>2
<1>6. TypeOK'
  BY <1>3, <1>4, <1>5 DEF IInv, TypeOK
<1>7. RequestsOK'
  <2> SUFFICES ASSUME NEW v \in Worker PROVE RequestFits(v)'
    BY DEF RequestsOK
  <2>1. CASE v = w
    BY <2>1, <1>2, <1>4, <1>5
    DEF IInv, RequestsOK, RequestFits, At, Stored, Taken
  <2>2. CASE v # w
    <3>1. At(v, "inserted") => KeyOf(v) \in Key /\ KeyOf(v) # KeyOf(w)
      BY <1>1, NoneAssumption
      DEF EntryFree, IInv, RequestsOK, RequestFits, At, KeyOf, Request
    <3> QED BY <2>2, <3>1, <1>3, <1>4, <1>5
            DEF IInv, RequestsOK, RequestFits, At, Stored
  <2> QED BY <2>1, <2>2
<1>8. HeldWhileOpen'
  <2>1. HeldWhileOpen /\ lock \in Worker \cup {None}
    BY DEF IInv, TypeOK
  <2>2. lock # None => /\ ready'
                       /\ req'[lock].pc \in {"worked", "inserted"}
                       /\ KeyOf(lock)' \in Gated
    BY <2>1, <1>3, <1>4 DEF HeldWhileOpen, KeyOf
  <2>3. \A k \in Key : indexed'[k] # None =>
          (At(indexed[k], "inserted") /\ KeyOf(indexed[k]) = k)'
    <3> SUFFICES ASSUME NEW k \in Key, indexed'[k] # None
                 PROVE  (At(indexed[k], "inserted") /\ KeyOf(indexed[k]) = k)'
      OBVIOUS
    <3>1. CASE k = KeyOf(w)
      BY <3>1, <1>4, <1>5 DEF At, KeyOf
    <3>2. CASE k # KeyOf(w)
      <4>1. indexed'[k] = indexed[k] /\ indexed[k] \in Worker
        BY <3>2, <1>1, <1>5
      <4>2. At(indexed[k], "inserted") /\ KeyOf(indexed[k]) = k /\ indexed[k] # w
        BY <4>1, <3>2, <2>1 DEF HeldWhileOpen
      <4>3. req'[indexed[k]] = req[indexed[k]]
        BY <4>1, <4>2, <1>3
      <4> QED BY <4>1, <4>2, <4>3 DEF At, KeyOf
    <3> QED BY <3>1, <3>2
  <2> QED BY <2>2, <2>3 DEF HeldWhileOpen, KeyOf
<1>9. RowsOwned'
  BY <1>1, <1>4 DEF IInv, RowsOwned, Stored
<1>10. EffectsRecorded'
  BY <1>4 DEF IInv, EffectsRecorded
<1>11. AnswersAreTrue'
  <2>1. \A v \in Worker : At(v, "conflict")' => At(v, "conflict")
    BY <1>3, <1>4 DEF At
  <2>2. \A k \in Key : Stored(k) => Stored(k)'
    BY DEF Stored
  <2> QED BY <1>4, <2>1, <2>2, AnswersFrame
<1>12. OncePerRound'
  <2>1. {v \in effects : KeyOf(v) \in Gated}' = {v \in effects : KeyOf(v) \in Gated}
    BY <1>1, <1>4
  <2> QED BY <2>1 DEF IInv, OncePerRound
<1> QED BY <1>6, <1>7, <1>8, <1>9, <1>10, <1>11, <1>12 DEF IInv
\* A rollback leaves nothing of w behind but its outcome r.
LEMMA RollbackKeeps ==
  ASSUME IInv, NEW w \in Worker, NEW r \in Request, Rollback(w),
         InFlight(w), req' = [req EXCEPT ![w] = r],
         r.key = KeyOf(w), r.body = req[w].body, r.of = None,
         \/ r.pc = "conflict" /\ r.answer = "none" /\ Stored(KeyOf(w))
            /\ w \notin effects
         \/ r.pc = "done" /\ r.answer = "lost"
  PROVE  IInv'
<1> USE DEF Rollback
<1>1. req \in [Worker -> Request] /\ effects \subseteq Worker
  BY DEF IInv, TypeOK
<1>2. /\ req'[w] = r
      /\ \A v \in Worker \ {w} : req'[v] = req[v]
      /\ req' \in [Worker -> Request]
  BY <1>1
<1>3. \A v \in Worker : KeyOf(v)' = KeyOf(v)
  BY <1>2 DEF KeyOf
<1>4. TypeOK'
  BY <1>2, NoneAssumption DEF IInv, TypeOK, Released
<1>5. RequestsOK'
  <2> SUFFICES ASSUME NEW v \in Worker PROVE RequestFits(v)'
    BY DEF RequestsOK
  <2>1. CASE v = w
    BY <2>1, <1>2, <1>3 DEF IInv, RequestsOK, RequestFits, At, InFlight
  <2>2. CASE v # w
    <3>1. At(v, "inserted") => KeyOf(v) \in Key
      BY <1>1 DEF IInv, RequestsOK, RequestFits, At, KeyOf, Request
    <3> QED BY <2>2, <3>1, <1>2, <1>3
            DEF IInv, RequestsOK, RequestFits, At, Stored, Released
  <2> QED BY <2>1, <2>2
<1>6. HeldWhileOpen'
  <2>1. lock' # None => lock' = lock /\ lock # w
    BY DEF Released
  <2>2. \A k \in Key : indexed'[k] # None => indexed'[k] = indexed[k] /\ indexed[k] # w
    OBVIOUS
  <2>3. lock \in Worker \cup {None} /\ indexed \in [Key -> Worker \cup {None}]
    BY DEF IInv, TypeOK
  <2>4. /\ lock' # None => /\ ready'
                           /\ req'[lock'].pc \in {"worked", "inserted"}
                           /\ KeyOf(lock)' \in Gated
    BY <2>1, <2>3, <1>2 DEF IInv, HeldWhileOpen, KeyOf
  <2>5. \A k \in Key : indexed'[k] # None =>
          At(indexed[k], "inserted")' /\ KeyOf(indexed[k])' = k
    BY <2>2, <2>3, <1>2 DEF IInv, HeldWhileOpen, KeyOf, At
  <2> QED BY <2>4, <2>5 DEF HeldWhileOpen
<1>7. RowsOwned'
  BY <1>1, <1>3 DEF IInv, RowsOwned, Stored
<1>8. EffectsRecorded'
  BY <1>3 DEF IInv, EffectsRecorded
<1>9. AnswersAreTrue'
  <2>1. \A v \in Worker :
          \/ req'[v].answer = req[v].answer /\ req'[v].of = req[v].of
          \/ req'[v].answer = "lost"
    <3>1. r.answer = "none" => req[w].answer = "none" /\ req[w].of = None
      BY <1>1 DEF IInv, TypeOK, RequestsOK, RequestFits, InFlight, At
    <3> QED BY <3>1, <1>2
  <2>2. \A v \in Worker : At(v, "conflict")' => At(v, "conflict") \/ Stored(KeyOf(v))'
    BY <1>2, <1>3 DEF At, Stored
  <2>3. \A k \in Key : Stored(k) => Stored(k)'
    BY DEF Stored
  <2> QED BY <1>3, <2>1, <2>2, <2>3, AnswersFrame
<1>10. OncePerRound'
  <2>1. {v \in effects : KeyOf(v) \in Gated}' = {v \in effects : KeyOf(v) \in Gated}
    BY <1>1, <1>3
  <2> QED BY <2>1 DEF IInv, OncePerRound
<1> QED BY <1>4, <1>5, <1>6, <1>7, <1>8, <1>9, <1>10 DEF IInv

LEMMA UndoneKeeps ==
  ASSUME IInv, NEW w \in Worker, Conflict(w) \/ Lose(w)
  PROVE  IInv'
<1>1. req \in [Worker -> Request]
  BY DEF IInv, TypeOK
<1>2. CASE Conflict(w)
  <2> DEFINE r == [req[w] EXCEPT !.pc = "conflict"]
  <2>1. /\ At(w, "worked") /\ Rollback(w) /\ Stored(KeyOf(w))
        /\ req' = [req EXCEPT ![w] = r]
    BY <1>1, <1>2 DEF Conflict, Step, Taken
  <2>2. w \notin effects /\ req[w].answer = "none" /\ req[w].of = None
    BY <2>1 DEF IInv, TypeOK, RequestsOK, RequestFits, At
  <2>3. /\ r \in Request /\ r.pc = "conflict" /\ r.key = KeyOf(w)
        /\ r.body = req[w].body /\ r.answer = "none" /\ r.of = None
    BY <1>1, <2>2 DEF Request, KeyOf
  <2>4. InFlight(w)
    BY <2>1 DEF At, InFlight
  <2> HIDE DEF r
  <2> QED BY <2>1, <2>2, <2>3, <2>4, RollbackKeeps
<1>3. CASE Lose(w)
  <2> DEFINE r == [req[w] EXCEPT !.pc = "done", !.answer = "lost", !.of = None]
  <2>1. InFlight(w) /\ Rollback(w) /\ req' = [req EXCEPT ![w] = r]
    BY <1>1, <1>3 DEF Lose, Finish
  <2>2. /\ r \in Request /\ r.pc = "done" /\ r.key = KeyOf(w)
        /\ r.body = req[w].body /\ r.answer = "lost" /\ r.of = None
    BY <1>1 DEF Request, KeyOf
  <2> HIDE DEF r
  <2> QED BY <2>1, <2>2, RollbackKeeps
<1> QED BY <1>2, <1>3
LEMMA CommitKeeps ==
  ASSUME IInv, NEW w \in Worker, Commit(w)
  PROVE  IInv'
<1> USE DEF Commit
<1>1. /\ req \in [Worker -> Request] /\ effects \subseteq Worker
      /\ rows \in [Key -> Row \cup {NoRow}]
      /\ indexed \in [Key -> Worker \cup {None}]
  BY DEF IInv, TypeOK
<1>2. /\ At(w, "inserted") /\ KeyOf(w) \in Key /\ req[w].body \in Body
      /\ w \notin effects /\ req[w].answer = "none"
      /\ indexed[KeyOf(w)] = w /\ ~Stored(KeyOf(w))
  BY <1>1 DEF IInv, RequestsOK, RequestFits, At, KeyOf, Request
<1>3. /\ req'[w] = [req[w] EXCEPT !.pc = "committed"]
      /\ \A v \in Worker \ {w} : req'[v] = req[v]
      /\ req' \in [Worker -> Request]
  BY <1>1 DEF Step, Request
<1>4. /\ \A v \in Worker : /\ KeyOf(v)' = KeyOf(v)
                           /\ req'[v].answer = req[v].answer
                           /\ req'[v].of = req[v].of
                           /\ req'[v].body = req[v].body
      /\ req'[w].pc = "committed"
  BY <1>1, <1>3 DEF KeyOf, Request
<1>5. /\ rows'[KeyOf(w)] = NewRow(w)
      /\ NewRow(w) \in Row /\ NewRow(w).by = w /\ NewRow(w) # NoRow
      /\ \A k \in Key \ {KeyOf(w)} : rows'[k] = rows[k]
      /\ rows' \in [Key -> Row \cup {NoRow}]
  BY <1>1, <1>2, NoneAssumption DEF Recorded, NewRow, Row, NoRow
<1>6. /\ indexed'[KeyOf(w)] = None
      /\ \A k \in Key \ {KeyOf(w)} : indexed'[k] = indexed[k]
      /\ indexed' \in [Key -> Worker \cup {None}]
  BY <1>1, <1>2
<1>7. TypeOK'
  BY <1>1, <1>3, <1>4, <1>5, <1>6 DEF IInv, TypeOK, Released
<1>8. RequestsOK'
  <2> SUFFICES ASSUME NEW v \in Worker PROVE RequestFits(v)'
    BY DEF RequestsOK
  <2>1. CASE v = w
    BY <2>1, <1>2, <1>4 DEF IInv, RequestsOK, RequestFits, At
  <2>2. CASE v # w
    <3>1. At(v, "inserted") => KeyOf(v) \in Key /\ KeyOf(v) # KeyOf(w)
      BY <2>2, <1>1, <1>2 DEF IInv, RequestsOK, RequestFits, At, KeyOf, Request
    <3> QED BY <2>2, <3>1, <1>3, <1>4, <1>5, <1>6
            DEF IInv, RequestsOK, RequestFits, At, Stored, Released
  <2> QED BY <2>1, <2>2
<1>9. HeldWhileOpen'
  <2>1. lock' # None => lock' = lock /\ lock # w /\ lock \in Worker
    BY DEF Released, IInv, TypeOK
  <2>2. KeyOf(w) \in Gated => lock = w
    BY <1>2 DEF IInv, RequestsOK, RequestFits, At
  <2>3. lock' # None => /\ ready'
                        /\ req'[lock'].pc \in {"worked", "inserted"}
                        /\ KeyOf(lock)' \in Gated
    BY <2>1, <2>2, <1>3 DEF IInv, HeldWhileOpen, KeyOf
  <2>4. \A k \in Key : indexed'[k] # None =>
          (At(indexed[k], "inserted") /\ KeyOf(indexed[k]) = k)'
    <3> SUFFICES ASSUME NEW k \in Key, indexed'[k] # None
                 PROVE  (At(indexed[k], "inserted") /\ KeyOf(indexed[k]) = k)'
      OBVIOUS
    <3>1. k # KeyOf(w) /\ indexed'[k] = indexed[k] /\ indexed[k] \in Worker
      BY <1>1, <1>6
    <3>2. At(indexed[k], "inserted") /\ KeyOf(indexed[k]) = k /\ indexed[k] # w
      BY <3>1 DEF IInv, HeldWhileOpen
    <3>3. req'[indexed[k]] = req[indexed[k]]
      BY <3>1, <3>2, <1>3
    <3> QED BY <3>1, <3>2, <3>3 DEF At, KeyOf
  <2> QED BY <2>3, <2>4 DEF HeldWhileOpen, KeyOf
<1>10. RowsOwned'
  <2> SUFFICES ASSUME NEW k \in Key, rows'[k] # NoRow
               PROVE  rows'[k].by \in effects' /\ KeyOf(rows[k].by)' = k
    BY DEF RowsOwned, Stored
  <2>1. CASE k = KeyOf(w)
    <3>1. rows'[k].by = w
      BY <2>1, <1>5
    <3> QED BY <2>1, <3>1, <1>4 DEF KeyOf
  <2>2. CASE k # KeyOf(w)
    <3>1. /\ rows'[k] = rows[k]
          /\ rows[k].by \in effects /\ KeyOf(rows[k].by) = k
      BY <2>2, <1>5 DEF IInv, RowsOwned, Stored
    <3> QED BY <3>1, <1>1, <1>4 DEF KeyOf
  <2> QED BY <2>1, <2>2
<1>11. EffectsRecorded'
  <2> SUFFICES ASSUME NEW v \in Worker
               PROVE  v \in effects' <=> KeyOf(v)' # None /\ rows'[KeyOf(v)'].by = v
    BY DEF EffectsRecorded, KeyOf
  <2>1. CASE v = w
    BY <2>1, <1>2, <1>4, <1>5, NoneAssumption
  <2>2. CASE v # w
    <3>1. v \in effects' <=> v \in effects
      BY <2>2
    <3>2. v \in effects <=> KeyOf(v) # None /\ rows[KeyOf(v)].by = v
      BY DEF IInv, EffectsRecorded
    <3>3. CASE KeyOf(v) = KeyOf(w)
      <4>1. rows[KeyOf(w)].by = None /\ v # None
        BY <1>2, NoneAssumption DEF Stored, NoRow
      <4> QED BY <2>2, <3>1, <3>2, <3>3, <4>1, <1>4, <1>5
    <3>4. CASE KeyOf(v) # KeyOf(w)
      <4>1. KeyOf(v) \in Key \cup {None}
        BY <1>1 DEF KeyOf, Request
      <4> QED BY <3>1, <3>2, <3>4, <4>1, <1>4, <1>5
    <3> QED BY <3>3, <3>4
  <2> QED BY <2>1, <2>2
<1>12. AnswersAreTrue'
  <2>1. \A v \in Worker : At(v, "conflict")' => At(v, "conflict")
    BY <1>3, <1>4 DEF At
  <2>2. \A k \in Key : Stored(k) => Stored(k)'
    BY <1>5 DEF Stored
  <2>3. \A v \in Worker : v \in effects' => v \in effects \/ req'[v].answer = "none"
    BY <1>2, <1>4
  <2> QED BY <1>4, <2>1, <2>2, <2>3, AnswersFrame
<1>13. OncePerRound'
  <2> DEFINE done == {v \in effects : KeyOf(v) \in Gated}
  <2>1. done' = IF KeyOf(w) \in Gated THEN done \cup {w} ELSE done
    BY <1>1, <1>4
  <2>2. IsFiniteSet(done) /\ w \notin done
    BY <1>1, <1>2, WorkerAssumption, FS_Subset
  <2>3. Cardinality(done) + (IF ready THEN 1 ELSE 0) = rounds
    BY DEF IInv, OncePerRound
  <2>4. Cardinality(done) \in Nat
    BY <2>2, FS_CardinalityType
  <2>5. ready \in BOOLEAN
    BY DEF IInv, TypeOK
  <2>6. Cardinality(done') + (IF ready' THEN 1 ELSE 0) = rounds
    <3>1. CASE KeyOf(w) \in Gated
      <4>1. ready /\ ~ready'
        <5>1. lock = w /\ w # None
          BY <3>1, <1>2, NoneAssumption DEF IInv, RequestsOK, RequestFits, At
        <5> QED BY <3>1, <5>1 DEF IInv, HeldWhileOpen
      <4>2. Cardinality(done') = Cardinality(done) + 1
        BY <3>1, <2>1, <2>2, FS_AddElement
      <4> HIDE DEF done
      <4> QED BY <4>1, <4>2, <2>3, <2>4
    <3>2. CASE KeyOf(w) \notin Gated
      <4> HIDE DEF done
      <4> QED BY <3>2, <2>1, <2>3, <2>5
    <3> QED BY <3>1, <3>2
  <2> QED BY <2>6 DEF OncePerRound
<1> QED BY <1>7, <1>8, <1>9, <1>10, <1>11, <1>12, <1>13 DEF IInv
LEMMA ExpireKeeps ==
  ASSUME IInv, NEW k \in Key, Expire(k)
  PROVE  IInv'
<1> USE DEF Expire
<1>1. rows \in [Key -> Row \cup {NoRow}] /\ effects \subseteq Worker
  BY DEF IInv, TypeOK
<1>2. rows[k] \in Row
  BY <1>1 DEF NoRow
<1>3. /\ rows' \in [Key -> Row \cup {NoRow}]
      /\ \A j \in Key : rows'[j].by = rows[j].by /\ (Stored(j)' <=> Stored(j))
  <2>1. /\ rows'[k] = [rows[k] EXCEPT !.fresh = FALSE]
        /\ \A j \in Key \ {k} : rows'[j] = rows[j]
    BY <1>1
  <2>2. rows'[k] \in Row /\ rows'[k].by = rows[k].by
    BY <1>2, <2>1 DEF Row
  <2>3. rows[k] # NoRow /\ rows'[k] # NoRow
    BY <1>2, <2>2, NoneAssumption DEF Row, NoRow
  <2>4. rows' \in [Key -> Row \cup {NoRow}]
    BY <1>1, <1>2, <2>1, <2>2
  <2> QED BY <2>1, <2>2, <2>3, <2>4 DEF Stored
<1>4. \A v \in Worker : KeyOf(v)' = KeyOf(v)
  BY DEF KeyOf
<1>5. TypeOK'
  BY <1>3 DEF IInv, TypeOK
<1>6. \A v \in Worker : KeyOf(v) \in Key \cup {None}
  BY DEF IInv, TypeOK, Request, KeyOf
<1>7. RequestsOK'
  <2> SUFFICES ASSUME NEW v \in Worker PROVE RequestFits(v)'
    BY DEF RequestsOK
  <2>1. At(v, "inserted") => KeyOf(v) \in Key
    BY <1>6 DEF IInv, RequestsOK, RequestFits, At
  <2>2. At(v, "inserted") => ~Stored(KeyOf(v))'
    <3>1. At(v, "inserted") => rows'[KeyOf(v)] = NoRow
      BY <2>1, <1>3 DEF IInv, RequestsOK, RequestFits, Stored
    <3> QED BY <3>1, <1>4 DEF Stored, KeyOf
  <2> QED BY <2>2 DEF IInv, RequestsOK, RequestFits, At, KeyOf
<1>8. HeldWhileOpen'
  BY DEF IInv, HeldWhileOpen, At, KeyOf
<1>9. RowsOwned'
  BY <1>3 DEF IInv, RowsOwned, KeyOf
<1>10. EffectsRecorded'
  BY <1>3, <1>4, <1>6 DEF IInv, EffectsRecorded
<1>11. AnswersAreTrue'
  BY <1>3, <1>4, AnswersFrame DEF At
<1>12. OncePerRound'
  BY DEF IInv, OncePerRound, KeyOf
<1> QED BY <1>5, <1>7, <1>8, <1>9, <1>10, <1>11, <1>12 DEF IInv

LEMMA MakeReadyKeeps ==
  ASSUME IInv, MakeReady
  PROVE  IInv'
<1> USE DEF MakeReady
<1>1. TypeOK'
  BY BoundAssumption DEF IInv, TypeOK
<1>2. RequestsOK'
  BY DEF IInv, RequestsOK, RequestFits, At, KeyOf, Stored
<1>3. HeldWhileOpen'
  BY DEF IInv, HeldWhileOpen, At, KeyOf
<1>4. RowsOwned' /\ EffectsRecorded' /\ AnswersAreTrue'
  BY DEF IInv, RowsOwned, EffectsRecorded, AnswersAreTrue, Stored, KeyOf, At
<1>5. OncePerRound'
  <2> DEFINE done == {v \in effects : KeyOf(v) \in Gated}
  <2>1. done' = done
    BY DEF KeyOf
  <2>2. Cardinality(done) \in Nat
    <3>1. IsFiniteSet(done)
      BY WorkerAssumption, FS_Subset DEF IInv, TypeOK
    <3> QED BY <3>1, FS_CardinalityType
  <2>3. Cardinality(done) = rounds
    BY <2>2 DEF IInv, OncePerRound
  <2>4. Cardinality(done') + 1 = rounds'
    BY <2>1, <2>3
  <2> QED BY <2>4 DEF OncePerRound
<1> QED BY <1>1, <1>2, <1>3, <1>4, <1>5 DEF IInv

LEMMA InitKeeps ==
  ASSUME Init
  PROVE  IInv
<1> USE DEF Init
<1>1. TypeOK
  BY BoundAssumption DEF TypeOK, Request, NewRequest
<1>2. RequestsOK
  BY DEF RequestsOK, RequestFits, At, KeyOf, NewRequest
<1>3. HeldWhileOpen /\ RowsOwned /\ EffectsRecorded /\ AnswersAreTrue
  BY DEF HeldWhileOpen, RowsOwned, EffectsRecorded, AnswersAreTrue, Stored,
         KeyOf, At, NewRequest
<1>4. OncePerRound
  <2>1. {v \in effects : KeyOf(v) \in Gated} = {}
    OBVIOUS
  <2> QED BY <2>1, FS_EmptySet DEF OncePerRound
<1> QED BY <1>1, <1>2, <1>3, <1>4 DEF IInv

\* Any step of any request, and a stutter, keeps the invariant.
LEMMA StepKeeps ==
  ASSUME IInv, [Next]_vars
  PROVE  IInv'
<1>1. CASE UNCHANGED vars
  BY <1>1 DEF vars, IInv, TypeOK, RequestsOK, RequestFits, HeldWhileOpen,
     RowsOwned, EffectsRecorded, AnswersAreTrue, OncePerRound, At, KeyOf, Stored
<1>2. CASE \E w \in Worker, k \in Key, b \in Body : LookUp(w, k, b)
  BY <1>2, LookUpKeeps
<1>3. CASE \E w \in Worker : Serve(w)
  <2>1. PICK w \in Worker : Serve(w)
    BY <1>3
  <2> QED BY <2>1, WorkKeeps, AnswerKeeps, InsertKeyKeeps, UndoneKeeps, CommitKeeps
          DEF Serve
<1>4. CASE Disturb
  BY <1>4, UndoneKeeps, ExpireKeeps, MakeReadyKeeps DEF Disturb
<1> QED BY <1>1, <1>2, <1>3, <1>4 DEF Next

-----------------------------------------------------------------------------
(* Theorems *)

\* The inductive invariant: what a request holds and has done at each of its
\* steps, and that every stored row belongs to a committed effect.
THEOREM Invariant == Spec => []IInv
BY InitKeeps, StepKeeps, PTL DEF Spec

\* Rows, locks, index entries and requests keep their types.
THEOREM TypeCorrect == Spec => []TypeOK
<1>1. IInv => TypeOK
  BY DEF IInv
<1> QED BY <1>1, Invariant, PTL

\* A request's writes are committed exactly if its key's row is its own, so
\* a key has one effect at most (with_idempotency, commit_or_recover).
THEOREM OneEffectPerKey ==
  Spec => []( /\ EffectsRecorded
              /\ \A v, w \in effects : KeyOf(v) = KeyOf(w) => v = w )
<1>1. IInv => /\ EffectsRecorded
              /\ \A v, w \in effects : KeyOf(v) = KeyOf(w) => v = w
  BY DEF IInv, EffectsRecorded, TypeOK
<1> QED BY <1>1, Invariant, PTL

\* A success answer names committed work of the same key; an error answer
\* means nothing was done; the winner of a race is always found.
THEOREM AnswersTrue == Spec => []AnswersAreTrue
<1>1. IInv => AnswersAreTrue
  BY DEF IInv
<1> QED BY <1>1, Invariant, PTL

\* A gated operation is done once per time its subject becomes ready.
THEOREM GatedOncePerRound == Spec => []OncePerRound
<1>1. IInv => OncePerRound
  BY DEF IInv
<1> QED BY <1>1, Invariant, PTL

\* Every lock and index entry belongs to a transaction that is still open.
THEOREM NothingLeaks == Spec => []HeldWhileOpen
<1>1. IInv => HeldWhileOpen
  BY DEF IInv
<1> QED BY <1>1, Invariant, PTL
\* Whoever has its lock waits at most for one that has its key entry too, and
\* that one waits for nobody: no requests wait in a circle, however many.
THEOREM NobodyStandsStill == Spec => []NoStandstill
<1>1. ASSUME IInv, NEW w \in Worker, NEW v \in Worker, WaitsFor(w, v)
      PROVE  \/ At(v, "inserted") /\ req[w].pc \in {"missed", "worked"}
             \/ At(v, "worked") /\ At(w, "missed")
  <2>1. v # None
    BY NoneAssumption
  <2>2. At(w, "worked") => KeyOf(w) \in Key
    BY <1>1 DEF IInv, TypeOK, RequestsOK, RequestFits, Request, At, KeyOf
  <2> QED BY <1>1, <2>1, <2>2 DEF WaitsFor, IInv, HeldWhileOpen, At
<1>2. IInv => NoStandstill
  <2> SUFFICES ASSUME IInv, NEW group \in SUBSET Worker, group # {},
                      \A w \in group : \E v \in group : WaitsFor(w, v)
               PROVE  FALSE
    BY DEF NoStandstill
  <2>1. PICK w \in group : TRUE
    OBVIOUS
  <2>2. PICK v \in group : WaitsFor(w, v)
    OBVIOUS
  <2>3. PICK u \in group : WaitsFor(v, u)
    OBVIOUS
  <2>4. PICK x \in group : WaitsFor(u, x)
    OBVIOUS
  <2>5. At(v, "worked")
    BY <1>1, <2>2, <2>3 DEF At
  <2>6. At(u, "inserted")
    BY <1>1, <2>3, <2>5 DEF At
  <2> QED BY <1>1, <2>4, <2>6 DEF At
<1> QED BY Invariant, <1>2, PTL

-----------------------------------------------------------------------------
(* Refinement *)

\* A step that leaves what each request carries and was told as it is, but
\* for one unanswered request, which it answers truly.
LEMMA TellMaps ==
  ASSUME IInv, NEW w \in Worker, NEW k \in Key, NEW r \in Request,
         req' = [req EXCEPT ![w] = r], r.key = k,
         UNCHANGED <<rows, ready>>,
         req[w].answer = "none", req[w].of = None,
         \/ r.answer = "ok" /\ r.of = rows[k].by /\ r.of # None
         \/ r.answer \in {"refused", "reused", "failed"} /\ r.of = None
              /\ w \notin effects
         \/ r.answer = "lost" /\ r.of = None
  PROVE  /\ KeyOf(w) = k => Promise!Tell(w, k)
         /\ KeyOf(w) = None => Promise!Ask(w, k)
<1>1. /\ req \in [Worker -> Request]
      /\ req'[w] = r /\ \A v \in Worker \ {w} : req'[v] = req[v]
  BY DEF IInv, TypeOK
<1> DEFINE told == [v \in Worker |-> [says |-> Said(v), of |-> req[v].of]]
           asks == [v \in Worker |-> req[v].key]
           by == [j \in Key |-> rows[j].by]
<1>2. told[w] = [says |-> "none", of |-> None]
  BY DEF Said
<1>3. told' = [told EXCEPT ![w] = [says |-> Said(w)', of |-> r.of]]
  BY <1>1 DEF Said
<1>4. \/ by[k] # None /\ Said(w)' = "ok" /\ r.of = by[k]
      \/ by[k] # w /\ Said(w)' = "not_done" /\ r.of = None
      \/ Said(w)' = "lost" /\ r.of = None
  <2>1. w \notin effects => rows[k].by # w
    BY NoneAssumption DEF IInv, RowsOwned, Stored, NoRow
  <2> QED BY <1>1, <2>1 DEF Said
<1>5. asks' = [asks EXCEPT ![w] = k] /\ asks[w] = KeyOf(w)
  BY <1>1 DEF KeyOf
<1>6. by' = by /\ asks \in [Worker -> Key \cup {None}]
  BY <1>1 DEF Request
<1>7. Promise!Answered(w, k)
  <2> HIDE DEF told, by
  <2>1. told[w].says = "none"
    BY <1>2
  <2>2. \/ by[k] # None /\ told' = [told EXCEPT ![w] = [says |-> "ok", of |-> by[k]]]
        \/ by[k] # w /\ told' = [told EXCEPT ![w] = [says |-> "not_done", of |-> None]]
        \/ told' = [told EXCEPT ![w] = [says |-> "lost", of |-> None]]
    BY <1>3, <1>4
  <2> QED BY <2>1, <2>2 DEF Promise!Answered, Promise!Unanswered, Promise!Answer,
                            told, by
<1>8. KeyOf(w) = k => asks' = asks
  BY <1>5, <1>6
<1> QED BY <1>5, <1>6, <1>7, <1>8 DEF Promise!Tell, Promise!Ask

\* Where a request is, and what it holds, is nothing the promise is about.
LEMMA SilentMaps ==
  ASSUME IInv, ready' = ready,
         \A k \in Key : rows'[k].by = rows[k].by,
         \A v \in Worker : /\ req'[v].key = req[v].key
                           /\ req'[v].answer = req[v].answer
                           /\ req'[v].of = req[v].of
  PROVE  UNCHANGED Promise!vars
<1>1. \A v \in Worker : Said(v)' = Said(v)
  BY DEF Said
<1> QED BY <1>1 DEF Promise!vars

LEMMA ArrivalMaps ==
  ASSUME IInv, NEW w \in Worker, NEW k \in Key, NEW b \in Body, LookUp(w, k, b)
  PROVE  Promise!Ask(w, k)
<1>1. req \in [Worker -> Request] /\ rows[k] \in Row \cup {NoRow}
  BY DEF IInv, TypeOK
<1>2. /\ At(w, "new") /\ KeyOf(w) = None /\ w \notin effects
      /\ req[w].answer = "none" /\ req[w].of = None
      /\ UNCHANGED <<rows, ready>>
  BY DEF LookUp, Replay, RejectReuse, ClearExpired, Miss, Arrived,
         IInv, TypeOK, RequestsOK, RequestFits, At
<1>3. CASE Replay(w, k, b)
  <2> DEFINE r == [pc |-> "done", key |-> k, body |-> b, answer |-> "ok",
                   of |-> Found(k).by]
  <2>1. Found(k) = rows[k] /\ rows[k].by \in Worker
    BY <1>1, <1>3 DEF Replay, Found, Row, NoRow
  <2>2. r \in Request /\ req' = [req EXCEPT ![w] = r]
    BY <1>3, <2>1 DEF Replay, Arrived, Request
  <2>3. r.key = k /\ r.answer = "ok" /\ r.of = rows[k].by /\ r.of # None
    BY <2>1, NoneAssumption
  <2> HIDE DEF r
  <2> QED BY <1>2, <2>2, <2>3, TellMaps
<1>4. CASE RejectReuse(w, k, b) \/ ClearExpired(w, k, b)
  <2>1. PICK answer \in {"reused", "failed"} :
          Arrived(w, k, b, "done", answer, None)
    BY <1>4 DEF RejectReuse, ClearExpired
  <2> DEFINE r == [pc |-> "done", key |-> k, body |-> b, answer |-> answer,
                   of |-> None]
  <2>2. r \in Request /\ req' = [req EXCEPT ![w] = r]
    BY <2>1 DEF Arrived, Request
  <2>3. r.key = k /\ r.answer \in {"refused", "reused", "failed"} /\ r.of = None
    BY <2>1
  <2> HIDE DEF r
  <2> QED BY <1>2, <2>2, <2>3, TellMaps
<1>5. CASE Miss(w, k, b)
  <2> DEFINE told == [v \in Worker |-> [says |-> Said(v), of |-> req[v].of]]
             asks == [v \in Worker |-> req[v].key]
             by == [j \in Key |-> rows[j].by]
  <2>1. /\ req'[w].key = k /\ req'[w].answer = "none" /\ req'[w].of = None
        /\ \A v \in Worker \ {w} : req'[v] = req[v]
    BY <1>1, <1>5 DEF Miss, Arrived
  <2>2. \A v \in Worker : Said(v)' = Said(v) /\ req'[v].of = req[v].of
    BY <1>2, <2>1 DEF Said
  <2>3. told' = told /\ by' = by
    BY <1>2, <2>2
  <2>4. asks' = [asks EXCEPT ![w] = k] /\ asks[w] = None
    BY <1>2, <2>1 DEF KeyOf
  <2> QED BY <1>2, <2>3, <2>4 DEF Promise!Ask
<1> QED BY <1>3, <1>4, <1>5 DEF LookUp

\* Every step of a request that is on its way, and its death.
LEMMA AnswerMaps ==
  ASSUME IInv, NEW w \in Worker,
         Refuse(w) \/ Reply(w) \/ RecoverWinner(w) \/ Lose(w)
  PROVE  \E k \in Key : Promise!Tell(w, k)
<1>1. req \in [Worker -> Request] /\ rows \in [Key -> Row \cup {NoRow}]
  BY DEF IInv, TypeOK
<1>2. /\ KeyOf(w) \in Key /\ req[w].answer = "none" /\ req[w].of = None
      /\ req[w].pc \in {"missed", "conflict"} => w \notin effects
      /\ UNCHANGED <<rows, ready>>
  BY <1>1 DEF Refuse, Reply, RecoverWinner, Lose, Rollback, InFlight,
         IInv, TypeOK, RequestsOK, RequestFits, Request, At, KeyOf
<1>3. PICK answer \in {"ok", "refused", "failed", "lost"},
           of \in Worker \cup {None} :
        /\ Finish(w, answer, of)
        /\ \/ answer = "ok" /\ of = rows[KeyOf(w)].by /\ of # None
           \/ answer \in {"refused", "failed"} /\ of = None /\ w \notin effects
           \/ answer = "lost" /\ of = None
  <2>1. CASE Refuse(w)
    BY <2>1, <1>2 DEF Refuse, At
  <2>2. CASE Reply(w)
    <3>1. w \in effects /\ w # None
      BY <2>2, NoneAssumption DEF Reply, IInv, RequestsOK, RequestFits, At
    <3>2. w = rows[KeyOf(w)].by
      BY <3>1 DEF IInv, EffectsRecorded
    <3> QED BY <2>2, <3>1, <3>2 DEF Reply
  <2>3. CASE RecoverWinner(w)
    <3>1. Found(KeyOf(w)) # NoRow /\ Found(KeyOf(w)) = rows[KeyOf(w)]
      BY <2>3 DEF RecoverWinner, IInv, AnswersAreTrue, Stored, Found
    <3>2. rows[KeyOf(w)].by \in Worker /\ rows[KeyOf(w)].by # None
      BY <1>1, <1>2, <3>1, NoneAssumption DEF Row
    <3> QED BY <2>3, <3>1, <3>2 DEF RecoverWinner
  <2>4. CASE Lose(w)
    BY <2>4 DEF Lose
  <2> QED BY <2>1, <2>2, <2>3, <2>4
<1>0. PICK k \in Key : k = KeyOf(w)
  BY <1>2
<1> DEFINE r == [req[w] EXCEPT !.pc = "done", !.answer = answer, !.of = of]
<1>4. r \in Request /\ req' = [req EXCEPT ![w] = r]
  BY <1>1, <1>3 DEF Finish, Request
<1>5. r.key = k /\ r.answer = answer /\ r.of = of
  BY <1>1, <1>0 DEF Request, KeyOf
<1> HIDE DEF r
<1>6. Promise!Tell(w, k)
  BY <1>2, <1>3, <1>4, <1>5, <1>0, TellMaps
<1> QED BY <1>6

LEMMA CommitMaps ==
  ASSUME IInv, NEW w \in Worker, Commit(w)
  PROVE  \E k \in Key : Promise!Perform(w, k)
<1> USE DEF Commit
<1>1. /\ req \in [Worker -> Request] /\ rows \in [Key -> Row \cup {NoRow}]
      /\ ready \in BOOLEAN
  BY DEF IInv, TypeOK
<1>2. /\ At(w, "inserted") /\ KeyOf(w) \in Key /\ req[w].answer = "none"
      /\ rows[KeyOf(w)] = NoRow
      /\ KeyOf(w) \in Gated => lock = w /\ lock # None
  BY <1>1, NoneAssumption
     DEF IInv, RequestsOK, RequestFits, At, KeyOf, Request, Stored
<1>0. PICK k \in Key : k = KeyOf(w)
  BY <1>2
<1>3. k \in Gated => ready
  BY <1>2, <1>0 DEF IInv, HeldWhileOpen
<1>4. \A v \in Worker : /\ req'[v].key = req[v].key
                        /\ req'[v].answer = req[v].answer
                        /\ req'[v].of = req[v].of
  BY <1>1 DEF Step, Request
<1> DEFINE told == [v \in Worker |-> [says |-> Said(v), of |-> req[v].of]]
           asks == [v \in Worker |-> req[v].key]
           by == [j \in Key |-> rows[j].by]
<1>5. told' = told /\ asks' = asks
  BY <1>4 DEF Said
<1>6. by' = [by EXCEPT ![k] = w] /\ by[k] = None
  <2>1. /\ rows'[k].by = w
        /\ \A j \in Key \ {k} : rows'[j].by = rows[j].by
    <3> DEFINE row == [hash |-> req[w].body, by |-> w, fresh |-> TRUE]
    <3>1. rows' = [rows EXCEPT ![k] = row] /\ row.by = w
      BY <1>0 DEF Recorded, NewRow
    <3> HIDE DEF row
    <3> QED BY ONLY <1>1, <1>2, <1>0, <3>1
  <2>2. rows[k].by = None
    BY <1>2, <1>0 DEF NoRow
  <2> QED BY ONLY <1>2, <1>0, <2>1, <2>2
<1>7. asks[w] = k /\ told[w].says = "none"
  BY <1>2, <1>0 DEF KeyOf, Said
<1>8. ready' = (ready /\ k \notin Gated)
  BY <1>0
<1>9. Promise!Unanswered(w)
  BY <1>7 DEF Promise!Unanswered
<1>10. Promise!Perform(w, k)
  BY ONLY <1>2, <1>0, <1>3, <1>5, <1>6, <1>7, <1>8, <1>9 DEF Promise!Perform
<1> QED BY <1>10

LEMMA UntoldMaps ==
  ASSUME IInv, NEW w \in Worker,
         WorkOpen(w) \/ WorkGated(w) \/ InsertKey(w) \/ Conflict(w)
  PROVE  UNCHANGED Promise!vars
<1>1. PICK pc \in {"worked", "inserted", "conflict"} : Step(w, pc)
  BY DEF WorkOpen, WorkGated, InsertKey, Conflict
<1>2. \A v \in Worker : /\ req'[v].key = req[v].key
                        /\ req'[v].answer = req[v].answer
                        /\ req'[v].of = req[v].of
  BY <1>1 DEF Step, IInv, TypeOK, Request
<1>3. UNCHANGED <<rows, ready>>
  BY DEF WorkOpen, WorkGated, InsertKey, Conflict, Rollback
<1> QED BY <1>2, <1>3, SilentMaps

\* A day that passes changes no row's owner.
LEMMA ExpiryMaps ==
  ASSUME IInv, NEW k \in Key, Expire(k)
  PROVE  UNCHANGED Promise!vars
<1>1. rows \in [Key -> Row \cup {NoRow}] /\ rows[k] \in Row
  BY DEF Expire, IInv, TypeOK, NoRow
<1>2. \A j \in Key : rows'[j].by = rows[j].by
  BY <1>1 DEF Expire, Row
<1> QED BY <1>2, SilentMaps DEF Expire

LEMMA ReadyMaps == MakeReady => Promise!MakeReady
<1> SUFFICES ASSUME MakeReady PROVE Promise!MakeReady
  OBVIOUS
<1>1. \A v \in Worker : Said(v)' = Said(v)
  BY DEF MakeReady, Said
<1> QED BY <1>1 DEF MakeReady, Promise!MakeReady

LEMMA InitMaps == Init => Promise!Init
<1> SUFFICES ASSUME Init PROVE Promise!Init
  OBVIOUS
<1>1. \A v \in Worker : /\ req[v].key = None /\ req[v].of = None
                        /\ Said(v) = "none"
  BY DEF Init, NewRequest, Said
<1>2. \A k \in Key : rows[k].by = None
  BY DEF Init, NoRow
<1> QED BY <1>1, <1>2 DEF Init, Promise!Init, Promise!Answer

LEMMA StepMaps ==
  ASSUME IInv, [Next]_vars
  PROVE  [Promise!Next]_Promise!vars
<1>1. CASE UNCHANGED vars
  BY <1>1, SilentMaps DEF vars
<1>2. CASE \E w \in Worker, k \in Key, b \in Body : LookUp(w, k, b)
  BY <1>2, ArrivalMaps DEF Promise!Next
<1>3. CASE \E w \in Worker : Serve(w) \/ Lose(w)
  <2>1. PICK w \in Worker : Serve(w) \/ Lose(w)
    BY <1>3
  <2>2. CASE WorkOpen(w) \/ WorkGated(w) \/ InsertKey(w) \/ Conflict(w)
    BY <2>2, UntoldMaps
  <2>3. CASE Refuse(w) \/ Reply(w) \/ RecoverWinner(w) \/ Lose(w)
    BY <2>3, AnswerMaps DEF Promise!Next
  <2>4. CASE Commit(w)
    BY <2>4, CommitMaps DEF Promise!Next
  <2> QED BY <2>1, <2>2, <2>3, <2>4 DEF Serve
<1>4. CASE \E k \in Key : Expire(k)
  BY <1>4, ExpiryMaps
<1>5. CASE MakeReady
  BY <1>5, ReadyMaps DEF Promise!Next
<1> QED BY <1>1, <1>2, <1>3, <1>4, <1>5 DEF Next, Disturb

\* For any number of requests, keys and bodies the handlers, the key table and
\* the row lock implement the promise: one indivisible step per key, at most
\* once, told of truthfully or not at all (with_idempotency,
\* commit_or_recover).
THEOREM OnceOnlyImplemented == Spec => ImplementsOnceOnly
BY Invariant, InitMaps, StepMaps, PTL DEF Spec, ImplementsOnceOnly, Promise!Spec

=============================================================================
