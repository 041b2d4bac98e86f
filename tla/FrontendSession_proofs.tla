------------------------- MODULE FrontendSession_proofs -------------------------
(***************************************************************************)
(* The cache holds answers to the signed-in user, and of others only to    *)
(* those whose session a login replaced since the last sign-out, for any   *)
(* number of users, firms, claims fetches and queries.                     *)
(***************************************************************************)
EXTENDS FrontendSession, TLAPS

\* Whose answers the cache may hold.
Known(u) == (stored # None /\ u = stored.user) \/ u \in replaced

\* A query that is still in the cache was sent for such a user.
QueriesFit ==
  \A f \in Fetch :
    fetch[f].pc = "sent" /\ fetch[f].key # None /\ fetch[f].by # None
    => Known(fetch[f].by)

IInv == TypeOK /\ QueriesFit /\ CacheIsOwnUnlessReplaced

-----------------------------------------------------------------------------
(* applySessionUpdate                                                      *)

LEMMA ClearedType ==
  ASSUME NEW queries, Cleared(queries),
         queries \in [Fetch -> Query]
  PROVE  /\ fetch' \in [Fetch -> Query]
         /\ \A f \in Fetch : fetch'[f].key = None
         /\ cache' = {}
  BY DEF Cleared, Query

\* A sign-out keeps the invariant: nothing attached is left.
LEMMA EndSessionInv ==
  ASSUME IInv, NEW queries, EndSession(queries),
         queries \in [Fetch -> Query],
         login' = login, boot' \subseteq boot
  PROVE  IInv'
<1>1. Cleared(queries) /\ replaced' = {}
  BY DEF EndSession, ShowSignedOut
<1>2. TypeOK'
  BY <1>1, ClearedType
     DEF IInv, TypeOK, Query, EndSession, ShowSignedOut, SignedOut, Loading, State, Entry
<1>3. QueriesFit' /\ CacheIsOwnUnlessReplaced'
  BY <1>1, ClearedType DEF EndSession, QueriesFit, CacheIsOwnUnlessReplaced
<1> QED BY <1>2, <1>3 DEF IInv

\* For a session, Notify starts a fetch of its claims and notes whom it replaces.
LEMMA NotifySession ==
  ASSUME TypeOK, NEW session \in Token, Notify(session)
  PROVE  /\ update' \in [Update -> [pc : {"idle", "asking", "verifying"},
                                    token : Token \cup {None}]]
         /\ UNCHANGED <<shown, fetch, cache>>
         /\ replaced' = IF stored # None /\ stored.user # session.user
                        THEN replaced \cup {stored.user} ELSE replaced
<1>1. session # None
  BY NoneAssumption
<1> QED BY <1>1 DEF TypeOK, Notify

\* The store is told of a session: of the user who is signed in, or of another.
LEMMA SessionInv ==
  ASSUME IInv, stored' \in Token, Notify(stored'),
         login' \in User \cup {None}, boot' \subseteq boot
  PROVE  IInv'
<1>1. stored' # None
  BY NoneAssumption
<1> DEFINE now == stored'
<1>2. /\ update' \in [Update -> [pc : {"idle", "asking", "verifying"},
                                 token : Token \cup {None}]]
      /\ UNCHANGED <<shown, fetch, cache>>
      /\ replaced' = IF stored # None /\ stored.user # now.user
                     THEN replaced \cup {stored.user} ELSE replaced
  <2>1. now \in Token /\ Notify(now)
    OBVIOUS
  <2> HIDE DEF now
  <2> QED BY <2>1, NotifySession DEF IInv
<1>3. stored # None => stored.user \in User
  BY DEF IInv, TypeOK, Token
<1>4. TypeOK'
  BY <1>2, <1>3 DEF IInv, TypeOK
<1>5. \A u : Known(u) => Known(u)'
  BY <1>1, <1>2 DEF Known
<1>6. QueriesFit'
  BY <1>2, <1>5 DEF IInv, QueriesFit
<1>7. CacheIsOwnUnlessReplaced'
  <2> SUFFICES ASSUME NEW e \in cache PROVE Known(e.of)'
    BY <1>2 DEF CacheIsOwnUnlessReplaced, Known
  <2>1. Known(e.of)
    BY DEF IInv, CacheIsOwnUnlessReplaced, Known
  <2> QED BY <2>1, <1>5
<1> QED BY <1>4, <1>6, <1>7 DEF IInv

\* A step that touches neither the session nor an answer.
LEMMA QuietInv ==
  ASSUME IInv, UNCHANGED <<stored, replaced>>, cache' \subseteq cache, TypeOK',
         \A f \in Fetch : \/ fetch'[f] = fetch[f]
                          \/ fetch'[f].pc # "sent"
                          \/ fetch'[f].by = IF stored = None THEN None ELSE stored.user
  PROVE  IInv'
<1>1. QueriesFit'
  BY DEF IInv, QueriesFit, Known
<1>2. CacheIsOwnUnlessReplaced'
  BY DEF IInv, CacheIsOwnUnlessReplaced
<1> QED BY <1>1, <1>2 DEF IInv

-----------------------------------------------------------------------------
(* The steps                                                               *)

LEMMA StartInv ==
  ASSUME IInv, NEW channel \in boot, Start(channel)
  PROVE  IInv'
<1>1. CASE stored = None
  <2>1. EndSession(fetch) /\ UNCHANGED login
    BY <1>1 DEF Start, Notify, EndSession
  <2> QED BY <2>1, EndSessionInv DEF Start, IInv, TypeOK
<1>2. CASE stored # None
  <2>1. stored' \in Token /\ Notify(stored')
    BY <1>2 DEF IInv, TypeOK, Start
  <2> QED BY <2>1, SessionInv DEF Start, IInv, TypeOK
<1> QED BY <1>1, <1>2

LEMMA ClientInv ==
  ASSUME IInv, Refresh \/ UserUpdated \/ Expire \/ LogOut
  PROVE  IInv'
<1>1. CASE Refresh
  <2>1. PICK mustChange \in BOOLEAN : stored' = [stored EXCEPT !.mustChange = mustChange]
    BY <1>1 DEF Refresh
  <2>2. stored \in Token
    BY <1>1 DEF Refresh, IInv, TypeOK
  <2>3. stored' \in Token
    BY <2>1, <2>2 DEF Token
  <2> QED BY <1>1, <2>3, SessionInv DEF Refresh, IInv, TypeOK
<1>2. CASE UserUpdated
  <2>1. stored' \in Token /\ Notify(stored')
    BY <1>2 DEF UserUpdated, IInv, TypeOK
  <2> QED BY <1>2, <2>1, SessionInv DEF UserUpdated, IInv, TypeOK
<1>3. CASE Expire
  BY <1>3, EndSessionInv DEF Expire, IInv, TypeOK, Query
<1>4. CASE LogOut
  BY <1>4, EndSessionInv DEF LogOut, IInv, TypeOK, Query
<1> QED BY <1>1, <1>2, <1>3, <1>4

LEMMA LoginInv ==
  ASSUME IInv, LoginEnds \/ \E u \in User : Login(u)
  PROVE  IInv'
<1>1. CASE \E u \in User : Login(u)
  <2>1. TypeOK'
    BY <1>1 DEF Login, IInv, TypeOK
  <2> QED BY <1>1, <2>1, QuietInv DEF Login
<1>2. CASE LoginEnds
  <2>1. CASE UNCHANGED <<stored, update, shown, fetch, cache, replaced>>
    <3>1. TypeOK'
      BY <1>2, <2>1 DEF LoginEnds, IInv, TypeOK
    <3> QED BY <2>1, <3>1, QuietInv
  <2>2. CASE /\ \E mustChange \in BOOLEAN :
                  stored' = [user |-> login, mustChange |-> mustChange]
             /\ Notify(stored')
    <3>1. login \in User
      BY <1>2 DEF LoginEnds, IInv, TypeOK, Query
    <3>2. stored' \in Token
      BY <2>2, <3>1 DEF Token
    <3> QED BY <1>2, <2>2, <3>2, SessionInv DEF LoginEnds, IInv, TypeOK
  <2> QED BY <1>2, <2>1, <2>2 DEF LoginEnds
<1> QED BY <1>1, <1>2

LEMMA ClaimsInv ==
  ASSUME IInv, NEW a \in Update, ReadClaims(a) \/ ShowClaims(a)
  PROVE  IInv'
<1>1. CASE ReadClaims(a)
  <2>1. TypeOK'
    BY <1>1 DEF ReadClaims, IInv, TypeOK, Query
  <2> QED BY <1>1, <2>1, QuietInv DEF ReadClaims
<1>2. CASE ShowClaims(a)
  <2>1. update[a].token # None => Claims(update[a].token) \in State
    BY FirmOfAssumption
       DEF IInv, TypeOK, Query, Claims, NoClaims, SignedOut, Loading, State, Token
  <2>2. shown' \in State
    BY <1>2, <2>1 DEF ShowClaims, NoClaims, SignedOut, Loading, State
  <2>3. TypeOK'
    BY <1>2, <2>2 DEF ShowClaims, IInv, TypeOK, Query, IdleUpdate
  <2> QED BY <1>2, <2>3, QuietInv DEF ShowClaims
<1> QED BY <1>1, <1>2

LEMMA QueryInv ==
  ASSUME IInv, NEW f \in Fetch,
         Poll(f) \/ Send(f) \/ Answer(f) \/ Fail(f) \/ Refuse(f) \/ SignOut(f)
  PROVE  IInv'
<1>1. CASE Poll(f)
  <2>1. TypeOK'
    BY <1>1 DEF Poll, IInv, TypeOK, Query, State
  <2> QED BY <1>1, <2>1, QuietInv DEF Poll, IInv, TypeOK, Query
<1>2. CASE Send(f)
  <2> DEFINE by == IF stored = None THEN None ELSE stored.user
  <2>0. by \in User \cup {None}
    BY DEF IInv, TypeOK, Query, Token
  <2>1. TypeOK'
    <3>1. fetch' = [fetch EXCEPT ![f].pc = "sent", ![f].by = by]
      BY <1>2 DEF Send
    <3> HIDE DEF by
    <3>2. fetch[f] \in Query
      BY DEF IInv, TypeOK, Query
    <3>3. [fetch[f] EXCEPT !.pc = "sent", !.by = by]
            \in Query
      BY <2>0, <3>2 DEF Query
    <3>4. fetch' = [fetch EXCEPT ![f] = [fetch[f] EXCEPT !.pc = "sent", !.by = by]]
      BY <3>1 DEF IInv, TypeOK, Query
    <3>5. fetch' \in [Fetch -> Query]
      BY <3>3, <3>4 DEF IInv, TypeOK, Query
    <3> QED BY <1>2, <3>5 DEF Send, IInv, TypeOK, Query
  <2> QED BY <1>2, <2>1, QuietInv DEF Send, IInv, TypeOK, Query
<1>3. CASE Answer(f)
  <2>1. fetch[f].key # None => Known(fetch[f].by)
    BY <1>3 DEF Answer, IInv, QueriesFit
  <2>2. cache' \subseteq Entry
    BY <1>3 DEF Answer, IInv, TypeOK, Query, Entry
  <2>3. TypeOK'
    BY <1>3, <2>2 DEF Answer, IInv, TypeOK, Query, IdleFetch
  <2>4. CacheIsOwnUnlessReplaced'
    BY <1>3, <2>1 DEF Answer, IInv, CacheIsOwnUnlessReplaced, Known
  <2>5. QueriesFit'
    BY <1>3 DEF Answer, IInv, TypeOK, QueriesFit, Known, IdleFetch
  <2> QED BY <2>3, <2>4, <2>5 DEF IInv
<1>4. CASE Fail(f)
  <2>1. TypeOK'
    BY <1>4 DEF Fail, IInv, TypeOK, Query, IdleFetch
  <2> QED BY <1>4, <2>1, QuietInv DEF Fail, IInv, TypeOK, Query, IdleFetch
<1>5. CASE Refuse(f)
  <2>1. TypeOK'
    BY <1>5 DEF Refuse, AfterRefusal, IInv, TypeOK, Query
  <2> QED BY <1>5, <2>1, QuietInv DEF Refuse, AfterRefusal, IInv, TypeOK, Query
<1>6. CASE SignOut(f)
  <2> DEFINE rest == [fetch EXCEPT ![f] = IdleFetch]
  <2>1. rest \in [Fetch -> Query]
    BY DEF IInv, TypeOK, Query, IdleFetch
  <2>2. CASE EndSession(rest)
    BY <1>6, <2>1, <2>2, EndSessionInv DEF SignOut
  <2>3. CASE fetch' = rest /\ UNCHANGED <<stored, update, shown, cache, replaced>>
    <3>1. TypeOK'
      BY <1>6, <2>1, <2>3 DEF SignOut, IInv, TypeOK, Query
    <3> QED BY <1>6, <2>3, <3>1, QuietInv DEF SignOut, IInv, TypeOK, Query, IdleFetch
  <2> QED BY <1>6, <2>2, <2>3 DEF SignOut
<1> QED BY <1>1, <1>2, <1>3, <1>4, <1>5, <1>6

-----------------------------------------------------------------------------

LEMMA InitInv == Init => IInv
  BY NoneAssumption
     DEF Init, IInv, TypeOK, Query, QueriesFit, CacheIsOwnUnlessReplaced, Token, State, Loading,
         IdleUpdate, IdleFetch, Entry

LEMMA NextInv == IInv /\ [Next]_vars => IInv'
<1> SUFFICES ASSUME IInv, [Next]_vars PROVE IInv'
  OBVIOUS
<1>1. CASE UNCHANGED vars
  BY <1>1 DEF vars, IInv, TypeOK, Query, QueriesFit, Known,
                  CacheIsOwnUnlessReplaced
<1>2. CASE Next
  BY <1>2, StartInv, ClientInv, LoginInv, ClaimsInv, QueryInv DEF Next
<1> QED BY <1>1, <1>2

\* The inductive invariant holds in every reachable state of the window.
THEOREM Invariant == Spec => []IInv
  BY InitInv, NextInv, PTL DEF Spec

\* applySessionUpdate, apiRequest and the pages keep every variable in its
\* type.
THEOREM TypeCorrect == Spec => []TypeOK
<1>1. IInv => TypeOK
  BY DEF IInv
<1> QED BY <1>1, Invariant, PTL

\* Whatever the order of claims, answers, logins and sign-outs, the query
\* cache holds only answers to whoever is signed in, or to somebody whose
\* session a login replaced since the last sign-out.
THEOREM CacheBelongsToUser == Spec => []CacheIsOwnUnlessReplaced
<1>1. IInv => CacheIsOwnUnlessReplaced
  BY DEF IInv
<1> QED BY <1>1, Invariant, PTL

=============================================================================
