---------------------------- MODULE FrontendSession ----------------------------
(***************************************************************************)
(* What one window of the desktop app believes about who is signed in. The *)
(* Supabase client keeps the session and tells the session store of every  *)
(* change; for a session the store asks the client for the verified claims *)
(* and shows them when they come, which may be after the next change. What *)
(* is shown decides the page, the firm under which the pages' queries are  *)
(* cached and the firm named in error reports. A query sends whatever      *)
(* token the client has by then; an answer 401 signs out.                  *)
(*                                                                         *)
(*   update   idle --Notify--> asking --ReadClaims--> verifying --> idle   *)
(*   fetch    idle --Poll--> starting --Send--> sent --> idle              *)
(*                                               \--> refused --> idle     *)
(***************************************************************************)
EXTENDS FiniteSets

CONSTANTS
  User,
  Firm,
  FirmOf,    \* the firm_id claim of a user's tokens
  Update,    \* bound: applySessionUpdate calls that await their claims
  Fetch,     \* bound: queries in flight
  None

\* must_change_password is the profile's when the token is minted.
Token == [user : User, mustChange : BOOLEAN]

ASSUME FirmOfAssumption == FirmOf \in [User -> Firm]
ASSUME NoneAssumption == None \notin User \cup Firm \cup Token

VARIABLES
  stored,    \* the client's session
  login,     \* the user whose signInWithPassword is under way
  boot,      \* what a mounted SessionProvider still waits for
  update,    \* applySessionUpdate calls
  shown,     \* SessionState
  fetch,     \* queries in flight
  cache,     \* the query cache
  replaced   \* history: whose sessions a login replaced since the last sign-out

vars == <<stored, login, boot, update, shown, fetch, cache, replaced>>

-----------------------------------------------------------------------------
(* Definitions whose name starts with Bad are the bugs the properties are  *)
(* there to catch; no action uses them.                                    *)

\* Of the role nothing depends that is kept here. setSentryTenant is always
\* called with the state's firm.
State == [session : BOOLEAN, firm : Firm \cup {None}, mustChange : BOOLEAN,
          isLoading : BOOLEAN]

Loading == [session |-> FALSE, firm |-> None, mustChange |-> FALSE, isLoading |-> TRUE]
SignedOut == [Loading EXCEPT !.isLoading = FALSE]
NoClaims == [SignedOut EXCEPT !.session = TRUE]
BadClaims(token) == [NoClaims EXCEPT !.firm = token.user]   \* the wrong claim
Claims(token) == [NoClaims EXCEPT !.firm = FirmOf[token.user],
                                  !.mustChange = token.mustChange]

IdleUpdate == [pc |-> "idle", token |-> None]

\* `key` is the firm in the query key; a query removed from the cache has none.
Query == [pc : {"idle", "starting", "sent", "refused"},
          key : Firm \cup {None}, by : User \cup {None}]
IdleFetch == [pc |-> "idle", key |-> None, by |-> None]

\* An entry of the cache: the firm in its key, the user whose answer it is.
Entry == [key : Firm, of : User]

TypeOK ==
  /\ stored \in Token \cup {None}
  /\ login \in User \cup {None}
  /\ boot \subseteq {"getSession", "INITIAL_SESSION"}
  /\ update \in [Update -> [pc : {"idle", "asking", "verifying"},
                            token : Token \cup {None}]]
  /\ shown \in State
  /\ fetch \in [Fetch -> Query]
  /\ cache \subseteq Entry
  /\ replaced \subseteq User

\* The client's storage survives a restart of the app.
Init ==
  /\ stored \in Token \cup {None}
  /\ login = None
  /\ boot = {"getSession", "INITIAL_SESSION"}
  /\ update = [a \in Update |-> IdleUpdate]
  /\ shown = Loading
  /\ fetch = [f \in Fetch |-> IdleFetch]
  /\ cache = {}
  /\ replaced = {}

-----------------------------------------------------------------------------
(* applySessionUpdate                                                      *)

\* The cache outlives the session.
BadCleared(queries) == fetch' = queries /\ UNCHANGED cache

\* queryClient.clear(): a query in flight is removed too, and its answer with
\* it; the request itself runs on.
Cleared(queries) ==
  /\ cache' = {}
  /\ fetch' = [f \in Fetch |-> [queries[f] EXCEPT !.key = None]]

ShowSignedOut(queries) ==
  /\ shown' = SignedOut
  /\ Cleared(queries)
  /\ replaced' = {}
  /\ UNCHANGED update

\* Up to the first await. A session is not compared with the one before it:
\* one user's session may follow another's with nothing cleared.
Notify(session) ==
  \/ session = None /\ ShowSignedOut(fetch)
  \/ /\ session # None
     /\ \E a \in Update :
          /\ update[a].pc = "idle"
          /\ update' = [update EXCEPT ![a].pc = "asking"]
     /\ replaced' = IF stored # None /\ stored.user # session.user
                    THEN replaced \cup {stored.user} ELSE replaced
     /\ UNCHANGED <<shown, fetch, cache>>

\* getClaims reads the session that the client has when its turn comes.
ReadClaims(a) ==
  /\ update[a].pc = "asking"
  /\ update' = [update EXCEPT ![a] = [pc |-> "verifying", token |-> stored]]
  /\ UNCHANGED <<stored, login, boot, shown, fetch, cache, replaced>>

\* It returns, with claims or without: there is no session, or the keys to
\* verify its token cannot be had.
ShowClaims(a) ==
  /\ update[a].pc = "verifying"
  /\ \/ update[a].token # None /\ shown' = Claims(update[a].token)
     \/ shown' = NoClaims
  /\ update' = [update EXCEPT ![a] = IdleUpdate]
  /\ UNCHANGED <<stored, login, boot, fetch, cache, replaced>>

-----------------------------------------------------------------------------
(* The Supabase client: one operation at a time, each telling the store    *)

\* SessionProvider's effect: getSession and the subscription's first event.
Start(channel) ==
  /\ channel \in boot
  /\ boot' = boot \ {channel}
  /\ Notify(stored)
  /\ UNCHANGED <<stored, login>>

\* TOKEN_REFRESHED, by the client's timer or after a forced change.
Refresh ==
  /\ stored # None
  /\ \E mustChange \in BOOLEAN : stored' = [stored EXCEPT !.mustChange = mustChange]
  /\ Notify(stored')
  /\ UNCHANGED <<login, boot>>

\* USER_UPDATED: a password was changed.
UserUpdated ==
  /\ stored # None
  /\ Notify(stored)
  /\ UNCHANGED <<stored, login, boot>>

\* SIGNED_OUT.
EndSession(queries) ==
  /\ stored' = None
  /\ ShowSignedOut(queries)

\* A refresh token that Supabase refuses ends the session.
Expire ==
  /\ stored # None
  /\ EndSession(fetch)
  /\ UNCHANGED <<login, boot>>

-----------------------------------------------------------------------------
(* The pages                                                               *)

LoginPage == ~shown.isLoading /\ ~shown.session
AuthenticatedLayout == ~shown.isLoading /\ shown.session /\ ~shown.mustChange

\* The page stays until the claims of the session come, and the form can be
\* submitted again by then, for whomever.
Login(u) ==
  /\ LoginPage /\ login = None
  /\ login' = u
  /\ UNCHANGED <<stored, boot, update, shown, fetch, cache, replaced>>

\* SIGNED_IN, or the password is wrong.
LoginEnds ==
  /\ login # None
  /\ login' = None
  /\ \/ /\ \E mustChange \in BOOLEAN :
             stored' = [user |-> login, mustChange |-> mustChange]
        /\ Notify(stored')
     \/ UNCHANGED <<stored, update, shown, fetch, cache, replaced>>
  /\ UNCHANGED boot

\* The account menu. With a session Supabase has to be reached.
LogOut ==
  /\ AuthenticatedLayout
  /\ EndSession(fetch)
  /\ UNCHANGED <<login, boot>>

-----------------------------------------------------------------------------
(* The pages' queries: the notifications of the header, every 45 seconds,  *)
(* and those of the page                                                   *)

\* `enabled: firmId !== null`.
Poll(f) ==
  /\ fetch[f].pc = "idle"
  /\ AuthenticatedLayout /\ shown.firm # None
  /\ fetch' = [fetch EXCEPT ![f] = [pc |-> "starting", key |-> shown.firm, by |-> None]]
  /\ UNCHANGED <<stored, login, boot, update, shown, cache, replaced>>

\* authHeaders: the token is the one the client has now.
Send(f) ==
  /\ fetch[f].pc = "starting"
  /\ fetch' = [fetch EXCEPT ![f].pc = "sent",
                            ![f].by = IF stored = None THEN None ELSE stored.user]
  /\ UNCHANGED <<stored, login, boot, update, shown, cache, replaced>>

Answer(f) ==
  /\ fetch[f].pc = "sent" /\ fetch[f].by # None
  /\ cache' = IF fetch[f].key = None THEN cache
              ELSE {e \in cache : e.key # fetch[f].key}
                   \cup {[key |-> fetch[f].key, of |-> fetch[f].by]}
  /\ fetch' = [fetch EXCEPT ![f] = IdleFetch]
  /\ UNCHANGED <<stored, login, boot, update, shown, replaced>>

\* The network fails, or the API with anything but 401. A query that is still
\* in the cache is tried again, up to three times.
Fail(f) ==
  /\ fetch[f].pc = "sent"
  /\ \/ fetch' = [fetch EXCEPT ![f] = IdleFetch]
     \/ /\ fetch[f].key # None
        /\ fetch' = [fetch EXCEPT ![f].pc = "starting", ![f].by = None]
  /\ UNCHANGED <<stored, login, boot, update, shown, cache, replaced>>

BadAfterRefusal == "idle"   \* the 401 is shown and nothing else happens
AfterRefusal == "refused"

\* 401: there was no token, or its profile is inactive or gone.
Refuse(f) ==
  /\ fetch[f].pc = "sent"
  /\ fetch' = [fetch EXCEPT ![f].pc = AfterRefusal]
  /\ UNCHANGED <<stored, login, boot, update, shown, cache, replaced>>

\* apiRequest then signs out, whoever is signed in by now. That fails only if
\* there is a session to revoke and Supabase is out of reach.
SignOut(f) ==
  /\ fetch[f].pc = "refused"
  /\ LET rest == [fetch EXCEPT ![f] = IdleFetch]
     IN \/ EndSession(rest)
        \/ stored # None /\ fetch' = rest /\ UNCHANGED <<stored, update, shown, cache, replaced>>
  /\ UNCHANGED <<login, boot>>

-----------------------------------------------------------------------------

Next ==
  \/ \E channel \in boot : Start(channel)
  \/ Refresh \/ UserUpdated \/ Expire \/ LoginEnds \/ LogOut
  \/ \E a \in Update : ReadClaims(a) \/ ShowClaims(a)
  \/ \E u \in User : Login(u)
  \/ \E f \in Fetch : Poll(f) \/ Send(f) \/ Answer(f) \/ Fail(f) \/ Refuse(f) \/ SignOut(f)

Spec == Init /\ [][Next]_vars

\* The window runs, its timers fire and its awaits return; of requests sent
\* again and again some reach the API. Nothing is assumed of the user.
Fairness ==
  /\ \A channel \in {"getSession", "INITIAL_SESSION"} : WF_vars(Start(channel))
  /\ \A a \in Update : WF_vars(ReadClaims(a) \/ ShowClaims(a))
  /\ \A f \in Fetch : /\ WF_vars(Poll(f) \/ Send(f) \/ SignOut(f))
                      /\ SF_vars(Refuse(f) /\ fetch[f].by = None)
                      /\ WF_vars(Answer(f) \/ Fail(f) \/ Refuse(f))

FairSpec == Spec /\ Fairness

-----------------------------------------------------------------------------
(* Properties *)

\* session-store.tsx means nothing to survive the boundary between two
\* sessions, so that a second user of the device never sees the first one's
\* data. Whatever the order of late claims, late answers and sessions, the cache
\* holds answers to whoever is signed in now, and past a sign-out nothing. Where
\* it does hold another's, a second login took that user's session over before
\* its claims had come, and nobody has signed out since.
CacheIsOwnUnlessReplaced ==
  \A e \in cache : (stored # None /\ e.of = stored.user) \/ e.of \in replaced

\* api-client.ts: claims that came after a sign-out show the pages of the
\* session that ended. Their next query is refused and signs out again.
StalePageRecovers ==
  (stored = None /\ shown.firm # None /\ ~shown.mustChange)
    ~> (stored # None \/ shown.firm = None \/ shown.mustChange)

=============================================================================
