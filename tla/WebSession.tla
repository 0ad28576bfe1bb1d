------------------------------ MODULE WebSession ------------------------------
(***************************************************************************)
(* The session of the web application: every tab keeps a store of its own, *)
(* all tabs share the tokens in localStorage, and every call reads the     *)
(* shared token when it is sent.  Sources: auth.ts and api.ts of the web   *)
(* application, the pages that sign up, sign in, save a profile, recover   *)
(* or delete an account, the guard of the API and identity.service.ts.     *)
(*                                                                         *)
(* The access and the refresh token of a session are always written        *)
(* together, so a session is one record: whose it is and when it was       *)
(* issued.  The passkey service answers the two calls of a login with a    *)
(* challenge, a session or an error.                                       *)
(***************************************************************************)
EXTENDS Integers, FiniteSets

CONSTANTS Accounts, Nobody, NoSession, NoTab, Tabs,
          AccessTtl, RefreshTtl,    \* lives of the tokens: a day and a month in the code
          MaxStarts,                \* bound of what the users start
          MaxFaults,                \* bound of failed calls, cancelled passkeys and recoveries
          MaxTime                   \* bound of the steps of the clock

ASSUME SessionAssumption ==
    /\ AccessTtl \in Nat \ {0} /\ RefreshTtl \in Nat \ {0}
    /\ {MaxStarts, MaxFaults, MaxTime} \subseteq Nat
    /\ Nobody \notin Accounts /\ NoTab \notin Tabs
    /\ NoSession \notin [did : Accounts, born : Nat]

VARIABLES
    account,    \* account[a]: the row of users
    ls,         \* orbit_token and orbit_refresh of localStorage
    saved,      \* orbit-auth of localStorage: the store that was persisted last
    store,      \* store[t]: the zustand store of tab t
    flow,       \* flow[t][k]: the asynchronous function of kind k that runs in tab t
    now, starts, faults,
    writer,     \* history: the tab that wrote ls last
    savedBy,    \* history: the tab that wrote saved last, NoTab for the recovery page
    origin,     \* history: who wrote the user that tab t shows, NoTab when no tab vouches for it
    crossed,    \* history: a tab signed in or out with another call of its own under way
    stranded    \* history: the tab that wrote the tokens of ls was loaded again, from a
                \* store that another tab had persisted signed out

sessionVars ==
    <<account, ls, saved, store, flow, now, starts, faults, writer, savedBy, origin, crossed,
      stranded>>
world == <<account, now, starts, faults>>
browser == <<ls, saved, store, writer, savedBy, origin, crossed, stranded>>

Kinds == {"enter", "edit", "delete"}
Idle == [call |-> "none", at |-> "idle", with |-> NoSession, want |-> Nobody]
SignedOut == [auth |-> FALSE, user |-> Nobody, session |-> NoSession]

SessionInit ==
    /\ account = [a \in Accounts |-> "new"]
    /\ ls = NoSession /\ saved = SignedOut
    /\ store = [t \in Tabs |-> SignedOut]
    /\ flow = [t \in Tabs |-> [k \in Kinds |-> Idle]]
    /\ now = 0 /\ starts = 0 /\ faults = 0
    /\ writer = NoTab /\ savedBy = NoTab
    /\ origin = [t \in Tabs |-> t]
    /\ crossed = FALSE /\ stranded = FALSE

----------------------------------------------------------------------------
(* The API                                                                 *)

Exists(a) == account[a] \in {"active", "leaving"}

\* What the guard accepts.
Admits(s) == s # NoSession /\ now < s.born + AccessTtl

\* What refreshAccessToken accepts.
\* Mutant: the row of the user is not looked up.
RenewsErased(s) == s # NoSession /\ now < s.born + RefreshTtl
Renews(s) == s # NoSession /\ now < s.born + RefreshTtl /\ Exists(s.did)

IssueSession(a) == [did |-> a, born |-> now]

Answer(t, k, at, s) == flow' = [flow EXCEPT ![t][k].at = at, ![t][k].with = s]

\* register: the row of a new account, and its first session.
Register(t, k) ==
    LET a == flow[t][k].want IN
    /\ flow[t][k].call = "enter" /\ account[a] = "new"
    /\ account' = [account EXCEPT ![a] = "active"]
    /\ Answer(t, k, "ok", IssueSession(a))

\* login/options: a challenge for an account that has a passkey.
LoginOptions(t, k) ==
    /\ flow[t][k].call = "options" /\ UNCHANGED account
    /\ \/ Exists(flow[t][k].want) /\ Answer(t, k, "ok", NoSession)
       \/ Answer(t, k, "bad", NoSession)

\* login/verify of an account that exists, or existed.
VerifyLogin(t, k) ==
    LET a == flow[t][k].want IN
    /\ flow[t][k].call = "enter" /\ account[a] # "new" /\ UNCHANGED account
    /\ IF Exists(a) THEN Answer(t, k, "ok", IssueSession(a)) ELSE Answer(t, k, "bad", NoSession)

\* GET and PUT of identity/me: they answer for the account of the token.
ServeMe(t, k) ==
    LET s == flow[t][k].with IN
    /\ flow[t][k].call \in {"me", "edit"}
    /\ Answer(t, k, IF Admits(s) /\ Exists(s.did) THEN "ok" ELSE "bad", s)
    /\ UNCHANGED account

\* gdpr/delete: the account is to be erased when its time is up.
ServeDelete(t, k) ==
    LET s == flow[t][k].with IN
    /\ flow[t][k].call = "delete"
    /\ Answer(t, k, IF Admits(s) THEN "ok" ELSE "bad", s)
    /\ account' = IF Admits(s) /\ Exists(s.did)
                  THEN [account EXCEPT ![s.did] = "leaving"] ELSE account

ServeRefresh(t, k) ==
    LET s == flow[t][k].with IN
    /\ flow[t][k].call = "refresh"
    /\ IF Renews(s) THEN Answer(t, k, "ok", IssueSession(s.did)) ELSE Answer(t, k, "bad", s)
    /\ UNCHANGED account

Serve(t, k) ==
    /\ flow[t][k].at = "sent"
    /\ Register(t, k) \/ LoginOptions(t, k) \/ VerifyLogin(t, k) \/ ServeMe(t, k)
          \/ ServeDelete(t, k) \/ ServeRefresh(t, k)
    /\ UNCHANGED <<browser, now, starts, faults>>

Fault == faults < MaxFaults /\ faults' = faults + 1

\* The network, the rate limit or the server fails a call, before or after it
\* took effect, or the passkey is not given.
Fail(t, k) ==
    /\ flow[t][k].at \in {"sent", "ok"} /\ Fault
    /\ flow' = [flow EXCEPT ![t][k].at = "bad"]
    /\ UNCHANGED <<browser, account, now, starts>>

----------------------------------------------------------------------------
(* The store                                                               *)

\* set: every change of a store is persisted as a whole.
Set(t, s) ==
    /\ store' = [store EXCEPT ![t] = s]
    /\ saved' = s /\ savedBy' = t

\* set of isLoading or error: nothing of it is persisted, and yet the store of
\* the tab replaces what another tab persisted.
Persist(t) == Set(t, store[t]) /\ UNCHANGED <<ls, writer, origin, crossed, stranded>>

Others(t, k) == \E j \in Kinds \ {k} : flow[t][j].at # "idle"

\* The tokens of an answer go to the store and to localStorage.
KeepTokens(t, s, auth) ==
    /\ Set(t, [store[t] EXCEPT !.session = s, !.auth = auth])
    /\ ls' = s /\ writer' = t /\ stranded' = FALSE

\* Mutant: the tab stays signed in.
SignoutKeepsAuth(t, k) ==
    /\ Set(t, [SignedOut EXCEPT !.auth = store[t].auth])
    /\ ls' = NoSession /\ writer' = t /\ stranded' = FALSE
    /\ crossed' = (crossed \/ Others(t, k))
    /\ origin' = [origin EXCEPT ![t] = t]
\* Mutant: the tokens in localStorage stay.
SignoutKeepsTokens(t, k) ==
    /\ Set(t, SignedOut) /\ UNCHANGED <<ls, writer, stranded>>
    /\ crossed' = (crossed \/ Others(t, k))
    /\ origin' = [origin EXCEPT ![t] = t]
Signout(t, k) ==
    /\ Set(t, SignedOut) /\ ls' = NoSession /\ writer' = t /\ stranded' = FALSE
    /\ crossed' = (crossed \/ Others(t, k))
    /\ origin' = [origin EXCEPT ![t] = t]

To(t, k, f) == flow' = [flow EXCEPT ![t][k] = f]
Send(call, s) == [call |-> call, at |-> "sent", with |-> s, want |-> Nobody]
Ask(call, a) == [Send(call, NoSession) EXCEPT !.want = a]

\* fetchMe: the call carries the token found in localStorage.
FetchMe(t, k, auth, s) == To(t, k, IF auth THEN Send("me", s) ELSE Idle)

\* signup and verifyLogin after their answer, then fetchMe.
\* Mutant: the token is read from localStorage before the new one is written.
AfterEnterEarly(t, k) ==
    /\ flow[t][k].call = "enter"
    /\ \/ /\ flow[t][k].at = "ok"
          /\ KeepTokens(t, flow[t][k].with, TRUE)
          /\ FetchMe(t, k, TRUE, ls)
          /\ crossed' = (crossed \/ Others(t, k)) /\ UNCHANGED origin
       \/ flow[t][k].at = "bad" /\ To(t, k, Idle) /\ Persist(t)
AfterEnter(t, k) ==
    /\ flow[t][k].call = "enter"
    /\ \/ /\ flow[t][k].at = "ok"
          /\ KeepTokens(t, flow[t][k].with, TRUE)
          /\ FetchMe(t, k, TRUE, ls')
          /\ crossed' = (crossed \/ Others(t, k)) /\ UNCHANGED origin
       \/ flow[t][k].at = "bad" /\ To(t, k, Idle) /\ Persist(t)

\* signin after its answer, and the page with the challenge it returned: the
\* passkey is asked for.
AfterOptions(t, k) ==
    /\ flow[t][k].call = "options" /\ Persist(t)
    /\ \/ /\ flow[t][k].at = "ok"
          /\ To(t, k, [flow[t][k] EXCEPT !.call = "passkey"])
       \/ flow[t][k].at = "bad" /\ To(t, k, Idle)

\* The page with the passkey calls verifyLogin; without, it shows an error.
AfterPasskey(t, k) ==
    /\ flow[t][k].call = "passkey"
    /\ \/ flow[t][k].at = "ok" /\ To(t, k, Ask("enter", flow[t][k].want)) /\ Persist(t)
       \/ flow[t][k].at = "bad" /\ To(t, k, Idle) /\ UNCHANGED browser

\* The refresh token of the store, or else the one in localStorage.
RefreshTokenOf(t) == IF store[t].session # NoSession THEN store[t].session ELSE ls

\* fetchMe after its answer: the user is set, whatever the error a refresh is
\* tried, and without a refresh token the tab signs out.
AfterMe(t, k) ==
    /\ flow[t][k].call = "me"
    /\ \/ /\ flow[t][k].at = "ok" /\ To(t, k, Idle)
          /\ Set(t, [store[t] EXCEPT !.user = flow[t][k].with.did])
          /\ origin' = [origin EXCEPT ![t] = t]
          /\ UNCHANGED <<ls, writer, crossed, stranded>>
       \/ /\ flow[t][k].at = "bad" /\ RefreshTokenOf(t) # NoSession
          /\ To(t, k, Send("refresh", RefreshTokenOf(t))) /\ UNCHANGED browser
       \/ /\ flow[t][k].at = "bad" /\ RefreshTokenOf(t) = NoSession
          /\ To(t, k, Idle) /\ Signout(t, k)

\* refresh after its answer: it does not ask whether the tab signed out since.
AfterRefresh(t, k) ==
    /\ flow[t][k].call = "refresh"
    /\ \/ /\ flow[t][k].at = "ok"
          /\ KeepTokens(t, flow[t][k].with, store[t].auth)
          /\ FetchMe(t, k, store[t].auth, ls') /\ UNCHANGED <<origin, crossed>>
       \/ flow[t][k].at = "bad" /\ To(t, k, Idle) /\ Signout(t, k)

----------------------------------------------------------------------------
(* The pages                                                               *)

StartCall(t, k, f) ==
    /\ starts < MaxStarts /\ starts' = starts + 1
    /\ flow[t][k].at = "idle" /\ To(t, k, f)
    /\ UNCHANGED <<account, now, faults>>

\* The pages to sign up and to log in leave a tab that is signed in.
Sign(t, call, a) == ~store[t].auth /\ StartCall(t, "enter", Ask(call, a)) /\ Persist(t)

Known == {a \in Accounts : account[a] # "new"}
SignUp(t) == Known # Accounts /\ Sign(t, "enter", CHOOSE a \in Accounts : a \notin Known)
LogIn(t) == \E a \in Known : Sign(t, "options", a)

\* The pages that save the profile or verify an address show a user.
Edit(t) ==
    store[t].user # Nobody /\ StartCall(t, "edit", Send("edit", ls)) /\ UNCHANGED browser

DeleteAccount(t) == StartCall(t, "delete", Send("delete", ls)) /\ UNCHANGED browser

\* A saved profile is fetched; an error is only shown.
AfterEdit(t, k) ==
    /\ flow[t][k].call = "edit"
    /\ \/ flow[t][k].at = "ok" /\ FetchMe(t, k, store[t].auth, ls)
       \/ flow[t][k].at = "bad" /\ To(t, k, Idle)
    /\ UNCHANGED browser

AfterDelete(t, k) ==
    /\ flow[t][k].call = "delete" /\ To(t, k, Idle)
    /\ \/ flow[t][k].at = "ok" /\ Signout(t, k)
       \/ flow[t][k].at = "bad" /\ UNCHANGED browser

Continue(t, k) ==
    /\ AfterEnter(t, k) \/ AfterOptions(t, k) \/ AfterPasskey(t, k) \/ AfterMe(t, k)
          \/ AfterRefresh(t, k) \/ AfterEdit(t, k) \/ AfterDelete(t, k)
    /\ UNCHANGED world

Fetching(t) == \E k \in Kinds : flow[t][k].call \in {"me", "refresh"}

\* Who wrote the user a tab shows once it is loaded again: nobody vouches for
\* one that was still being fetched.
OriginOf(t) == IF Fetching(t) THEN NoTab ELSE IF savedBy = t THEN origin[t] ELSE savedBy

\* The page is loaded again: what ran is gone, the store is what was persisted.
Reload(t) ==
    /\ starts < MaxStarts /\ starts' = starts + 1
    /\ \/ store[t] # saved \/ origin[t] # savedBy
       \/ \E k \in Kinds : flow[t][k].at # "idle"
    /\ store' = [store EXCEPT ![t] = saved]
    /\ origin' = [origin EXCEPT ![t] = OriginOf(t)]
    /\ flow' = [flow EXCEPT ![t] = [k \in Kinds |-> Idle]]
    /\ stranded' = (stranded \/ (writer = t /\ ls # NoSession /\ store[t].auth /\ ~saved.auth))
    /\ UNCHANGED <<account, ls, saved, now, faults, writer, savedBy, crossed>>

\* The recovery page persists a session of its own, without the two tokens.
Recovered(a) ==
    /\ Exists(a) /\ Fault
    /\ saved' = [auth |-> TRUE, user |-> a, session |-> IssueSession(a)]
    /\ savedBy' = NoTab
    /\ UNCHANGED <<account, ls, store, flow, now, starts, writer, origin, crossed, stranded>>

----------------------------------------------------------------------------
(* The rest of the system                                                  *)

Tick ==
    /\ now < MaxTime /\ now' = now + 1
    /\ UNCHANGED <<browser, account, flow, starts, faults>>

\* The deletion worker calls hardDeleteUser, some time after the request.
Erase(a) ==
    /\ account[a] = "leaving"
    /\ account' = [account EXCEPT ![a] = "erased"]
    /\ UNCHANGED <<browser, flow, now, starts, faults>>

SessionNext ==
    \/ \E t \in Tabs : SignUp(t) \/ LogIn(t) \/ Edit(t) \/ DeleteAccount(t) \/ Reload(t)
    \/ \E t \in Tabs, k \in Kinds : Serve(t, k) \/ Fail(t, k) \/ Continue(t, k)
    \/ \E a \in Accounts : Recovered(a) \/ Erase(a)
    \/ Tick

\* Every call is answered and every function of a tab goes on; nobody has to
\* click, reload or wait.
SessionFairness ==
    \A t \in Tabs, k \in Kinds :
        WF_sessionVars(Serve(t, k)) /\ WF_sessionVars(Continue(t, k))

SessionSpec == SessionInit /\ [][SessionNext]_sessionVars /\ SessionFairness

----------------------------------------------------------------------------
(* Properties                                                              *)

Sessions == [did : Accounts, born : 0 .. MaxTime]
Stores == [auth : BOOLEAN, user : Accounts \cup {Nobody}, session : Sessions \cup {NoSession}]

\* Every variable has its type, and a tab that is signed in has a session.
SessionTypeOK ==
    /\ account \in [Accounts -> {"new", "active", "leaving", "erased"}]
    /\ ls \in Sessions \cup {NoSession}
    /\ saved \in Stores
    /\ store \in [Tabs -> Stores]
    /\ \A t \in Tabs : store[t].auth => store[t].session # NoSession
    /\ flow \in [Tabs -> [Kinds ->
           [call : Kinds \cup {"none", "options", "passkey", "me", "refresh"},
            at : {"idle", "sent", "ok", "bad"}, with : Sessions \cup {NoSession},
            want : Accounts \cup {Nobody}]]]
    /\ now \in 0 .. MaxTime /\ starts \in 0 .. MaxStarts /\ faults \in 0 .. MaxFaults
    /\ writer \in Tabs \cup {NoTab} /\ savedBy \in Tabs \cup {NoTab}
    /\ origin \in [Tabs -> Tabs \cup {NoTab}]
    /\ crossed \in BOOLEAN /\ stranded \in BOOLEAN

Quiet(t) == \A k \in Kinds : flow[t][k].at = "idle"

\* What a tab saves or deletes belongs to the account it shows, in a tab at
\* rest: unless another tab wrote the shared tokens, the user was loaded from
\* what another tab or the recovery page persisted, or while it was still being
\* fetched, or a tab signed in or out with another call under way (auth.ts,
\* request of api.ts).
ShownAccountActs ==
    \A t \in Tabs :
        (Quiet(t) /\ writer = t /\ origin[t] = t /\ ~crossed
            /\ store[t].user # Nobody /\ ls # NoSession)
        => store[t].user = ls.did

\* When every tab is signed out and rests, the browser holds no token, unless a
\* tab signed out with a call under way, whose answer put one back.  There are
\* two ways more to be signed out on the screen only: the tab that wrote the
\* tokens was loaded again from the store of another tab, which is persisted
\* even where that one only begins or fails to log in, and the recovery page
\* persisted a session that no tab was loaded with (persist, signout and the
\* calls of set in auth.ts).
SignOutForgets ==
    ((\A t \in Tabs : ~store[t].auth /\ Quiet(t)) /\ ~crossed)
    => /\ ls # NoSession => stranded
       /\ saved.session # NoSession => savedBy = NoTab

\* fetchMe and refresh call each other for as long as the one fails and the
\* other succeeds: they stop, as every renewal gives the next call a token that
\* is accepted.
CallsEnd == <>[](\A t \in Tabs : Quiet(t))

\* What holds in every state of the tabs and of what they share.
SessionInv ==
    /\ SessionTypeOK
    /\ ShownAccountActs
    /\ SignOutForgets
=============================================================================
