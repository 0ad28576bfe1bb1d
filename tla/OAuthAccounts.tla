--------------------------- MODULE OAuthAccounts ---------------------------
(***************************************************************************)
(* Accounts and the provider identities linked to them: OAuthService       *)
(* (apps/api/src/modules/oauth/oauth.service.ts) over users (migrations    *)
(* 001, 004) and user_oauth_accounts (migration 008), with the             *)
(* registrations, e-mail changes and erasures of other services.           *)
(*                                                                         *)
(* Each statement of a request is an action, so that logins of one         *)
(* identity, links, unlinks and erasures interleave.  A user is identified *)
(* by a DID made of fresh keys, which is never used twice.  The ID token   *)
(* is verified before the first statement.                                 *)
(***************************************************************************)
EXTENDS Naturals, FiniteSets

CONSTANTS
  Users,       \* DIDs, used and to be used
  Identities,  \* (provider, provider_user_id)
  Providers,
  ProviderOf,  \* the provider of each identity
  Emails,      \* e-mail addresses as spelled
  LowerOf,     \* LOWER(email)
  EmailOf,     \* the address the provider knows for each identity
  Verified,    \* identities whose address the provider has verified
  Requests,    \* requests in flight
  NoUser, NoIdentity, NoEmail

ASSUME OAuthAssumption ==
  /\ ProviderOf \in [Identities -> Providers]
  /\ EmailOf \in [Identities -> Emails]
  /\ LowerOf \in [Emails -> Emails]
  /\ Verified \subseteq Identities
  /\ IsFiniteSet(Identities)
  /\ NoUser \notin Users
  /\ NoIdentity \notin Identities /\ NoIdentity \notin Providers
  /\ NoEmail \notin Emails

VARIABLES
  user,        \* users: the row of each DID
  link,        \* user_oauth_accounts: (provider, provider_user_id) -> user_did
  request

vars == <<user, link, request>>

Row == [state : {"none", "live", "gone"}, email : Emails \cup {NoEmail}]

\* clean: no other request has changed the link of id, or the links of did,
\* since this one began.  It is not in the code: the properties speak of it.
Request == [pc : {"idle", "email", "create", "link", "session",
                  "delete", "unlinked"},
            id : Identities \cup {NoIdentity}, mail : Emails \cup {NoEmail},
            createAccount : BOOLEAN, login : BOOLEAN,
            did : Users \cup {NoUser}, rows : SUBSET Identities,
            provider : Providers \cup {NoIdentity}, clean : BOOLEAN]

Idle == [pc |-> "idle", id |-> NoIdentity, mail |-> NoEmail,
         createAccount |-> FALSE, login |-> FALSE, did |-> NoUser,
         rows |-> {}, provider |-> NoIdentity, clean |-> TRUE]

TypeOK ==
  /\ user \in [Users -> Row]
  /\ link \in [Identities -> Users \cup {NoUser}]
  /\ request \in [Requests -> Request]
  /\ \A q \in Requests :
       /\ request[q].pc \in {"link", "session", "delete", "unlinked"}
            => request[q].did \in Users
       /\ request[q].pc \in {"email", "create", "link", "session"}
            => request[q].id \in Identities

Init ==
  /\ user = [u \in Users |-> [state |-> "none", email |-> NoEmail]]
  /\ link = [i \in Identities |-> NoUser]
  /\ request = [q \in Requests |-> Idle]
-----------------------------------------------------------------------------
Live(u) == user[u].state = "live"
LinksOf(u) == {i \in Identities : link[i] = u}

Linked(i) == link[i] # NoUser

\* UNIQUE INDEX ON users (LOWER(email)) WHERE email IS NOT NULL.
EmailIsFree(u, e) ==
  e # NoEmail => \A v \in Users \ {u} :
    (Live(v) /\ user[v].email # NoEmail)
      => LowerOf[user[v].email] # LowerOf[e]

\* The other requests, after the links have become l.
Disturbed(d, l) ==
  [d EXCEPT !.clean =
     /\ @
     /\ d.id # NoIdentity => l[d.id] = link[d.id]
     /\ d.provider # NoIdentity
          => {i \in Identities : l[i] = d.did} = LinksOf(d.did)]

\* Request q goes on as d while the links become l.
Goes(q, d, l) ==
  /\ link' = l
  /\ request' = [s \in Requests |->
                   IF s = q THEN d ELSE Disturbed(request[s], l)]

(***************************************************************************)
(* The rest of the platform.                                               *)
(***************************************************************************)
\* IdentityService.register.
Register(u, e) ==
  /\ user[u].state = "none"
  /\ EmailIsFree(u, e)
  /\ user' = [user EXCEPT ![u] = [state |-> "live", email |-> e]]
  /\ UNCHANGED <<link, request>>

\* IdentityService.updateProfile with an e-mail address.
UpdateEmail(u, e) ==
  /\ Live(u)
  /\ EmailIsFree(u, e)
  /\ user' = [user EXCEPT ![u].email = e]
  /\ UNCHANGED <<link, request>>

\* hardDeleteUser commits: the row goes, and its links by ON DELETE CASCADE.
Erase(u) ==
  /\ Live(u)
  /\ user' = [user EXCEPT ![u] = [state |-> "gone", email |-> NoEmail]]
  /\ LET l == [i \in Identities |-> IF link[i] = u THEN NoUser ELSE link[i]] IN
       /\ link' = l
       /\ request' = [s \in Requests |-> Disturbed(request[s], l)]

(***************************************************************************)
(* loginWithIdToken.                                                       *)
(***************************************************************************)
\* findOAuthLink.  The token carries the address or not: Apple sends it with
\* the first sign-in only.
Login(q, i, e, c) ==
  /\ request[q].pc = "idle"
  /\ request' = [request EXCEPT ![q] =
       [Idle EXCEPT !.id = i, !.mail = e, !.createAccount = c, !.login = TRUE,
                    !.pc = IF Linked(i) THEN "session"
                           ELSE IF e # NoEmail /\ i \in Verified THEN "email"
                           ELSE "create",
                    !.did = link[i]]]
  /\ UNCHANGED <<user, link>>

\* What an account found by its address gets.
\* Mutant: a session, the link being left to the next login.
MatchedWithoutLink(d, u) == [d EXCEPT !.pc = "session", !.did = u]
Matched(d, u) == [d EXCEPT !.pc = "link", !.did = u]

\* findUserByEmail compares as spelled.
FindByEmail(q) ==
  LET d == request[q]
      found == {u \in Users : Live(u) /\ user[u].email = d.mail} IN
  /\ d.pc = "email"
  /\ \/ \E u \in found : request' = [request EXCEPT ![q] = Matched(d, u)]
     \/ /\ found = {}
        /\ request' = [request EXCEPT ![q].pc = "create"]
  /\ UNCHANGED <<user, link>>

\* The answer is needsLink.
NeedsLink(q) ==
  /\ request[q].pc = "create"
  /\ ~request[q].createAccount
  /\ request' = [request EXCEPT ![q] = Idle]
  /\ UNCHANGED <<user, link>>

\* createUserFromOAuth; an address that is taken under another spelling, or
\* since the look-up, fails the INSERT and the request.
CreateUser(q, u) ==
  LET d == request[q] IN
  /\ d.pc = "create"
  /\ d.createAccount
  /\ user[u].state = "none"
  /\ IF EmailIsFree(u, d.mail)
     THEN /\ user' = [user EXCEPT ![u] = [state |-> "live", email |-> d.mail]]
          /\ request' = [request EXCEPT ![q] =
                           [d EXCEPT !.pc = "link", !.did = u]]
     ELSE /\ request' = [request EXCEPT ![q] = Idle]
          /\ UNCHANGED user
  /\ UNCHANGED link

\* user_did REFERENCES users(did).
\* Mutant: without the foreign key.
UnreferencedUser(u) == TRUE
ReferencedUser(u) == Live(u)

\* linkProvider: ON CONFLICT (provider, provider_user_id) leaves user_did.
\* linkProviderToUser ends here, whoever the identity is linked to.
LinkProvider(q) ==
  LET d == request[q] IN
  /\ d.pc = "link"
  /\ IF Linked(d.id)
       THEN Goes(q, IF d.login THEN [d EXCEPT !.pc = "session"] ELSE Idle, link)
     ELSE IF ReferencedUser(d.did)
       THEN Goes(q, IF d.login THEN [d EXCEPT !.pc = "session"] ELSE Idle,
                 [link EXCEPT ![d.id] = d.did])
     ELSE Goes(q, Idle, link)
  /\ UNCHANGED user

\* issueSessionForDid: a session, or an error if the user is gone.
IssueSession(q) ==
  /\ request[q].pc = "session"
  /\ request' = [request EXCEPT ![q] = Idle]
  /\ UNCHANGED <<user, link>>

\* linkProviderToUser by a device that holds a token of u: it may outlive u.
LinkToUser(q, u, i) ==
  /\ request[q].pc = "idle"
  /\ user[u].state # "none"
  /\ request' = [request EXCEPT ![q] =
                   [Idle EXCEPT !.pc = "link", !.id = i, !.did = u]]
  /\ UNCHANGED <<user, link>>

(***************************************************************************)
(* unlinkProvider.                                                         *)
(***************************************************************************)
\* Mutant: off by one.
EnoughWithOne(rows) == Cardinality(rows) >= 1
EnoughMethods(rows) == Cardinality(rows) > 1

\* findByDid and the two counts, all reads; webauthn_credentials is a table
\* no migration creates, and the failed count is taken for 0.
CountMethods(q, u, p) ==
  /\ request[q].pc = "idle"
  /\ Live(u)
  /\ EnoughMethods(LinksOf(u))
  /\ request' = [request EXCEPT ![q] =
                   [Idle EXCEPT !.pc = "delete", !.did = u, !.provider = p,
                                !.rows = LinksOf(u)]]
  /\ UNCHANGED <<user, link>>

\* DELETE ... WHERE user_did = $1 AND provider = $2.
DeleteLinks(q) ==
  LET d == request[q] IN
  /\ d.pc = "delete"
  /\ Goes(q, [d EXCEPT !.pc = "unlinked"],
          [i \in Identities |->
             IF link[i] = d.did /\ ProviderOf[i] = d.provider THEN NoUser
             ELSE link[i]])
  /\ UNCHANGED user

\* The answer { ok: true }.
Unlinked(q) ==
  /\ request[q].pc = "unlinked"
  /\ request' = [request EXCEPT ![q] = Idle]
  /\ UNCHANGED <<user, link>>

\* A statement fails or times out, a handle is taken meanwhile, or the
\* process dies: what was written stays.
Abandon(q) ==
  /\ request[q].pc # "idle"
  /\ request' = [request EXCEPT ![q] = Idle]
  /\ UNCHANGED <<user, link>>
-----------------------------------------------------------------------------
Next ==
  \/ \E u \in Users, e \in Emails \cup {NoEmail} : Register(u, e)
  \/ \E u \in Users, e \in Emails \cup {NoEmail} : UpdateEmail(u, e)
  \/ \E u \in Users : Erase(u)
  \/ \E q \in Requests, i \in Identities, c \in BOOLEAN :
       \E e \in {NoEmail, EmailOf[i]} : Login(q, i, e, c)
  \/ \E q \in Requests : FindByEmail(q)
  \/ \E q \in Requests : NeedsLink(q)
  \/ \E q \in Requests, u \in Users : CreateUser(q, u)
  \/ \E q \in Requests : LinkProvider(q)
  \/ \E q \in Requests : IssueSession(q)
  \/ \E q \in Requests, u \in Users, i \in Identities : LinkToUser(q, u, i)
  \/ \E q \in Requests, u \in Users, p \in Providers : CountMethods(q, u, p)
  \/ \E q \in Requests : DeleteLinks(q)
  \/ \E q \in Requests : Unlinked(q)
  \/ \E q \in Requests : Abandon(q)

Spec == Init /\ [][Next]_vars
-----------------------------------------------------------------------------
(***************************************************************************)
(* Properties.                                                             *)
(***************************************************************************)

\* A login answers with a session of the account that its identity is linked
\* to, so that the next login comes back to it -- unless another request, of
\* the same identity or an erasure, has changed that link meanwhile.
SessionsFollowLinks ==
  \A q \in Requests :
    (request[q].pc = "session" /\ request[q].clean)
      => link[request[q].id] = request[q].did

\* Links lead to accounts that exist, whatever is erased between the
\* statements of a login that has created or found its account.
LinkedUsersExist ==
  \A i \in Identities : Linked(i) => Live(link[i])

\* A user with at most one identity per provider whom no other request
\* touches keeps a way to log in after unlinking one.
UndisturbedUnlinkKeepsAMethod ==
  \A q \in Requests :
    LET d == request[q] IN
    /\ d.pc = "unlinked" /\ d.clean
    /\ \A i, j \in d.rows : ProviderOf[i] = ProviderOf[j] => i = j
    => LinksOf(d.did) # {}
=============================================================================
