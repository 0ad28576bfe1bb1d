--------------------------- MODULE AccountsProofs ---------------------------
(***************************************************************************)
(* Proofs about OAuthAccounts, for any users, identities, providers,       *)
(* spellings and number of requests in flight, and about AccountRecovery,  *)
(* for any accounts, pages, calls, codes and faults.                       *)
(***************************************************************************)
EXTENDS OAuthAccounts, AccountRecovery, FiniteSetTheorems, SequenceTheorems, TLAPS

\* What a request that nobody disturbed knows of the links l.
Knows(d, l) ==
  /\ d.pc \in {"email", "create"} => d.login
  /\ d.login /\ d.clean /\ d.pc \in {"email", "create", "link"}
       => l[d.id] = NoUser
  /\ d.clean /\ d.pc = "session" => l[d.id] = d.did
  /\ d.pc \in {"delete", "unlinked"}
       => d.provider # NoIdentity /\ Cardinality(d.rows) > 1
  /\ d.clean /\ d.pc = "delete"
       => {i \in Identities : l[i] = d.did} = d.rows
  /\ d.clean /\ d.pc = "unlinked"
       => {i \in Identities : l[i] = d.did} =
            {i \in d.rows : ProviderOf[i] # d.provider}

LinkInv ==
  /\ \A q \in Requests : Knows(request[q], link)
  /\ LinkedUsersExist

\* The part of the type of a request that depends on where it is.
Placed(d) ==
  /\ d.pc \in {"link", "session", "delete", "unlinked"} => d.did \in Users
  /\ d.pc \in {"email", "create", "link", "session"} => d.id \in Identities
-----------------------------------------------------------------------------
(***************************************************************************)
(* Steps of one request.                                                   *)
(***************************************************************************)
LEMMA IdleTyped == Idle \in Request /\ Placed(Idle)
BY DEF Idle, Request, Placed

LEMMA IdleKnows == ASSUME NEW l PROVE Knows(Idle, l)
BY DEF Idle, Knows

LEMMA DisturbedTyped ==
  ASSUME NEW d \in Request, Placed(d), NEW l
  PROVE  /\ Disturbed(d, l) \in Request /\ Placed(Disturbed(d, l))
         /\ Disturbed(d, l).pc = d.pc /\ Disturbed(d, l).id = d.id
         /\ Disturbed(d, l).login = d.login /\ Disturbed(d, l).did = d.did
         /\ Disturbed(d, l).rows = d.rows
         /\ Disturbed(d, l).provider = d.provider
         /\ Disturbed(d, l).clean =>
              /\ d.clean
              /\ d.id # NoIdentity => l[d.id] = link[d.id]
              /\ d.provider # NoIdentity
                   => {i \in Identities : l[i] = d.did} = LinksOf(d.did)
<1> DEFINE c == /\ d.clean
                /\ d.id # NoIdentity => l[d.id] = link[d.id]
                /\ d.provider # NoIdentity
                     => {i \in Identities : l[i] = d.did} = LinksOf(d.did)
<1>1. c \in BOOLEAN
  BY DEF Request
<1>2. Disturbed(d, l) = [d EXCEPT !.clean = c]
  BY DEF Disturbed
<1> HIDE DEF c
<1>3. /\ Disturbed(d, l) \in Request
      /\ Disturbed(d, l).pc = d.pc /\ Disturbed(d, l).id = d.id
      /\ Disturbed(d, l).login = d.login /\ Disturbed(d, l).did = d.did
      /\ Disturbed(d, l).rows = d.rows
      /\ Disturbed(d, l).provider = d.provider
      /\ Disturbed(d, l).clean = c
  BY <1>1, <1>2 DEF Request
<1> QED BY <1>3 DEF c, Placed

\* What an undisturbed request knows stays true.
LEMMA DisturbedKnows ==
  ASSUME NEW d \in Request, Placed(d), NEW l, Knows(d, link)
  PROVE  Knows(Disturbed(d, l), l)
<1> DEFINE e == Disturbed(d, l)
<1>1. /\ e.pc = d.pc /\ e.id = d.id /\ e.login = d.login /\ e.did = d.did
      /\ e.rows = d.rows /\ e.provider = d.provider
      /\ e.clean =>
           /\ d.clean
           /\ d.id # NoIdentity => l[d.id] = link[d.id]
           /\ d.provider # NoIdentity
                => {i \in Identities : l[i] = d.did} = LinksOf(d.did)
  BY DisturbedTyped
<1>2. d.pc \in {"email", "create", "link", "session"} => d.id # NoIdentity
  BY OAuthAssumption DEF Placed
<1>3. Knows(e, l)
  <2> HIDE DEF e
  <2> QED BY <1>1, <1>2 DEF Knows, LinksOf
<1> QED BY <1>3

LEMMA GoesTyped ==
  ASSUME TypeOK, NEW q \in Requests, NEW d \in Request, Placed(d),
         NEW l \in [Identities -> Users \cup {NoUser}], Goes(q, d, l)
  PROVE  /\ link' \in [Identities -> Users \cup {NoUser}]
         /\ request' \in [Requests -> Request]
         /\ \A s \in Requests : Placed(request'[s])
BY DisturbedTyped DEF TypeOK, Goes, Placed

LEMMA GoesKnows ==
  ASSUME TypeOK, LinkInv, NEW q \in Requests, NEW d, NEW l, Knows(d, l),
         Goes(q, d, l)
  PROVE  \A s \in Requests : Knows(request'[s], link')
BY DisturbedKnows, OAuthAssumption DEF TypeOK, Goes, Placed, LinkInv

\* A request goes on and the links stay.
LEMMA RequestTyped ==
  ASSUME TypeOK, NEW q \in Requests, NEW d \in Request, Placed(d),
         request' = [request EXCEPT ![q] = d]
  PROVE  /\ request' \in [Requests -> Request]
         /\ \A s \in Requests : Placed(request'[s])
BY DEF TypeOK, Placed

LEMMA RequestKnows ==
  ASSUME TypeOK, LinkInv, NEW q \in Requests, NEW d, Knows(d, link),
         request' = [request EXCEPT ![q] = d], link' = link
  PROVE  \A s \in Requests : Knows(request'[s], link')
BY DEF TypeOK, LinkInv
-----------------------------------------------------------------------------
(***************************************************************************)
(* Every step keeps the types and the invariant.                           *)
(***************************************************************************)
LEMMA TypeStep ==
  ASSUME TypeOK, [Next]_vars
  PROVE  TypeOK'
<1> DEFINE Slots == /\ request' \in [Requests -> Request]
                    /\ \A s \in Requests : Placed(request'[s])
<1>0. ASSUME Slots, user' \in [Users -> Row],
             link' \in [Identities -> Users \cup {NoUser}]
      PROVE  TypeOK'
  BY <1>0 DEF TypeOK, Placed
<1>1. ASSUME NEW u \in Users, NEW e \in Emails \cup {NoEmail},
             Register(u, e) \/ UpdateEmail(u, e)
      PROVE  TypeOK'
  <2>1. /\ [state |-> "live", email |-> e] \in Row
        /\ [user[u] EXCEPT !.email = e] \in Row
    BY DEF TypeOK, Row
  <2> QED BY <1>1, <2>1 DEF Register, UpdateEmail, TypeOK
<1>2. ASSUME NEW u \in Users, Erase(u)
      PROVE  TypeOK'
  <2> DEFINE l == [i \in Identities |-> IF link[i] = u THEN NoUser ELSE link[i]]
  <2>1. [state |-> "gone", email |-> NoEmail] \in Row
    BY DEF Row
  <2>2. l \in [Identities -> Users \cup {NoUser}]
    BY DEF TypeOK
  <2>3. /\ user' = [user EXCEPT ![u] = [state |-> "gone", email |-> NoEmail]]
        /\ link' = l
        /\ request' = [s \in Requests |-> Disturbed(request[s], l)]
    BY <1>2 DEF Erase
  <2> HIDE DEF l
  <2>4. Slots
    BY <2>3, DisturbedTyped DEF TypeOK, Placed
  <2> QED BY <1>0, <2>1, <2>2, <2>3, <2>4 DEF TypeOK
<1>3. ASSUME NEW q \in Requests, NEW i \in Identities, NEW c \in BOOLEAN,
             NEW e \in {NoEmail, EmailOf[i]}, Login(q, i, e, c)
      PROVE  TypeOK'
  <2> DEFINE p == IF Linked(i) THEN "session"
                  ELSE IF e # NoEmail /\ i \in Verified THEN "email"
                  ELSE "create"
             d == [Idle EXCEPT !.id = i, !.mail = e, !.createAccount = c,
                               !.login = TRUE, !.pc = p, !.did = link[i]]
  <2>1. p \in {"session", "email", "create"} /\ (p = "session" => Linked(i))
    OBVIOUS
  <2>2. e \in Emails \cup {NoEmail} /\ link[i] \in Users \cup {NoUser}
    BY OAuthAssumption DEF TypeOK
  <2>3. d \in Request /\ Placed(d)
    <3> HIDE DEF p
    <3>1. d \in Request
      BY <2>1, <2>2, IdleTyped DEF Request
    <3>2. d.pc = p /\ d.id = i /\ d.did = link[i]
      BY DEF Idle
    <3> QED BY <2>1, <2>2, <3>1, <3>2 DEF Placed, Linked
  <2>4. request' = [request EXCEPT ![q] = d] /\ UNCHANGED <<user, link>>
    BY <1>3 DEF Login
  <2> HIDE DEF d
  <2> QED BY <1>0, <2>3, <2>4, RequestTyped DEF TypeOK
<1>4. ASSUME NEW q \in Requests, FindByEmail(q)
      PROVE  TypeOK'
  <2>1. request[q] \in Request /\ request[q].id \in Identities
    BY <1>4 DEF FindByEmail, TypeOK
  <2>2. PICK d :
          /\ request' = [request EXCEPT ![q] = d] /\ UNCHANGED <<user, link>>
          /\ \/ \E u \in Users : d = Matched(request[q], u)
             \/ d = [request[q] EXCEPT !.pc = "create"]
    BY <1>4 DEF FindByEmail
  <2>3. d \in Request /\ Placed(d)
    <3>1. ASSUME NEW u \in Users
          PROVE  /\ Matched(request[q], u) \in Request
                 /\ Placed(Matched(request[q], u))
      BY <2>1 DEF Matched, Request, Placed
    <3>2. /\ [request[q] EXCEPT !.pc = "create"] \in Request
          /\ Placed([request[q] EXCEPT !.pc = "create"])
      BY <2>1 DEF Request, Placed
    <3> QED BY <2>2, <3>1, <3>2
  <2> QED BY <1>0, <2>2, <2>3, RequestTyped DEF TypeOK
<1>5. ASSUME NEW q \in Requests,
             NeedsLink(q) \/ IssueSession(q) \/ Unlinked(q) \/ Abandon(q)
      PROVE  TypeOK'
  <2>1. request' = [request EXCEPT ![q] = Idle] /\ UNCHANGED <<user, link>>
    BY <1>5 DEF NeedsLink, IssueSession, Unlinked, Abandon
  <2> QED BY <1>0, <2>1, IdleTyped, RequestTyped DEF TypeOK
<1>6. ASSUME NEW q \in Requests, NEW u \in Users, CreateUser(q, u)
      PROVE  TypeOK'
  <2> DEFINE d == [request[q] EXCEPT !.pc = "link", !.did = u]
             r == [state |-> "live", email |-> request[q].mail]
  <2>1. request[q] \in Request /\ request[q].id \in Identities
    BY <1>6 DEF CreateUser, TypeOK
  <2>2. d \in Request /\ Placed(d) /\ r \in Row
    BY <2>1 DEF Request, Placed, Row
  <2>3. link' = link
        /\ \/ user' = [user EXCEPT ![u] = r] /\ request' = [request EXCEPT ![q] = d]
           \/ user' = user /\ request' = [request EXCEPT ![q] = Idle]
    BY <1>6 DEF CreateUser
  <2> HIDE DEF d, r
  <2> QED BY <1>0, <2>2, <2>3, IdleTyped, RequestTyped DEF TypeOK
<1>7. ASSUME NEW q \in Requests, LinkProvider(q)
      PROVE  TypeOK'
  <2> DEFINE d == request[q]
             x == [d EXCEPT !.pc = "session"]
             l == [link EXCEPT ![d.id] = d.did]
  <2>1. d \in Request /\ d.id \in Identities /\ d.did \in Users
    BY <1>7 DEF LinkProvider, TypeOK
  <2>2. x \in Request /\ Placed(x)
    BY <2>1 DEF Request, Placed
  <2>3. l \in [Identities -> Users \cup {NoUser}]
    BY <2>1 DEF TypeOK
  <2>4. PICK e \in {x, Idle}, m \in {l, link} : Goes(q, e, m)
    BY <1>7 DEF LinkProvider
  <2>5. user' = user
    BY <1>7 DEF LinkProvider
  <2>6. /\ e \in Request /\ Placed(e)
        /\ m \in [Identities -> Users \cup {NoUser}]
    BY <2>2, <2>3, <2>4, IdleTyped DEF TypeOK
  <2> QED BY <1>0, <2>4, <2>5, <2>6, GoesTyped DEF TypeOK
<1>8. ASSUME NEW q \in Requests, NEW u \in Users, NEW i \in Identities,
             LinkToUser(q, u, i)
      PROVE  TypeOK'
  <2> DEFINE d == [Idle EXCEPT !.pc = "link", !.id = i, !.did = u]
  <2>1. d \in Request /\ Placed(d)
    BY IdleTyped DEF Request, Placed
  <2>2. request' = [request EXCEPT ![q] = d] /\ UNCHANGED <<user, link>>
    BY <1>8 DEF LinkToUser
  <2> HIDE DEF d
  <2> QED BY <1>0, <2>1, <2>2, RequestTyped DEF TypeOK
<1>9. ASSUME NEW q \in Requests, NEW u \in Users, NEW p \in Providers,
             CountMethods(q, u, p)
      PROVE  TypeOK'
  <2> DEFINE d == [Idle EXCEPT !.pc = "delete", !.did = u, !.provider = p,
                               !.rows = LinksOf(u)]
  <2>1. d \in Request /\ Placed(d)
    <3>1. LinksOf(u) \in SUBSET Identities
      BY DEF LinksOf
    <3> QED BY <3>1, IdleTyped DEF Request, Placed
  <2>2. request' = [request EXCEPT ![q] = d] /\ UNCHANGED <<user, link>>
    BY <1>9 DEF CountMethods
  <2> HIDE DEF d
  <2> QED BY <1>0, <2>1, <2>2, RequestTyped DEF TypeOK
<1>10. ASSUME NEW q \in Requests, DeleteLinks(q)
       PROVE  TypeOK'
  <2> DEFINE d == request[q]
             x == [d EXCEPT !.pc = "unlinked"]
             l == [i \in Identities |->
                     IF link[i] = d.did /\ ProviderOf[i] = d.provider THEN NoUser
                     ELSE link[i]]
  <2>1. d \in Request /\ d.did \in Users
    BY <1>10 DEF DeleteLinks, TypeOK
  <2>2. x \in Request /\ Placed(x)
    BY <2>1 DEF Request, Placed
  <2>3. l \in [Identities -> Users \cup {NoUser}]
    BY DEF TypeOK
  <2>4. Goes(q, x, l) /\ user' = user
    BY <1>10 DEF DeleteLinks
  <2> HIDE DEF x, l
  <2> QED BY <1>0, <2>2, <2>3, <2>4, GoesTyped DEF TypeOK
<1>11. CASE UNCHANGED vars
  BY <1>11 DEF vars, TypeOK
<1> QED
  BY <1>1, <1>2, <1>3, <1>4, <1>5, <1>6, <1>7, <1>8, <1>9, <1>10, <1>11 DEF Next

LEMMA LinkStep ==
  ASSUME TypeOK, TypeOK', LinkInv, [Next]_vars
  PROVE  LinkInv'
<1> DEFINE Slots == \A s \in Requests : Knows(request'[s], link')
<1>0. ASSUME Slots, LinkedUsersExist'
      PROVE  LinkInv'
  BY <1>0 DEF LinkInv
<1>a. ASSUME link' = link, \A u \in Users : Live(u) => Live(u)'
      PROVE  LinkedUsersExist'
  BY <1>a DEF LinkInv, LinkedUsersExist, Linked, TypeOK
<1>1. ASSUME NEW u \in Users, NEW e \in Emails \cup {NoEmail},
             Register(u, e) \/ UpdateEmail(u, e)
      PROVE  LinkInv'
  <2>1. \A v \in Users : Live(v) => Live(v)'
    BY <1>1 DEF Register, UpdateEmail, Live, TypeOK, Row
  <2>2. request' = request /\ link' = link
    BY <1>1 DEF Register, UpdateEmail
  <2> QED BY <1>0, <1>a, <2>1, <2>2 DEF LinkInv
<1>2. ASSUME NEW u \in Users, Erase(u)
      PROVE  LinkInv'
  <2> DEFINE l == [i \in Identities |-> IF link[i] = u THEN NoUser ELSE link[i]]
  <2>1. /\ user' = [user EXCEPT ![u] = [state |-> "gone", email |-> NoEmail]]
        /\ link' = l
        /\ request' = [s \in Requests |-> Disturbed(request[s], l)]
    BY <1>2 DEF Erase
  <2>2. LinkedUsersExist'
    <3> SUFFICES ASSUME NEW i \in Identities, link'[i] # NoUser
                 PROVE  user'[link'[i]].state = "live"
      BY DEF LinkedUsersExist, Linked, Live
    <3>1. link'[i] = link[i] /\ link[i] # u /\ link[i] \in Users
      BY <2>1 DEF TypeOK
    <3>2. user[link[i]].state = "live"
      BY <3>1 DEF LinkInv, LinkedUsersExist, Linked, Live
    <3> QED BY <2>1, <3>1, <3>2 DEF TypeOK
  <2> HIDE DEF l
  <2>3. Slots
    BY <2>1, DisturbedKnows DEF LinkInv, TypeOK, Placed
  <2> QED BY <1>0, <2>2, <2>3
<1>3. ASSUME NEW q \in Requests, NEW i \in Identities, NEW c \in BOOLEAN,
             NEW e \in {NoEmail, EmailOf[i]}, Login(q, i, e, c)
      PROVE  LinkInv'
  <2> DEFINE p == IF Linked(i) THEN "session"
                  ELSE IF e # NoEmail /\ i \in Verified THEN "email"
                  ELSE "create"
             d == [Idle EXCEPT !.id = i, !.mail = e, !.createAccount = c,
                               !.login = TRUE, !.pc = p, !.did = link[i]]
  <2>1. /\ p = "session" \/ (p \in {"email", "create"} /\ link[i] = NoUser)
    BY DEF Linked
  <2>2. Knows(d, link)
    <3> HIDE DEF p
    <3>1. d.pc = p /\ d.id = i /\ d.did = link[i] /\ d.login = TRUE
      BY DEF Idle
    <3> HIDE DEF d
    <3> QED BY <2>1, <3>1 DEF Knows
  <2>3. request' = [request EXCEPT ![q] = d] /\ UNCHANGED <<user, link>>
    BY <1>3 DEF Login
  <2> HIDE DEF d
  <2> QED BY <1>0, <1>a, <2>2, <2>3, RequestKnows DEF Live
<1>4. ASSUME NEW q \in Requests, FindByEmail(q)
      PROVE  LinkInv'
  <2>1. /\ request[q] \in Request /\ request[q].pc = "email"
        /\ Knows(request[q], link)
    BY <1>4 DEF FindByEmail, TypeOK, LinkInv
  <2>2. PICK d :
          /\ request' = [request EXCEPT ![q] = d] /\ UNCHANGED <<user, link>>
          /\ \/ \E u \in Users : d = Matched(request[q], u)
             \/ d = [request[q] EXCEPT !.pc = "create"]
    BY <1>4 DEF FindByEmail
  <2>3. /\ d.pc \in {"link", "create"} /\ d.id = request[q].id
        /\ d.login = request[q].login /\ d.clean = request[q].clean
    BY <2>1, <2>2 DEF Matched, Request
  <2>4. Knows(d, link)
    BY <2>1, <2>3 DEF Knows
  <2> QED BY <1>0, <1>a, <2>2, <2>4, RequestKnows DEF Live
<1>5. ASSUME NEW q \in Requests,
             NeedsLink(q) \/ IssueSession(q) \/ Unlinked(q) \/ Abandon(q)
      PROVE  LinkInv'
  <2>1. request' = [request EXCEPT ![q] = Idle] /\ UNCHANGED <<user, link>>
    BY <1>5 DEF NeedsLink, IssueSession, Unlinked, Abandon
  <2> QED BY <1>0, <1>a, <2>1, IdleKnows, RequestKnows DEF Live
<1>6. ASSUME NEW q \in Requests, NEW u \in Users, CreateUser(q, u)
      PROVE  LinkInv'
  <2> DEFINE d == [request[q] EXCEPT !.pc = "link", !.did = u]
             r == [state |-> "live", email |-> request[q].mail]
  <2>1. /\ request[q] \in Request /\ request[q].pc = "create"
        /\ Knows(request[q], link)
    BY <1>6 DEF CreateUser, TypeOK, LinkInv
  <2>2. /\ d.pc = "link" /\ d.id = request[q].id
        /\ d.login = request[q].login /\ d.clean = request[q].clean
    BY <2>1 DEF Request
  <2>3. r.state = "live"
    OBVIOUS
  <2>4. link' = link
        /\ \/ user' = [user EXCEPT ![u] = r] /\ request' = [request EXCEPT ![q] = d]
           \/ user' = user /\ request' = [request EXCEPT ![q] = Idle]
    BY <1>6 DEF CreateUser
  <2> HIDE DEF d, r
  <2>5. Knows(d, link)
    BY <2>1, <2>2 DEF Knows
  <2>6. \A v \in Users : Live(v) => Live(v)'
    BY <2>3, <2>4 DEF Live, TypeOK
  <2> QED BY <1>0, <1>a, <2>4, <2>5, <2>6, IdleKnows, RequestKnows
<1>7. ASSUME NEW q \in Requests, LinkProvider(q)
      PROVE  LinkInv'
  <2> DEFINE d == request[q]
             x == [d EXCEPT !.pc = "session"]
             l == [link EXCEPT ![d.id] = d.did]
             y == IF d.login THEN x ELSE Idle
  <2>1. /\ d \in Request /\ d.pc = "link" /\ Knows(d, link)
        /\ d.id \in Identities /\ d.did \in Users
    BY <1>7 DEF LinkProvider, TypeOK, LinkInv
  <2>2. /\ x.pc = "session" /\ x.id = d.id /\ x.did = d.did
        /\ x.login = d.login /\ x.clean = d.clean
    BY <2>1 DEF Request
  <2>3. user' = user
    BY <1>7 DEF LinkProvider
  <2>4. l[d.id] = d.did
    BY <2>1 DEF TypeOK
  <2>5. CASE Linked(d.id)
    <3>1. Goes(q, y, link)
      BY <1>7, <2>5 DEF LinkProvider
    <3>2. Knows(y, link)
      <4>1. CASE d.login
        <5>1. ~d.clean
          BY <2>1, <2>5, <4>1 DEF Knows, Linked
        <5> HIDE DEF x, d
        <5> QED BY <2>2, <4>1, <5>1 DEF Knows
      <4>2. CASE ~d.login
        BY <4>2, IdleKnows
      <4> QED BY <4>1, <4>2
    <3>3. Slots
      <4> HIDE DEF y
      <4> QED BY <3>1, <3>2, GoesKnows
    <3>4. link' = link
      BY <3>1 DEF Goes
    <3> QED BY <1>0, <1>a, <2>3, <3>3, <3>4 DEF Live
  <2>6. CASE ~Linked(d.id) /\ ReferencedUser(d.did)
    <3>1. Goes(q, y, l)
      BY <1>7, <2>6 DEF LinkProvider
    <3>2. Knows(y, l)
      <4>1. CASE d.login
        <5> HIDE DEF x, d, l
        <5> QED BY <2>2, <2>4, <4>1 DEF Knows
      <4>2. CASE ~d.login
        BY <4>2, IdleKnows
      <4> QED BY <4>1, <4>2
    <3>3. Slots
      <4> HIDE DEF y, l
      <4> QED BY <3>1, <3>2, GoesKnows
    <3>4. link' = l
      BY <3>1 DEF Goes
    <3>5. LinkedUsersExist'
      BY <2>1, <2>3, <2>6, <3>4
      DEF LinkInv, LinkedUsersExist, Linked, ReferencedUser, Live, TypeOK
    <3> QED BY <1>0, <3>3, <3>5
  <2>7. CASE ~Linked(d.id) /\ ~ReferencedUser(d.did)
    <3>1. Goes(q, Idle, link)
      BY <1>7, <2>7 DEF LinkProvider
    <3>2. Slots
      BY <3>1, IdleKnows, GoesKnows
    <3>3. link' = link
      BY <3>1 DEF Goes
    <3> QED BY <1>0, <1>a, <2>3, <3>2, <3>3 DEF Live
  <2> QED BY <2>5, <2>6, <2>7
<1>8. ASSUME NEW q \in Requests, NEW u \in Users, NEW i \in Identities,
             LinkToUser(q, u, i)
      PROVE  LinkInv'
  <2> DEFINE d == [Idle EXCEPT !.pc = "link", !.id = i, !.did = u]
  <2>1. d.pc = "link" /\ d.login = FALSE
    BY DEF Idle
  <2>2. request' = [request EXCEPT ![q] = d] /\ UNCHANGED <<user, link>>
    BY <1>8 DEF LinkToUser
  <2> HIDE DEF d
  <2>3. Knows(d, link)
    BY <2>1 DEF Knows
  <2> QED BY <1>0, <1>a, <2>2, <2>3, RequestKnows DEF Live
<1>9. ASSUME NEW q \in Requests, NEW u \in Users, NEW p \in Providers,
             CountMethods(q, u, p)
      PROVE  LinkInv'
  <2> DEFINE d == [Idle EXCEPT !.pc = "delete", !.did = u, !.provider = p,
                               !.rows = LinksOf(u)]
  <2>1. /\ d.pc = "delete" /\ d.did = u /\ d.provider = p
        /\ d.rows = LinksOf(u) /\ d.login = FALSE
    BY DEF Idle
  <2>2. request' = [request EXCEPT ![q] = d] /\ UNCHANGED <<user, link>>
    BY <1>9 DEF CountMethods
  <2>3. p # NoIdentity /\ Cardinality(LinksOf(u)) > 1
    BY <1>9, OAuthAssumption DEF CountMethods, EnoughMethods
  <2> HIDE DEF d
  <2>4. Knows(d, link)
    BY <2>1, <2>3 DEF Knows, LinksOf
  <2> QED BY <1>0, <1>a, <2>2, <2>4, RequestKnows DEF Live
<1>10. ASSUME NEW q \in Requests, DeleteLinks(q)
       PROVE  LinkInv'
  <2> DEFINE d == request[q]
             x == [d EXCEPT !.pc = "unlinked"]
             l == [i \in Identities |->
                     IF link[i] = d.did /\ ProviderOf[i] = d.provider THEN NoUser
                     ELSE link[i]]
  <2>1. /\ d \in Request /\ d.pc = "delete" /\ Knows(d, link)
        /\ d.did \in Users /\ d.did # NoUser
    BY <1>10, OAuthAssumption DEF DeleteLinks, TypeOK, LinkInv
  <2>2. /\ x.pc = "unlinked" /\ x.did = d.did /\ x.provider = d.provider
        /\ x.rows = d.rows /\ x.clean = d.clean
    BY <2>1 DEF Request
  <2>3. Goes(q, x, l) /\ user' = user /\ link' = l
    BY <1>10 DEF DeleteLinks, Goes
  <2>4. \A i \in Identities :
          l[i] = d.did <=> link[i] = d.did /\ ProviderOf[i] # d.provider
    BY <2>1
  <2>5. Knows(x, l)
    <3> HIDE DEF x, l, d
    <3> QED BY <2>1, <2>2, <2>4 DEF Knows
  <2>6. Slots
    <3> HIDE DEF x, l
    <3> QED BY <2>3, <2>5, GoesKnows
  <2>7. LinkedUsersExist'
    BY <2>3 DEF LinkInv, LinkedUsersExist, Linked, Live, TypeOK
  <2> QED BY <1>0, <2>6, <2>7
<1>11. CASE UNCHANGED vars
  BY <1>11 DEF vars, LinkInv, LinkedUsersExist, Linked, Live
<1> QED
  BY <1>1, <1>2, <1>3, <1>4, <1>5, <1>6, <1>7, <1>8, <1>9, <1>10, <1>11 DEF Next
-----------------------------------------------------------------------------
LEMMA Invariance == Spec => [](TypeOK /\ LinkInv)
<1>1. Init => TypeOK /\ LinkInv
  <2> SUFFICES ASSUME Init
               PROVE  TypeOK /\ LinkInv
    OBVIOUS
  <2>1. [state |-> "none", email |-> NoEmail] \in Row
    BY DEF Row
  <2>2. TypeOK
    BY <2>1, IdleTyped DEF Init, TypeOK, Placed
  <2>3. LinkInv
    BY IdleKnows DEF Init, LinkInv, LinkedUsersExist, Linked
  <2> QED BY <2>2, <2>3
<1>2. TypeOK /\ LinkInv /\ [Next]_vars => (TypeOK /\ LinkInv)'
  BY TypeStep, LinkStep
<1> QED BY <1>1, <1>2, PTL DEF Spec

\* Rows, links and requests keep their types: a request that links, deletes or
\* answers has a DID.
THEOREM TypeCorrect == Spec => []TypeOK
BY Invariance, PTL

\* A login whose identity nobody else links or erases meanwhile answers with a
\* session of the account that the identity is linked to.
THEOREM LoginsComeBack == Spec => []SessionsFollowLinks
<1>1. LinkInv => SessionsFollowLinks
  BY DEF LinkInv, Knows, SessionsFollowLinks
<1> QED BY <1>1, Invariance, PTL

\* Links lead to accounts that exist, however erasures interleave.
THEOREM LinksLeadToUsers == Spec => []LinkedUsersExist
BY Invariance, PTL DEF LinkInv

\* With at most one identity per provider, an undisturbed unlink leaves a way
\* to log in.
THEOREM UnlinkIsSafeAlone == Spec => []UndisturbedUnlinkKeepsAMethod
<1>1. ASSUME TypeOK, LinkInv
      PROVE  UndisturbedUnlinkKeepsAMethod
  <2> SUFFICES ASSUME NEW q \in Requests,
                      request[q].pc = "unlinked", request[q].clean,
                      \A i, j \in request[q].rows :
                        ProviderOf[i] = ProviderOf[j] => i = j
               PROVE  LinksOf(request[q].did) # {}
    BY DEF UndisturbedUnlinkKeepsAMethod
  <2> DEFINE R == request[q].rows
             p == request[q].provider
  <2>1. /\ Cardinality(R) > 1
        /\ LinksOf(request[q].did) = {i \in R : ProviderOf[i] # p}
    BY <1>1 DEF LinkInv, Knows, LinksOf
  <2>2. ~(\E x : R = {x}) /\ R # {}
    <3> HIDE DEF R
    <3>1. Cardinality({}) = 0
      BY FS_EmptySet
    <3>2. R # {}
      BY <2>1, <3>1
    <3>3. ASSUME NEW x, R = {x}
          PROVE  FALSE
      <4>1. Cardinality({x}) = 1
        BY FS_Singleton, Zenon
      <4>2. Cardinality(R) = 1
        BY <3>3, <4>1, Zenon
      <4> QED BY <2>1, <4>2
    <3> QED BY <3>2, <3>3
  <2>3. PICK i \in R, j \in R : i # j
    <3> HIDE DEF R
    <3> QED BY <2>2
  <2>4. ProviderOf[i] # p \/ ProviderOf[j] # p
    BY <2>3
  <2> QED BY <2>1, <2>3, <2>4
<1> QED BY <1>1, Invariance, PTL
-----------------------------------------------------------------------------
(***************************************************************************)
(* Account recovery: what the codes, the pages and the mails keep.         *)
(***************************************************************************)

Latest(u, c) == /\ c \in Issued /\ mail[c].to = u
                /\ \A d \in Issued : mail[d].to = u => d =< c

\* The Map holds the last code of an address, as old as its mail and compared
\* as often as it was tried, and it holds every code that is good.
CodeInv(u) ==
  /\ \A r \in codes[u] :
       /\ r.did = u /\ Latest(u, r.code)
       /\ r.expires = mail[r.code].issued + Ttl /\ mail[r.code].epoch = restarts
       /\ accepted[r.code] = << >> /\ tried[r.code] = r.attempts
  /\ \A c \in Issued : Good(u, c) => \E r \in codes[u] : r.code = c

\* A code is used up by the endpoint that accepts it.
SpentInv == \A c \in Issued : accepted[c] \in {<< >>, <<"verify">>, <<"reset">>}
Spent(k) == \E c \in Issued : accepted[c] = <<k>>

\* What mail m has gone through, with e restarts so far.
MailRight(m, e) ==
  /\ m.epoch =< e
  /\ m.at = "sending" => m.failed = 0
  /\ m.at = "failed" => m.failed = 1
  /\ m.at = "queued" => m.left >= 1 /\ m.failed + m.left = MaxSends + 1
  /\ m.at = "dropped" => \/ m.failed = MaxSends + 1
                         \/ m.failed =< 1 /\ m.epoch < e

\* A mail that is delivered, in a file or in the queue, or given up after all
\* of its attempts.
Kept(m) == \/ m.at \in {"queued", "arrived", "file"}
           \/ m.at = "dropped" /\ m.failed = MaxSends + 1

\* What an answer to a request says of the mail of its code.
AnswerRight(x) ==
  LET r == call[x]["request"] IN
  /\ r.at \in {"sent", "found"} => r.code = 0
  /\ r.at = "bad" => r.code \in Issued /\ mail[r.code].at = "unwritten"
  /\ r.at = "ok" /\ r.code # 0 => r.code \in Issued /\ Kept(mail[r.code])

\* What the calls of a page know.
CallInv(p) ==
  /\ page[p].step # "email" => page[p].to \in Owners
  /\ \A k \in Kinds : call[p][k].at # "idle" => page[p].to \in Owners /\ call[p][k].to \in Owners
  /\ call[p]["request"].at = "sending" => call[p]["request"].code \in Issued
  /\ \A k \in {"verify", "reset"} : call[p][k].at \in {"checked", "free", "updated", "ok"} =>
       call[p][k].did = call[p][k].to /\ Spent(k)

\* Where a page is, and what it has spent to get there.
StepInv(p) ==
  /\ page[p].step \in {"identity", "new-handle", "done"} => Spent("verify")
  /\ call[p]["reset"].at # "idle" => Spent("verify")
  /\ page[p].step = "done" => Spent("reset")

\* Without an edit under way, all calls are about the address of the page.
AddressInv(p) ==
  page[p].edited \/
    /\ call[p]["verify"].at # "idle" => call[p]["verify"].to = page[p].to
    /\ call[p]["reset"].at # "idle" => /\ call[p]["reset"].to = page[p].to
                                       /\ page[p].shown = page[p].to
    /\ page[p].step \in {"identity", "new-handle"} => page[p].shown = page[p].to
    /\ page[p].step = "done" => page[p].shown = page[p].set

CountInv == now =< faults /\ restarts =< faults

CodesInv == CountInv /\ SpentInv /\ \A u \in Owners : CodeInv(u)
PagesInv == \A p \in Pages : CallInv(p) /\ StepInv(p) /\ AddressInv(p)
MailsInv == \A c \in Issued : MailRight(mail[c], restarts)
AnswersInv == \A x \in Pages : AnswerRight(x)

\* Everything a step of the recovery keeps, the type with it: how old a code
\* may be and how often it may be compared are bounds only this shows.
AllRecovery == RecoveryTypeOK /\ CodesInv /\ PagesInv /\ MailsInv /\ AnswersInv

PageTypes == [step : {"email", "code", "identity", "new-handle", "done"},
              to : Owners \cup {NoOwner}, code : Nat, shown : Owners \cup {NoOwner},
              set : Owners \cup {NoOwner}, edited : BOOLEAN]
-----------------------------------------------------------------------------
(***************************************************************************)
(* The calls, the mails and what is kept about the codes.                  *)
(***************************************************************************)
LEMMA OneCallChanges ==
  ASSUME call \in [Pages -> [Kinds -> Calls]], NEW x \in Pages, NEW k \in Kinds,
         NEW r \in Calls, call' = [call EXCEPT ![x][k] = r]
  PROVE  /\ call' \in [Pages -> [Kinds -> Calls]]
         /\ \A y \in Pages, j \in Kinds :
              call'[y][j] = IF y = x /\ j = k THEN r ELSE call[y][j]
OBVIOUS

States == {"idle", "sent", "found", "sending", "checked", "free", "updated",
           "ok", "bad", "lost"}

LEMMA CallFields ==
  ASSUME NEW r \in Calls, NEW s \in States
  PROVE  /\ [r EXCEPT !.at = s] \in Calls
         /\ [r EXCEPT !.at = s].at = s /\ [r EXCEPT !.at = s].to = r.to
         /\ [r EXCEPT !.at = s].code = r.code /\ [r EXCEPT !.at = s].want = r.want
         /\ [r EXCEPT !.at = s].did = r.did
         /\ r.at \in States
BY DEF Calls, Ended, States

LEMMA IdleIsCall == IdleCall \in Calls /\ IdleCall.at = "idle"
BY DEF IdleCall, Calls

LEMMA TuplesAreSequences ==
  ASSUME NEW S, NEW n \in Nat
  PROVE  \A s : s \in [1 .. n -> S] <=> s \in Seq(S) /\ Len(s) = n
OBVIOUS

LEMMA MailFields ==
  ASSUME NEW m \in Mails
  PROVE  /\ m.at \in {"sending", "failed", "queued", "arrived", "file", "unwritten", "dropped"}
         /\ m.to \in Owners /\ m.left \in 0 .. MaxSends /\ m.failed \in 0 .. MaxSends + 1
         /\ m.issued \in 0 .. MaxFaults /\ m.epoch \in 0 .. MaxFaults
BY DEF Mails

LEMMA RecordFields ==
  ASSUME NEW r \in Records
  PROVE  /\ r.code \in Nat /\ r.expires \in Nat /\ r.attempts \in 0 .. MaxTries
         /\ [r EXCEPT !.attempts = @ + 1].code = r.code
         /\ [r EXCEPT !.attempts = @ + 1].did = r.did
         /\ [r EXCEPT !.attempts = @ + 1].expires = r.expires
         /\ [r EXCEPT !.attempts = @ + 1].attempts = r.attempts + 1
         /\ r.attempts < MaxTries => [r EXCEPT !.attempts = @ + 1] \in Records
<1> DEFINE s == [r EXCEPT !.attempts = @ + 1]
<1>1. MaxTries \in Nat
  BY RecoveryAssumption
<1>2. /\ s.code = r.code /\ s.did = r.did /\ s.expires = r.expires
      /\ s.attempts = r.attempts + 1
      /\ r.code \in Nat /\ r.expires \in Nat /\ r.attempts \in 0 .. MaxTries
  BY DEF Records
<1>3. r.attempts < MaxTries => s \in Records
  <2>1. r.attempts < MaxTries => r.attempts + 1 \in 0 .. MaxTries
    BY <1>1, <1>2
  <2>2. ASSUME NEW a \in 0 .. MaxTries
        PROVE  [r EXCEPT !.attempts = a] \in Records
    BY DEF Records
  <2>. QED  BY <2>1, <2>2
<1>. QED  BY <1>2, <1>3
-----------------------------------------------------------------------------
(***************************************************************************)
(* Types.                                                                  *)
(***************************************************************************)
LEMMA OnePageChanges ==
  ASSUME page \in [Pages -> PageTypes], NEW p \in Pages, NEW g \in PageTypes,
         page' = [page EXCEPT ![p] = g]
  PROVE  /\ page' \in [Pages -> PageTypes] /\ page'[p] = g
         /\ \A q \in Pages : q # p => page'[q] = page[q]
OBVIOUS

\* One call is under way more: that of kind k of page x.
LEMMA Started ==
  ASSUME RecoveryTypeOK, NEW x \in Pages, NEW k \in Kinds, NEW u \in Owners,
         NEW c \in Nat, NEW h \in Handles \cup {Gone}, Start(x, k, u, c, h)
  PROVE  /\ calls' \in 0 .. MaxCalls
         /\ call[x][k].at = "idle"
         /\ call' \in [Pages -> [Kinds -> Calls]]
         /\ call'[x][k].at = "sent" /\ call'[x][k].to = u /\ call'[x][k].code = c
         /\ \A y \in Pages, j \in Kinds : y # x \/ j # k => call'[y][j] = call[y][j]
<1> DEFINE r == [at |-> "sent", to |-> u, code |-> c, want |-> h, did |-> NoOwner]
<1>1. r \in Calls
  BY DEF Calls
<1>3. call' = [call EXCEPT ![x][k] = r]
  BY DEF Start
<1>4. call \in [Pages -> [Kinds -> Calls]]
  BY DEF RecoveryTypeOK
<1>5. calls' \in 0 .. MaxCalls
  BY RecoveryAssumption DEF Start, RecoveryTypeOK
<1>6. call[x][k].at = "idle"
  BY DEF Start
<1> HIDE DEF r
<1>7. /\ call' \in [Pages -> [Kinds -> Calls]]
      /\ \A y \in Pages, j \in Kinds :
           call'[y][j] = IF y = x /\ j = k THEN r ELSE call[y][j]
  BY <1>1, <1>3, <1>4, OneCallChanges
<1>8. call'[x][k].at = "sent" /\ call'[x][k].to = u /\ call'[x][k].code = c
  BY <1>7 DEF r
<1>. QED  BY <1>5, <1>6, <1>7, <1>8

\* The state of a call under way changes, and nothing else of it.
LEMMA Moved ==
  ASSUME RecoveryTypeOK, NEW x \in Pages, NEW k \in Kinds, NEW s \in States
  PROVE  call' = [call EXCEPT ![x][k].at = s] =>
         /\ call' \in [Pages -> [Kinds -> Calls]]
         /\ call'[x][k].at = s /\ call'[x][k].to = call[x][k].to
         /\ call'[x][k].code = call[x][k].code /\ call'[x][k].did = call[x][k].did
         /\ \A y \in Pages, j \in Kinds : y # x \/ j # k => call'[y][j] = call[y][j]
<1> DEFINE r == [call[x][k] EXCEPT !.at = s]
<1>1. call \in [Pages -> [Kinds -> Calls]] /\ call[x][k] \in Calls
  BY DEF RecoveryTypeOK
<1>2. /\ r \in Calls /\ r.at = s /\ r.to = call[x][k].to
      /\ r.code = call[x][k].code /\ r.did = call[x][k].did
  BY <1>1, CallFields
<1>3. ASSUME call' = [call EXCEPT ![x][k].at = s]
      PROVE  call' = [call EXCEPT ![x][k] = r]
  BY <1>1, <1>3
<1> HIDE DEF r
<1>4. ASSUME call' = [call EXCEPT ![x][k] = r]
      PROVE  /\ call' \in [Pages -> [Kinds -> Calls]]
             /\ \A y \in Pages, j \in Kinds :
                  call'[y][j] = IF y = x /\ j = k THEN r ELSE call[y][j]
  BY <1>1, <1>2, <1>4, OneCallChanges
<1>. QED  BY <1>2, <1>3, <1>4

\* The records that a comparison leaves are those of before, compared once more.
TriedOnce(r) == [r EXCEPT !.attempts = @ + 1]

LEMMA LeftAfterOf ==
  ASSUME NEW u \in Owners, NEW c
  PROVE  \A q : q \in LeftAfter(u, c) <=>
           \E r \in Alive(u) : r.attempts < MaxTries /\ r.code # c /\ q = TriedOnce(r)
BY DEF LeftAfter, TriedOnce

\* What the comparison with a code does: the records, the counts of the
\* comparisons, the history of the code and the call.
Accepts(u, c) == Matches(u, c) # {}

LEMMA Compared ==
  ASSUME RecoveryTypeOK, SpentInv, NEW x \in Pages, NEW k \in {"verify", "reset"},
         \A v \in Owners : CodeInv(v), VerifyCode(x, k),
         NEW u \in Owners, NEW c \in Nat, u = call[x][k].to, c = call[x][k].code
  PROVE  /\ LeftAfter(u, c) \subseteq Records
         /\ \A r, s \in LeftAfter(u, c) : r = s
         /\ \A d \in Issued : tried'[d] = IF \E r \in Alive(u) : r.code = d /\ r.attempts < MaxTries
                                          THEN tried[d] + 1 ELSE tried[d]
         /\ tried' \in [Issued -> 0 .. MaxTries]
         /\ accepted' \in [Issued -> Seq(Kinds)]
         /\ ~Accepts(u, c) => accepted' = accepted /\ call'[x][k].at = "bad"
                                  /\ call'[x][k].did = NoOwner
         /\ Accepts(u, c) => /\ c \in Issued /\ accepted[c] = << >>
                             /\ accepted'[c] = <<k>>
                             /\ \A d \in Issued : d # c => accepted'[d] = accepted[d]
                             /\ call'[x][k].at = "checked" /\ call'[x][k].did = u
         /\ call' \in [Pages -> [Kinds -> Calls]]
         /\ call'[x][k].to = u /\ call'[x][k].code = c
         /\ \A y \in Pages, j \in Kinds : y # x \/ j # k => call'[y][j] = call[y][j]
<1> DEFINE hit == Matches(u, c)
           at == IF hit = {} THEN "bad" ELSE "checked"
           did == IF hit = {} THEN NoOwner ELSE (CHOOSE r \in hit : TRUE).did
           rec == [call[x][k] EXCEPT !.at = at, !.did = did]
<1>k. k \in Kinds /\ MaxTries \in Nat
  BY RecoveryAssumption DEF Kinds
<1>t. /\ call \in [Pages -> [Kinds -> Calls]] /\ codes \in [Owners -> SUBSET Records]
      /\ tried \in [Issued -> 0 .. MaxTries] /\ accepted \in [Issued -> Seq(Kinds)]
  BY DEF RecoveryTypeOK
<1>0. /\ k \in Kinds /\ call \in [Pages -> [Kinds -> Calls]] /\ call[x][k] \in Calls
      /\ codes \in [Owners -> SUBSET Records]
      /\ tried \in [Issued -> 0 .. MaxTries] /\ accepted \in [Issued -> Seq(Kinds)]
      /\ MaxTries \in Nat
  BY <1>k, <1>t
<1>1. /\ tried' = [d \in DOMAIN tried |->
                     IF \E r \in Alive(u) : r.code = d /\ r.attempts < MaxTries
                     THEN tried[d] + 1 ELSE tried[d]]
      /\ accepted' = IF hit = {} THEN accepted ELSE [accepted EXCEPT ![c] = Append(@, k)]
      /\ call' = [call EXCEPT ![x][k].at = at, ![x][k].did = did]
  BY DEF VerifyCode
<1>2. ASSUME NEW r \in codes[u]
      PROVE  /\ r \in Records /\ r.code \in Issued /\ r.did = u
             /\ accepted[r.code] = << >> /\ tried[r.code] = r.attempts
  BY <1>0 DEF CodeInv, Latest
<1>3. \A r \in hit : r \in codes[u] /\ r.code = c /\ r.attempts < MaxTries
  BY DEF Matches, Alive
<1>4. hit # {} => (CHOOSE r \in hit : TRUE) \in hit
  OBVIOUS
<1>5. hit # {} => c \in Issued /\ accepted[c] = << >> /\ did = u
  BY <1>2, <1>3, <1>4
<1>6. at \in States /\ did \in Owners \cup {NoOwner}
  BY <1>0, <1>5 DEF States
<1> HIDE DEF at, did
<1>7. rec \in Calls /\ rec.at = at /\ rec.did = did /\ rec.to = u /\ rec.code = c
  BY <1>0, <1>6 DEF Calls, States, Ended
<1>8. call' = [call EXCEPT ![x][k] = rec]
  BY <1>0, <1>1
<1> HIDE DEF rec
<1>9. /\ call' \in [Pages -> [Kinds -> Calls]] /\ call'[x][k] = rec
      /\ \A y \in Pages, j \in Kinds : y # x \/ j # k => call'[y][j] = call[y][j]
  BY <1>0, <1>7, <1>8, OneCallChanges
<1>10. LeftAfter(u, c) \subseteq Records
  <2>1. ASSUME NEW r \in Alive(u), r.attempts < MaxTries PROVE TriedOnce(r) \in Records
    <3>1. r \in Records
      BY <1>2 DEF Alive
    <3>. QED  BY <2>1, <3>1, RecordFields DEF TriedOnce
  <2>. QED  BY <1>0, <2>1, LeftAfterOf
<1>11. \A r, s \in LeftAfter(u, c) : r = s
  <2>1. \A r, s \in Alive(u) : r = s
    BY <1>0 DEF Alive, RecoveryTypeOK
  <2>. QED  BY <1>0, <2>1, LeftAfterOf
<1>12. tried' \in [Issued -> 0 .. MaxTries]
  <2>1. ASSUME NEW d \in Issued, NEW r \in Alive(u), r.code = d, r.attempts < MaxTries
        PROVE  tried[d] + 1 \in 0 .. MaxTries
    <3>1. r \in codes[u]
      BY DEF Alive
    <3>2. tried[d] = r.attempts /\ r.attempts \in 0 .. MaxTries
      <4>1. r \in Records /\ tried[r.code] = r.attempts
        BY <1>2, <3>1
      <4>2. r.attempts \in 0 .. MaxTries
        BY <4>1, RecordFields
      <4>. QED  BY <2>1, <4>1, <4>2
    <3>. QED  BY <1>0, <2>1, <3>2
  <2>. QED  BY <1>0, <1>1, <2>1
<1>13. hit # {} => accepted' = [accepted EXCEPT ![c] = <<k>>]
  <2>1. Append(<< >>, k) = <<k>>
    OBVIOUS
  <2>. QED  BY <1>1, <1>5, <2>1
<1>14. accepted' \in [Issued -> Seq(Kinds)]
  <2>1. <<k>> \in Seq(Kinds)
    BY <1>0
  <2>. QED  BY <1>0, <1>1, <1>13, <2>1
<1>15. hit = {} => accepted' = accepted /\ call'[x][k].at = "bad" /\ call'[x][k].did = NoOwner
  BY <1>1, <1>7, <1>9 DEF at, did
<1>16. hit # {} => /\ c \in Issued /\ accepted[c] = << >> /\ accepted'[c] = <<k>>
                   /\ \A d \in Issued : d # c => accepted'[d] = accepted[d]
                   /\ call'[x][k].at = "checked" /\ call'[x][k].did = u
  BY <1>0, <1>5, <1>7, <1>9, <1>13 DEF at
<1>17. \A d \in Issued : tried'[d] = IF \E r \in Alive(u) : r.code = d /\ r.attempts < MaxTries
                                     THEN tried[d] + 1 ELSE tried[d]
  BY <1>0, <1>1
<1>18. Accepts(u, c) <=> hit # {}
  BY DEF Accepts
<1> HIDE DEF hit
<1>. QED  BY <1>7, <1>9, <1>10, <1>11, <1>12, <1>14, <1>15, <1>16, <1>17, <1>18
-----------------------------------------------------------------------------
(***************************************************************************)
(* Mails.                                                                  *)
(***************************************************************************)
\* What never changes of a mail.
SameMail(m, n) == m.to = n.to /\ m.issued = n.issued /\ m.epoch = n.epoch

LEMMA OneMailChanges ==
  ASSUME mail \in Seq(Mails), NEW c \in Issued, NEW m \in Mails
  PROVE  mail' = [mail EXCEPT ![c] = m] =>
         /\ mail' \in Seq(Mails) /\ Len(mail') = Len(mail) /\ mail'[c] = m
         /\ \A d \in Issued : d # c => mail'[d] = mail[d]
BY DEF Issued

LEMMA SentOn ==
  ASSUME NEW m \in Mails, NEW s \in {"arrived", "failed", "queued", "file", "unwritten"}
  PROVE  LET n == AfterSend(m, s) IN
         /\ n \in Mails /\ n.at = s /\ SameMail(m, n)
         /\ n.failed = IF s = "failed" THEN 1 ELSE m.failed
         /\ n.left = IF s = "queued" THEN MaxSends ELSE m.left
<1> DEFINE f == IF s = "failed" THEN 1 ELSE m.failed
           l == IF s = "queued" THEN MaxSends ELSE m.left
<1>1. f \in 0 .. MaxSends + 1 /\ l \in 0 .. MaxSends
  BY RecoveryAssumption, MailFields
<1>2. AfterSend(m, s) = [m EXCEPT !.at = s, !.failed = f, !.left = l]
  BY DEF AfterSend, Retries
<1> HIDE DEF f, l
<1>3. LET n == [m EXCEPT !.at = s, !.failed = f, !.left = l] IN
      /\ n \in Mails /\ n.at = s /\ SameMail(m, n) /\ n.failed = f /\ n.left = l
  BY <1>1 DEF Mails, SameMail
<1>. QED  BY <1>2, <1>3 DEF f, l

LEMMA SendMailDoes ==
  ASSUME AllRecovery, NEW x \in Pages, SendMail(x)
  PROVE  LET c == call[x]["request"].code IN
         /\ c \in Issued
         /\ mail[c].at \in {"sending", "failed"}
         /\ \E m \in Mails, s \in {"sending", "ok", "bad"} :
              /\ SameMail(mail[c], m) /\ MailRight(m, restarts)
              /\ s = "ok" => Kept(m)
              /\ s = "bad" => m.at = "unwritten"
              /\ mail' = [mail EXCEPT ![c] = m]
              /\ call' = [call EXCEPT ![x]["request"].at = s]
         /\ faults' \in 0 .. MaxFaults /\ faults' >= faults
<1> DEFINE c == call[x]["request"].code
<1>1. c \in Issued /\ call[x]["request"].at = "sending"
  BY DEF SendMail, AllRecovery, PagesInv, CallInv
<1>2. PICK o \in Outcomes :
        /\ mail[c].at = o[1]
        /\ Fault \/ UNCHANGED faults
        /\ mail' = [mail EXCEPT ![c] = AfterSend(mail[c], o[2])]
        /\ call' = [call EXCEPT ![x]["request"].at = GoesOn(o[2])]
  BY DEF SendMail
<1>3. \/ o[1] = "sending" /\ o[2] \in {"arrived", "failed", "file", "unwritten"}
      \/ o[1] = "failed" /\ o[2] \in {"queued", "file", "unwritten"}
  BY DEF Outcomes, FileMock, WriteFile
<1>4. faults \in 0 .. MaxFaults /\ MaxFaults \in Nat
  BY RecoveryAssumption DEF AllRecovery, RecoveryTypeOK
<1>5. faults' \in 0 .. MaxFaults /\ faults' >= faults
  BY <1>2, <1>4 DEF Fault
<1>6. mail[c] \in Mails /\ MailRight(mail[c], restarts)
  BY <1>1 DEF AllRecovery, RecoveryTypeOK, MailsInv, Issued
<1> DEFINE m == AfterSend(mail[c], o[2])
<1>7. /\ m \in Mails /\ m.at = o[2] /\ SameMail(mail[c], m)
      /\ m.failed = IF o[2] = "failed" THEN 1 ELSE mail[c].failed
      /\ m.left = IF o[2] = "queued" THEN MaxSends ELSE mail[c].left
  BY <1>3, <1>6, SentOn
<1> HIDE DEF m
<1>8. MailRight(m, restarts)
  <2>1. MaxSends \in Nat /\ MaxSends >= 1
    BY RecoveryAssumption
  <2>. QED  BY <1>2, <1>3, <1>6, <1>7, <2>1 DEF MailRight, SameMail
<1>9. /\ GoesOn(o[2]) \in {"sending", "ok", "bad"}
      /\ GoesOn(o[2]) = "ok" => Kept(m)
      /\ GoesOn(o[2]) = "bad" => m.at = "unwritten"
  BY <1>3, <1>7 DEF GoesOn, Kept
<1>10. mail' = [mail EXCEPT ![c] = m]
  BY <1>2 DEF m
<1>11. mail[c].at \in {"sending", "failed"}
  BY <1>2, <1>3
<1> HIDE DEF c
<1>. QED  BY <1>1, <1>2, <1>5, <1>7, <1>8, <1>9, <1>10, <1>11 DEF c

LEMMA RetryMailDoes ==
  ASSUME AllRecovery, NEW c \in Issued, RetryMail(c)
  PROVE  /\ mail[c].at = "queued"
         /\ \E m \in Mails : /\ SameMail(mail[c], m) /\ MailRight(m, restarts)
                             /\ mail' = [mail EXCEPT ![c] = m] /\ Kept(m)
<1>1. mail[c] \in Mails /\ MailRight(mail[c], restarts) /\ mail[c].at = "queued"
  BY DEF AllRecovery, RecoveryTypeOK, MailsInv, RetryMail, Issued
<1>2. PICK m \in SendDirect(mail[c]) : mail' = [mail EXCEPT ![c] = m]
  BY DEF RetryMail
<1>3. CASE m = [mail[c] EXCEPT !.at = "arrived"]
  <2>1. m \in Mails /\ m.at = "arrived" /\ SameMail(mail[c], m)
    BY <1>1, <1>3 DEF Mails, SameMail
  <2>2. MailRight(m, restarts)
    BY <1>1, <2>1 DEF MailRight, SameMail
  <2>. QED  BY <1>1, <1>2, <2>1, <2>2 DEF Kept
<1>4. CASE m = [mail[c] EXCEPT !.left = @ - 1, !.failed = @ + 1,
                               !.at = IF mail[c].left = 1 THEN "dropped" ELSE @]
  <2> DEFINE l == mail[c].left - 1
             f == mail[c].failed + 1
             s == IF mail[c].left = 1 THEN "dropped" ELSE "queued"
  <2>1. MaxSends \in Nat /\ MaxSends >= 1
    BY RecoveryAssumption
  <2>2. /\ mail[c].left \in 0 .. MaxSends /\ mail[c].failed \in 0 .. MaxSends + 1
        /\ mail[c].left >= 1 /\ mail[c].failed + mail[c].left = MaxSends + 1
        /\ mail[c].epoch =< restarts
    BY <1>1, MailFields DEF MailRight
  <2>3. /\ l \in 0 .. MaxSends /\ f \in 0 .. MaxSends + 1 /\ f + l = MaxSends + 1
        /\ s = "dropped" => f = MaxSends + 1
        /\ s = "queued" => l >= 1
    BY <2>1, <2>2
  <2>4. m = [mail[c] EXCEPT !.left = l, !.failed = f, !.at = s]
    BY <1>1, <1>4
  <2>5. s \in {"dropped", "queued"}
    OBVIOUS
  <2> HIDE DEF l, f, s
  <2>6. m \in Mails /\ m.at = s /\ m.left = l /\ m.failed = f /\ SameMail(mail[c], m)
    BY <1>1, <2>3, <2>4, <2>5 DEF Mails, SameMail
  <2>7. MailRight(m, restarts)
    BY <2>2, <2>3, <2>5, <2>6 DEF MailRight, SameMail
  <2>8. Kept(m)
    BY <2>3, <2>5, <2>6 DEF Kept
  <2>. QED  BY <1>1, <1>2, <2>6, <2>7, <2>8
<1>. QED  BY <1>2, <1>3, <1>4 DEF SendDirect
-----------------------------------------------------------------------------
(***************************************************************************)
(* The type of every variable.                                             *)
(***************************************************************************)
\* The conjuncts of RecoveryTypeOK, by the variables they are about.
CodeTypes == codes \in [Owners -> SUBSET Records] /\ \A u \in Owners : \A r, s \in codes[u] : r = s
CountTypes == /\ now \in 0 .. MaxFaults /\ calls \in 0 .. MaxCalls
              /\ restarts \in 0 .. MaxFaults /\ faults \in 0 .. MaxFaults
HistoryTypes == tried \in [Issued -> 0 .. MaxTries] /\ accepted \in [Issued -> Seq(Kinds)]

LEMMA TypesOf ==
  RecoveryTypeOK <=>
    /\ handle \in [Owners -> Handles \cup {Gone}] /\ CodeTypes /\ mail \in Seq(Mails)
    /\ page \in [Pages -> PageTypes] /\ call \in [Pages -> [Kinds -> Calls]]
    /\ CountTypes /\ HistoryTypes
BY DEF RecoveryTypeOK, CodeTypes, CountTypes, HistoryTypes, PageTypes

LEMMA StaysTyped ==
  ASSUME CodeTypes, HistoryTypes, CountTypes
  PROVE  /\ UNCHANGED codes => CodeTypes'
         /\ UNCHANGED <<tried, accepted>> /\ Len(mail') = Len(mail) => HistoryTypes'
         /\ UNCHANGED <<now, calls, restarts, faults>> => CountTypes'
BY DEF CodeTypes, HistoryTypes, CountTypes, Issued

LEMMA PageFields ==
  ASSUME NEW g \in PageTypes
  PROVE  /\ \A u \in Owners : [g EXCEPT !.to = u] \in PageTypes
         /\ \A u \in Owners, b \in BOOLEAN : [g EXCEPT !.to = u, !.edited = b] \in PageTypes
         /\ \A c \in Nat : [g EXCEPT !.code = c] \in PageTypes
BY DEF PageTypes

\* What an answer does to a page.
LEMMA AnswerTyped ==
  ASSUME RecoveryTypeOK, NEW x \in Pages, NEW k \in Kinds
  PROVE  LET g == AfterAnswer(x, k)
             r == call[x][k] IN
         /\ g \in PageTypes
         /\ g.to = page[x].to /\ g.code = page[x].code /\ g.edited = page[x].edited
         /\ \/ g = page[x]
            \/ k = "request" /\ g.step = "code" /\ g.shown = page[x].shown /\ g.set = page[x].set
            \/ k = "verify" /\ r.at = "ok" /\ g.step = "identity" /\ g.shown = r.did
               /\ g.set = page[x].set
            \/ k = "reset" /\ r.at = "ok" /\ g.step = "done" /\ g.set = r.did
               /\ g.shown = page[x].shown
<1> DEFINE g == AfterAnswer(x, k)
           r == call[x][k]
<1>1. page[x] \in PageTypes /\ r.did \in Owners \cup {NoOwner}
  BY DEF RecoveryTypeOK, PageTypes, Calls
<1>2. CASE k = "request" /\ r.at # "lost"
  <2>1. g = [page[x] EXCEPT !.step = "code"]
    BY <1>2 DEF AfterAnswer
  <2>. QED  BY <1>1, <1>2, <2>1 DEF PageTypes
<1>3. CASE k = "verify" /\ r.at = "ok"
  <2>1. g = [page[x] EXCEPT !.step = "identity", !.shown = r.did]
    BY <1>3 DEF AfterAnswer
  <2>. QED  BY <1>1, <1>3, <2>1 DEF PageTypes
<1>4. CASE k = "reset" /\ r.at = "ok"
  <2>1. g = [page[x] EXCEPT !.step = "done", !.set = r.did]
    BY <1>4 DEF AfterAnswer
  <2>. QED  BY <1>1, <1>4, <2>1 DEF PageTypes
<1>5. CASE ~(k = "request" /\ r.at # "lost") /\ ~(k = "verify" /\ r.at = "ok")
           /\ ~(k = "reset" /\ r.at = "ok")
  <2>1. g = page[x]
    BY <1>5 DEF AfterAnswer
  <2>. QED  BY <1>1, <2>1
<1>. QED  BY <1>2, <1>3, <1>4, <1>5

\* A code is issued: it is the next one, and nothing is known of it yet.
LEMMA Issuing ==
  ASSUME AllRecovery, NEW x \in Pages, Issue(x)
  PROVE  LET u == call[x]["request"].to
             c == Len(mail) + 1
             r == IssuedRecord(u, c) IN
         /\ u \in Owners /\ c \in Nat /\ Issued' = 1 .. c /\ c \in Issued'
         /\ Issued \subseteq Issued' /\ \A d \in Issued' : d = c \/ d \in Issued
         /\ \A d \in Issued : d \in Nat /\ d < c
         /\ codes' = [codes EXCEPT ![u] = {r}] /\ r \in Records
         /\ r.code = c /\ r.did = u /\ r.expires = now + Ttl /\ r.attempts = 0
         /\ mail' \in Seq(Mails) /\ mail'[c] = RecoveryMail(u)
         /\ \A d \in Issued : mail'[d] = mail[d] /\ tried'[d] = tried[d] /\ accepted'[d] = accepted[d]
         /\ tried'[c] = 0 /\ accepted'[c] = << >>
         /\ HistoryTypes'
         /\ call' \in [Pages -> [Kinds -> Calls]]
         /\ LET q == call'[x]["request"] IN q.at = "sending" /\ q.to = u /\ q.code = c
         /\ \A y \in Pages, j \in Kinds : y # x \/ j # "request" => call'[y][j] = call[y][j]
<1> DEFINE u == call[x]["request"].to
           c == Len(mail) + 1
           r == IssuedRecord(u, c)
           m == RecoveryMail(u)
           q == [call[x]["request"] EXCEPT !.at = "sending", !.code = c]
<1>1. /\ call[x]["request"].at = "found" /\ codes' = [codes EXCEPT ![u] = {r}]
      /\ mail' = Append(mail, m) /\ tried' = Append(tried, 0)
      /\ accepted' = Append(accepted, << >>)
      /\ call' = [call EXCEPT ![x]["request"].at = "sending", ![x]["request"].code = c]
  BY DEF Issue, AfterIssue
<1>2. /\ mail \in Seq(Mails) /\ CountTypes /\ call \in [Pages -> [Kinds -> Calls]]
      /\ tried \in [Issued -> 0 .. MaxTries] /\ accepted \in [Issued -> Seq(Kinds)]
      /\ "request" \in Kinds
  BY DEF AllRecovery, RecoveryTypeOK, CountTypes, Kinds
<1>3. u \in Owners
  BY <1>1, <1>2 DEF AllRecovery, PagesInv, CallInv
<1>4. MaxFaults \in Nat /\ MaxTries \in Nat /\ MaxSends \in Nat /\ Ttl \in Nat
  BY RecoveryAssumption
<1>5. c \in Nat /\ Len(mail) \in Nat
  BY <1>2
<1>6. m \in Mails
  BY <1>2, <1>3, <1>4 DEF RecoveryMail, Mails, CountTypes
<1>7. r \in Records /\ r.code = c /\ r.did = u /\ r.expires = now + Ttl /\ r.attempts = 0
  BY <1>2, <1>3, <1>4, <1>5 DEF IssuedRecord, Records, CountTypes
<1>8. call[x]["request"] \in Calls
  BY <1>2
<1>9. q \in Calls /\ q.at = "sending" /\ q.to = u /\ q.code = c
  BY <1>5, <1>8 DEF Calls
<1>10. call' = [call EXCEPT ![x]["request"] = q]
  BY <1>1, <1>2
<1> HIDE DEF m, r, q
<1>11. /\ call' \in [Pages -> [Kinds -> Calls]]
       /\ \A y \in Pages, j \in Kinds :
            call'[y][j] = IF y = x /\ j = "request" THEN q ELSE call[y][j]
  BY <1>2, <1>9, <1>10, OneCallChanges
<1>12. /\ mail' \in Seq(Mails) /\ Len(mail') = c /\ mail'[c] = m
       /\ \A d \in Issued : mail'[d] = mail[d]
  BY <1>1, <1>2, <1>6, AppendProperties DEF Issued
<1>13. Issued' = 1 .. c /\ Issued = 1 .. Len(mail)
  BY <1>12 DEF Issued
<1>14. /\ tried' \in [1 .. c -> 0 .. MaxTries] /\ tried'[c] = 0
       /\ \A d \in Issued : tried'[d] = tried[d]
  <2>1. 0 \in 0 .. MaxTries
    BY <1>4
  <2>2. tried \in Seq(0 .. MaxTries) /\ Len(tried) = Len(mail)
    BY <1>2, <1>5, TuplesAreSequences DEF Issued
  <2>3. /\ tried' \in Seq(0 .. MaxTries) /\ Len(tried') = c /\ tried'[c] = 0
        /\ \A d \in 1 .. Len(mail) : tried'[d] = tried[d]
    BY <1>1, <2>1, <2>2, AppendProperties
  <2>4. tried' \in [1 .. c -> 0 .. MaxTries]
    BY <1>5, <2>3, TuplesAreSequences
  <2>. QED  BY <1>13, <2>3, <2>4
<1>15. /\ accepted' \in [1 .. c -> Seq(Kinds)] /\ accepted'[c] = << >>
       /\ \A d \in Issued : accepted'[d] = accepted[d]
  <2>1. << >> \in Seq(Kinds)
    OBVIOUS
  <2>2. accepted \in Seq(Seq(Kinds)) /\ Len(accepted) = Len(mail)
    BY <1>2, <1>5, TuplesAreSequences DEF Issued
  <2>3. /\ accepted' \in Seq(Seq(Kinds)) /\ Len(accepted') = c /\ accepted'[c] = << >>
        /\ \A d \in 1 .. Len(mail) : accepted'[d] = accepted[d]
    BY <1>1, <2>1, <2>2, AppendProperties
  <2>4. accepted' \in [1 .. c -> Seq(Kinds)]
    BY <1>5, <2>3, TuplesAreSequences
  <2>. QED  BY <1>13, <2>3, <2>4
<1>16. HistoryTypes'
  BY <1>13, <1>14, <1>15 DEF HistoryTypes
<1>17. /\ c \in Issued' /\ Issued \subseteq Issued' /\ \A d \in Issued' : d = c \/ d \in Issued
       /\ \A d \in Issued : d \in Nat /\ d < c
  BY <1>5, <1>13
<1> HIDE DEF u, c
<1>. QED  BY <1>1, <1>3, <1>5, <1>7, <1>9, <1>11, <1>12, <1>13, <1>14, <1>15, <1>16, <1>17 DEF u, c, m, r, q

\* A restart: the mails that were held are given up, the calls that were
\* served are lost.
LEMMA RestartMails ==
  ASSUME mail \in Seq(Mails), Restart
  PROVE  /\ mail' \in Seq(Mails) /\ Len(mail') = Len(mail)
         /\ \A c \in Issued : /\ SameMail(mail[c], mail'[c])
                              /\ mail'[c].failed = mail[c].failed /\ mail'[c].left = mail[c].left
                              /\ mail'[c].at = IF mail[c].at \in {"sending", "failed"}
                                               THEN "dropped" ELSE mail[c].at
<1>1. mail' = [c \in Issued |-> IF mail[c].at \in {"sending", "failed"}
                                THEN [mail[c] EXCEPT !.at = "dropped"] ELSE mail[c]]
  BY DEF Restart
<1>2. \A c \in Issued : mail[c] \in Mails
  BY DEF Issued
<1>3. ASSUME NEW m \in Mails
      PROVE  LET n == [m EXCEPT !.at = "dropped"] IN
             /\ n \in Mails /\ n.at = "dropped" /\ SameMail(m, n)
             /\ n.failed = m.failed /\ n.left = m.left
  BY DEF Mails, SameMail
<1>4. ASSUME NEW c \in Issued
      PROVE  /\ mail'[c] \in Mails /\ SameMail(mail[c], mail'[c])
             /\ mail'[c].failed = mail[c].failed /\ mail'[c].left = mail[c].left
             /\ mail'[c].at = IF mail[c].at \in {"sending", "failed"}
                              THEN "dropped" ELSE mail[c].at
  BY <1>1, <1>2, <1>3 DEF SameMail
<1>5. Len(mail) \in Nat /\ mail' \in [1 .. Len(mail) -> Mails]
  BY <1>1, <1>4 DEF Issued
<1>. QED  BY <1>4, <1>5, TuplesAreSequences

LEMMA RestartCalls ==
  ASSUME call \in [Pages -> [Kinds -> Calls]], Restart
  PROVE  /\ call' \in [Pages -> [Kinds -> Calls]]
         /\ \A x \in Pages, k \in Kinds :
              /\ call'[x][k].to = call[x][k].to /\ call'[x][k].code = call[x][k].code
              /\ call'[x][k].did = call[x][k].did
              /\ call'[x][k].at = IF call[x][k].at \in Ended \cup {"idle"}
                                  THEN call[x][k].at ELSE "lost"
<1>1. call' = [x \in Pages |-> [k \in Kinds |->
                 IF call[x][k].at \in Ended \cup {"idle"} THEN call[x][k]
                 ELSE [call[x][k] EXCEPT !.at = "lost"]]]
  BY DEF Restart
<1>2. "lost" \in States
  BY DEF States
<1>3. ASSUME NEW x \in Pages, NEW k \in Kinds
      PROVE  /\ call'[x][k] \in Calls
             /\ call'[x][k].to = call[x][k].to /\ call'[x][k].code = call[x][k].code
             /\ call'[x][k].did = call[x][k].did
             /\ call'[x][k].at = IF call[x][k].at \in Ended \cup {"idle"}
                                 THEN call[x][k].at ELSE "lost"
  <2>1. call[x][k] \in Calls
    OBVIOUS
  <2> DEFINE r == [call[x][k] EXCEPT !.at = "lost"]
  <2>2. /\ r \in Calls /\ r.at = "lost" /\ r.to = call[x][k].to /\ r.code = call[x][k].code
        /\ r.did = call[x][k].did
    BY <1>2, <2>1, CallFields
  <2>3. call'[x][k] = IF call[x][k].at \in Ended \cup {"idle"} THEN call[x][k] ELSE r
    BY <1>1
  <2> HIDE DEF r
  <2>. QED  BY <2>1, <2>2, <2>3
<1>4. call' \in [Pages -> [Kinds -> Calls]]
  BY <1>1, <1>3
<1>. QED  BY <1>3, <1>4

LEMMA RecoveryTypes ==
  ASSUME AllRecovery, RecoveryNext
  PROVE  RecoveryTypeOK'
<1>1. /\ handle \in [Owners -> Handles \cup {Gone}] /\ CodeTypes /\ mail \in Seq(Mails)
      /\ page \in [Pages -> PageTypes] /\ call \in [Pages -> [Kinds -> Calls]]
      /\ CountTypes /\ HistoryTypes /\ RecoveryTypeOK
  BY TypesOf DEF AllRecovery
<1>2. /\ (handle \in [Owners -> Handles \cup {Gone}])' /\ CodeTypes' /\ (mail \in Seq(Mails))'
      /\ (page \in [Pages -> PageTypes])' /\ (call \in [Pages -> [Kinds -> Calls]])'
      /\ CountTypes' /\ HistoryTypes'
      => RecoveryTypeOK'
  BY DEF RecoveryTypeOK, CodeTypes, CountTypes, HistoryTypes, PageTypes
<1>n. MaxFaults \in Nat /\ MaxTries \in Nat /\ MaxSends \in Nat /\ Ttl \in Nat /\ MaxCalls \in Nat
  BY RecoveryAssumption
<1>k. "request" \in Kinds /\ "verify" \in Kinds /\ "reset" \in Kinds
  BY DEF Kinds
<1>3. ASSUME NEW p \in Pages, TypeEmail(p) \/ TypeCode(p) \/ Turn(p)
      PROVE  RecoveryTypeOK'
  <2>1. UNCHANGED <<handle, codes, mail, call, now, calls, restarts, faults, tried, accepted>>
    BY <1>3 DEF TypeEmail, TypeCode, Turn
  <2>2. page[p] \in PageTypes
    BY <1>1
  <2>3. \E g \in PageTypes : page' = [page EXCEPT ![p] = g]
    <3>1. CASE TypeEmail(p)
      <4>1. PICK u \in Owners \ {page[p].to} :
              page' = [page EXCEPT ![p].to = u,
                         ![p].edited = @ \/ \E k \in {"verify", "reset"} : call[p][k].at # "idle"]
        BY <3>1 DEF TypeEmail
      <4> DEFINE b == page[p].edited \/ \E k \in {"verify", "reset"} : call[p][k].at # "idle"
      <4>2. b \in BOOLEAN
        BY <2>2 DEF PageTypes
      <4>4. page' = [page EXCEPT ![p].to = u, ![p].edited = b]
        BY <1>1, <4>1
      <4> HIDE DEF b
      <4>3. page' = [page EXCEPT ![p] = [page[p] EXCEPT !.to = u, !.edited = b]]
        BY <1>1, <4>4
      <4>. QED  BY <2>2, <4>2, <4>3, PageFields
    <3>2. CASE TypeCode(p)
      <4>1. PICK c \in (Known \cup {0}) \ {page[p].code} : page' = [page EXCEPT ![p].code = c]
        BY <3>2 DEF TypeCode
      <4>2. c \in Nat
        BY <1>1 DEF Known, DevInbox, Issued
      <4>3. page' = [page EXCEPT ![p] = [page[p] EXCEPT !.code = c]]
        BY <1>1, <4>1
      <4>. QED  BY <2>2, <4>2, <4>3, PageFields
    <3>3. CASE Turn(p)
      <4>0. PICK f \in Follows : page' = [page EXCEPT ![p].step = f[2]]
        BY <3>3 DEF Turn
      <4>1. f[2] \in {"email", "new-handle", "identity"}
        BY DEF Follows
      <4> DEFINE s == f[2]
      <4>2. page' = [page EXCEPT ![p].step = s]
        BY <4>0
      <4> HIDE DEF s
      <4>3. [page[p] EXCEPT !.step = s] \in PageTypes
        BY <2>2, <4>1 DEF PageTypes, s
      <4>4. page' = [page EXCEPT ![p] = [page[p] EXCEPT !.step = s]]
        BY <1>1, <4>2
      <4>. QED  BY <4>3, <4>4
    <3>. QED  BY <1>3, <3>1, <3>2, <3>3
  <2>4. page' \in [Pages -> PageTypes]
    BY <1>1, <2>3, OnePageChanges
  <2>. QED  BY <1>1, <1>2, <2>1, <2>4, StaysTyped
<1>4. ASSUME NEW p \in Pages, RequestCode(p) \/ SubmitCode(p) \/ SubmitHandle(p)
      PROVE  RecoveryTypeOK'
  <2>1. UNCHANGED <<handle, codes, mail, page, now, restarts, faults, tried, accepted>>
    BY <1>4 DEF RequestCode, SubmitCode, SubmitHandle
  <2>2. page[p] \in PageTypes /\ page[p].code \in Nat
    BY <1>1 DEF PageTypes
  <2>3. page[p].to \in Owners
    BY <1>4, <2>2 DEF RequestCode, SubmitCode, SubmitHandle, AllRecovery, PagesInv, CallInv, PageTypes
  <2>4. PICK k \in Kinds, c \in Nat, h \in Handles \cup {Gone} : Start(p, k, page[p].to, c, h)
    BY <1>4, <1>k, <2>2 DEF RequestCode, SubmitCode, SubmitHandle
  <2>5. calls' \in 0 .. MaxCalls /\ call' \in [Pages -> [Kinds -> Calls]]
    BY <1>1, <2>3, <2>4, Started
  <2>6. CountTypes'
    BY <1>1, <2>1, <2>5 DEF CountTypes
  <2>. QED  BY <1>1, <1>2, <2>1, <2>5, <2>6, StaysTyped
<1>5. ASSUME NEW x \in Pages, NEW k \in Kinds, Answer(x, k)
      PROVE  RecoveryTypeOK'
  <2>1. UNCHANGED <<handle, codes, mail, now, calls, restarts, faults, tried, accepted>>
    BY <1>5 DEF Answer
  <2>2. page' = [page EXCEPT ![x] = AfterAnswer(x, k)] /\ AfterAnswer(x, k) \in PageTypes
    BY <1>1, <1>5, AnswerTyped DEF Answer
  <2>3. page' \in [Pages -> PageTypes]
    BY <1>1, <2>2, OnePageChanges
  <2>4. call' \in [Pages -> [Kinds -> Calls]]
    BY <1>1, <1>5, IdleIsCall, OneCallChanges DEF Answer
  <2>. QED  BY <1>1, <1>2, <2>1, <2>3, <2>4, StaysTyped
<1>6. ASSUME NEW x \in Pages, FindOwner(x) \/ VerifyRecovery(x) PROVE RecoveryTypeOK'
  <2>1. UNCHANGED <<handle, codes, mail, page, now, calls, restarts, faults, tried, accepted>>
    BY <1>6 DEF FindOwner, VerifyRecovery
  <2>2. PICK k \in Kinds, s \in States : call' = [call EXCEPT ![x][k].at = s]
    BY <1>6, <1>k DEF FindOwner, VerifyRecovery, States
  <2>3. call' \in [Pages -> [Kinds -> Calls]]
    BY <1>1, <2>2, Moved
  <2>. QED  BY <1>1, <1>2, <2>1, <2>3, StaysTyped
<1>7. ASSUME NEW x \in Pages, Issue(x) PROVE RecoveryTypeOK'
  <2>1. UNCHANGED <<handle, page, now, calls, restarts, faults>>
    BY <1>7 DEF Issue
  <2>2. /\ HistoryTypes' /\ mail' \in Seq(Mails) /\ call' \in [Pages -> [Kinds -> Calls]]
        /\ \E u \in Owners, r \in Records : codes' = [codes EXCEPT ![u] = {r}]
    BY <1>7, Issuing
  <2>3. CodeTypes'
    BY <1>1, <2>2 DEF CodeTypes
  <2>. QED  BY <1>1, <1>2, <2>1, <2>2, <2>3, StaysTyped
<1>8. ASSUME NEW x \in Pages, SendMail(x) PROVE RecoveryTypeOK'
  <2>1. UNCHANGED <<handle, codes, page, now, calls, restarts, tried, accepted>>
    BY <1>8 DEF SendMail
  <2>2. PICK c \in Issued, m \in Mails, s \in {"sending", "ok", "bad"} :
          /\ mail' = [mail EXCEPT ![c] = m]
          /\ call' = [call EXCEPT ![x]["request"].at = s]
    BY <1>8, SendMailDoes
  <2>3. faults' \in 0 .. MaxFaults
    BY <1>8, SendMailDoes
  <2>4. mail' \in Seq(Mails) /\ Len(mail') = Len(mail)
    BY <1>1, <2>2, OneMailChanges
  <2>5. s \in States
    BY DEF States
  <2>6. call' \in [Pages -> [Kinds -> Calls]]
    BY <1>1, <1>k, <2>2, <2>5, Moved
  <2>7. CountTypes'
    BY <1>1, <2>1, <2>3 DEF CountTypes
  <2>. QED  BY <1>1, <1>2, <2>1, <2>4, <2>6, <2>7, StaysTyped
<1>9. ASSUME NEW c \in Issued, RetryMail(c) PROVE RecoveryTypeOK'
  <2>1. UNCHANGED <<handle, codes, page, call, now, calls, restarts, faults, tried, accepted>>
    BY <1>9 DEF RetryMail
  <2>2. \E m \in Mails : mail' = [mail EXCEPT ![c] = m]
    BY <1>9, RetryMailDoes
  <2>3. mail' \in Seq(Mails) /\ Len(mail') = Len(mail)
    BY <1>1, <2>2, OneMailChanges
  <2>. QED  BY <1>1, <1>2, <2>1, <2>3, StaysTyped
<1>10. ASSUME NEW x \in Pages, NEW k \in Kinds, CheckCode(x, k) PROVE RecoveryTypeOK'
  <2>1. UNCHANGED <<handle, mail, page, now, calls, restarts, faults>>
    BY <1>10 DEF CheckCode
  <2>2. k \in {"verify", "reset"} /\ VerifyCode(x, k) /\ call[x][k].at = "sent"
    BY <1>10 DEF CheckCode
  <2>3. call[x][k].to \in Owners /\ call[x][k].code \in Nat
    BY <1>1, <2>2 DEF AllRecovery, PagesInv, CallInv, Calls
  <2>4. SpentInv /\ \A v \in Owners : CodeInv(v)
    BY DEF AllRecovery, CodesInv
  <2>5. PICK u \in Owners, c \in Nat : u = call[x][k].to /\ c = call[x][k].code
    BY <2>3
  <2>6. codes' = [codes EXCEPT ![u] = LeftAfter(u, c)]
    BY <2>2, <2>5 DEF VerifyCode
  <2>7. LeftAfter(u, c) \subseteq Records /\ \A r, s \in LeftAfter(u, c) : r = s
    BY <1>1, <2>2, <2>4, <2>5, Compared
  <2>8. tried' \in [Issued -> 0 .. MaxTries] /\ accepted' \in [Issued -> Seq(Kinds)]
    BY <1>1, <2>2, <2>4, <2>5, Compared
  <2>9. call' \in [Pages -> [Kinds -> Calls]]
    BY <1>1, <2>2, <2>4, <2>5, Compared
  <2>10. CodeTypes'
    BY <1>1, <2>6, <2>7 DEF CodeTypes
  <2>11. HistoryTypes'
    BY <2>1, <2>8 DEF HistoryTypes, Issued
  <2>. QED  BY <1>1, <1>2, <2>1, <2>9, <2>10, <2>11, StaysTyped
<1>11. ASSUME NEW x \in Pages, ResetHandle(x) PROVE RecoveryTypeOK'
  <2>1. UNCHANGED <<codes, mail, page, now, calls, restarts, faults, tried, accepted>>
    BY <1>11 DEF ResetHandle
  <2>2. PICK s \in States : call' = [call EXCEPT ![x]["reset"].at = s]
    BY <1>11 DEF ResetHandle, States
  <2>3. call' \in [Pages -> [Kinds -> Calls]]
    BY <1>1, <1>k, <2>2, Moved
  <2>4. call[x]["reset"].want \in Handles \cup {Gone}
    BY <1>1, <1>k DEF Calls
  <2>5. handle' \in [Owners -> Handles \cup {Gone}]
    BY <1>1, <1>11, <2>4 DEF ResetHandle
  <2>. QED  BY <1>1, <1>2, <2>1, <2>3, <2>5, StaysTyped
<1>12. ASSUME Cleanup PROVE RecoveryTypeOK'
  <2>1. UNCHANGED <<handle, mail, page, call, now, calls, restarts, faults, tried, accepted>>
    BY <1>12 DEF Cleanup
  <2>2. codes' = [u \in Owners |-> Alive(u)]
    BY <1>12 DEF Cleanup
  <2>3. CodeTypes'
    BY <1>1, <2>2 DEF CodeTypes, Alive
  <2>. QED  BY <1>1, <1>2, <2>1, <2>3, StaysTyped
<1>13. ASSUME Tick PROVE RecoveryTypeOK'
  <2>1. UNCHANGED <<handle, codes, mail, page, call, calls, restarts, tried, accepted>>
    BY <1>13 DEF Tick
  <2>2. CountTypes'
    BY <1>1, <1>n, <1>13 DEF Tick, Fault, CountTypes, AllRecovery, CodesInv, CountInv
  <2>. QED  BY <1>1, <1>2, <2>1, <2>2, StaysTyped
<1>14. ASSUME NEW u \in Leaving, EraseOwner(u) \/ Rename(u) PROVE RecoveryTypeOK'
  <2>1. UNCHANGED <<codes, mail, page, call, now, calls, restarts, tried, accepted>>
    BY <1>14 DEF EraseOwner, Rename
  <2>2. CountTypes'
    BY <1>1, <1>n, <1>14, <2>1 DEF EraseOwner, Rename, Fault, CountTypes
  <2>3. handle' \in [Owners -> Handles \cup {Gone}]
    BY <1>1, <1>14 DEF EraseOwner, Rename
  <2>. QED  BY <1>1, <1>2, <2>1, <2>2, <2>3, StaysTyped
<1>15. ASSUME Restart PROVE RecoveryTypeOK'
  <2>1. UNCHANGED <<handle, page, now, calls, tried, accepted>>
    BY <1>15 DEF Restart
  <2>2. CountTypes'
    BY <1>1, <1>n, <1>15, <2>1 DEF Restart, Fault, CountTypes, AllRecovery, CodesInv, CountInv
  <2>3. CodeTypes'
    BY <1>15 DEF Restart, CodeTypes
  <2>4. mail' \in Seq(Mails) /\ Len(mail') = Len(mail)
    BY <1>1, <1>15, RestartMails
  <2>5. call' \in [Pages -> [Kinds -> Calls]]
    BY <1>1, <1>15, RestartCalls
  <2>. QED  BY <1>1, <1>2, <2>1, <2>2, <2>3, <2>4, <2>5, StaysTyped
<1>. QED  BY <1>3, <1>4, <1>5, <1>6, <1>7, <1>8, <1>9, <1>10, <1>11, <1>12, <1>13, <1>14, <1>15
          DEF RecoveryNext, Serve
-----------------------------------------------------------------------------
(***************************************************************************)
(* Codes.                                                                  *)
(***************************************************************************)
\* Steps that leave the codes, their histories and the clock alone.
LEMMA CodesStay ==
  ASSUME CodesInv, UNCHANGED <<codes, accepted, tried, now, restarts>>,
         Len(mail') = Len(mail), \A c \in Issued : SameMail(mail[c], mail'[c])
  PROVE  SpentInv' /\ \A u \in Owners : CodeInv(u)'
<1>1. Issued' = Issued
  BY DEF Issued
<1>2. SpentInv'
  BY <1>1 DEF CodesInv, SpentInv
<1>3. ASSUME NEW u \in Owners PROVE CodeInv(u)'
  <2>1. \A c : Latest(u, c)' <=> Latest(u, c)
    BY <1>1 DEF Latest, SameMail
  <2>2. \A c : Good(u, c)' <=> Good(u, c)
    BY <1>1 DEF Good, SameMail
  <2>3. CodeInv(u)
    BY DEF CodesInv
  <2>4. ASSUME NEW r \in codes'[u]
        PROVE  /\ r.did = u /\ Latest(u, r.code)'
               /\ r.expires = mail'[r.code].issued + Ttl /\ mail'[r.code].epoch = restarts'
               /\ accepted'[r.code] = << >> /\ tried'[r.code] = r.attempts
    <3>1. r.did = u /\ Latest(u, r.code) /\ r.expires = mail[r.code].issued + Ttl
          /\ mail[r.code].epoch = restarts /\ accepted[r.code] = << >>
          /\ tried[r.code] = r.attempts
      BY <2>3 DEF CodeInv
    <3>2. r.code \in Issued
      BY <3>1 DEF Latest
    <3>. QED  BY <2>1, <3>1, <3>2 DEF SameMail
  <2>5. ASSUME NEW c \in Issued', Good(u, c)' PROVE \E r \in codes'[u] : r.code = c
    BY <1>1, <2>2, <2>3, <2>5 DEF CodeInv
  <2>. QED  BY <2>4, <2>5 DEF CodeInv
<1>. QED  BY <1>2, <1>3

LEMMA IssueCodes ==
  ASSUME AllRecovery, NEW x \in Pages, Issue(x)
  PROVE  SpentInv' /\ \A u \in Owners : CodeInv(u)'
<1>a. call[x]["request"].to \in Owners /\ Len(mail) + 1 \in Nat
  BY Issuing
<1>b. PICK u \in Owners, c \in Nat : u = call[x]["request"].to /\ c = Len(mail) + 1
  BY <1>a
<1>c. IssuedRecord(u, c) \in Records
  BY <1>b, Issuing
<1>d. PICK r \in Records : r = IssuedRecord(u, c)
  BY <1>c
<1>1. /\ c \in Issued'
      /\ Issued \subseteq Issued' /\ \A d \in Issued' : d = c \/ d \in Issued
      /\ \A d \in Issued : d \in Nat /\ d < c
  BY <1>b, Issuing
<1>2. codes' = [codes EXCEPT ![u] = {r}]
  BY <1>b, <1>d, Issuing
<1>3. r.code = c /\ r.did = u /\ r.expires = now + Ttl /\ r.attempts = 0
  BY <1>b, <1>d, Issuing
<1>4. /\ mail'[c] = RecoveryMail(u) /\ tried'[c] = 0 /\ accepted'[c] = << >>
      /\ \A d \in Issued : mail'[d] = mail[d] /\ tried'[d] = tried[d] /\ accepted'[d] = accepted[d]
  BY <1>b, Issuing
<1>5. now' = now /\ restarts' = restarts /\ codes \in [Owners -> SUBSET Records]
  BY DEF Issue, AllRecovery, RecoveryTypeOK
<1>6. mail'[c].to = u /\ mail'[c].issued = now /\ mail'[c].epoch = restarts
  BY <1>4 DEF RecoveryMail
<1>7. SpentInv'
  BY <1>1, <1>4 DEF SpentInv, AllRecovery, CodesInv
<1>8. ASSUME NEW v \in Owners, v # u PROVE CodeInv(v)'
  <2>1. CodeInv(v) /\ codes'[v] = codes[v]
    BY <1>1, <1>2, <1>5, <1>8 DEF AllRecovery, CodesInv
  <2>2. ASSUME NEW d, Latest(v, d) PROVE Latest(v, d)'
    BY <1>1, <1>4, <1>6, <1>8, <2>2 DEF Latest
  <2>3. ASSUME NEW d, Good(v, d)' PROVE Good(v, d)
    <3>1. d \in Issued
      BY <1>1, <1>6, <1>8, <2>3 DEF Good
    <3>2. \A e \in Issued : mail[e].to = v => e <= d
      BY <1>1, <1>4, <2>3 DEF Good
    <3>. QED  BY <1>4, <1>5, <2>3, <3>1, <3>2 DEF Good
  <2>4. ASSUME NEW q \in codes'[v]
        PROVE  /\ q.did = v /\ Latest(v, q.code)'
               /\ q.expires = mail'[q.code].issued + Ttl /\ mail'[q.code].epoch = restarts'
               /\ accepted'[q.code] = << >> /\ tried'[q.code] = q.attempts
    <3>1. q.did = v /\ Latest(v, q.code) /\ q.expires = mail[q.code].issued + Ttl
          /\ mail[q.code].epoch = restarts /\ accepted[q.code] = << >>
          /\ tried[q.code] = q.attempts
      BY <2>1 DEF CodeInv
    <3>2. q.code \in Issued
      BY <3>1 DEF Latest
    <3>. QED  BY <1>4, <1>5, <2>2, <3>1, <3>2
  <2>5. ASSUME NEW d \in Issued', Good(v, d)' PROVE \E q \in codes'[v] : q.code = d
    <3>1. Good(v, d) /\ d \in Issued
      BY <2>3, <2>5 DEF Good
    <3>. QED  BY <2>1, <3>1 DEF CodeInv
  <2>. QED  BY <2>4, <2>5 DEF CodeInv
<1>9. CodeInv(u)'
  <2>1. codes'[u] = {r}
    BY <1>1, <1>2, <1>5
  <2>2. Latest(u, c)'
    BY <1>1, <1>6 DEF Latest
  <2>3. ASSUME NEW d \in Issued', Good(u, d)' PROVE d = c
    <3>1. c <= d
      BY <1>1, <1>6, <2>3 DEF Good
    <3>. QED  BY <1>1, <3>1
  <2>. QED  BY <1>3, <1>4, <1>5, <1>6, <2>1, <2>2, <2>3 DEF CodeInv
<1>. QED  BY <1>7, <1>8, <1>9

\* The comparison: what is left of the records of u still agrees with what is
\* known of its codes.
LEMMA CheckCodes ==
  ASSUME AllRecovery, NEW x \in Pages, NEW k \in Kinds, CheckCode(x, k)
  PROVE  SpentInv' /\ \A u \in Owners : CodeInv(u)'
<1>1. /\ k \in {"verify", "reset"} /\ VerifyCode(x, k) /\ call[x][k].at = "sent"
      /\ UNCHANGED <<mail, now, restarts>>
  BY DEF CheckCode
<1>a. call[x][k].to \in Owners /\ call[x][k].code \in Nat
  BY <1>1 DEF AllRecovery, PagesInv, CallInv, RecoveryTypeOK, Calls
<1>2. PICK u \in Owners, c \in Nat : u = call[x][k].to /\ c = call[x][k].code
  BY <1>a
<1> DEFINE tries == {r \in Alive(u) : r.attempts < MaxTries}
<1>3. RecoveryTypeOK /\ SpentInv /\ \A v \in Owners : CodeInv(v)
  BY DEF AllRecovery, CodesInv
<1>4. codes' = [codes EXCEPT ![u] = LeftAfter(u, c)]
  BY <1>1, <1>2 DEF VerifyCode
<1>5. /\ codes \in [Owners -> SUBSET Records] /\ MaxTries \in Nat /\ Issued' = Issued
      /\ tried \in [Issued -> 0 .. MaxTries]
  BY <1>1, RecoveryAssumption DEF AllRecovery, RecoveryTypeOK, Issued
<1>6. \A d \in Issued : tried'[d] = IF \E r \in Alive(u) : r.code = d /\ r.attempts < MaxTries
                                     THEN tried[d] + 1 ELSE tried[d]
  BY <1>1, <1>2, <1>3, Compared
<1>7a. ~Accepts(u, c) => accepted' = accepted
  BY <1>1, <1>2, <1>3, Compared
<1>8a. Accepts(u, c) => /\ c \in Issued /\ accepted[c] = << >> /\ accepted'[c] = <<k>>
                             /\ \A d \in Issued : d # c => accepted'[d] = accepted[d]
  BY <1>1, <1>2, <1>3, Compared
<1> DEFINE hit == Matches(u, c)
<1>7. hit = {} => accepted' = accepted
  BY <1>7a DEF Accepts
<1>8. hit # {} => /\ c \in Issued /\ accepted[c] = << >> /\ accepted'[c] = <<k>>
                  /\ \A d \in Issued : d # c => accepted'[d] = accepted[d]
  BY <1>8a DEF Accepts
<1>9. \A q : q \in LeftAfter(u, c) <=> \E r \in tries : r.code # c /\ q = TriedOnce(r)
  BY <1>2, LeftAfterOf
<1>10. hit = {r \in tries : r.code = c}
  BY DEF Matches
<1>11. ASSUME NEW v \in Owners, NEW r \in codes[v]
       PROVE  /\ r \in Records /\ r.did = v /\ Latest(v, r.code) /\ r.code \in Issued
              /\ mail[r.code].to = v /\ r.expires = mail[r.code].issued + Ttl
              /\ mail[r.code].epoch = restarts /\ accepted[r.code] = << >>
              /\ tried[r.code] = r.attempts
  BY <1>3, <1>5 DEF CodeInv, Latest
<1>12. \A r \in tries : r \in codes[u] /\ r.attempts < MaxTries /\ r.expires >= now
  BY DEF Alive
<1>13. \A r \in codes[u] : r.attempts < MaxTries /\ r.expires >= now => r \in tries
  BY DEF Alive
<1>14. \A d \in Issued : tried'[d] = IF \E r \in tries : r.code = d THEN tried[d] + 1 ELSE tried[d]
  BY <1>6
<1> HIDE DEF hit, tries
<1>15. <<k>> # << >>
  OBVIOUS
<1>16. SpentInv'
  BY <1>1, <1>3, <1>5, <1>7, <1>8 DEF SpentInv
\* What is known of the codes of another address does not change.
<1>17. ASSUME NEW d \in Issued, mail[d].to # u
       PROVE  accepted'[d] = accepted[d] /\ tried'[d] = tried[d]
  <2>1. \A r \in tries : r.code # d
    BY <1>2, <1>11, <1>12, <1>17
  <2>2. hit # {} => d # c
    BY <1>10, <2>1
  <2>. QED  BY <1>7, <1>8, <1>14, <2>1, <2>2
<1>18. \A v, d : Latest(v, d)' <=> Latest(v, d)
  BY <1>1, <1>5 DEF Latest
<1>19. ASSUME NEW v \in Owners, NEW d, Good(v, d)' PROVE Good(v, d)
  <2>1. d \in Issued /\ accepted'[d] = << >> /\ tried'[d] < MaxTries
    BY <1>5, <1>19 DEF Good
  <2>2. accepted[d] = << >>
    BY <1>7, <1>8, <2>1
  <2>3. tried[d] < MaxTries
    BY <1>5, <1>14, <2>1
  <2>. QED  BY <1>1, <1>5, <1>19, <2>1, <2>2, <2>3 DEF Good
<1>20. ASSUME NEW v \in Owners, v # u PROVE CodeInv(v)'
  <2>1. codes'[v] = codes[v]
    BY <1>4, <1>5, <1>2, <1>20
  <2>2. ASSUME NEW r \in codes'[v]
        PROVE  /\ r.did = v /\ Latest(v, r.code)'
               /\ r.expires = mail'[r.code].issued + Ttl /\ mail'[r.code].epoch = restarts'
               /\ accepted'[r.code] = << >> /\ tried'[r.code] = r.attempts
    BY <1>1, <1>11, <1>17, <1>18, <1>20, <2>1
  <2>3. ASSUME NEW d \in Issued', Good(v, d)' PROVE \E r \in codes'[v] : r.code = d
    BY <1>3, <1>5, <1>19, <2>1, <2>3 DEF CodeInv
  <2>. QED  BY <2>2, <2>3 DEF CodeInv
<1>21. CodeInv(u)'
  <2>1. codes'[u] = LeftAfter(u, c)
    BY <1>2, <1>4, <1>5
  <2>2. ASSUME NEW q \in codes'[u]
        PROVE  /\ q.did = u /\ Latest(u, q.code)'
               /\ q.expires = mail'[q.code].issued + Ttl /\ mail'[q.code].epoch = restarts'
               /\ accepted'[q.code] = << >> /\ tried'[q.code] = q.attempts
    <3>1. PICK r \in tries : r.code # c /\ q = TriedOnce(r)
      BY <1>9, <2>1, <2>2
    <3>2. r \in codes[u] /\ r \in Records
      BY <1>2, <1>11, <1>12
    <3>3. /\ q.code = r.code /\ q.did = r.did /\ q.expires = r.expires
          /\ q.attempts = r.attempts + 1
      BY <3>1, <3>2, RecordFields DEF TriedOnce
    <3>4. accepted'[r.code] = accepted[r.code]
      BY <1>2, <1>7, <1>8, <1>11, <3>1, <3>2
    <3>5. tried'[r.code] = tried[r.code] + 1
      BY <1>2, <1>11, <1>14, <3>2
    <3>. QED  BY <1>1, <1>2, <1>11, <1>18, <3>2, <3>3, <3>4, <3>5
  <2>3. ASSUME NEW d \in Issued', Good(u, d)' PROVE \E q \in codes'[u] : q.code = d
    <3>1. Good(u, d) /\ d \in Issued /\ accepted'[d] = << >>
      BY <1>2, <1>5, <1>19, <2>3 DEF Good
    <3>2. PICK r \in codes[u] : r.code = d
      BY <1>2, <1>3, <3>1 DEF CodeInv
    <3>3. r \in Records /\ r.attempts < MaxTries /\ r.expires >= now
      BY <1>2, <1>11, <3>1, <3>2 DEF Good
    <3>4. r \in tries
      BY <1>13, <3>3
    <3>5. d # c
      <4>1. d = c => r \in hit
        BY <1>10, <3>2, <3>4
      <4>. QED  BY <1>8, <1>15, <3>1, <4>1
    <3>6. TriedOnce(r) \in codes'[u]
      BY <1>9, <2>1, <3>2, <3>4, <3>5
    <3>7. TriedOnce(r).code = d
      BY <3>2, <3>3, RecordFields DEF TriedOnce
    <3>. QED  BY <3>6, <3>7
  <2>. QED  BY <2>2, <2>3 DEF CodeInv
<1>. QED  BY <1>16, <1>20, <1>21

LEMMA RecoveryCodes ==
  ASSUME AllRecovery, RecoveryNext
  PROVE  CodesInv'
<1>1. /\ now \in 0 .. MaxFaults /\ restarts \in 0 .. MaxFaults /\ faults \in 0 .. MaxFaults
      /\ CodesInv /\ mail \in Seq(Mails) /\ RecoveryTypeOK
  BY DEF AllRecovery, RecoveryTypeOK
<1>n. MaxFaults \in Nat /\ MaxTries \in Nat /\ Ttl \in Nat
  BY RecoveryAssumption
<1>2. \A c \in Issued : SameMail(mail[c], mail[c])
  BY DEF SameMail
<1>3. ASSUME UNCHANGED <<codes, mail, now, restarts, tried, accepted>>, faults' = faults
      PROVE  CodesInv'
  BY <1>1, <1>2, <1>3, CodesStay DEF CodesInv, CountInv
<1>4. ASSUME NEW p \in Pages,
             \/ TypeEmail(p) \/ RequestCode(p) \/ TypeCode(p) \/ SubmitCode(p)
             \/ SubmitHandle(p) \/ Turn(p) \/ FindOwner(p) \/ VerifyRecovery(p)
             \/ ResetHandle(p) \/ \E k \in Kinds : Answer(p, k)
      PROVE  CodesInv'
  BY <1>3, <1>4 DEF TypeEmail, RequestCode, TypeCode, SubmitCode, SubmitHandle, Turn,
                    FindOwner, VerifyRecovery, ResetHandle, Answer
<1>5. ASSUME NEW x \in Pages, Issue(x) PROVE CodesInv'
  <2>1. UNCHANGED <<now, restarts, faults>>
    BY <1>5 DEF Issue
  <2>. QED  BY <1>1, <1>5, <2>1, IssueCodes DEF CodesInv, CountInv
<1>6. ASSUME NEW x \in Pages, SendMail(x) PROVE CodesInv'
  <2>1. UNCHANGED <<codes, now, restarts, tried, accepted>>
    BY <1>6 DEF SendMail
  <2>2. PICK c \in Issued, m \in Mails : SameMail(mail[c], m) /\ mail' = [mail EXCEPT ![c] = m]
    BY <1>6, SendMailDoes
  <2>3. faults' \in 0 .. MaxFaults /\ faults' >= faults
    BY <1>6, SendMailDoes
  <2>4. Len(mail') = Len(mail) /\ \A d \in Issued : SameMail(mail[d], mail'[d])
    BY <1>1, <1>2, <2>2, OneMailChanges
  <2>5. CountInv'
    BY <1>1, <1>n, <2>1, <2>3 DEF CodesInv, CountInv
  <2>. QED  BY <1>1, <2>1, <2>4, <2>5, CodesStay DEF CodesInv
<1>7. ASSUME NEW c \in Issued, RetryMail(c) PROVE CodesInv'
  <2>1. UNCHANGED <<codes, now, restarts, tried, accepted, faults>>
    BY <1>7 DEF RetryMail
  <2>2. PICK m \in Mails : SameMail(mail[c], m) /\ mail' = [mail EXCEPT ![c] = m]
    BY <1>7, RetryMailDoes
  <2>4. Len(mail') = Len(mail) /\ \A d \in Issued : SameMail(mail[d], mail'[d])
    BY <1>1, <1>2, <2>2, OneMailChanges
  <2>5. CountInv'
    BY <1>1, <2>1 DEF CodesInv, CountInv
  <2>. QED  BY <1>1, <2>1, <2>4, <2>5, CodesStay DEF CodesInv
<1>8. ASSUME NEW x \in Pages, NEW k \in Kinds, CheckCode(x, k) PROVE CodesInv'
  <2>1. UNCHANGED <<now, restarts, faults>>
    BY <1>8 DEF CheckCode
  <2>. QED  BY <1>1, <1>8, <2>1, CheckCodes DEF CodesInv, CountInv
<1>9. ASSUME Cleanup PROVE CodesInv'
  <2>1. /\ codes' = [u \in Owners |-> Alive(u)]
        /\ UNCHANGED <<mail, now, restarts, tried, accepted, faults>>
    BY <1>9 DEF Cleanup
  <2>2. Issued' = Issued
    BY <2>1 DEF Issued
  <2>3. CountInv' /\ SpentInv'
    BY <1>1, <2>1, <2>2 DEF CodesInv, CountInv, SpentInv
  <2>4. ASSUME NEW u \in Owners PROVE CodeInv(u)'
    <3>1. codes'[u] = Alive(u) /\ CodeInv(u)
      BY <1>1, <2>1 DEF CodesInv
    <3>2. (\A c : Latest(u, c)' <=> Latest(u, c)) /\ (\A c : Good(u, c)' <=> Good(u, c))
      BY <2>1, <2>2 DEF Latest, Good
    <3>3. ASSUME NEW r \in codes'[u]
          PROVE  /\ r.did = u /\ Latest(u, r.code)'
                 /\ r.expires = mail'[r.code].issued + Ttl /\ mail'[r.code].epoch = restarts'
                 /\ accepted'[r.code] = << >> /\ tried'[r.code] = r.attempts
      BY <2>1, <3>1, <3>2 DEF CodeInv, Alive
    <3>4. ASSUME NEW c \in Issued', Good(u, c)' PROVE \E r \in codes'[u] : r.code = c
      <4>1. Good(u, c) /\ c \in Issued
        BY <2>2, <3>2, <3>4
      <4>2. PICK r \in codes[u] : r.code = c
        BY <3>1, <4>1 DEF CodeInv
      <4>3. r.expires >= now
        BY <3>1, <4>1, <4>2 DEF CodeInv, Good
      <4>. QED  BY <3>1, <4>2, <4>3 DEF Alive
    <3>. QED  BY <3>3, <3>4 DEF CodeInv
  <2>. QED  BY <2>3, <2>4 DEF CodesInv
<1>10. ASSUME Tick PROVE CodesInv'
  <2>1. /\ now' = now + 1 /\ faults' = faults + 1
        /\ UNCHANGED <<codes, mail, restarts, tried, accepted>>
    BY <1>10 DEF Tick, Fault
  <2>2. Issued' = Issued
    BY <2>1 DEF Issued
  <2>3. CountInv' /\ SpentInv'
    BY <1>1, <2>1, <2>2 DEF CodesInv, CountInv, SpentInv
  <2>4. ASSUME NEW u \in Owners PROVE CodeInv(u)'
    <3>1. CodeInv(u)
      BY <1>1 DEF CodesInv
    <3>2. \A c : Latest(u, c)' <=> Latest(u, c)
      BY <2>1, <2>2 DEF Latest
    <3>3. ASSUME NEW c, Good(u, c)' PROVE Good(u, c)
      <4>1. c \in Issued /\ mail[c].issued + Ttl >= now + 1
        BY <2>1, <2>2, <3>3 DEF Good
      <4>2. mail[c].issued \in Nat
        BY <1>1, <1>n, <4>1, MailFields DEF Issued
      <4>3. mail[c].issued + Ttl >= now
        BY <1>1, <1>n, <4>1, <4>2
      <4>. QED  BY <2>1, <2>2, <3>3, <4>3 DEF Good
    <3>4. ASSUME NEW r \in codes'[u]
          PROVE  /\ r.did = u /\ Latest(u, r.code)'
                 /\ r.expires = mail'[r.code].issued + Ttl /\ mail'[r.code].epoch = restarts'
                 /\ accepted'[r.code] = << >> /\ tried'[r.code] = r.attempts
      BY <2>1, <3>1, <3>2 DEF CodeInv
    <3>5. ASSUME NEW c \in Issued', Good(u, c)' PROVE \E r \in codes'[u] : r.code = c
      BY <2>1, <2>2, <3>1, <3>3, <3>5 DEF CodeInv
    <3>. QED  BY <3>4, <3>5 DEF CodeInv
  <2>. QED  BY <2>3, <2>4 DEF CodesInv
<1>11. ASSUME NEW u \in Leaving, EraseOwner(u) \/ Rename(u) PROVE CodesInv'
  <2>1. /\ UNCHANGED <<codes, mail, now, restarts, tried, accepted>> /\ faults' = faults + 1
    BY <1>11 DEF EraseOwner, Rename, Fault
  <2>2. CountInv'
    BY <1>1, <2>1 DEF CodesInv, CountInv
  <2>. QED  BY <1>1, <1>2, <2>1, <2>2, CodesStay DEF CodesInv
<1>12. ASSUME Restart PROVE CodesInv'
  <2>1. /\ restarts' = restarts + 1 /\ faults' = faults + 1 /\ codes' = [u \in Owners |-> {}]
        /\ UNCHANGED <<now, tried, accepted>>
    BY <1>12 DEF Restart, Fault
  <2>2. Len(mail') = Len(mail) /\ \A c \in Issued : SameMail(mail[c], mail'[c])
    BY <1>1, <1>12, RestartMails
  <2>3. Issued' = Issued
    BY <2>2 DEF Issued
  <2>4. CountInv' /\ SpentInv'
    BY <1>1, <2>1, <2>3 DEF CodesInv, CountInv, SpentInv
  <2>5. \A c \in Issued : mail[c].epoch =< restarts /\ mail[c].epoch \in Nat
    BY <1>1, <1>n, MailFields DEF AllRecovery, MailsInv, MailRight, Issued
  <2>6. \A c \in Issued : mail'[c].epoch # restarts'
    BY <1>1, <2>1, <2>2, <2>5 DEF SameMail
  <2>7. ASSUME NEW u \in Owners PROVE CodeInv(u)'
    BY <2>1, <2>3, <2>6 DEF CodeInv, Good
  <2>. QED  BY <2>4, <2>7 DEF CodesInv
<1>. QED  BY <1>4, <1>5, <1>6, <1>7, <1>8, <1>9, <1>10, <1>11, <1>12 DEF RecoveryNext, Serve

\* Only a restart counts as one, and a restart spares the mails that rest.
LEMMA RecoveryMails ==
  ASSUME AllRecovery, RecoveryNext
  PROVE  MailsInv'
<1>1. /\ mail \in Seq(Mails) /\ restarts \in Nat /\ MaxSends \in Nat
      /\ \A c \in Issued : mail[c] \in Mails /\ MailRight(mail[c], restarts)
  BY RecoveryAssumption DEF AllRecovery, RecoveryTypeOK, MailsInv, Issued
<1>2. ASSUME UNCHANGED <<mail, restarts>> PROVE MailsInv'
  BY <1>2 DEF AllRecovery, MailsInv, Issued
<1>3. ASSUME NEW p \in Pages,
             \/ TypeEmail(p) \/ RequestCode(p) \/ TypeCode(p) \/ SubmitCode(p)
             \/ SubmitHandle(p) \/ Turn(p) \/ FindOwner(p) \/ VerifyRecovery(p)
             \/ ResetHandle(p) \/ \E k \in Kinds : Answer(p, k) \/ CheckCode(p, k)
      PROVE  MailsInv'
  BY <1>2, <1>3 DEF TypeEmail, RequestCode, TypeCode, SubmitCode, SubmitHandle, Turn,
                    FindOwner, VerifyRecovery, ResetHandle, Answer, CheckCode
<1>4. ASSUME NEW x \in Pages, Issue(x) PROVE MailsInv'
  <2>1. PICK u \in Owners, c \in Nat : u = call[x]["request"].to /\ c = Len(mail) + 1
    BY <1>4, Issuing
  <2>2. /\ mail'[c] = RecoveryMail(u) /\ \A d \in Issued : mail'[d] = mail[d]
        /\ \A d \in Issued' : d = c \/ d \in Issued
    BY <1>4, <2>1, Issuing
  <2>3. restarts' = restarts
    BY <1>4 DEF Issue
  <2>4. MailRight(RecoveryMail(u), restarts)
    BY <1>1 DEF RecoveryMail, MailRight
  <2>. QED  BY <1>1, <2>2, <2>3, <2>4 DEF MailsInv
<1>5. ASSUME NEW c \in Issued, NEW m \in Mails, MailRight(m, restarts),
             mail' = [mail EXCEPT ![c] = m], restarts' = restarts
      PROVE  MailsInv'
  <2>1. Len(mail') = Len(mail) /\ mail'[c] = m /\ \A d \in Issued : d # c => mail'[d] = mail[d]
    BY <1>1, <1>5, OneMailChanges
  <2>2. Issued' = Issued
    BY <2>1 DEF Issued
  <2>. QED  BY <1>1, <1>5, <2>1, <2>2 DEF MailsInv
<1>6. ASSUME NEW x \in Pages, SendMail(x) PROVE MailsInv'
  <2>1. restarts' = restarts
    BY <1>6 DEF SendMail
  <2>2. PICK c \in Issued, m \in Mails : MailRight(m, restarts) /\ mail' = [mail EXCEPT ![c] = m]
    BY <1>6, SendMailDoes
  <2>. QED  BY <1>5, <2>1, <2>2
<1>7. ASSUME NEW c \in Issued, RetryMail(c) PROVE MailsInv'
  <2>1. restarts' = restarts
    BY <1>7 DEF RetryMail
  <2>2. PICK m \in Mails : MailRight(m, restarts) /\ mail' = [mail EXCEPT ![c] = m]
    BY <1>7, RetryMailDoes
  <2>. QED  BY <1>5, <2>1, <2>2
<1>8. ASSUME Restart PROVE MailsInv'
  <2>1. restarts' = restarts + 1
    BY <1>8 DEF Restart
  <2>2. /\ Len(mail') = Len(mail)
        /\ \A c \in Issued : /\ SameMail(mail[c], mail'[c])
                             /\ mail'[c].failed = mail[c].failed /\ mail'[c].left = mail[c].left
                             /\ mail'[c].at = IF mail[c].at \in {"sending", "failed"}
                                              THEN "dropped" ELSE mail[c].at
    BY <1>1, <1>8, RestartMails
  <2>3. Issued' = Issued
    BY <2>2 DEF Issued
  <2>4. ASSUME NEW c \in Issued PROVE MailRight(mail'[c], restarts + 1)
    <3>1. mail[c].epoch \in Nat /\ mail[c].failed \in Nat /\ mail[c].left \in Nat
      BY <1>1, RecoveryAssumption, MailFields
    <3>. QED  BY <1>1, <2>2, <3>1 DEF MailRight, SameMail
  <2>. QED  BY <2>1, <2>3, <2>4 DEF MailsInv
<1>9. ASSUME Cleanup \/ Tick \/ \E u \in Leaving : EraseOwner(u) \/ Rename(u) PROVE MailsInv'
  BY <1>2, <1>9 DEF Cleanup, Tick, EraseOwner, Rename
<1>. QED  BY <1>3, <1>4, <1>6, <1>7, <1>8, <1>9 DEF RecoveryNext, Serve
-----------------------------------------------------------------------------
(***************************************************************************)
(* Pages.                                                                  *)
(***************************************************************************)
PageInv(p) == CallInv(p) /\ StepInv(p) /\ AddressInv(p)

\* What is spent stays so.
LEMMA SpentStays ==
  ASSUME AllRecovery, RecoveryNext
  PROVE  Issued \subseteq Issued' /\ \A k \in Kinds : Spent(k) => Spent(k)'
<1>1. mail \in Seq(Mails)
  BY DEF AllRecovery, RecoveryTypeOK
<1>2. ASSUME Len(mail') = Len(mail), UNCHANGED accepted
      PROVE  Issued \subseteq Issued' /\ \A k \in Kinds : Spent(k) => Spent(k)'
  BY <1>2 DEF Issued, Spent
<1>3. ASSUME NEW p \in Pages,
             \/ TypeEmail(p) \/ RequestCode(p) \/ TypeCode(p) \/ SubmitCode(p)
             \/ SubmitHandle(p) \/ Turn(p) \/ FindOwner(p) \/ VerifyRecovery(p)
             \/ ResetHandle(p) \/ \E k \in Kinds : Answer(p, k)
      PROVE  Issued \subseteq Issued' /\ \A k \in Kinds : Spent(k) => Spent(k)'
  BY <1>2, <1>3 DEF TypeEmail, RequestCode, TypeCode, SubmitCode, SubmitHandle, Turn,
                    FindOwner, VerifyRecovery, ResetHandle, Answer
<1>4. ASSUME NEW x \in Pages, Issue(x)
      PROVE  Issued \subseteq Issued' /\ \A k \in Kinds : Spent(k) => Spent(k)'
  <2>1. Issued \subseteq Issued' /\ \A d \in Issued : accepted'[d] = accepted[d]
    BY <1>4, Issuing
  <2>. QED  BY <2>1 DEF Spent
<1>5. ASSUME NEW x \in Pages, SendMail(x)
      PROVE  Issued \subseteq Issued' /\ \A k \in Kinds : Spent(k) => Spent(k)'
  <2>1. \E c \in Issued, m \in Mails : mail' = [mail EXCEPT ![c] = m]
    BY <1>5, SendMailDoes
  <2>2. Len(mail') = Len(mail) /\ UNCHANGED accepted
    BY <1>1, <1>5, <2>1, OneMailChanges DEF SendMail
  <2>. QED  BY <1>2, <2>2
<1>6. ASSUME NEW c \in Issued, RetryMail(c)
      PROVE  Issued \subseteq Issued' /\ \A k \in Kinds : Spent(k) => Spent(k)'
  <2>1. \E m \in Mails : mail' = [mail EXCEPT ![c] = m]
    BY <1>6, RetryMailDoes
  <2>2. Len(mail') = Len(mail) /\ UNCHANGED accepted
    BY <1>1, <1>6, <2>1, OneMailChanges DEF RetryMail
  <2>. QED  BY <1>2, <2>2
<1>7. ASSUME NEW x \in Pages, NEW k \in Kinds, CheckCode(x, k)
      PROVE  Issued \subseteq Issued' /\ \A j \in Kinds : Spent(j) => Spent(j)'
  <2>1. k \in {"verify", "reset"} /\ VerifyCode(x, k) /\ call[x][k].at = "sent" /\ UNCHANGED mail
    BY <1>7 DEF CheckCode
  <2>2. call[x][k].to \in Owners /\ call[x][k].code \in Nat
    BY <2>1 DEF AllRecovery, RecoveryTypeOK, PagesInv, CallInv, Calls
  <2>3. PICK u \in Owners, c \in Nat : u = call[x][k].to /\ c = call[x][k].code
    BY <2>2
  <2>5. RecoveryTypeOK /\ SpentInv /\ \A v \in Owners : CodeInv(v)
    BY DEF AllRecovery, CodesInv
  <2>4. ~Accepts(u, c) => accepted' = accepted
    BY <2>1, <2>3, <2>5, Compared
  <2>6. Accepts(u, c) => accepted[c] = << >> /\ \A d \in Issued : d # c => accepted'[d] = accepted[d]
    BY <2>1, <2>3, <2>5, Compared
  <2>7. \A j \in Kinds : <<j>> # << >>
    OBVIOUS
  <2>8. Issued' = Issued
    BY <2>1 DEF Issued
  <2>. QED  BY <2>4, <2>6, <2>7, <2>8 DEF Spent
<1>8. ASSUME Restart
      PROVE  Issued \subseteq Issued' /\ \A k \in Kinds : Spent(k) => Spent(k)'
  BY <1>1, <1>2, <1>8, RestartMails DEF Restart
<1>9. ASSUME Cleanup \/ Tick \/ \E u \in Leaving : EraseOwner(u) \/ Rename(u)
      PROVE  Issued \subseteq Issued' /\ \A k \in Kinds : Spent(k) => Spent(k)'
  BY <1>2, <1>9 DEF Cleanup, Tick, EraseOwner, Rename
<1>. QED  BY <1>3, <1>4, <1>5, <1>6, <1>7, <1>8, <1>9 DEF RecoveryNext, Serve

\* Steps that leave a page as it is, and the addresses of its calls.
LEMMA PageStays ==
  ASSUME NEW p \in Pages, PageInv(p), page'[p] = page[p],
         \A k \in Kinds : Spent(k) => Spent(k)',
         \A k \in Kinds : /\ call'[p][k].to = call[p][k].to
                          /\ call'[p][k].at # "idle" => call[p][k].at # "idle",
         call'[p]["request"].at = "sending" => call'[p]["request"].code \in Issued',
         \A k \in {"verify", "reset"} : call'[p][k].at \in {"checked", "free", "updated", "ok"} =>
           call'[p][k].did = call'[p][k].to /\ Spent(k)'
  PROVE  PageInv(p)'
<1>1. "request" \in Kinds /\ "verify" \in Kinds /\ "reset" \in Kinds
  BY DEF Kinds
<1>2. CallInv(p)'
  BY DEF PageInv, CallInv
<1>3. StepInv(p)'
  BY <1>1 DEF PageInv, StepInv
<1>4. AddressInv(p)'
  BY <1>1 DEF PageInv, AddressInv
<1>. QED  BY <1>2, <1>3, <1>4 DEF PageInv

\* In particular a page whose calls stay the same.
LEMMA OtherPages ==
  ASSUME NEW p \in Pages, PageInv(p), page'[p] = page[p],
         \A k \in Kinds : Spent(k) => Spent(k)', Issued \subseteq Issued',
         \A k \in Kinds : call'[p][k] = call[p][k]
  PROVE  PageInv(p)'
<1>1. "request" \in Kinds /\ "verify" \in Kinds /\ "reset" \in Kinds
  BY DEF Kinds
<1>2. call'[p]["request"].at = "sending" => call'[p]["request"].code \in Issued'
  BY <1>1 DEF PageInv, CallInv
<1>3. ASSUME NEW k \in {"verify", "reset"}, call'[p][k].at \in {"checked", "free", "updated", "ok"}
      PROVE  call'[p][k].did = call'[p][k].to /\ Spent(k)'
  BY <1>1, <1>3 DEF PageInv, CallInv
<1>. QED  BY <1>2, <1>3, PageStays

\* One call moves on, and keeps its address.
LEMMA OneCallMoves ==
  ASSUME \A p \in Pages : PageInv(p), page' = page, Issued \subseteq Issued',
         \A k \in Kinds : Spent(k) => Spent(k)',
         NEW x \in Pages, NEW k \in Kinds,
         call'[x][k].to = call[x][k].to, call[x][k].at # "idle",
         \A y \in Pages, j \in Kinds : y # x \/ j # k => call'[y][j] = call[y][j],
         k = "request" /\ call'[x][k].at = "sending" => call'[x][k].code \in Issued',
         k # "request" /\ call'[x][k].at \in {"checked", "free", "updated", "ok"} =>
           call'[x][k].did = call'[x][k].to /\ Spent(k)'
  PROVE  \A p \in Pages : PageInv(p)'
<1>1. "request" \in Kinds /\ "verify" \in Kinds /\ "reset" \in Kinds
  BY DEF Kinds
<1>2. ASSUME NEW p \in Pages, p # x PROVE PageInv(p)'
  BY <1>2, OtherPages
<1>3. PageInv(x)'
  <2>1. call'[x]["request"].at = "sending" => call'[x]["request"].code \in Issued'
    BY <1>1 DEF PageInv, CallInv
  <2>2. ASSUME NEW j \in {"verify", "reset"}, call'[x][j].at \in {"checked", "free", "updated", "ok"}
        PROVE  call'[x][j].did = call'[x][j].to /\ Spent(j)'
    BY <1>1, <2>2 DEF PageInv, CallInv
  <2>3. \A j \in Kinds : /\ call'[x][j].to = call[x][j].to
                         /\ call'[x][j].at # "idle" => call[x][j].at # "idle"
    OBVIOUS
  <2>. QED  BY <2>1, <2>2, <2>3, PageStays
<1>. QED  BY <1>2, <1>3

LEMMA TypeEmailStep ==
  ASSUME AllRecovery, NEW p \in Pages, PageInv(p), TypeEmail(p),
         \A k \in Kinds : Spent(k) => Spent(k)', Issued \subseteq Issued'
  PROVE  PageInv(p)'
<1> DEFINE b == page[p].edited \/ \E k \in {"verify", "reset"} : call[p][k].at # "idle"
<1>1. page \in [Pages -> PageTypes] /\ page[p] \in PageTypes /\ call' = call /\ page[p].step = "email"
  BY TypesOf DEF AllRecovery, TypeEmail
<1>2. PICK u \in Owners : page' = [page EXCEPT ![p].to = u, ![p].edited = b]
  BY DEF TypeEmail
<1>3. b \in BOOLEAN
  BY <1>1 DEF PageTypes
<1>4. ~b => call[p]["verify"].at = "idle" /\ call[p]["reset"].at = "idle"
  OBVIOUS
<1> HIDE DEF b
<1>5. page'[p].to = u /\ page'[p].edited = b /\ page'[p].step = "email"
  BY <1>1, <1>2, <1>3
<1>k. "request" \in Kinds /\ "verify" \in Kinds /\ "reset" \in Kinds
  BY DEF Kinds
<1>6. CallInv(p)'
  BY <1>1, <1>5, <1>k DEF PageInv, CallInv
<1>7. StepInv(p)'
  BY <1>1, <1>5, <1>k DEF PageInv, StepInv
<1>8. AddressInv(p)'
  BY <1>1, <1>3, <1>4, <1>5 DEF AddressInv
<1>. QED  BY <1>6, <1>7, <1>8 DEF PageInv

\* The code and the step are the only fields the other page actions change.
LEMMA TypeCodeStep ==
  ASSUME AllRecovery, NEW p \in Pages, PageInv(p), TypeCode(p) \/ Turn(p),
         \A k \in Kinds : Spent(k) => Spent(k)', Issued \subseteq Issued'
  PROVE  PageInv(p)'
<1>1. page \in [Pages -> PageTypes] /\ page[p] \in PageTypes /\ call' = call
  BY TypesOf DEF AllRecovery, TypeCode, Turn
<1>2. /\ page'[p].to = page[p].to /\ page'[p].edited = page[p].edited
      /\ page'[p].shown = page[p].shown /\ page'[p].set = page[p].set
  BY <1>1 DEF TypeCode, Turn, PageTypes
<1>3. \/ page'[p].step = page[p].step
      \/ page[p].step = "code" /\ page'[p].step = "email"
      \/ page[p].step \in {"identity", "new-handle"} /\ page'[p].step \in {"identity", "new-handle"}
  <2>1. CASE TypeCode(p)
    BY <1>1, <2>1 DEF TypeCode, PageTypes
  <2>2. CASE Turn(p)
    <3>1. PICK f \in Follows : page[p].step = f[1] /\ page' = [page EXCEPT ![p].step = f[2]]
      BY <2>2 DEF Turn
    <3>2. \/ f[1] = "code" /\ f[2] = "email"
          \/ f[1] \in {"identity", "new-handle"} /\ f[2] \in {"identity", "new-handle"}
      BY DEF Follows
    <3>3. page'[p].step = f[2]
      BY <1>1, <3>1 DEF PageTypes
    <3>. QED  BY <3>1, <3>2, <3>3
  <2>. QED  BY <2>1, <2>2
<1>k. "request" \in Kinds /\ "verify" \in Kinds /\ "reset" \in Kinds
  BY DEF Kinds
<1>6. CallInv(p)'
  BY <1>1, <1>2, <1>3, <1>k DEF PageInv, CallInv
<1>7. StepInv(p)'
  BY <1>1, <1>2, <1>3, <1>k DEF PageInv, StepInv
<1>8. AddressInv(p)'
  BY <1>1, <1>2, <1>3 DEF PageInv, AddressInv
<1>. QED  BY <1>6, <1>7, <1>8 DEF PageInv

\* A call is made for the address of the page, and a reset only by a page that
\* has spent a code and shows the account of that address.
LEMMA StartStep ==
  ASSUME AllRecovery, \A q \in Pages : PageInv(q), NEW p \in Pages,
         RequestCode(p) \/ SubmitCode(p) \/ SubmitHandle(p),
         \A k \in Kinds : Spent(k) => Spent(k)', Issued \subseteq Issued'
  PROVE  \A q \in Pages : PageInv(q)'
<1>k. "request" \in Kinds /\ "verify" \in Kinds /\ "reset" \in Kinds
  BY DEF Kinds
<1>1. page \in [Pages -> PageTypes] /\ page[p] \in PageTypes /\ page' = page /\ RecoveryTypeOK
  BY TypesOf DEF AllRecovery, RequestCode, SubmitCode, SubmitHandle
<1>2. page[p].to \in Owners /\ page[p].code \in Nat
  BY <1>1 DEF RequestCode, SubmitCode, SubmitHandle, PageInv, CallInv, PageTypes
<1>3. PICK k \in Kinds, c \in Nat, h \in Handles \cup {Gone} :
        /\ Start(p, k, page[p].to, c, h)
        /\ k = "reset" => page[p].step = "new-handle"
  BY <1>k, <1>2 DEF RequestCode, SubmitCode, SubmitHandle
<1>4. /\ call'[p][k].at = "sent" /\ call'[p][k].to = page[p].to
      /\ \A y \in Pages, j \in Kinds : y # p \/ j # k => call'[y][j] = call[y][j]
  BY <1>1, <1>2, <1>3, Started
<1>5. ASSUME NEW q \in Pages, q # p PROVE PageInv(q)'
  BY <1>1, <1>4, <1>5, OtherPages
<1>6. PageInv(p)
  OBVIOUS
<1>7. CallInv(p)'
  BY <1>k, <1>1, <1>2, <1>4, <1>6 DEF PageInv, CallInv
<1>8. StepInv(p)'
  BY <1>k, <1>1, <1>3, <1>4, <1>6 DEF PageInv, StepInv
<1>9. AddressInv(p)'
  BY <1>k, <1>1, <1>3, <1>4, <1>6 DEF PageInv, AddressInv
<1>. QED  BY <1>5, <1>7, <1>8, <1>9 DEF PageInv

LEMMA AnswerStep ==
  ASSUME AllRecovery, \A q \in Pages : PageInv(q), NEW x \in Pages, NEW k \in Kinds, Answer(x, k),
         \A j \in Kinds : Spent(j) => Spent(j)', Issued \subseteq Issued'
  PROVE  \A q \in Pages : PageInv(q)'
<1>k. "request" \in Kinds /\ "verify" \in Kinds /\ "reset" \in Kinds
      /\ k \in {"request", "verify", "reset"}
  BY DEF Kinds
<1>1. /\ page \in [Pages -> PageTypes] /\ RecoveryTypeOK /\ call \in [Pages -> [Kinds -> Calls]]
      /\ call[x][k].at \in Ended /\ call' = [call EXCEPT ![x][k] = IdleCall]
      /\ page' = [page EXCEPT ![x] = AfterAnswer(x, k)]
  BY TypesOf DEF AllRecovery, Answer
<1>2. PICK g \in PageTypes :
        /\ g = AfterAnswer(x, k)
        /\ g.to = page[x].to /\ g.edited = page[x].edited
        /\ \/ g = page[x]
           \/ k = "request" /\ g.step = "code" /\ g.shown = page[x].shown /\ g.set = page[x].set
           \/ k = "verify" /\ call[x][k].at = "ok" /\ g.step = "identity"
              /\ g.shown = call[x][k].did /\ g.set = page[x].set
           \/ k = "reset" /\ call[x][k].at = "ok" /\ g.step = "done"
              /\ g.set = call[x][k].did /\ g.shown = page[x].shown
  BY <1>1, AnswerTyped
<1>3. page'[x] = g /\ \A q \in Pages : q # x => page'[q] = page[q]
  BY <1>1, <1>2
<1>4. /\ call'[x][k].at = "idle"
      /\ \A y \in Pages, j \in Kinds : y # x \/ j # k => call'[y][j] = call[y][j]
  BY <1>1, IdleIsCall, OneCallChanges
<1>5. ASSUME NEW q \in Pages, q # x PROVE PageInv(q)'
  BY <1>3, <1>4, <1>5, OtherPages
<1>6. PageInv(x) /\ call[x][k].at # "idle"
  BY <1>1 DEF Ended
<1>7. CallInv(x)'
  BY <1>k, <1>2, <1>3, <1>4, <1>6 DEF PageInv, CallInv
<1>8. StepInv(x)'
  BY <1>k, <1>2, <1>3, <1>4, <1>6 DEF PageInv, StepInv, CallInv
<1>9. AddressInv(x)'
  BY <1>k, <1>2, <1>3, <1>4, <1>6 DEF PageInv, AddressInv, CallInv
<1>. QED  BY <1>5, <1>7, <1>8, <1>9 DEF PageInv

LEMMA CheckStep ==
  ASSUME AllRecovery, \A q \in Pages : PageInv(q), NEW x \in Pages, NEW k \in Kinds, CheckCode(x, k),
         \A j \in Kinds : Spent(j) => Spent(j)', Issued \subseteq Issued'
  PROVE  \A q \in Pages : PageInv(q)'
<1>1. k \in {"verify", "reset"} /\ VerifyCode(x, k) /\ call[x][k].at = "sent" /\ page' = page
  BY DEF CheckCode
<1>2. call[x][k].to \in Owners /\ call[x][k].code \in Nat
  BY <1>1 DEF AllRecovery, RecoveryTypeOK, PagesInv, CallInv, Calls
<1>3. PICK u \in Owners, c \in Nat : u = call[x][k].to /\ c = call[x][k].code
  BY <1>2
<1>4. RecoveryTypeOK /\ SpentInv /\ \A v \in Owners : CodeInv(v)
  BY DEF AllRecovery, CodesInv
<1>5. /\ call'[x][k].to = u
      /\ \A y \in Pages, j \in Kinds : y # x \/ j # k => call'[y][j] = call[y][j]
  BY <1>1, <1>3, <1>4, Compared
<1>6. ~Accepts(u, c) => call'[x][k].at = "bad"
  BY <1>1, <1>3, <1>4, Compared
<1>7. Accepts(u, c) => c \in Issued /\ accepted'[c] = <<k>> /\ call'[x][k].did = u
  BY <1>1, <1>3, <1>4, Compared
<1>8. call'[x][k].at \in {"checked", "free", "updated", "ok"} =>
        call'[x][k].did = call'[x][k].to /\ Spent(k)'
  BY <1>5, <1>6, <1>7 DEF Spent
<1>. QED  BY <1>1, <1>3, <1>5, <1>8, OneCallMoves

LEMMA RecoveryPages ==
  ASSUME AllRecovery, RecoveryNext
  PROVE  PagesInv'
<1>k. "request" \in Kinds /\ "verify" \in Kinds /\ "reset" \in Kinds
  BY DEF Kinds
<1>0. Issued \subseteq Issued' /\ \A k \in Kinds : Spent(k) => Spent(k)'
  BY SpentStays
<1>1. /\ \A p \in Pages : PageInv(p)
      /\ RecoveryTypeOK /\ page \in [Pages -> PageTypes] /\ call \in [Pages -> [Kinds -> Calls]]
  BY TypesOf DEF AllRecovery, PagesInv, PageInv
<1>2. (\A p \in Pages : PageInv(p)') => PagesInv'
  BY DEF PagesInv, PageInv
<1>3. ASSUME UNCHANGED <<page, call>> PROVE PagesInv'
  BY <1>0, <1>1, <1>2, <1>3, OtherPages
<1>4. ASSUME NEW p \in Pages, TypeEmail(p) \/ TypeCode(p) \/ Turn(p) PROVE PagesInv'
  <2>1. call' = call /\ \A q \in Pages : q # p => page'[q] = page[q]
    BY <1>1, <1>4 DEF TypeEmail, TypeCode, Turn
  <2>2. \A q \in Pages : q # p => PageInv(q)'
    BY <1>0, <1>1, <2>1, OtherPages
  <2>3. PageInv(p)'
    BY <1>0, <1>1, <1>4, TypeEmailStep, TypeCodeStep
  <2>. QED  BY <1>2, <2>2, <2>3
<1>5. ASSUME NEW p \in Pages, RequestCode(p) \/ SubmitCode(p) \/ SubmitHandle(p) PROVE PagesInv'
  BY <1>0, <1>1, <1>2, <1>5, StartStep
<1>6. ASSUME NEW x \in Pages, NEW k \in Kinds, Answer(x, k) PROVE PagesInv'
  BY <1>0, <1>1, <1>2, <1>6, AnswerStep
<1>7. ASSUME NEW x \in Pages, FindOwner(x) PROVE PagesInv'
  <2>1. PICK s \in {"ok", "found"} :
          call[x]["request"].at = "sent" /\ call' = [call EXCEPT ![x]["request"].at = s]
    BY <1>7 DEF FindOwner
  <2>2. page' = page /\ s \in States
    BY <1>7 DEF FindOwner, States
  <2>3. /\ call'[x]["request"].at = s /\ call'[x]["request"].to = call[x]["request"].to
        /\ \A y \in Pages, j \in Kinds : y # x \/ j # "request" => call'[y][j] = call[y][j]
    BY <1>k, <1>1, <2>1, <2>2, Moved
  <2>4. call'[x]["request"].at # "sending" /\ call[x]["request"].at # "idle"
    BY <2>1, <2>3
  <2>. QED  BY <1>0, <1>1, <1>2, <1>k, <2>2, <2>3, <2>4, OneCallMoves
<1>8. ASSUME NEW x \in Pages, Issue(x) PROVE PagesInv'
  <2>1. page' = page /\ call[x]["request"].at = "found"
    BY <1>8 DEF Issue
  <2>2. /\ call'[x]["request"].to = call[x]["request"].to
        /\ call'[x]["request"].code \in Issued'
        /\ \A y \in Pages, j \in Kinds : y # x \/ j # "request" => call'[y][j] = call[y][j]
    BY <1>8, Issuing
  <2>. QED  BY <1>0, <1>1, <1>2, <1>k, <2>1, <2>2, OneCallMoves
<1>9. ASSUME NEW x \in Pages, SendMail(x) PROVE PagesInv'
  <2>1. page' = page /\ call[x]["request"].at = "sending" /\ call[x]["request"].code \in Issued
    BY <1>9, SendMailDoes DEF SendMail
  <2>2. PICK s \in {"sending", "ok", "bad"} : call' = [call EXCEPT ![x]["request"].at = s]
    BY <1>9, SendMailDoes
  <2>3. s \in States
    BY DEF States
  <2>4. /\ call'[x]["request"].at = s /\ call'[x]["request"].to = call[x]["request"].to
        /\ call'[x]["request"].code = call[x]["request"].code
        /\ \A y \in Pages, j \in Kinds : y # x \/ j # "request" => call'[y][j] = call[y][j]
    BY <1>k, <1>1, <2>2, <2>3, Moved
  <2>. QED  BY <1>0, <1>1, <1>2, <1>k, <2>1, <2>4, OneCallMoves
<1>10. ASSUME NEW x \in Pages, NEW k \in Kinds, CheckCode(x, k) PROVE PagesInv'
  BY <1>0, <1>1, <1>2, <1>10, CheckStep
<1>11. ASSUME NEW x \in Pages, NEW k \in {"verify", "reset"}, NEW s \in States,
              call[x][k].at \in {"checked", "free", "updated"},
              call' = [call EXCEPT ![x][k].at = s], page' = page
       PROVE  PagesInv'
  <2>1. k \in Kinds
    BY DEF Kinds
  <2>2. /\ call'[x][k].to = call[x][k].to /\ call'[x][k].did = call[x][k].did
        /\ \A y \in Pages, j \in Kinds : y # x \/ j # k => call'[y][j] = call[y][j]
    BY <1>1, <1>11, <2>1, Moved
  <2>3. call[x][k].did = call[x][k].to /\ Spent(k)
    BY <1>1, <1>11 DEF PageInv, CallInv
  <2>4. call'[x][k].did = call'[x][k].to /\ Spent(k)'
    BY <1>0, <2>1, <2>2, <2>3
  <2>5. call[x][k].at # "idle" /\ k # "request"
    BY <1>11
  <2>. QED  BY <1>0, <1>1, <1>2, <1>11, <2>1, <2>2, <2>4, <2>5, OneCallMoves
<1>12. ASSUME NEW x \in Pages, VerifyRecovery(x) PROVE PagesInv'
  <2>1. PICK s \in States : call' = [call EXCEPT ![x]["verify"].at = s]
    BY <1>12 DEF VerifyRecovery, States
  <2>2. call[x]["verify"].at = "checked" /\ page' = page
    BY <1>12 DEF VerifyRecovery
  <2>. QED  BY <1>11, <2>1, <2>2
<1>13. ASSUME NEW x \in Pages, ResetHandle(x) PROVE PagesInv'
  <2>1. PICK s \in States : call' = [call EXCEPT ![x]["reset"].at = s]
    BY <1>13 DEF ResetHandle, States
  <2>2. call[x]["reset"].at \in {"checked", "free", "updated"} /\ page' = page
    BY <1>13 DEF ResetHandle
  <2>. QED  BY <1>11, <2>1, <2>2
<1>14. ASSUME Restart PROVE PagesInv'
  <2>1. page' = page
    BY <1>14 DEF Restart
  <2>2. \A x \in Pages, k \in Kinds :
              /\ call'[x][k].to = call[x][k].to
              /\ call'[x][k].did = call[x][k].did
              /\ call'[x][k].at = IF call[x][k].at \in Ended \cup {"idle"}
                                  THEN call[x][k].at ELSE "lost"
    BY <1>1, <1>14, RestartCalls
  <2>3. ASSUME NEW p \in Pages PROVE PageInv(p)'
    <3>1. \A k \in Kinds : call'[p][k].at \in {"ok", "bad", "lost", "idle"}
      BY <2>2 DEF Ended
    <3>2. \A k \in Kinds : /\ call'[p][k].to = call[p][k].to
                           /\ call'[p][k].at # "idle" => call[p][k].at # "idle"
      BY <2>2 DEF Ended
    <3>3. ASSUME NEW k \in {"verify", "reset"}, call'[p][k].at \in {"checked", "free", "updated", "ok"}
          PROVE  call'[p][k].did = call'[p][k].to /\ Spent(k)'
      <4>1. k \in Kinds
        BY DEF Kinds
      <4>2. call[p][k].at = "ok"
        BY <2>2, <3>1, <3>3, <4>1 DEF Ended
      <4>3. call[p][k].did = call[p][k].to /\ Spent(k)
        BY <1>1, <4>2 DEF PageInv, CallInv
      <4>. QED  BY <1>0, <2>2, <4>1, <4>3
    <3>4. call'[p]["request"].at # "sending"
      BY <1>k, <3>1
    <3>. QED  BY <1>0, <1>1, <2>1, <3>2, <3>3, <3>4, PageStays
  <2>. QED  BY <1>2, <2>3
<1>15. ASSUME Cleanup \/ Tick \/ (\E u \in Leaving : EraseOwner(u) \/ Rename(u))
              \/ \E c \in Issued : RetryMail(c)
       PROVE  PagesInv'
  BY <1>3, <1>15 DEF Cleanup, Tick, EraseOwner, Rename, RetryMail
<1>. QED  BY <1>4, <1>5, <1>6, <1>7, <1>8, <1>9, <1>10, <1>12, <1>13, <1>14, <1>15
          DEF RecoveryNext, Serve
-----------------------------------------------------------------------------
(***************************************************************************)
(* Answers.                                                                *)
(***************************************************************************)
\* A mail at rest stays so, and the queue keeps its own.
Forward(c) == /\ c \in Issued'
              /\ mail[c].at = "unwritten" => mail'[c].at = "unwritten"
              /\ Kept(mail[c]) => Kept(mail'[c])

LEMMA MailsGoForward ==
  ASSUME AllRecovery, RecoveryNext
  PROVE  \A c \in Issued : Forward(c)
<1>1. mail \in Seq(Mails)
  BY DEF AllRecovery, RecoveryTypeOK
<1>2. ASSUME UNCHANGED mail PROVE \A c \in Issued : Forward(c)
  BY <1>2 DEF Forward, Issued
<1>3. ASSUME NEW x \in Pages, Issue(x) PROVE \A c \in Issued : Forward(c)
  <2>1. Issued \subseteq Issued' /\ \A d \in Issued : mail'[d] = mail[d]
    BY <1>3, Issuing
  <2>. QED  BY <2>1 DEF Forward
<1>4. ASSUME NEW x \in Pages, SendMail(x) PROVE \A c \in Issued : Forward(c)
  <2>1. PICK d \in Issued, m \in Mails :
          mail[d].at \in {"sending", "failed"} /\ mail' = [mail EXCEPT ![d] = m]
    BY <1>4, SendMailDoes
  <2>2. Len(mail') = Len(mail) /\ \A c \in Issued : c # d => mail'[c] = mail[c]
    BY <1>1, <2>1, OneMailChanges
  <2>3. Issued' = Issued
    BY <2>2 DEF Issued
  <2>. QED  BY <2>1, <2>2, <2>3 DEF Forward, Kept
<1>5. ASSUME NEW d \in Issued, RetryMail(d) PROVE \A c \in Issued : Forward(c)
  <2>1. mail[d].at = "queued"
    BY <1>5, RetryMailDoes
  <2>2. PICK m \in Mails : mail' = [mail EXCEPT ![d] = m] /\ Kept(m)
    BY <1>5, RetryMailDoes
  <2>3. /\ Len(mail') = Len(mail) /\ mail'[d] = m
        /\ \A c \in Issued : c # d => mail'[c] = mail[c]
    BY <1>1, <2>2, OneMailChanges
  <2>4. Issued' = Issued
    BY <2>3 DEF Issued
  <2>. QED  BY <2>1, <2>2, <2>3, <2>4 DEF Forward
<1>6. ASSUME Restart PROVE \A c \in Issued : Forward(c)
  <2>1. /\ Len(mail') = Len(mail)
        /\ \A c \in Issued : /\ mail'[c].failed = mail[c].failed
                             /\ mail'[c].at = IF mail[c].at \in {"sending", "failed"}
                                              THEN "dropped" ELSE mail[c].at
    BY <1>1, <1>6, RestartMails
  <2>2. Issued' = Issued
    BY <2>1 DEF Issued
  <2>. QED  BY <2>1, <2>2 DEF Forward, Kept
<1>7. ASSUME NEW p \in Pages, TypeEmail(p) \/ RequestCode(p) \/ TypeCode(p) \/ SubmitCode(p)
                                 \/ SubmitHandle(p) \/ Turn(p)
      PROVE  UNCHANGED mail
  BY <1>7 DEF TypeEmail, RequestCode, TypeCode, SubmitCode, SubmitHandle, Turn
<1>8. ASSUME NEW x \in Pages, NEW k \in Kinds,
             FindOwner(x) \/ CheckCode(x, k) \/ VerifyRecovery(x) \/ ResetHandle(x) \/ Answer(x, k)
      PROVE  UNCHANGED mail
  BY <1>8 DEF FindOwner, CheckCode, VerifyRecovery, ResetHandle, Answer
<1>9. ASSUME Cleanup \/ Tick \/ (\E u \in Leaving : EraseOwner(u) \/ Rename(u))
      PROVE  UNCHANGED mail
  BY <1>9 DEF Cleanup, Tick, EraseOwner, Rename
<1>k. "request" \in Kinds
  BY DEF Kinds
<1>. QED  BY <1>2, <1>3, <1>4, <1>5, <1>6, <1>7, <1>8, <1>9, <1>k DEF RecoveryNext, Serve

\* An answer that waits goes on being right.
LEMMA AnswerStays ==
  ASSUME NEW x \in Pages, AnswerRight(x), \A c \in Issued : Forward(c),
         call'[x]["request"].at = call[x]["request"].at,
         call'[x]["request"].code = call[x]["request"].code
  PROVE  AnswerRight(x)'
BY DEF AnswerRight, Forward

LEMMA RecoveryAnswers ==
  ASSUME AllRecovery, RecoveryNext
  PROVE  AnswersInv'
<1>k. "request" \in Kinds /\ "verify" \in Kinds /\ "reset" \in Kinds
  BY DEF Kinds
<1>1. /\ RecoveryTypeOK /\ call \in [Pages -> [Kinds -> Calls]]
      /\ \A x \in Pages : AnswerRight(x)
  BY TypesOf DEF AllRecovery, AnswersInv
<1>2. \A c \in Issued : Forward(c)
  BY MailsGoForward
<1>3. ASSUME NEW x \in Pages, call'[x]["request"] = call[x]["request"] PROVE AnswerRight(x)'
  BY <1>1, <1>2, <1>3, AnswerStays
\* The call of one page is the one that changes.
<1>4. ASSUME NEW x \in Pages, AnswerRight(x)',
             \A y \in Pages, j \in Kinds : y # x \/ j # "request" => call'[y][j] = call[y][j]
      PROVE  AnswersInv'
  BY <1>k, <1>3, <1>4 DEF AnswersInv
<1>5. ASSUME NEW x \in Pages, NEW k \in {"verify", "reset"},
             \A y \in Pages, j \in Kinds : y # x \/ j # k => call'[y][j] = call[y][j]
      PROVE  AnswersInv'
  BY <1>k, <1>3, <1>5 DEF AnswersInv
<1>6. ASSUME UNCHANGED call PROVE AnswersInv'
  BY <1>3, <1>6 DEF AnswersInv
<1>7. ASSUME NEW p \in Pages, TypeEmail(p) \/ TypeCode(p) \/ Turn(p) PROVE AnswersInv'
  BY <1>6, <1>7 DEF TypeEmail, TypeCode, Turn
<1>8. ASSUME NEW p \in Pages, RequestCode(p) \/ SubmitCode(p) \/ SubmitHandle(p) PROVE AnswersInv'
  <2>1. page[p].to \in Owners /\ page[p].code \in Nat
    BY <1>8 DEF RequestCode, SubmitCode, SubmitHandle, AllRecovery, RecoveryTypeOK,
                PagesInv, CallInv
  <2>2. PICK k \in Kinds, c \in Nat, h \in Handles \cup {Gone} :
          Start(p, k, page[p].to, c, h) /\ (k = "request" => c = 0)
    BY <1>k, <1>8, <2>1 DEF RequestCode, SubmitCode, SubmitHandle
  <2>3. /\ call'[p][k].at = "sent" /\ call'[p][k].code = c
        /\ \A y \in Pages, j \in Kinds : y # p \/ j # k => call'[y][j] = call[y][j]
    BY <1>1, <2>1, <2>2, Started
  <2>4. CASE k = "request"
    <3>1. AnswerRight(p)'
      BY <2>2, <2>3, <2>4 DEF AnswerRight
    <3>. QED  BY <1>4, <2>3, <2>4, <3>1
  <2>5. CASE k # "request"
    BY <1>5, <2>3, <2>5 DEF Kinds
  <2>. QED  BY <2>4, <2>5
<1>9. ASSUME NEW x \in Pages, NEW k \in Kinds, Answer(x, k) PROVE AnswersInv'
  <2>1. /\ call'[x][k].at = "idle"
        /\ \A y \in Pages, j \in Kinds : y # x \/ j # k => call'[y][j] = call[y][j]
    BY <1>1, <1>9, IdleIsCall, OneCallChanges DEF Answer
  <2>2. CASE k = "request"
    <3>1. AnswerRight(x)'
      BY <2>1, <2>2 DEF AnswerRight
    <3>. QED  BY <1>4, <2>1, <2>2, <3>1
  <2>3. CASE k # "request"
    BY <1>5, <2>1, <2>3 DEF Kinds
  <2>. QED  BY <2>2, <2>3
<1>10. ASSUME NEW x \in Pages, FindOwner(x) PROVE AnswersInv'
  <2>1. PICK s \in {"ok", "found"} :
          call[x]["request"].at = "sent" /\ call' = [call EXCEPT ![x]["request"].at = s]
    BY <1>10 DEF FindOwner
  <2>2. s \in States
    BY DEF States
  <2>3. /\ call'[x]["request"].at = s /\ call'[x]["request"].code = call[x]["request"].code
        /\ \A y \in Pages, j \in Kinds : y # x \/ j # "request" => call'[y][j] = call[y][j]
    BY <1>k, <1>1, <2>1, <2>2, Moved
  <2>4. call[x]["request"].code = 0
    BY <1>1, <2>1 DEF AnswerRight
  <2>5. AnswerRight(x)'
    BY <2>3, <2>4 DEF AnswerRight
  <2>. QED  BY <1>4, <2>3, <2>5
<1>11. ASSUME NEW x \in Pages, Issue(x) PROVE AnswersInv'
  <2>1. /\ call'[x]["request"].at = "sending"
        /\ \A y \in Pages, j \in Kinds : y # x \/ j # "request" => call'[y][j] = call[y][j]
    BY <1>11, Issuing
  <2>2. AnswerRight(x)'
    BY <2>1 DEF AnswerRight
  <2>. QED  BY <1>4, <2>1, <2>2
<1>12. ASSUME NEW x \in Pages, SendMail(x) PROVE AnswersInv'
  <2> DEFINE c == call[x]["request"].code
  <2>1. c \in Issued
    BY <1>12, SendMailDoes
  <2>2. PICK m \in Mails, s \in {"sending", "ok", "bad"} :
          /\ s = "ok" => Kept(m)
          /\ s = "bad" => m.at = "unwritten"
          /\ mail' = [mail EXCEPT ![c] = m]
          /\ call' = [call EXCEPT ![x]["request"].at = s]
    BY <1>12, SendMailDoes
  <2>3. s \in States
    BY DEF States
  <2>4. /\ call'[x]["request"].at = s /\ call'[x]["request"].code = c
        /\ \A y \in Pages, j \in Kinds : y # x \/ j # "request" => call'[y][j] = call[y][j]
    BY <1>k, <1>1, <2>2, <2>3, Moved
  <2> HIDE DEF c
  <2>5. mail'[c] = m /\ c \in Issued'
    BY <1>1, <1>2, <2>1, <2>2, OneMailChanges DEF RecoveryTypeOK, Forward
  <2>6. AnswerRight(x)'
    BY <2>2, <2>4, <2>5 DEF AnswerRight
  <2>. QED  BY <1>4, <2>4, <2>6
<1>13. ASSUME NEW x \in Pages, NEW k \in Kinds, CheckCode(x, k) PROVE AnswersInv'
  <2>1. \A y \in Pages, j \in Kinds : y # x \/ j # k => call'[y][j] = call[y][j]
    BY <1>1, <1>13 DEF CheckCode, VerifyCode
  <2>. QED  BY <1>5, <1>13, <2>1 DEF CheckCode
<1>14. ASSUME NEW x \in Pages, VerifyRecovery(x) PROVE AnswersInv'
  <2>1. PICK s : call' = [call EXCEPT ![x]["verify"].at = s]
    BY <1>14 DEF VerifyRecovery
  <2>2. \A y \in Pages, j \in Kinds : y # x \/ j # "verify" => call'[y][j] = call[y][j]
    BY <1>1, <2>1
  <2>. QED  BY <1>5, <2>2
<1>15. ASSUME NEW x \in Pages, ResetHandle(x) PROVE AnswersInv'
  <2>1. PICK s : call' = [call EXCEPT ![x]["reset"].at = s]
    BY <1>15 DEF ResetHandle
  <2>2. \A y \in Pages, j \in Kinds : y # x \/ j # "reset" => call'[y][j] = call[y][j]
    BY <1>1, <2>1
  <2>. QED  BY <1>5, <2>2
<1>16. ASSUME Restart PROVE AnswersInv'
  <2>1. ASSUME NEW x \in Pages PROVE AnswerRight(x)'
    <3>1. /\ call'[x]["request"].code = call[x]["request"].code
          /\ call'[x]["request"].at = IF call[x]["request"].at \in Ended \cup {"idle"}
                                      THEN call[x]["request"].at ELSE "lost"
      BY <1>k, <1>1, <1>16, RestartCalls
    <3>2. CASE call[x]["request"].at \in Ended \cup {"idle"}
      BY <1>1, <1>2, <3>1, <3>2, AnswerStays
    <3>3. CASE call[x]["request"].at \notin Ended \cup {"idle"}
      BY <3>1, <3>3 DEF AnswerRight
    <3>. QED  BY <3>2, <3>3
  <2>. QED  BY <2>1 DEF AnswersInv
<1>17. ASSUME Cleanup \/ Tick \/ (\E u \in Leaving : EraseOwner(u) \/ Rename(u))
              \/ \E c \in Issued : RetryMail(c)
       PROVE  AnswersInv'
  BY <1>6, <1>17 DEF Cleanup, Tick, EraseOwner, Rename, RetryMail
<1>. QED  BY <1>7, <1>8, <1>9, <1>10, <1>11, <1>12, <1>13, <1>14, <1>15, <1>16, <1>17
          DEF RecoveryNext, Serve
-----------------------------------------------------------------------------
(***************************************************************************)
(* The theorems.                                                           *)
(***************************************************************************)
LEMMA RecoveryStarts == RecoveryInit => AllRecovery
<1> SUFFICES ASSUME RecoveryInit PROVE AllRecovery
  OBVIOUS
<1>1. Issued = {} /\ mail = << >>
  BY DEF RecoveryInit, Issued
<1>2. \A p \in Pages, k \in Kinds : call[p][k] = IdleCall /\ call[p][k].at = "idle"
  BY IdleIsCall DEF RecoveryInit
<1>3. ASSUME NEW p \in Pages
      PROVE  page[p].step = "email" /\ page[p] \in PageTypes
  BY <1>3 DEF RecoveryInit, PageTypes
<1>4. page \in [Pages -> PageTypes]
  BY <1>3 DEF RecoveryInit
<1>5. call \in [Pages -> [Kinds -> Calls]]
  BY IdleIsCall DEF RecoveryInit
<1>6. handle \in [Owners -> Handles \cup {Gone}]
  BY RecoveryAssumption DEF RecoveryInit
<1>7. CodeTypes /\ mail \in Seq(Mails)
  BY <1>1 DEF RecoveryInit, CodeTypes
<1>8. CountTypes
  BY RecoveryAssumption DEF RecoveryInit, CountTypes
<1>9. tried \in [Issued -> 0 .. MaxTries] /\ accepted \in [Issued -> Seq(Kinds)]
  BY <1>1 DEF RecoveryInit
<1>10. RecoveryTypeOK
  BY <1>4, <1>5, <1>6, <1>7, <1>8, <1>9, TypesOf DEF HistoryTypes
<1>11. CodesInv
  BY <1>1 DEF RecoveryInit, CodesInv, CountInv, SpentInv, CodeInv
<1>12. MailsInv
  BY <1>1 DEF MailsInv
<1>k. "request" \in Kinds /\ "verify" \in Kinds /\ "reset" \in Kinds
  BY DEF Kinds
<1>13. PagesInv
  BY <1>2, <1>3, <1>k DEF PagesInv, CallInv, StepInv, AddressInv
<1>14. AnswersInv
  BY <1>2, <1>k DEF AnswersInv, AnswerRight
<1>. QED  BY <1>10, <1>11, <1>12, <1>13, <1>14 DEF AllRecovery

LEMMA RecoveryStutters ==
  ASSUME AllRecovery, UNCHANGED recoveryVars
  PROVE  AllRecovery'
<1>1. RecoveryTypeOK'
  BY DEF AllRecovery, recoveryVars, RecoveryTypeOK, Issued
<1>2. /\ UNCHANGED <<handle, codes, mail, page, call, now, restarts, faults, tried, accepted>>
      /\ Issued' = Issued
  BY DEF recoveryVars, Issued
<1>3. CodesInv'
  BY <1>2 DEF AllRecovery, CodesInv, CountInv, SpentInv, CodeInv, Latest, Good
<1>4. MailsInv'
  BY <1>2 DEF AllRecovery, MailsInv
<1>5. PagesInv'
  BY <1>2 DEF AllRecovery, PagesInv, CallInv, StepInv, AddressInv, Spent
<1>6. AnswersInv'
  BY <1>2 DEF AllRecovery, AnswersInv, AnswerRight
<1>. QED  BY <1>1, <1>3, <1>4, <1>5, <1>6 DEF AllRecovery

\* Every reachable state of a recovery is well typed and keeps all of this.
THEOREM RecoveryInvariant == RecoverySpec => []AllRecovery
<1>1. AllRecovery /\ RecoveryNext => AllRecovery'
  BY RecoveryTypes, RecoveryCodes, RecoveryPages, RecoveryMails, RecoveryAnswers DEF AllRecovery
<1>. QED  BY <1>1, RecoveryStarts, RecoveryStutters, PTL DEF RecoverySpec

\* In every state a page is at its last step only with the two codes it spent,
\* its account is the one it has shown, no mail was given up too early, and a
\* request whose mail was lost with its file has answered an error.
THEOREM RecoveryIsSafe == RecoverySpec => []RecoveryInv
<1>1. ASSUME AllRecovery PROVE RecoveryInv
  <2>1. PageSpendsTwoCodes
    BY <1>1 DEF PageSpendsTwoCodes, AllRecovery, PagesInv, StepInv, Spent
  <2>2. ShownAccountIsReset
    BY <1>1 DEF ShownAccountIsReset, AllRecovery, PagesInv, AddressInv
  <2>3. MailsAreRetried
    <3>1. ASSUME NEW c \in Issued, mail[c].at = "dropped"
          PROVE  \/ mail[c].failed = MaxSends + 1
                 \/ mail[c].failed =< 1 /\ mail[c].epoch < restarts
      BY <1>1, <3>1 DEF AllRecovery, MailsInv, MailRight
    <3>2. ASSUME NEW x \in Pages, call[x]["request"].at \in {"ok", "bad"},
                 call[x]["request"].code # 0
          PROVE  LET r == call[x]["request"] IN
                 /\ r.at = "bad" <=> mail[r.code].at = "unwritten"
                 /\ mail[r.code].at \notin {"sending", "failed"}
                 /\ mail[r.code].at = "dropped" => mail[r.code].failed = MaxSends + 1
      BY <1>1, <3>2 DEF AllRecovery, AnswersInv, AnswerRight, Kept
    <3>. QED  BY <3>1, <3>2 DEF MailsAreRetried
  <2>. QED  BY <1>1, <2>1, <2>2, <2>3 DEF RecoveryInv, AllRecovery
<1>. QED  BY <1>1, RecoveryInvariant, PTL

\* What the Map answers is what the mails say.
LEMMA AcceptsGood ==
  ASSUME AllRecovery, NEW u \in Owners, NEW c \in Nat
  PROVE  Accepts(u, c) <=> Good(u, c)
<1>1. CodeInv(u) /\ codes \in [Owners -> SUBSET Records]
  BY DEF AllRecovery, CodesInv, RecoveryTypeOK
<1>2. ASSUME NEW r \in Matches(u, c) PROVE Good(u, c)
  <2>1. r \in codes[u] /\ r.expires >= now /\ r.attempts < MaxTries /\ r.code = c
    BY DEF Matches, Alive
  <2>. QED  BY <1>1, <2>1 DEF CodeInv, Latest, Good
<1>3. ASSUME Good(u, c) PROVE \E r : r \in Matches(u, c)
  <2>1. c \in Issued
    BY <1>3 DEF Good
  <2>2. PICK r \in codes[u] : r.code = c
    BY <1>1, <1>3, <2>1 DEF CodeInv
  <2>3. r.expires >= now /\ r.attempts < MaxTries
    BY <1>1, <1>3, <2>2 DEF CodeInv, Good
  <2>. QED  BY <2>2, <2>3 DEF Matches, Alive
<1>. QED  BY <1>2, <1>3 DEF Accepts

\* A code is accepted exactly when it is the last one mailed to the address,
\* young enough, of this run of the process, and neither used nor tried out.
THEOREM GoodCodesWork == RecoverySpec => OnlyGoodCodesWork
<1> DEFINE A == \A x \in Pages, k \in {"verify", "reset"} :
                  (call[x][k].at = "sent" /\ call'[x][k].at \in {"checked", "bad"})
                  => ((call'[x][k].at = "checked") <=> Good(call[x][k].to, call[x][k].code))
<1>1. ASSUME AllRecovery, RecoveryNext PROVE A
  <2> SUFFICES ASSUME NEW x \in Pages, NEW k \in {"verify", "reset"},
                      call[x][k].at = "sent", call'[x][k].at \in {"checked", "bad"}
               PROVE  (call'[x][k].at = "checked") <=> Good(call[x][k].to, call[x][k].code)
    OBVIOUS
  <2>k. k \in Kinds /\ k # "request" /\ "request" \in Kinds /\ "verify" \in Kinds /\ "reset" \in Kinds
    BY DEF Kinds
  <2>1. RecoveryTypeOK /\ call \in [Pages -> [Kinds -> Calls]] /\ PagesInv
    BY <1>1 DEF AllRecovery, RecoveryTypeOK
  <2>2. call'[x][k] # call[x][k]
    OBVIOUS
  \* The only step that does this is the comparison of this call.
  <2>3. CheckCode(x, k)
    <3>1. ASSUME NEW p \in Pages, TypeEmail(p) \/ TypeCode(p) \/ Turn(p) PROVE FALSE
      BY <2>2, <3>1 DEF TypeEmail, TypeCode, Turn
    <3>2. ASSUME NEW p \in Pages, RequestCode(p) \/ SubmitCode(p) \/ SubmitHandle(p) PROVE FALSE
      <4>1. PICK j \in Kinds : \E c, h : Start(p, j, page[p].to, c, h)
        BY <2>k, <3>2 DEF RequestCode, SubmitCode, SubmitHandle
      <4>2. call[p][j].at = "idle" /\ \A y \in Pages, i \in Kinds :
                                        y # p \/ i # j => call'[y][i] = call[y][i]
        BY <2>1, <4>1 DEF Start
      <4>. QED  BY <2>2, <2>k, <4>2
    <3>3. ASSUME NEW y \in Pages, NEW j \in Kinds, Answer(y, j) PROVE FALSE
      <4>1. /\ call[y][j].at # "sent"
            /\ \A z \in Pages, i \in Kinds : z # y \/ i # j => call'[z][i] = call[z][i]
        BY <2>1, <3>3 DEF Answer, Ended
      <4>. QED  BY <2>2, <2>k, <4>1
    <3>4. ASSUME NEW y \in Pages, FindOwner(y) \/ Issue(y) \/ SendMail(y) PROVE FALSE
      <4>1. \A z \in Pages, i \in Kinds : z # y \/ i # "request" => call'[z][i] = call[z][i]
        <5>1. ASSUME FindOwner(y) PROVE \A z \in Pages, i \in Kinds :
                                          z # y \/ i # "request" => call'[z][i] = call[z][i]
          BY <2>1, <5>1 DEF FindOwner
        <5>2. ASSUME Issue(y) PROVE \A z \in Pages, i \in Kinds :
                                      z # y \/ i # "request" => call'[z][i] = call[z][i]
          BY <2>1, <5>2 DEF Issue
        <5>3. ASSUME SendMail(y) PROVE \A z \in Pages, i \in Kinds :
                                         z # y \/ i # "request" => call'[z][i] = call[z][i]
          BY <2>1, <5>3 DEF SendMail
        <5>. QED  BY <3>4, <5>1, <5>2, <5>3
      <4>. QED  BY <2>2, <2>k, <4>1
    <3>5. ASSUME NEW y \in Pages, VerifyRecovery(y) PROVE FALSE
      <4>1. /\ call[y]["verify"].at # "sent"
            /\ \A z \in Pages, i \in Kinds : z # y \/ i # "verify" => call'[z][i] = call[z][i]
        BY <2>1, <3>5 DEF VerifyRecovery
      <4>. QED  BY <2>2, <2>k, <4>1
    <3>6. ASSUME NEW y \in Pages, ResetHandle(y) PROVE FALSE
      <4>1. call[y]["reset"].at # "sent"
        BY <3>6 DEF ResetHandle
      <4>2. \A z \in Pages, i \in Kinds : z # y \/ i # "reset" => call'[z][i] = call[z][i]
        <5>1. PICK s : call' = [call EXCEPT ![y]["reset"].at = s]
          BY <3>6 DEF ResetHandle
        <5>. QED  BY <2>1, <5>1
      <4>. QED  BY <2>2, <2>k, <4>1, <4>2
    <3>7. ASSUME NEW y \in Pages, NEW j \in Kinds, CheckCode(y, j) PROVE y = x /\ j = k
      <4>2. \A z \in Pages, i \in Kinds : z # y \/ i # j => call'[z][i] = call[z][i]
        BY <2>1, <3>7 DEF CheckCode, VerifyCode
      <4>. QED  BY <2>2, <2>k, <4>2
    <3>8. ASSUME Restart PROVE FALSE
      <4>1. call'[x][k].at = "lost"
        BY <2>1, <2>k, <3>8, RestartCalls DEF Ended
      <4>. QED  BY <4>1
    <3>9. ASSUME Cleanup \/ Tick \/ (\E u \in Leaving : EraseOwner(u) \/ Rename(u))
                 \/ \E c \in Issued : RetryMail(c)
          PROVE  FALSE
      BY <2>2, <3>9 DEF Cleanup, Tick, EraseOwner, Rename, RetryMail
    <3>. QED  BY <1>1, <3>1, <3>2, <3>3, <3>4, <3>5, <3>6, <3>7, <3>8, <3>9 DEF RecoveryNext, Serve
  <2>4. call[x][k].to \in Owners /\ call[x][k].code \in Nat
    BY <2>1, <2>k DEF PagesInv, CallInv, Calls
  <2>5. PICK u \in Owners, c \in Nat : u = call[x][k].to /\ c = call[x][k].code
    BY <2>4
  <2>6. VerifyCode(x, k) /\ SpentInv /\ \A v \in Owners : CodeInv(v)
    BY <1>1, <2>3 DEF CheckCode, AllRecovery, CodesInv
  <2>7. (call'[x][k].at = "checked") <=> Accepts(u, c)
    BY <2>1, <2>5, <2>6, Compared
  <2>. QED  BY <1>1, <2>5, <2>7, AcceptsGood
<1>2. UNCHANGED recoveryVars => A
  BY DEF recoveryVars
<1>3. AllRecovery /\ [RecoveryNext]_recoveryVars => A
  BY <1>1, <1>2
<1>4. OnlyGoodCodesWork <=> [][A]_recoveryVars
  BY DEF OnlyGoodCodesWork
<1> HIDE DEF A
<1>. QED  BY <1>3, <1>4, RecoveryInvariant, PTL DEF RecoverySpec
=============================================================================
