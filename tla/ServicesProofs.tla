---------------------------- MODULE ServicesProofs ----------------------------
(***************************************************************************)
(* Theorems about Community, ConnectionPool, ProviderKeys and Wellness,    *)
(* the parts of MCServices: one inductive invariant for each.              *)
(***************************************************************************)
EXTENDS Community, ProviderKeys, ConnectionPool, Wellness, FiniteSetTheorems, SequenceTheorems,
        TLAPS

-----------------------------------------------------------------------------
(* The connection pool                                                     *)

Session == [by : Callers \cup {Nobody, Lost}, open : BOOLEAN, listens : SUBSET Channels,
            handlers : SUBSET (Nat \X Channels), shard : Shards \cup {Nobody},
            deaf : BOOLEAN, stuck : BOOLEAN]
Operations == {"query", "transaction", "shard", "listen"}
Statements == {"query", "begin", "work", "commit", "rollback", "set", "listen", "on"}
Use == [pc : Statements \cup {"off", "waiting"}, op : Operations,
        arg : {Nobody} \cup Channels \cup Shards, id : Nat, on : Conns \cup {Nobody}]

\* Every call is at a statement of its operation, and has what that needs.
Consistent(u) ==
  /\ u.op = "query" => u.pc \in {"off", "waiting", "query"}
  /\ u.op = "transaction" => u.pc \in {"waiting", "begin", "work", "commit", "rollback"}
  /\ u.op = "shard" => /\ u.pc \in {"waiting", "set", "work"}
                       /\ u.arg \in Shards
  /\ u.op = "listen" => /\ u.pc \in {"waiting", "listen", "on"}
                        /\ u.arg \in Channels

\* A session that no caller has.
Clean(r) == (r.stuck \/ ~r.open) /\ (r.deaf \/ r.listens = {})

\* Connection c, in session r, is where the caller with call u has it.
Serves(r, u, c) ==
  /\ u.on = c /\ u.pc \in Statements
  /\ r.open => r.stuck \/ u.op = "transaction"
  /\ r.deaf \/ r.listens = {} \/ (u.pc = "on" /\ r.listens = {u.arg})
  /\ (Vedadb /\ u.op = "shard" /\ u.pc = "work") => r.shard = u.arg

ConnInv ==
  /\ conn \in [Conns -> Session]
  /\ \A c \in Conns : IF conn[c].by \in Callers THEN Serves(conn[c], use[conn[c].by], c)
                                              ELSE Clean(conn[c])
UseInv ==
  /\ use \in [Callers -> Use]
  /\ \A t \in Callers : /\ Consistent(use[t])
                        /\ use[t].pc \in Statements
                             => use[t].on \in Conns /\ conn[use[t].on].by = t
LineInv ==
  /\ waiting \in Seq(Callers)
  /\ \A i \in 1 .. Len(waiting) : use[waiting[i]].pc = "waiting"
  /\ \A i, j \in 1 .. Len(waiting) : waiting[i] = waiting[j] => i = j
PoolsInv == ConnInv /\ UseInv /\ LineInv /\ ending \in BOOLEAN /\ uses \in Nat

LEMMA NewTyped ==
  /\ NewSession \in Session /\ Clean(NewSession) /\ NewSession.by = Nobody
  /\ Nobody \notin Callers /\ Lost \notin Callers
  /\ NoUse \in Use /\ Consistent(NoUse) /\ NoUse.pc = "off" /\ NoUse.op = "query"
BY ConnectionPoolAssumption
   DEF NewSession, NoUse, Session, Use, Operations, Clean, Consistent

\* A caller that gets a session nobody has.
LEMMA TakenServes ==
  ASSUME NEW t \in Callers, NEW c \in Conns, NEW u \in Use, Consistent(u),
         u.pc = "waiting", NEW r \in Session, Clean(r)
  PROVE  /\ Taken(t, u, r) \in Session /\ Taken(t, u, r).by = t
         /\ Started(u, c) \in Use /\ Consistent(Started(u, c))
         /\ Started(u, c).pc \in Statements /\ Started(u, c).on = c
         /\ Serves(Taken(t, u, r), Started(u, c), c)
<1> DEFINE h == r.handlers \cup IF u.op = "listen" THEN {<<u.id, u.arg>>} ELSE {}
           s == [r EXCEPT !.by = t, !.handlers = h]
           p == First(u.op)
           v == [u EXCEPT !.pc = p, !.on = c]
<1>1. Taken(t, u, r) = s /\ Started(u, c) = v
  BY DEF Taken, Started
<1>2. h \subseteq Nat \X Channels
  BY DEF Consistent, Use, Session
<1>3. /\ u.op \in Operations
      /\ u.op = "query" => p = "query"
      /\ u.op = "transaction" => p = "begin"
      /\ u.op = "shard" => p = IF Vedadb THEN "set" ELSE "work"
      /\ u.op = "listen" => p = "listen"
  BY DEF First, Use, Operations
<1> HIDE DEF h, p
<1>4. /\ s \in Session /\ s.by = t /\ s.open = r.open /\ s.listens = r.listens
      /\ s.deaf = r.deaf /\ s.stuck = r.stuck /\ s.shard = r.shard
  BY <1>2 DEF Session
<1>5. p \in Statements
  BY <1>3 DEF Operations, Statements
<1>6. v \in Use /\ v.on = c /\ v.pc = p /\ v.op = u.op /\ v.arg = u.arg
  BY <1>5 DEF Use
<1> HIDE DEF s, v
<1>7. Consistent(v)
  BY <1>3, <1>6 DEF Consistent
<1>8. Serves(s, v, c)
  BY <1>3, <1>4, <1>5, <1>6, ConnectionPoolAssumption DEF Serves, Clean
<1> QED BY <1>1, <1>4, <1>5, <1>6, <1>7, <1>8

\* A caller that goes on with the connection it has.
LEMMA GoesStep ==
  ASSUME PoolsInv, NEW t \in Callers, use[t].pc \in Statements,
         NEW pc \in Statements, NEW r \in Session, r.by = t,
         NEW v, v = [use[t] EXCEPT !.pc = pc],
         Consistent(v), Serves(r, v, use[t].on),
         Goes(t, pc, r), UNCHANGED <<ending, uses>>
  PROVE  PoolsInv'
<1> DEFINE c == use[t].on
<1>1. /\ use[t] \in Use /\ c \in Conns /\ conn[c].by = t
      /\ use' = [use EXCEPT ![t] = v] /\ conn' = [conn EXCEPT ![c] = r]
      /\ waiting' = waiting
  BY DEF PoolsInv, UseInv, Goes
<1>2. v \in Use /\ v.on = c /\ v.pc = pc
  BY <1>1 DEF Use
<1> HIDE DEF c
<1>3. ConnInv'
  <2>1. conn' \in [Conns -> Session]
    BY <1>1 DEF PoolsInv, ConnInv
  <2>2. ASSUME NEW d \in Conns
        PROVE  IF conn'[d].by \in Callers THEN Serves(conn'[d], use'[conn'[d].by], d)
                                          ELSE Clean(conn'[d])
    <3>1. CASE d = c
      BY <1>1, <3>1 DEF PoolsInv, ConnInv, UseInv, c
    <3>2. CASE d # c
      <4>1. conn'[d] = conn[d]
        BY <1>1, <3>2 DEF PoolsInv, ConnInv
      <4>2. conn[d].by # t
        BY <1>1, <3>2 DEF PoolsInv, ConnInv, Serves, c
      <4>3. conn[d].by \in Callers => use'[conn[d].by] = use[conn[d].by]
        BY <1>1, <4>2 DEF PoolsInv, UseInv
      <4> QED BY <4>1, <4>3 DEF PoolsInv, ConnInv
    <3> QED BY <3>1, <3>2
  <2> QED BY <2>1, <2>2 DEF ConnInv
<1>4. UseInv'
  <2>1. use' \in [Callers -> Use]
    BY <1>1, <1>2 DEF PoolsInv, UseInv
  <2>2. ASSUME NEW x \in Callers
        PROVE  /\ Consistent(use'[x])
               /\ use'[x].pc \in Statements => use'[x].on \in Conns /\ conn'[use'[x].on].by = x
    <3>1. CASE x = t
      <4>1. use'[x] = v
        BY <1>1, <3>1 DEF PoolsInv, UseInv
      <4>2. conn'[c] = r
        BY <1>1 DEF PoolsInv, ConnInv
      <4> QED BY <1>1, <1>2, <3>1, <4>1, <4>2
    <3>2. CASE x # t
      <4>1. use'[x] = use[x]
        BY <1>1, <3>2 DEF PoolsInv, UseInv
      <4>2. use[x].pc \in Statements => /\ use[x].on \in Conns /\ conn[use[x].on].by = x
                                        /\ conn'[use[x].on] = conn[use[x].on]
        BY <1>1, <3>2 DEF PoolsInv, UseInv, ConnInv
      <4> QED BY <4>1, <4>2 DEF PoolsInv, UseInv
    <3> QED BY <3>1, <3>2
  <2> QED BY <2>1, <2>2 DEF UseInv
<1>5. LineInv'
  BY <1>1 DEF PoolsInv, UseInv, LineInv, Statements
<1> QED BY <1>3, <1>4, <1>5 DEF PoolsInv

\* A caller that no longer has its connection, which no caller has then.
LEMMA GivenUpStep ==
  ASSUME PoolsInv, NEW t \in Callers, use[t].pc \in Statements,
         NEW r \in Session, r.by \notin Callers, Clean(r),
         conn' = [conn EXCEPT ![use[t].on] = r], use' = [use EXCEPT ![t] = NoUse],
         UNCHANGED <<waiting, ending, uses>>
  PROVE  PoolsInv'
<1> DEFINE c == use[t].on
<1>1. c \in Conns /\ conn[c].by = t /\ conn' = [conn EXCEPT ![c] = r]
  BY DEF PoolsInv, UseInv
<1> HIDE DEF c
<1>2. ASSUME NEW x \in Callers, x # t
      PROVE  /\ use'[x] = use[x]
             /\ use[x].pc \in Statements => /\ use[x].on \in Conns /\ conn[use[x].on].by = x
                                            /\ conn'[use[x].on] = conn[use[x].on]
  BY <1>1, <1>2 DEF PoolsInv, UseInv, ConnInv
<1>3. ConnInv'
  <2>1. ASSUME NEW d \in Conns
        PROVE  IF conn'[d].by \in Callers THEN Serves(conn'[d], use'[conn'[d].by], d)
                                          ELSE Clean(conn'[d])
    <3>1. CASE d = c
      BY <1>1, <3>1 DEF PoolsInv, ConnInv
    <3>2. CASE d # c
      <4>1. conn'[d] = conn[d] /\ conn[d].by # t
        BY <1>1, <3>2 DEF PoolsInv, ConnInv, Serves, c
      <4> QED BY <4>1, <1>2 DEF PoolsInv, ConnInv
    <3> QED BY <3>1, <3>2
  <2> QED BY <1>1, <2>1 DEF PoolsInv, ConnInv
<1>4. UseInv'
  <2>1. use' \in [Callers -> Use] /\ use'[t] = NoUse
    BY NewTyped DEF PoolsInv, UseInv
  <2>2. NoUse.pc \notin Statements
    BY NewTyped DEF Statements
  <2> QED BY <1>2, <2>1, <2>2, NewTyped DEF PoolsInv, UseInv
<1>5. LineInv'
  BY DEF PoolsInv, UseInv, LineInv, Statements
<1> QED BY <1>3, <1>4, <1>5 DEF PoolsInv

\* A connection that goes from t to n, the first that waits.
LEMMA PassedOnStep ==
  ASSUME PoolsInv, NEW t \in Callers, use[t].pc \in Statements, waiting # <<>>,
         NEW n, n = Head(waiting), NEW r \in Session, Clean(r),
         conn' = [conn EXCEPT ![use[t].on] = Taken(n, use[n], r)],
         use' = [use EXCEPT ![t] = NoUse, ![n] = Started(@, use[t].on)],
         waiting' = Tail(waiting), UNCHANGED <<ending, uses>>
  PROVE  PoolsInv'
<1> DEFINE c == use[t].on
           s == Taken(n, use[n], r)
           v == Started(use[n], c)
<1>1. c \in Conns /\ conn[c].by = t /\ conn' = [conn EXCEPT ![c] = s]
  BY DEF PoolsInv, UseInv
<1>2. n \in Callers /\ use[n].pc = "waiting" /\ n # t
  BY DEF PoolsInv, LineInv, Statements
<1>3. use' = [[use EXCEPT ![t] = NoUse] EXCEPT ![n] = v]
  BY <1>2 DEF PoolsInv, UseInv
<1>4. /\ s \in Session /\ s.by = n /\ v \in Use /\ Consistent(v)
      /\ v.pc \in Statements /\ v.on = c /\ Serves(s, v, c)
  BY <1>1, <1>2, TakenServes DEF PoolsInv, UseInv
<1> HIDE DEF c, s, v
<1>5. use'[n] = v /\ use'[t] = NoUse /\ use' \in [Callers -> Use]
  BY <1>2, <1>3, <1>4, NewTyped DEF PoolsInv, UseInv
<1>6. ASSUME NEW x \in Callers, x # t, x # n
      PROVE  /\ use'[x] = use[x]
             /\ use[x].pc \in Statements => /\ use[x].on \in Conns /\ conn[use[x].on].by = x
                                            /\ conn'[use[x].on] = conn[use[x].on]
  BY <1>1, <1>3, <1>6 DEF PoolsInv, UseInv, ConnInv
<1>7. ConnInv'
  <2>1. ASSUME NEW d \in Conns
        PROVE  IF conn'[d].by \in Callers THEN Serves(conn'[d], use'[conn'[d].by], d)
                                          ELSE Clean(conn'[d])
    <3>1. CASE d = c
      BY <1>1, <1>2, <1>4, <1>5, <3>1 DEF PoolsInv, ConnInv
    <3>2. CASE d # c
      <4>1. conn'[d] = conn[d] /\ conn[d].by # t /\ conn[d].by # n
        BY <1>1, <1>2, <3>2 DEF PoolsInv, ConnInv, Serves, Statements, c
      <4> QED BY <4>1, <1>6 DEF PoolsInv, ConnInv
    <3> QED BY <3>1, <3>2
  <2>2. conn' \in [Conns -> Session]
    BY <1>1, <1>4 DEF PoolsInv, ConnInv
  <2> QED BY <2>1, <2>2 DEF ConnInv
<1>8. UseInv'
  <2>1. NoUse.pc \notin Statements
    BY NewTyped DEF Statements
  <2>2. conn'[c] = s
    BY <1>1 DEF PoolsInv, ConnInv
  <2>3. ASSUME NEW x \in Callers
        PROVE  /\ Consistent(use'[x])
               /\ use'[x].pc \in Statements => use'[x].on \in Conns /\ conn'[use'[x].on].by = x
    <3>1. CASE x = t
      BY <1>5, <2>1, <3>1, NewTyped
    <3>2. CASE x = n
      BY <1>1, <1>4, <1>5, <2>2, <3>2
    <3>3. CASE x # t /\ x # n
      BY <1>6, <3>3 DEF PoolsInv, UseInv
    <3> QED BY <3>1, <3>2, <3>3
  <2> QED BY <1>5, <2>3 DEF UseInv
<1>9. LineInv'
  <2>1. /\ waiting' \in Seq(Callers) /\ Len(waiting') = Len(waiting) - 1
        /\ \A i \in 1 .. Len(waiting') : waiting'[i] = waiting[i + 1] /\ i + 1 \in 1 .. Len(waiting)
    BY DEF PoolsInv, LineInv
  <2>2. \A i \in 1 .. Len(waiting') : waiting'[i] # n /\ waiting'[i] # t
    BY <1>2, <2>1 DEF PoolsInv, LineInv, Statements
  <2>3. \A i \in 1 .. Len(waiting') : use'[waiting'[i]] = use[waiting[i + 1]]
    <3>1. \A i \in 1 .. Len(waiting') : waiting'[i] \in Callers
      BY <2>1
    <3>2. \A i \in 1 .. Len(waiting') : use'[waiting'[i]] = use[waiting'[i]]
      BY <1>6, <2>2, <3>1
    <3> QED BY <2>1, <3>2
  <2>4. ASSUME NEW i \in 1 .. Len(waiting')
        PROVE  use'[waiting'[i]].pc = "waiting"
    <3>1. i + 1 \in 1 .. Len(waiting) /\ use'[waiting'[i]] = use[waiting[i + 1]]
      BY <2>1, <2>3
    <3> QED BY <3>1 DEF PoolsInv, LineInv
  <2>5. ASSUME NEW i \in 1 .. Len(waiting'), NEW j \in 1 .. Len(waiting'),
               waiting'[i] = waiting'[j]
        PROVE  i = j
    <3>1. /\ i + 1 \in 1 .. Len(waiting) /\ j + 1 \in 1 .. Len(waiting)
          /\ waiting[i + 1] = waiting[j + 1]
      BY <2>1, <2>5
    <3>2. i + 1 = j + 1
      BY <3>1 DEF PoolsInv, LineInv
    <3> QED BY <3>2
  <2> QED BY <2>1, <2>4, <2>5 DEF LineInv
<1> QED BY <1>7, <1>8, <1>9 DEF PoolsInv

\* Whoever gives a clean session back.
LEMMA ReleaseStep ==
  ASSUME PoolsInv, NEW t \in Callers, use[t].pc \in Statements,
         NEW r \in Session, Clean(r), Release(t, r), UNCHANGED <<ending, uses>>
  PROVE  PoolsInv'
<1>1. CASE waiting = <<>> \/ ending
  <2> DEFINE s == [r EXCEPT !.by = Nobody]
             q == IF ending THEN NewSession ELSE s
  <2>1. s \in Session /\ s.by = Nobody /\ Clean(s)
    BY DEF Session, Clean
  <2> HIDE DEF s
  <2>2. q \in Session /\ q.by \notin Callers /\ Clean(q)
    BY <2>1, NewTyped
  <2>3. /\ conn' = [conn EXCEPT ![use[t].on] = q] /\ use' = [use EXCEPT ![t] = NoUse]
        /\ UNCHANGED waiting
    BY <1>1 DEF Release, s
  <2> HIDE DEF q
  <2> QED BY <2>2, <2>3, GivenUpStep
<1>2. CASE ~(waiting = <<>> \/ ending)
  BY <1>2, PassedOnStep DEF Release
<1> QED BY <1>1, <1>2

\* Connections that nobody has, whatever becomes of their sessions.
LEMMA FreeConnsStep ==
  ASSUME PoolsInv, conn' \in [Conns -> Session],
         \A c \in Conns : \/ conn'[c] = conn[c]
                          \/ conn[c].by \notin Callers /\ conn'[c] = NewSession,
         UNCHANGED <<use, waiting, uses>>, ending' \in BOOLEAN
  PROVE  PoolsInv'
<1>1. ConnInv'
  BY NewTyped DEF PoolsInv, ConnInv
<1>2. UseInv'
  BY NewTyped DEF PoolsInv, UseInv
<1> QED BY <1>1, <1>2 DEF PoolsInv, LineInv

LEMMA NewProcessStep ==
  ASSUME PoolsInv, NewProcess, UNCHANGED uses
  PROVE  PoolsInv'
<1>1. conn' \in [Conns -> Session] /\ \A c \in Conns : conn'[c] = NewSession
  BY NewTyped DEF NewProcess, NoConns
<1>2. use' \in [Callers -> Use] /\ \A t \in Callers : use'[t] = NoUse
  BY NewTyped DEF NewProcess, NoUses
<1>3. ConnInv'
  BY <1>1, NewTyped DEF ConnInv
<1>4. UseInv'
  BY <1>2, NewTyped DEF UseInv, Statements
<1>5. LineInv'
  BY DEF NewProcess, LineInv
<1> QED BY <1>3, <1>4, <1>5 DEF PoolsInv, NewProcess

LEMMA WaitTimesOutStep ==
  ASSUME PoolsInv, NEW t \in Callers, WaitTimesOut(t)
  PROVE  PoolsInv'
<1>1. /\ use[t].pc = "waiting" /\ use' = [use EXCEPT ![t] = NoUse]
      /\ UNCHANGED <<conn, ending, uses>>
  BY DEF WaitTimesOut
<1>2. PICK i \in 1 .. Len(waiting) :
        /\ waiting[i] = t
        /\ waiting' = SubSeq(waiting, 1, i - 1) \o SubSeq(waiting, i + 1, Len(waiting))
  BY DEF WaitTimesOut
<1> DEFINE n == Len(waiting)
           a == SubSeq(waiting, 1, i - 1)
           b == SubSeq(waiting, i + 1, n)
           at(k) == IF k < i THEN k ELSE k + 1
<1>3. /\ waiting' \in Seq(Callers) /\ Len(waiting') = n - 1
      /\ \A k \in 1 .. n - 1 : waiting'[k] = waiting[at(k)]
  <2>1. waiting \in Seq(Callers) /\ n \in Nat /\ i \in 1 .. n
    BY <1>2 DEF PoolsInv, LineInv
  <2>2. /\ a \in Seq(Callers) /\ Len(a) = i - 1
        /\ \A k \in 1 .. i - 1 : a[k] = waiting[k]
    BY <2>1
  <2>3. b \in Seq(Callers) /\ Len(b) = n - i
    BY <2>1
  <2>4. \A k \in 1 .. n - i : b[k] = waiting[i + k]
    <3>1. /\ i + 1 \in Int /\ n \in Int /\ \A k \in i + 1 .. n : waiting[k] \in Callers
          /\ n - (i + 1) + 1 = n - i
      BY <2>1
    <3> HIDE DEF n
    <3>2. \A k \in 1 .. n - (i + 1) + 1 : b[k] = waiting[(i + 1) + k - 1]
      BY <3>1, SubSeqProperties
    <3> HIDE DEF b
    <3> SUFFICES ASSUME NEW k \in 1 .. n - i
                 PROVE  b[k] = waiting[i + k]
      OBVIOUS
    <3>3. k \in 1 .. n - (i + 1) + 1 /\ (i + 1) + k - 1 = i + k
      BY <3>1, <2>1
    <3> QED BY <3>2, <3>3
  <2>5. waiting' = a \o b
    BY <1>2
  <2> HIDE DEF a, b, n
  <2>6. waiting' \in Seq(Callers) /\ Len(waiting') = n - 1
    <3>1. a \o b \in Seq(Callers) /\ Len(a \o b) = Len(a) + Len(b)
      BY <2>2, <2>3, ConcatProperties
    <3>2. (i - 1) + (n - i) = n - 1
      BY <2>1
    <3> QED BY <2>2, <2>3, <2>5, <3>1, <3>2
  <2>7. ASSUME NEW k \in 1 .. n - 1
        PROVE  waiting'[k] = waiting[at(k)]
    <3>1. CASE k < i
      BY <2>1, <2>2, <2>3, <2>5, <3>1
    <3>2. CASE ~(k < i)
      <4>1. /\ k - (i - 1) \in 1 .. n - i /\ k \in 1 .. Len(a) + Len(b) /\ ~(k =< Len(a))
            /\ i + (k - (i - 1)) = k + 1
        BY <2>1, <2>2, <2>3, <3>2
      <4>2. waiting'[k] = b[k - (i - 1)]
        BY <2>2, <2>3, <2>5, <4>1
      <4> QED BY <2>4, <3>2, <4>1, <4>2
    <3> QED BY <3>1, <3>2
  <2> QED BY <2>6, <2>7
<1> HIDE DEF a, b
<1>4. ASSUME NEW x \in Callers, x # t
      PROVE  use'[x] = use[x]
  BY <1>1, <1>4 DEF PoolsInv, UseInv
<1>5. use'[t] = NoUse /\ NoUse.pc \notin Statements /\ "waiting" \notin Statements
  BY <1>1, NewTyped DEF PoolsInv, UseInv, Statements
<1>6. ConnInv'
  BY <1>1, <1>4, <1>5 DEF PoolsInv, ConnInv, Serves
<1>7. UseInv'
  <2>1. use' \in [Callers -> Use]
    BY <1>1, NewTyped DEF PoolsInv, UseInv
  <2>2. ASSUME NEW x \in Callers
        PROVE  /\ Consistent(use'[x])
               /\ use'[x].pc \in Statements => use'[x].on \in Conns /\ conn'[use'[x].on].by = x
    <3>1. CASE x = t
      BY <1>5, <3>1, NewTyped
    <3>2. CASE x # t
      BY <1>1, <1>4, <3>2 DEF PoolsInv, UseInv
    <3> QED BY <3>1, <3>2
  <2> QED BY <2>1, <2>2 DEF UseInv
<1>8. LineInv'
  <2>a. n \in Nat /\ i \in 1 .. n /\ waiting \in Seq(Callers)
    BY <1>2 DEF PoolsInv, LineInv
  <2>1. ASSUME NEW k \in 1 .. Len(waiting')
        PROVE  /\ at(k) \in 1 .. Len(waiting) /\ at(k) # i
               /\ waiting'[k] = waiting[at(k)] /\ waiting'[k] \in Callers
    <3>1. k \in 1 .. n - 1
      BY <1>3
    <3>2. at(k) \in 1 .. n /\ at(k) # i
      BY <2>a, <3>1
    <3>3. waiting'[k] \in Callers
      BY <1>3
    <3> QED BY <1>3, <3>1, <3>2, <3>3
  <2>2. \A k, m \in 1 .. Len(waiting') : at(k) = at(m) => k = m
    BY <2>a, <1>3
  <2> HIDE DEF at
  <2>3. ASSUME NEW k \in 1 .. Len(waiting')
        PROVE  use'[waiting'[k]].pc = "waiting"
    <3>1. waiting[at(k)] # t
      BY <1>2, <2>1 DEF PoolsInv, LineInv
    <3> QED BY <1>4, <2>1, <3>1 DEF PoolsInv, LineInv
  <2>4. ASSUME NEW k \in 1 .. Len(waiting'), NEW m \in 1 .. Len(waiting'),
               waiting'[k] = waiting'[m]
        PROVE  k = m
    <3>1. /\ at(k) \in 1 .. Len(waiting) /\ at(m) \in 1 .. Len(waiting)
          /\ waiting[at(k)] = waiting[at(m)]
      BY <2>1, <2>4
    <3> DEFINE x == at(k)
               y == at(m)
    <3>2. x = y
      <4> HIDE DEF x, y
      <4>1. \A p, q \in 1 .. Len(waiting) : waiting[p] = waiting[q] => p = q
        BY DEF PoolsInv, LineInv
      <4>2. x \in 1 .. Len(waiting) /\ y \in 1 .. Len(waiting) /\ waiting[x] = waiting[y]
        BY <3>1 DEF x, y
      <4> QED BY <4>1, <4>2
    <3> QED BY <2>2, <3>2
  <2> QED BY <1>3, <2>3, <2>4 DEF LineInv
<1> QED BY <1>1, <1>6, <1>7, <1>8 DEF PoolsInv

LEMMA AskStep ==
  ASSUME PoolsInv, NEW t \in Callers, Ask(t)
  PROVE  PoolsInv'
<1>1. PICK w \in ({"query", "transaction"} \X {Nobody}) \cup ({"shard"} \X Shards)
                    \cup ({"listen"} \X Channels) :
         LET u == [pc |-> "waiting", op |-> w[1], arg |-> w[2], on |-> Nobody,
                   id |-> IF w[1] = "listen" THEN uses + 1 ELSE 0]
             free == {c \in Conns : conn[c].by = Nobody}
         IN  \/ \E c \in free : /\ use' = [use EXCEPT ![t] = Started(u, c)]
                                /\ conn' = [conn EXCEPT ![c] = Taken(t, u, @)]
                                /\ UNCHANGED waiting
             \/ /\ free = {}
                /\ use' = [use EXCEPT ![t] = u] /\ waiting' = Append(waiting, t)
                /\ UNCHANGED conn
  BY DEF Ask
<1> DEFINE id == IF w[1] = "listen" THEN uses + 1 ELSE 0
           u == [pc |-> "waiting", op |-> w[1], arg |-> w[2], on |-> Nobody, id |-> id]
<1>2. u \in Use /\ Consistent(u) /\ u.pc = "waiting"
  <2>1. id \in Nat
    BY DEF PoolsInv
  <2> HIDE DEF id
  <2> QED BY <1>1, <2>1 DEF Use, Operations, Consistent
<1>3. /\ use[t].pc = "off" /\ uses' = uses + 1 /\ uses' \in Nat /\ UNCHANGED ending
      /\ \/ \E c \in Conns : /\ conn[c].by = Nobody /\ use' = [use EXCEPT ![t] = Started(u, c)]
                             /\ conn' = [conn EXCEPT ![c] = Taken(t, u, @)]
                             /\ UNCHANGED waiting
         \/ /\ use' = [use EXCEPT ![t] = u] /\ waiting' = Append(waiting, t)
            /\ UNCHANGED conn
  BY <1>1 DEF Ask, PoolsInv
<1> HIDE DEF u
<1>4. ASSUME NEW d \in Conns
      PROVE  conn[d].by # t
  BY <1>3 DEF PoolsInv, ConnInv, Serves, Statements
<1>5. \A k \in 1 .. Len(waiting) : waiting[k] \in Callers /\ waiting[k] # t
  BY <1>3 DEF PoolsInv, LineInv
<1>6. ASSUME NEW c \in Conns, conn[c].by = Nobody,
             use' = [use EXCEPT ![t] = Started(u, c)],
             conn' = [conn EXCEPT ![c] = Taken(t, u, @)], UNCHANGED waiting
      PROVE  PoolsInv'
  <2> DEFINE s == Taken(t, u, conn[c])
             v == Started(u, c)
  <2>1. /\ s \in Session /\ s.by = t /\ v \in Use /\ Consistent(v)
        /\ v.pc \in Statements /\ v.on = c /\ Serves(s, v, c)
    <3>1. conn[c] \in Session /\ Clean(conn[c])
      BY <1>6, NewTyped DEF PoolsInv, ConnInv
    <3> QED BY <1>2, <3>1, TakenServes
  <2>2. use' = [use EXCEPT ![t] = v] /\ conn' = [conn EXCEPT ![c] = s]
    BY <1>6
  <2> HIDE DEF s, v
  <2>3. ASSUME NEW x \in Callers, x # t
        PROVE  /\ use'[x] = use[x]
               /\ use[x].pc \in Statements => /\ use[x].on \in Conns /\ conn[use[x].on].by = x
                                              /\ conn'[use[x].on] = conn[use[x].on]
    <3>1. use'[x] = use[x]
      BY <2>2, <2>3 DEF PoolsInv, UseInv
    <3>2. use[x].pc \in Statements => /\ use[x].on \in Conns /\ conn[use[x].on].by = x
                                      /\ use[x].on # c
      BY <1>6, NewTyped DEF PoolsInv, UseInv
    <3> QED BY <2>2, <3>1, <3>2 DEF PoolsInv, ConnInv
  <2>4. use'[t] = v /\ use' \in [Callers -> Use] /\ conn'[c] = s /\ conn' \in [Conns -> Session]
    BY <2>1, <2>2 DEF PoolsInv, UseInv, ConnInv
  <2>5. ASSUME NEW d \in Conns
        PROVE  IF conn'[d].by \in Callers THEN Serves(conn'[d], use'[conn'[d].by], d)
                                          ELSE Clean(conn'[d])
    <3>1. CASE d = c
      BY <2>1, <2>4, <3>1
    <3>2. CASE d # c
      <4>1. conn'[d] = conn[d]
        BY <2>2, <3>2 DEF PoolsInv, ConnInv
      <4> QED BY <1>4, <2>3, <4>1 DEF PoolsInv, ConnInv
    <3> QED BY <3>1, <3>2
  <2>6. ASSUME NEW x \in Callers
        PROVE  /\ Consistent(use'[x])
               /\ use'[x].pc \in Statements => use'[x].on \in Conns /\ conn'[use'[x].on].by = x
    <3>1. CASE x = t
      BY <2>1, <2>4, <3>1
    <3>2. CASE x # t
      BY <2>3, <3>2 DEF PoolsInv, UseInv
    <3> QED BY <3>1, <3>2
  <2>7. LineInv'
    BY <1>5, <1>6, <2>3 DEF PoolsInv, LineInv
  <2> QED BY <1>3, <2>4, <2>5, <2>6, <2>7 DEF PoolsInv, ConnInv, UseInv
<1>7. CASE use' = [use EXCEPT ![t] = u] /\ waiting' = Append(waiting, t) /\ UNCHANGED conn
  <2>1. ASSUME NEW x \in Callers, x # t
        PROVE  use'[x] = use[x]
    BY <1>7, <2>1 DEF PoolsInv, UseInv
  <2>2. use'[t] = u /\ use' \in [Callers -> Use] /\ u.pc \notin Statements
    BY <1>2, <1>7 DEF PoolsInv, UseInv, Statements
  <2>3. ConnInv'
    BY <1>4, <1>7, <2>1 DEF PoolsInv, ConnInv
  <2>4. UseInv'
    BY <1>2, <1>7, <2>1, <2>2 DEF PoolsInv, UseInv
  <2>5. LineInv'
    <3>1. /\ waiting' \in Seq(Callers) /\ Len(waiting') = Len(waiting) + 1
          /\ Len(waiting) \in Nat /\ waiting'[Len(waiting) + 1] = t
          /\ \A k \in 1 .. Len(waiting) : waiting'[k] = waiting[k]
      BY <1>7 DEF PoolsInv, LineInv
    <3>2. ASSUME NEW k \in 1 .. Len(waiting')
          PROVE  use'[waiting'[k]].pc = "waiting"
      <4>1. CASE k = Len(waiting) + 1
        BY <1>2, <2>2, <3>1, <4>1
      <4>2. CASE k # Len(waiting) + 1
        <5>1. k \in 1 .. Len(waiting)
          BY <3>1, <4>2
        <5>2. use'[waiting'[k]] = use[waiting[k]]
          BY <1>5, <2>1, <3>1, <5>1
        <5> QED BY <5>1, <5>2 DEF PoolsInv, LineInv
      <4> QED BY <4>1, <4>2
    <3>3. ASSUME NEW k \in 1 .. Len(waiting'), NEW m \in 1 .. Len(waiting'),
                 waiting'[k] = waiting'[m]
          PROVE  k = m
      <4>1. \A p, q \in 1 .. Len(waiting) : waiting[p] = waiting[q] => p = q
        BY DEF PoolsInv, LineInv
      <4>2. CASE k = Len(waiting) + 1
        BY <1>5, <3>1, <3>3, <4>2
      <4>3. CASE m = Len(waiting) + 1
        BY <1>5, <3>1, <3>3, <4>3
      <4>4. CASE k # Len(waiting) + 1 /\ m # Len(waiting) + 1
        <5>1. k \in 1 .. Len(waiting) /\ m \in 1 .. Len(waiting)
          BY <3>1, <4>4
        <5>2. waiting[k] = waiting[m]
          BY <3>1, <3>3, <5>1
        <5> QED BY <4>1, <5>1, <5>2
      <4> QED BY <4>2, <4>3, <4>4
    <3> QED BY <3>1, <3>2, <3>3 DEF LineInv
  <2> QED BY <1>3, <2>3, <2>4, <2>5 DEF PoolsInv
<1> QED BY <1>3, <1>6, <1>7

\* What a caller at work knows of its own session.
LEMMA MineIs ==
  ASSUME PoolsInv, NEW t \in Callers, use[t].pc \in Statements
  PROVE  /\ use[t] \in Use /\ Consistent(use[t]) /\ use[t].on \in Conns
         /\ Mine(t) \in Session /\ Mine(t).by = t
         /\ Serves(Mine(t), use[t], use[t].on)
BY DEF PoolsInv, UseInv, ConnInv, Mine

LEMMA ClosedIs ==
  ASSUME NEW r \in Session
  PROVE  /\ [r EXCEPT !.open = FALSE] \in Session /\ [r EXCEPT !.open = FALSE].open = FALSE
         /\ [r EXCEPT !.open = FALSE].listens = r.listens
         /\ [r EXCEPT !.open = FALSE].deaf = r.deaf
         /\ [r EXCEPT !.open = FALSE].stuck = r.stuck
<1> DEFINE no == FALSE
           q == [r EXCEPT !.open = no]
<1>1. no = FALSE /\ no \in BOOLEAN
  OBVIOUS
<1> HIDE DEF no
<1>2. q \in Session /\ q.open = no /\ q.listens = r.listens /\ q.deaf = r.deaf
        /\ q.stuck = r.stuck
  BY <1>1 DEF Session
<1> QED BY <1>1, <1>2

LEMMA StatementStep ==
  ASSUME PoolsInv, NEW t \in Callers, Statement(t)
  PROVE  PoolsInv'
<1>1. CASE Query(t)
  <2>1. use[t].pc = "query" /\ use[t].op = "query" /\ UNCHANGED <<ending, uses>>
    BY <1>1 DEF Query, Stands
  <2>2. Clean(Mine(t)) /\ Mine(t) \in Session
    BY <2>1, MineIs DEF Serves, Clean, Statements
  <2> QED BY <1>1, <2>1, <2>2, ReleaseStep, NewTyped DEF Query, Statements
<1>2. CASE BeginTransaction(t)
  <2>1. use[t].pc = "begin" /\ use[t].op = "transaction" /\ UNCHANGED <<ending, uses>>
        /\ use[t].pc \in Statements
    BY <1>2 DEF BeginTransaction, Stands, Statements
  <2>2. ASSUME NEW b \in BOOLEAN, NEW pc \in {"work", "rollback"},
               NEW r, r = [Mine(t) EXCEPT !.open = b], Goes(t, pc, r)
        PROVE  PoolsInv'
    <3> DEFINE v == [use[t] EXCEPT !.pc = pc]
    <3>1. /\ v.pc = pc /\ v.op = "transaction" /\ v.on = use[t].on
          /\ r \in Session /\ r.by = t /\ r.listens = Mine(t).listens
          /\ r.deaf = Mine(t).deaf /\ r.stuck = Mine(t).stuck
      BY <2>1, <2>2, MineIs DEF Use, Session
    <3> HIDE DEF v
    <3>2. Consistent(v) /\ Serves(r, v, use[t].on) /\ pc \in Statements
      BY <2>1, <3>1, MineIs DEF Consistent, Serves, Statements
    <3> QED BY <2>1, <2>2, <3>1, <3>2, GoesStep DEF v
  <2>3. Mine(t) = [Mine(t) EXCEPT !.open = Mine(t).open] /\ Mine(t).open \in BOOLEAN
    BY <2>1, MineIs DEF Session
  <2> QED BY <1>2, <2>2, <2>3 DEF BeginTransaction
<1>3. CASE Work(t)
  <2>1. use[t].pc = "work" /\ use[t].op = "transaction" /\ UNCHANGED <<ending, uses>>
        /\ use[t].pc \in Statements
    BY <1>3 DEF Work, Stands, Statements
  <2>2. ASSUME NEW pc \in {"commit", "rollback"}, Goes(t, pc, Mine(t))
        PROVE  PoolsInv'
    <3> DEFINE v == [use[t] EXCEPT !.pc = pc]
    <3>1. v.pc = pc /\ v.op = "transaction" /\ v.on = use[t].on
      BY <2>1, MineIs DEF Use
    <3> HIDE DEF v
    <3>2. Consistent(v) /\ Serves(Mine(t), v, use[t].on) /\ pc \in Statements
      BY <2>1, <3>1, MineIs DEF Consistent, Serves, Statements
    <3> QED BY <2>1, <2>2, <3>1, <3>2, MineIs, GoesStep DEF v
  <2> QED BY <1>3, <2>2 DEF Work
<1>4. CASE Commit(t)
  <2>1. use[t].pc = "commit" /\ use[t].op = "transaction" /\ UNCHANGED <<ending, uses>>
        /\ use[t].pc \in Statements
    BY <1>4 DEF Commit, Stands, Statements
  <2>2. CASE Release(t, [Mine(t) EXCEPT !.open = FALSE])
    <3> DEFINE r == [Mine(t) EXCEPT !.open = FALSE]
    <3>m. Mine(t) \in Session
      BY <2>1, MineIs
    <3>0. /\ r \in Session /\ r.open = FALSE
          /\ r.listens = Mine(t).listens /\ r.deaf = Mine(t).deaf /\ r.stuck = Mine(t).stuck
      BY <3>m, ClosedIs
    <3> HIDE DEF r
    <3>1. r \in Session /\ Clean(r)
      BY <2>1, <3>0, MineIs DEF Serves, Clean
    <3> QED BY <2>1, <2>2, <3>1, ReleaseStep DEF r
  <2>3. CASE Goes(t, "rollback", Mine(t))
    <3> DEFINE v == [use[t] EXCEPT !.pc = "rollback"]
    <3>1. v.pc = "rollback" /\ v.op = "transaction" /\ v.on = use[t].on
      BY <2>1, MineIs DEF Use
    <3> HIDE DEF v
    <3>2. Consistent(v) /\ Serves(Mine(t), v, use[t].on) /\ "rollback" \in Statements
      BY <2>1, <3>1, MineIs DEF Consistent, Serves, Statements
    <3> QED BY <2>1, <2>3, <3>1, <3>2, MineIs, GoesStep DEF v
  <2> QED BY <1>4, <2>2, <2>3 DEF Commit
<1>5. CASE Rollback(t)
  <2>1. use[t].pc = "rollback" /\ use[t].op = "transaction" /\ UNCHANGED <<ending, uses>>
        /\ use[t].pc \in Statements
    BY <1>5 DEF Rollback, Stands, Statements
  <2>m. Mine(t) \in Session
    BY <2>1, MineIs
  <2>2. CASE Release(t, RolledBack(Mine(t)))
    <3> DEFINE r == RolledBack(Mine(t))
    <3>1. /\ r \in Session /\ r.open = FALSE
          /\ r.listens = Mine(t).listens /\ r.deaf = Mine(t).deaf
      BY <2>m, ClosedIs DEF RolledBack
    <3> HIDE DEF r
    <3>2. Clean(r)
      BY <2>1, <3>1, MineIs DEF Serves, Clean
    <3> QED BY <2>1, <2>2, <3>1, <3>2, ReleaseStep DEF r
  <2>3. ASSUME NEW left \in BOOLEAN,
               Release(t, [Mine(t) EXCEPT !.open = left, !.stuck = TRUE])
        PROVE  PoolsInv'
    <3> DEFINE r == [Mine(t) EXCEPT !.open = left, !.stuck = TRUE]
    <3>1. /\ r \in Session /\ r.stuck
          /\ r.listens = Mine(t).listens /\ r.deaf = Mine(t).deaf
      BY <2>m DEF Session
    <3> HIDE DEF r
    <3>2. Clean(r)
      BY <2>1, <3>1, MineIs DEF Serves, Clean
    <3> QED BY <2>1, <2>3, <3>1, <3>2, ReleaseStep DEF r
  <2> QED BY <1>5, <2>2, <2>3 DEF Rollback
<1>6. CASE SetShard(t)
  <2>1. use[t].pc = "set" /\ use[t].op = "shard" /\ UNCHANGED <<ending, uses>>
        /\ use[t].pc \in Statements
    BY <1>6 DEF SetShard, Stands, Statements
  <2>2. CASE Release(t, Mine(t))
    <3>1. Clean(Mine(t)) /\ Mine(t) \in Session
      BY <2>1, MineIs DEF Serves, Clean
    <3> QED BY <2>1, <2>2, <3>1, ReleaseStep
  <2>3. CASE Goes(t, "work", Sharded(Mine(t), use[t].arg))
    <3> DEFINE v == [use[t] EXCEPT !.pc = "work"]
               r == Sharded(Mine(t), use[t].arg)
    <3>1. v.pc = "work" /\ v.op = "shard" /\ v.on = use[t].on /\ v.arg = use[t].arg
      BY <2>1, MineIs DEF Use
    <3>2. use[t].arg \in Shards
      BY <2>1, MineIs DEF Consistent
    <3>3. /\ r \in Session /\ r.by = t /\ r.shard = use[t].arg /\ r.open = Mine(t).open
          /\ r.listens = Mine(t).listens /\ r.deaf = Mine(t).deaf /\ r.stuck = Mine(t).stuck
      BY <2>1, <3>2, MineIs DEF Session, Sharded
    <3> HIDE DEF v, r
    <3>4. Consistent(v) /\ Serves(r, v, use[t].on) /\ "work" \in Statements
      BY <2>1, <3>1, <3>2, <3>3, MineIs DEF Consistent, Serves, Statements
    <3> QED BY <2>1, <2>3, <3>1, <3>3, <3>4, GoesStep DEF v, r
  <2> QED BY <1>6, <2>2, <2>3 DEF SetShard
<1>7. CASE ShardWork(t)
  <2>1. use[t].pc = "work" /\ use[t].op = "shard" /\ UNCHANGED <<ending, uses>>
        /\ use[t].pc \in Statements /\ Release(t, Mine(t))
    BY <1>7 DEF ShardWork, Stands, Statements
  <2>2. Clean(Mine(t)) /\ Mine(t) \in Session
    BY <2>1, MineIs DEF Serves, Clean
  <2> QED BY <2>1, <2>2, ReleaseStep
<1>8. CASE Listen(t)
  <2>1. use[t].pc = "listen" /\ use[t].op = "listen" /\ UNCHANGED <<ending, uses>>
        /\ use[t].pc \in Statements
    BY <1>8 DEF Listen, Stands, Statements
  <2>2. CASE Goes(t, "on", [Mine(t) EXCEPT !.listens = @ \cup {use[t].arg}])
    <3> DEFINE v == [use[t] EXCEPT !.pc = "on"]
               r == [Mine(t) EXCEPT !.listens = @ \cup {use[t].arg}]
    <3>1. v.pc = "on" /\ v.op = "listen" /\ v.on = use[t].on /\ v.arg = use[t].arg
      BY <2>1, MineIs DEF Use
    <3>2. use[t].arg \in Channels
      BY <2>1, MineIs DEF Consistent
    <3>3. /\ r \in Session /\ r.by = t /\ r.listens = Mine(t).listens \cup {use[t].arg}
          /\ r.open = Mine(t).open /\ r.deaf = Mine(t).deaf /\ r.stuck = Mine(t).stuck
      BY <2>1, <3>2, MineIs DEF Session
    <3> HIDE DEF v, r
    <3>4. Consistent(v) /\ Serves(r, v, use[t].on) /\ "on" \in Statements
      BY <2>1, <3>1, <3>2, <3>3, MineIs DEF Consistent, Serves, Statements
    <3> QED BY <2>1, <2>2, <3>1, <3>3, <3>4, GoesStep DEF v, r
  <2>3. CASE /\ conn' = [conn EXCEPT ![use[t].on].by = Lost]
             /\ use' = [use EXCEPT ![t] = NoUse] /\ UNCHANGED waiting
    <3> DEFINE r == [Mine(t) EXCEPT !.by = Lost]
    <3>0. /\ r \in Session /\ r.by = Lost /\ r.open = Mine(t).open
          /\ r.listens = Mine(t).listens /\ r.deaf = Mine(t).deaf /\ r.stuck = Mine(t).stuck
      BY <2>1, MineIs, NewTyped DEF Session
    <3>2. conn' = [conn EXCEPT ![use[t].on] = r]
      BY <2>3 DEF Mine
    <3> HIDE DEF r
    <3>1. r \in Session /\ r.by = Lost /\ Clean(r)
      BY <2>1, <3>0, MineIs DEF Serves, Clean
    <3> QED BY <2>1, <2>3, <3>1, <3>2, NewTyped, GivenUpStep
  <2> QED BY <1>8, <2>2, <2>3 DEF Listen
<1>9. CASE Cancel(t)
  <2>1. use[t].pc = "on" /\ use[t].op = "listen" /\ UNCHANGED <<ending, uses>>
        /\ use[t].pc \in Statements
    BY <1>9 DEF Cancel, Stands, Statements
  <2>2. CASE Release(t, Unlistened(Mine(t), use[t].arg))
    <3> DEFINE r == Unlistened(Mine(t), use[t].arg)
    <3>1. /\ r \in Session /\ r.open = Mine(t).open
          /\ r.deaf = Mine(t).deaf /\ r.stuck = Mine(t).stuck
          /\ r.listens = Mine(t).listens \ {use[t].arg}
      BY <2>1, MineIs DEF Unlistened, Session
    <3> HIDE DEF r
    <3>2. Clean(r)
      BY <2>1, <3>1, MineIs DEF Serves, Clean
    <3> QED BY <2>1, <2>2, <3>1, <3>2, ReleaseStep DEF r
  <2>3. CASE Release(t, [Mine(t) EXCEPT !.deaf = TRUE])
    <3> DEFINE r == [Mine(t) EXCEPT !.deaf = TRUE]
    <3>m. Mine(t) \in Session
      BY <2>1, MineIs
    <3>1. /\ r \in Session /\ r.deaf
          /\ r.open = Mine(t).open /\ r.stuck = Mine(t).stuck
      BY <3>m DEF Session
    <3> HIDE DEF r
    <3>2. Clean(r)
      BY <2>1, <3>1, MineIs DEF Serves, Clean
    <3> QED BY <2>1, <2>3, <3>1, <3>2, ReleaseStep DEF r
  <2> QED BY <1>9, <2>2, <2>3 DEF Cancel
<1> QED BY <1>1, <1>2, <1>3, <1>4, <1>5, <1>6, <1>7, <1>8, <1>9 DEF Statement

LEMMA PoolStep == PoolsInv /\ [PoolNext]_poolVars => PoolsInv'
<1> SUFFICES ASSUME PoolsInv, [PoolNext]_poolVars
             PROVE  PoolsInv'
  OBVIOUS
<1>1. ASSUME NEW t \in Callers, Ask(t) \/ WaitTimesOut(t) \/ Statement(t)
      PROVE  PoolsInv'
  BY <1>1, AskStep, WaitTimesOutStep, StatementStep
<1>2. ASSUME NEW c \in Conns, CloseIdle(c)
      PROVE  PoolsInv'
  <2>1. /\ conn' \in [Conns -> Session] /\ conn[c].by = Nobody /\ conn'[c] = NewSession
        /\ \A d \in Conns : d # c => conn'[d] = conn[d]
    BY <1>2, NewTyped DEF CloseIdle, PoolsInv, ConnInv
  <2> QED BY <1>2, <2>1, NewTyped, FreeConnsStep DEF CloseIdle, PoolsInv
<1>3. CASE Die \/ Exit
  BY <1>3, NewProcessStep DEF Die, Exit
<1>4. CASE ShutDown
  <2>1. /\ conn' \in [Conns -> Session] /\ ending' \in BOOLEAN
        /\ \A c \in Conns : \/ conn'[c] = conn[c]
                            \/ conn[c].by \notin Callers /\ conn'[c] = NewSession
    BY <1>4, NewTyped DEF ShutDown, PoolsInv, ConnInv
  <2> QED BY <1>4, <2>1, FreeConnsStep DEF ShutDown
<1>5. CASE UNCHANGED poolVars
  BY <1>5 DEF poolVars, PoolsInv, ConnInv, UseInv, LineInv
<1> QED BY <1>1, <1>2, <1>3, <1>4, <1>5 DEF PoolNext

LEMMA PoolStart == PoolInit => PoolsInv
<1> SUFFICES ASSUME PoolInit PROVE PoolsInv
  OBVIOUS
<1>1. ConnInv
  BY NewTyped DEF PoolInit, NoConns, ConnInv
<1>2. UseInv
  <2>1. use \in [Callers -> Use] /\ \A t \in Callers : use[t] = NoUse
    BY NewTyped DEF PoolInit, NoUses
  <2> QED BY <2>1, NewTyped DEF UseInv, Statements
<1>3. LineInv
  BY DEF PoolInit, LineInv
<1> QED BY <1>1, <1>2, <1>3 DEF PoolInit, PoolsInv

\* Whatever fails, a client given to a caller is in no transaction of another's and
\* hears no cancelled handler but by a later listener of its channel, a connection
\* out of the pool is with a caller at work on it, and the callback of withSharding
\* runs under its own key (packages/db/src/index.ts).
THEOREM PoolIsSafe == PoolSpec => []PoolInv
<1>1. PoolsInv => PoolInv
  <2> SUFFICES ASSUME PoolsInv PROVE PoolInv
    OBVIOUS
  <2>1. PoolTypeOK
    BY DEF PoolTypeOK, PoolsInv, ConnInv, UseInv, LineInv, Session, Use
  <2>2. SessionsAreClean
    BY NewTyped DEF SessionsAreClean, PoolsInv, ConnInv, Clean
  <2>3. CancelledAreQuiet
    BY DEF CancelledAreQuiet, PoolsInv, ConnInv, Clean, Serves
  <2>4. NothingIsLost
    BY DEF NothingIsLost, PoolsInv, ConnInv, Serves, Statements
  <2>5. ShardIsOwn
    BY DEF ShardIsOwn, PoolsInv, ConnInv, UseInv, Serves, Statements
  <2> QED BY <2>1, <2>2, <2>3, <2>4, <2>5 DEF PoolInv
<1> QED BY <1>1, PoolStart, PoolStep, PTL DEF PoolSpec

-----------------------------------------------------------------------------
(* The provider's keys                                                     *)
Login == [at : {"idle", "sent", "served", "got", "accepted", "refused", "failed"},
          key : Keys, got : SUBSET Keys, last : BOOLEAN, since : Nat]

\* k may be trusted at every time before n.
Within(k, n) == \/ k \in published
                \/ k \in DOMAIN withdrawn /\ n =< withdrawn[k] + TTL + Timeout

CacheInv ==
  /\ published \subseteq Keys /\ published # {} /\ published \cap DOMAIN withdrawn = {}
  /\ DOMAIN withdrawn \subseteq Keys /\ clock \in 0 .. MaxTime
  /\ \A k \in DOMAIN withdrawn : withdrawn[k] \in 0 .. clock
  /\ cached.keys \subseteq Keys /\ cached.until \in 0 .. clock + TTL
  /\ \A k \in cached.keys : Within(k, cached.until)

LoginInv(l) ==
  LET r == login[l] IN
  /\ r.since =< clock
  /\ r.at \in {"sent", "served"} => clock =< r.since + Timeout
  /\ r.at = "served" => \A k \in r.got : Within(k, r.since + TTL + Timeout)
  /\ r.at = "got" => \A k \in r.got : Within(k, clock + 1)
  /\ r.at = "accepted" => Within(r.key, r.since + 1)
  /\ l \in steady => /\ r.key \in published /\ r.at # "refused"
                     /\ r.last /\ r.at \in {"served", "got"} => r.key \in r.got

LoginsInv ==
  /\ CacheInv /\ login \in [Logins -> Login] /\ steady \subseteq Logins
  /\ \A l \in Logins : LoginInv(l)

LEMMA TimesTyped == /\ TTL \in Nat \ {0} /\ Timeout \in Nat \ {0} /\ MaxTime \in Nat
                    /\ FirstKey \in Keys
BY ProviderKeysAssumption

\* A call changes one login, and perhaps the cache.
LEMMA OneLogin ==
  ASSUME LoginsInv, NEW l \in Logins, NEW r \in Login, login' = [login EXCEPT ![l] = r],
         UNCHANGED <<published, withdrawn, clock>>, CacheInv', LoginInv(l)',
         steady' \in {steady, steady \cup {l}, steady \ {l}}
  PROVE  LoginsInv'
<1>1. login' \in [Logins -> Login] /\ steady' \subseteq Logins
  BY DEF LoginsInv
<1>2. ASSUME NEW m \in Logins, m # l
      PROVE  LoginInv(m)'
  <2>1. login'[m] = login[m] /\ (m \in steady' <=> m \in steady)
    BY <1>2 DEF LoginsInv
  <2> QED BY <2>1 DEF LoginsInv, LoginInv, Within
<1> QED BY <1>1, <1>2 DEF LoginsInv

\* What a login is told to wait for.
LEMMA AskedIs ==
  ASSUME NEW k \in Keys, NEW entry, NEW last \in BOOLEAN, entry.keys \subseteq Keys,
         entry.until \in Nat, clock \in Nat,
         \A j \in DOMAIN withdrawn : withdrawn[j] \in Nat,
         \A j \in entry.keys : Within(j, entry.until),
         NEW r, r = Asked(k, entry, last)
  PROVE  /\ r \in Login /\ r.key = k /\ r.last = last /\ r.since = clock
         /\ \/ r.at = "sent"
            \/ r.at = "got" /\ entry.until > clock /\ r.got = entry.keys
         /\ r.at = "got" => \A j \in r.got : Within(j, clock + 1)
<1>1. CASE Fresh(entry)
  <2>1. r = [at |-> "got", key |-> k, last |-> last, since |-> clock, got |-> entry.keys]
    BY <1>1 DEF Asked
  <2>2. clock + 1 =< entry.until
    BY <1>1 DEF Fresh
  <2>3. \A j \in entry.keys : Within(j, clock + 1)
    BY <2>2, TimesTyped DEF Within
  <2> QED BY <1>1, <2>1, <2>3 DEF Fresh, Login
<1>2. CASE ~Fresh(entry)
  <2>1. r = [at |-> "sent", key |-> k, last |-> last, since |-> clock, got |-> {}]
    BY <1>2 DEF Asked
  <2> QED BY <2>1 DEF Login
<1> QED BY <1>1, <1>2

LEMMA KeysStep == LoginsInv /\ [KeysNext]_keyVars => LoginsInv'
<1> SUFFICES ASSUME LoginsInv, [KeysNext]_keyVars
             PROVE  LoginsInv'
  OBVIOUS
<1>t. /\ TTL \in Nat \ {0} /\ Timeout \in Nat \ {0} /\ clock \in Nat /\ MaxTime \in Nat
      /\ CacheInv /\ \A l \in Logins : LoginInv(l) /\ login[l] \in Login
  BY TimesTyped DEF LoginsInv, CacheInv
<1>1. ASSUME NEW k \in Keys, Publish(k)
      PROVE  LoginsInv'
  <2>1. \A j, n : Within(j, n) => Within(j, n)'
    BY <1>1 DEF Publish, Within
  <2>2. CacheInv'
    BY <1>1, <2>1 DEF Publish, LoginsInv, CacheInv
  <2>3. ASSUME NEW l \in Logins
        PROVE  LoginInv(l)'
    BY <1>1, <2>1 DEF Publish, LoginsInv, LoginInv
  <2> QED BY <1>1, <2>2, <2>3 DEF Publish, LoginsInv
<1>2. ASSUME NEW k \in Keys, Withdraw(k)
      PROVE  LoginsInv'
  <2>1. /\ DOMAIN withdrawn' = DOMAIN withdrawn \cup {k} /\ withdrawn'[k] = clock
        /\ \A j \in DOMAIN withdrawn : j # k /\ withdrawn'[j] = withdrawn[j]
        /\ published' = published \ {k} /\ k \in published /\ published' # {}
        /\ UNCHANGED <<cached, login, clock>>
    BY <1>2 DEF Withdraw, LoginsInv, CacheInv
  <2>2. \A j, n : Within(j, n) /\ n =< clock + TTL + Timeout => Within(j, n)'
    BY <2>1 DEF Within
  <2>3. CacheInv'
    <3>1. \A j \in DOMAIN withdrawn' : withdrawn'[j] \in 0 .. clock'
      BY <1>t, <2>1 DEF CacheInv
    <3>2. \A j \in cached'.keys : Within(j, cached.until)'
      BY <1>t, <2>1, <2>2 DEF CacheInv
    <3> QED BY <1>t, <2>1, <3>1, <3>2 DEF CacheInv
  <2>4. ASSUME NEW l \in Logins
        PROVE  LoginInv(l)'
    <3>1. login'[l] = login[l] /\ login[l].since \in Nat /\ login[l].since =< clock
      BY <1>t, <2>1 DEF LoginInv, Login
    <3>2. /\ login[l].since + TTL + Timeout =< clock + TTL + Timeout
          /\ clock + 1 =< clock + TTL + Timeout
          /\ login[l].since + 1 =< clock + TTL + Timeout
      BY <1>t, <3>1
    <3>3. l \in steady' => l \in steady /\ login[l].key # k
      BY <1>2 DEF Withdraw
    <3> QED BY <1>t, <2>1, <2>2, <3>1, <3>2, <3>3 DEF LoginInv
  <2> QED BY <1>2, <2>1, <2>3, <2>4 DEF Withdraw, LoginsInv
<1>3. ASSUME NEW l \in Logins, Begin(l)
      PROVE  LoginsInv'
  <2>1. PICK k \in published \cup DOMAIN withdrawn :
          /\ login' = [login EXCEPT ![l] = Asked(k, cached, FALSE)]
          /\ steady' = IF k \in published THEN steady \cup {l} ELSE steady \ {l}
    BY <1>3 DEF Begin
  <2> DEFINE r == Asked(k, cached, FALSE)
  <2>2. /\ UNCHANGED <<published, cached, clock, withdrawn>> /\ CacheInv'
    BY <1>3, <1>t DEF Begin, CacheInv, Within
  <2>3. k \in Keys /\ cached.keys \subseteq Keys /\ cached.until \in Nat
    BY <1>t DEF CacheInv
  <2>4. /\ r \in Login /\ r.key = k /\ r.last = FALSE /\ r.since = clock
        /\ r.at \in {"sent", "got"}
        /\ r.at = "got" => \A j \in r.got : Within(j, clock + 1)
    <3>1. /\ \A j \in DOMAIN withdrawn : withdrawn[j] \in Nat
          /\ \A j \in cached.keys : Within(j, cached.until)
      BY <1>t DEF CacheInv
    <3> DEFINE no == FALSE
    <3>2. r = Asked(k, cached, no) /\ no \in BOOLEAN
      OBVIOUS
    <3> HIDE DEF r, no
    <3>3. /\ r \in Login /\ r.key = k /\ r.last = no /\ r.since = clock
          /\ r.at \in {"sent", "got"}
          /\ r.at = "got" => \A j \in r.got : Within(j, clock + 1)
      BY <1>t, <2>3, <3>1, <3>2, AskedIs
    <3> QED BY <3>3 DEF no
  <2> HIDE DEF r
  <2>5. login'[l] = r /\ (l \in steady' <=> k \in published)
    BY <2>1 DEF LoginsInv, r
  <2>6. LoginInv(l)'
    BY <1>t, <2>2, <2>4, <2>5 DEF LoginInv, Within
  <2> QED BY <2>1, <2>2, <2>4, <2>6, OneLogin DEF r
<1>4. ASSUME NEW l \in Logins, Serve(l)
      PROVE  LoginsInv'
  <2> DEFINE r == [login[l] EXCEPT !.at = "served", !.got = published]
  <2>1. /\ login[l].at = "sent" /\ login' = [login EXCEPT ![l] = r]
        /\ UNCHANGED <<published, cached, clock, withdrawn, steady>> /\ CacheInv'
    BY <1>4, <1>t DEF Serve, CacheInv, Within
  <2>2. /\ r \in Login /\ r.at = "served" /\ r.got = published /\ r.key = login[l].key
        /\ r.last = login[l].last /\ r.since = login[l].since
    BY <1>t DEF Login, CacheInv
  <2> HIDE DEF r
  <2>3. login'[l] = r
    BY <2>1 DEF LoginsInv
  <2>4. LoginInv(l)'
    BY <1>t, <2>1, <2>2, <2>3 DEF LoginInv, Within
  <2> QED BY <2>1, <2>2, <2>4, OneLogin
<1>5. ASSUME NEW l \in Logins, Arrive(l)
      PROVE  LoginsInv'
  <2> DEFINE r == [login[l] EXCEPT !.at = "got"]
  <2>1. /\ login[l].at = "served" /\ login' = [login EXCEPT ![l] = r]
        /\ cached' = [keys |-> login[l].got, until |-> clock + TTL]
        /\ UNCHANGED <<published, clock, withdrawn, steady>>
    BY <1>5 DEF Arrive
  <2>2. /\ r \in Login /\ r.at = "got" /\ r.got = login[l].got /\ r.key = login[l].key
        /\ r.last = login[l].last /\ r.since = login[l].since
        /\ login[l].got \subseteq Keys /\ login[l].since \in Nat
    BY <1>t DEF Login
  <2> HIDE DEF r
  <2>3. login'[l] = r
    BY <2>1 DEF LoginsInv
  <2>4. clock =< login[l].since + Timeout /\ login[l].since =< clock
    BY <1>t, <2>1 DEF LoginInv
  <2>5. \A j \in login[l].got : Within(j, clock + TTL) /\ Within(j, clock + 1)
    <3>1. \A j \in login[l].got : Within(j, login[l].since + TTL + Timeout)
      BY <1>t, <2>1 DEF LoginInv
    <3>2. \A j \in DOMAIN withdrawn : withdrawn[j] \in Nat
      BY <1>t DEF CacheInv
    <3> QED BY <1>t, <2>2, <2>4, <3>1, <3>2 DEF Within
  <2>6. CacheInv'
    <3>1. cached'.keys = login[l].got /\ cached'.until = clock + TTL
      BY <2>1
    <3> QED BY <1>t, <2>1, <2>2, <2>5, <3>1 DEF CacheInv, Within
  <2>7. LoginInv(l)'
    BY <1>t, <2>1, <2>2, <2>3, <2>4, <2>5 DEF LoginInv, Within
  <2> QED BY <2>1, <2>2, <2>6, <2>7, OneLogin
<1>6. ASSUME NEW l \in Logins, FetchFails(l)
      PROVE  LoginsInv'
  <2> DEFINE r == [login[l] EXCEPT !.at = "failed"]
  <2>1. /\ login' = [login EXCEPT ![l] = r]
        /\ UNCHANGED <<published, cached, clock, withdrawn, steady>> /\ CacheInv'
    BY <1>6, <1>t DEF FetchFails, CacheInv, Within
  <2>2. /\ r \in Login /\ r.at = "failed" /\ r.key = login[l].key /\ r.since = login[l].since
    BY <1>t DEF Login
  <2> HIDE DEF r
  <2>3. login'[l] = r
    BY <2>1 DEF LoginsInv
  <2>4. LoginInv(l)'
    BY <1>t, <2>1, <2>2, <2>3 DEF LoginInv, Within
  <2> QED BY <2>1, <2>2, <2>4, OneLogin
<1>7. ASSUME NEW l \in Logins, CheckKey(l)
      PROVE  LoginsInv'
  <2>1. /\ login[l].at = "got" /\ login[l] \in Login /\ login[l].key \in Keys
        /\ UNCHANGED <<published, clock, withdrawn, steady>>
    BY <1>7, <1>t DEF CheckKey, Login
  <2>2. CASE login[l].key \in login[l].got
    <3> DEFINE r == [login[l] EXCEPT !.at = "accepted", !.since = clock]
    <3>1. login' = [login EXCEPT ![l] = r] /\ UNCHANGED cached /\ CacheInv'
      BY <1>7, <1>t, <2>1, <2>2 DEF CheckKey, CacheInv, Within
    <3>2. r \in Login /\ r.at = "accepted" /\ r.key = login[l].key /\ r.since = clock
      BY <1>t DEF Login
    <3> HIDE DEF r
    <3>3. login'[l] = r
      BY <3>1 DEF LoginsInv
    <3>4. LoginInv(l)'
      BY <1>t, <2>1, <2>2, <3>2, <3>3 DEF LoginInv, Within
    <3> QED BY <2>1, <3>1, <3>2, <3>4, OneLogin
  <2>3. CASE login[l].key \notin login[l].got /\ login[l].last
    <3> DEFINE r == [login[l] EXCEPT !.at = "refused"]
    <3>1. login' = [login EXCEPT ![l] = r] /\ UNCHANGED cached /\ CacheInv'
      BY <1>7, <1>t, <2>1, <2>3 DEF CheckKey, CacheInv, Within
    <3>2. r \in Login /\ r.at = "refused" /\ r.since = login[l].since
      BY <1>t DEF Login
    <3> HIDE DEF r
    <3>3. login'[l] = r
      BY <3>1 DEF LoginsInv
    <3>4. LoginInv(l)'
      BY <1>t, <2>1, <2>3, <3>2, <3>3 DEF LoginInv
    <3> QED BY <2>1, <3>1, <3>2, <3>4, OneLogin
  <2>4. CASE login[l].key \notin login[l].got /\ ~login[l].last
    <3> DEFINE r == Asked(login[l].key, Nothing, TRUE)
    <3>1. login' = [login EXCEPT ![l] = r] /\ cached' = Nothing
      BY <1>7, <2>4 DEF CheckKey, AfterMiss
    <3>2. Nothing.keys = {} /\ Nothing.until = 0
      BY DEF Nothing
    <3>3. /\ r \in Login /\ r.at = "sent" /\ r.key = login[l].key /\ r.since = clock
      <4>1. /\ \A j \in DOMAIN withdrawn : withdrawn[j] \in Nat
            /\ \A j \in Nothing.keys : Within(j, Nothing.until)
            /\ Nothing.keys \subseteq Keys /\ Nothing.until \in Nat /\ ~(0 > clock)
        BY <1>t, <3>2 DEF CacheInv
      <4> DEFINE yes == TRUE
      <4>2. r = Asked(login[l].key, Nothing, yes) /\ yes \in BOOLEAN
        OBVIOUS
      <4> HIDE DEF r, yes
      <4>3. /\ r \in Login /\ r.key = login[l].key /\ r.since = clock
            /\ r.at = "sent" \/ Nothing.until > clock
        BY <1>t, <2>1, <4>1, <4>2, AskedIs
      <4> QED BY <3>2, <4>1, <4>3
    <3> HIDE DEF r
    <3>4. login'[l] = r
      BY <3>1 DEF LoginsInv
    <3>5. LoginInv(l)'
      BY <1>t, <2>1, <3>3, <3>4 DEF LoginInv
    <3>6. CacheInv'
      BY <1>t, <2>1, <3>1, <3>2 DEF CacheInv, Within
    <3> QED BY <2>1, <3>1, <3>3, <3>5, <3>6, OneLogin
  <2> QED BY <2>2, <2>3, <2>4
<1>8. CASE PassTime
  <2>1. CacheInv'
    BY <1>8, <1>t DEF PassTime, CacheInv, Within
  <2>2. ASSUME NEW l \in Logins
        PROVE  LoginInv(l)'
    <3>1. /\ login'[l] = login[l] /\ login[l].at # "got" /\ login[l].since \in Nat
          /\ login[l].at \in {"sent", "served"} => clock < login[l].since + Timeout
          /\ clock' = clock + 1
      BY <1>8, <1>t DEF PassTime, Over, Login
    <3>2. UNCHANGED <<published, withdrawn, steady>>
      BY <1>8 DEF PassTime
    <3> QED BY <1>t, <3>1, <3>2 DEF LoginInv, Within
  <2> QED BY <1>8, <2>1, <2>2 DEF PassTime, LoginsInv
<1>9. CASE UNCHANGED keyVars
  BY <1>9 DEF keyVars, LoginsInv, CacheInv, LoginInv, Within
<1> QED BY <1>1, <1>2, <1>3, <1>4, <1>5, <1>6, <1>7, <1>8, <1>9 DEF KeysNext

LEMMA KeysStart == KeysInit => LoginsInv
<1> SUFFICES ASSUME KeysInit PROVE LoginsInv
  OBVIOUS
<1>1. NoLogin \in Login /\ NoLogin.at = "idle" /\ NoLogin.since = 0
  BY TimesTyped DEF NoLogin, Login
<1>2. CacheInv
  BY TimesTyped DEF KeysInit, CacheInv, Nothing
<1>3. \A l \in Logins : login[l] = NoLogin
  BY DEF KeysInit
<1>4. ASSUME NEW l \in Logins
      PROVE  LoginInv(l)
  BY <1>1, <1>3, TimesTyped DEF LoginInv, KeysInit
<1> QED BY <1>1, <1>2, <1>4 DEF KeysInit, LoginsInv

\* A login whose key is published all along is not refused, and a withdrawn key is
\* trusted for no longer than the life of a cached set and of the fetch that brought
\* it (the key sets that oauth.service.ts keeps of its providers).
THEOREM KeysAreCurrent == KeysSpec => []KeysInv
<1>1. LoginsInv => KeysInv
  <2> SUFFICES ASSUME LoginsInv PROVE KeysInv
    OBVIOUS
  <2>1. KeysTypeOK
    BY TimesTyped DEF KeysTypeOK, LoginsInv, CacheInv, Login
  <2>2. GoodTokensPass
    BY DEF GoodTokensPass, LoginsInv, LoginInv
  <2>3. ASSUME NEW l \in Logins, login[l].at = "accepted", login[l].key \in DOMAIN withdrawn
        PROVE  login[l].since < withdrawn[login[l].key] + TTL + Timeout
    <3>1. /\ login[l].key \notin published /\ withdrawn[login[l].key] \in Nat
          /\ login[l].since \in Nat
      BY <2>3 DEF LoginsInv, CacheInv, Login
    <3>2. Within(login[l].key, login[l].since + 1)
      BY <2>3 DEF LoginsInv, LoginInv
    <3> QED BY <3>1, <3>2, TimesTyped DEF Within
  <2> QED BY <2>1, <2>2, <2>3 DEF KeysInv, WithdrawnKeysExpire
<1> QED BY <1>1, KeysStart, KeysStep, PTL DEF KeysSpec

-----------------------------------------------------------------------------
(* Follows, groups, threads and rooms                                      *)

Called == [op : OfUsers \cup OfGroups \cup OfRooms \cup {"none"},
            at : {"idle", "find", "write", "look", "insert", "group", "owner", "member",
                  "count", "room", "map", "seats", "peak"},
            by : Users \cup {NoOne}, on : Users \cup Groups \cup Rooms \cup {NoOne},
            role : Roles, private : BOOLEAN, known : BOOLEAN, seen : [Roles -> Nat]]

\* Every request is at a statement of its operation, about what that is about.
InOrder(c) ==
  /\ c.op = "none" <=> c.at = "idle"
  /\ c.op # "none" => c.by \in Users
  /\ c.op \in OfUsers => c.on \in Users
  /\ c.op \in OfGroups => c.on \in Groups
  /\ c.op \in OfRooms => c.on \in Rooms
  /\ c.op \in OfUsers \ {"thread"} => c.at \in {"find", "write"}
  /\ c.op = "thread" => c.at \in {"look", "insert"}
  /\ c.op = "create" => c.at \in {"group", "owner"}
  /\ c.op = "join" => c.at \in {"group", "member", "count"}
  /\ c.op \in OfRooms => c.at \in {"room", "map", "seats", "peak"}

CallsInv ==
  /\ call \in [Slots -> Called] /\ \A s \in Slots : InOrder(call[s])
  /\ requests \in 0 .. MaxRequests /\ faults \in 0 .. MaxFaults

RelationsInv ==
  users \subseteq Users /\ follows \subseteq Users \X Users /\ blocked \subseteq follows

\* The slots at the second statement of create, and at the last of join.
Owning(g) == {s \in Slots : At(s, "create", "owner") /\ call[s].on = g}
Counted(g) == {s \in Slots : At(s, "join", "count") /\ call[s].on = g}

Owed(g) == IF g \in owned THEN 0 ELSE 1
GroupInv(g) ==
  /\ IsFiniteSet(members[g])
  /\ \A s, r \in Owning(g) : s = r
  /\ Owning(g) # {} => g \notin owned
  /\ group[g].creator = NoOne
       => /\ members[g] = {} /\ lost[g] = 0 /\ erased[g] = 0 /\ g \notin owned
          /\ \A s \in Slots : (call[s].op \in OfGroups /\ call[s].on = g)
                               => call[s].at = "group"
  /\ group[g].creator # NoOne
       => group[g].count + Cardinality(Counted(g)) + lost[g]
            = Cardinality(members[g]) + erased[g] + Owed(g)
GroupsInv ==
  /\ group \in [Groups -> [creator : Users \cup {NoOne}, count : Nat, private : BOOLEAN]]
  /\ members \in [Groups -> SUBSET Users] /\ owned \subseteq Groups
  /\ lost \in [Groups -> Nat] /\ erased \in [Groups -> Nat]
  /\ \A g \in Groups : GroupInv(g)

ThreadsInv ==
  /\ IsFiniteSet(threads)
  /\ \A t \in threads : t.who \subseteq Users /\ t.by \in t.who /\ t.n \in Nat /\ ~t.known
  /\ \A s \in Slots : call[s].known =>
       /\ call[s].op = "thread" /\ call[s].at = "look"
       /\ ThreadsOf({call[s].by, call[s].on}) # {}

Room == [host : Users \cup {NoOne}, peak : [Roles -> Nat],
         status : {"none", "scheduled", "live", "ended", "erased"}]
Seat == [user : Users, role : Roles, n : Nat]
Entered(r, at) == {s \in Slots : At(s, "enter", at) /\ call[s].on = r}

\* The seats in role x are in the peaks, or in a count that is under way.
Covered(r, x) == \/ Sitting(r, x) =< room[r].peak[x]
                 \/ \E s \in Entered(r, "peak") : Sitting(r, x) =< call[s].seen[x]
RoomInv(r) ==
  /\ IsFiniteSet(seats[r])
  /\ room[r].status = "none" => room[r].host = NoOne
  /\ room[r].host = NoOne => seats[r] = {}
  /\ \/ Entered(r, "seats") # {}
     \/ \A x \in Roles : Covered(r, x)
     \/ r \in worn
RoomsInv ==
  /\ room \in [Rooms -> Room] /\ seats \in [Rooms -> SUBSET Seat]
  /\ signals \in [Rooms -> SUBSET Users] /\ worn \subseteq Rooms
  /\ \A r \in Rooms : RoomInv(r)

StepsInv == CallsInv /\ RelationsInv /\ GroupsInv /\ ThreadsInv /\ RoomsInv

-----------------------------------------------------------------------------
Points == {"find", "write", "look", "insert", "group", "owner", "member", "count",
                "room", "map", "seats", "peak"}

LEMMA IdleTyped == /\ Idle \in Called /\ InOrder(Idle) /\ Idle.at = "idle"
                   /\ Idle.op = "none" /\ ~Idle.known /\ Idle.on = NoOne
BY DEF Idle, Called, InOrder, OfUsers, OfGroups, OfRooms, Roles

\* What a step does to the call of slot s, and to no other.
Touches(s) == call' \in [Slots -> Called] /\ \A m \in Slots : m # s => call'[m] = call[m]
Same(s) == /\ call'[s].op = call[s].op /\ call'[s].by = call[s].by
           /\ call'[s].on = call[s].on /\ call'[s].known = call[s].known
           /\ call'[s].private = call[s].private
Ends(s) == Touches(s) /\ call'[s] = Idle
Moves(s, at) == Touches(s) /\ Same(s) /\ call'[s].at = at /\ call'[s].seen = call[s].seen

LEMMA DoneIs ==
  ASSUME CallsInv, NEW s \in Slots, Done(s)
  PROVE  Ends(s)
BY IdleTyped DEF CallsInv, Done, Ends, Touches

LEMMA ToIs ==
  ASSUME CallsInv, NEW s \in Slots, NEW at \in Points, To(s, at)
  PROVE  Moves(s, at)
<1> DEFINE c == [call[s] EXCEPT !.at = at]
<1>1. /\ c \in Called /\ c.at = at /\ c.op = call[s].op /\ c.by = call[s].by
      /\ c.on = call[s].on /\ c.known = call[s].known /\ c.private = call[s].private
      /\ c.seen = call[s].seen
  BY DEF CallsInv, Called, Points
<1>2. call' = [call EXCEPT ![s] = c]
  BY DEF To
<1> HIDE DEF c
<1>3. call' \in [Slots -> Called] /\ call'[s] = c
  BY <1>1, <1>2 DEF CallsInv
<1> QED BY <1>1, <1>2, <1>3 DEF CallsInv, Moves, Touches, Same

\* A request that begins.
Asking(s) == AskOfUser(s) \/ AskOfGroup(s) \/ AskOfRoom(s)

LEMMA RequestIs ==
  ASSUME CallsInv, NEW s \in Slots, NEW c \in Called, InOrder(c), Request(s, c), c.op # "none"
  PROVE  /\ Touches(s) /\ call[s].at = "idle" /\ InOrder(call'[s])
         /\ call'[s].at = c.at /\ call'[s].op = c.op
         /\ call'[s].known => /\ call'[s].op = "thread"
                              /\ ThreadsOf({call'[s].by, call'[s].on}) # {}
         /\ requests' \in 0 .. MaxRequests
         /\ UNCHANGED <<users, relations, communities, threads, voice, faults>>
<1> DEFINE k == c.op = "thread" /\ ThreadsOf({c.by, c.on}) # {}
           d == [c EXCEPT !.known = k]
<1>1. /\ call' = [call EXCEPT ![s] = d] /\ call[s].at = "idle" /\ requests' = requests + 1
      /\ requests < MaxRequests
      /\ UNCHANGED <<users, relations, communities, threads, voice, faults>>
  BY DEF Request
<1>2. k \in BOOLEAN /\ (k => c.op = "thread" /\ ThreadsOf({c.by, c.on}) # {})
  OBVIOUS
<1> HIDE DEF k
<1>3. d \in Called /\ d.at = c.at /\ d.op = c.op /\ d.by = c.by /\ d.on = c.on /\ d.known = k
  BY <1>2 DEF Called
<1> HIDE DEF d
<1>4. call' \in [Slots -> Called] /\ call'[s] = d /\ \A m \in Slots : m # s => call'[m] = call[m]
  BY <1>1, <1>3 DEF CallsInv
<1>5. InOrder(d)
  BY <1>3 DEF InOrder
<1>6. requests' \in 0 .. MaxRequests
  BY <1>1, CommunityAssumption DEF CallsInv
<1>7. d.known => d.op = "thread" /\ ThreadsOf({d.by, d.on}) # {}
  BY <1>2, <1>3
<1> QED BY <1>1, <1>3, <1>4, <1>5, <1>6, <1>7 DEF Touches

LEMMA AskingIs ==
  ASSUME CallsInv, NEW s \in Slots, Asking(s)
  PROVE  /\ Touches(s) /\ call[s].at = "idle" /\ InOrder(call'[s])
         /\ call'[s].at \in {"find", "look", "group", "room"} /\ call'[s].op # "none"
         /\ call'[s].known => /\ call'[s].op = "thread"
                              /\ ThreadsOf({call'[s].by, call'[s].on}) # {}
         /\ requests' \in 0 .. MaxRequests
         /\ UNCHANGED <<users, relations, communities, threads, voice, faults>>
<1>1. PICK c \in Called : /\ InOrder(c) /\ Request(s, c) /\ c.op # "none"
                          /\ c.at \in {"find", "look", "group", "room"}
  <2>1. CASE AskOfUser(s)
    <3>1. PICK op \in OfUsers, u \in Users, v \in Users :
            Request(s, [Idle EXCEPT !.op = op, !.at = IF op = "thread" THEN "look" ELSE "find",
                                    !.by = u, !.on = v])
      BY <2>1 DEF AskOfUser
    <3> DEFINE at == IF op = "thread" THEN "look" ELSE "find"
               c == [Idle EXCEPT !.op = op, !.at = at, !.by = u, !.on = v]
    <3>2. at = (IF op = "thread" THEN "look" ELSE "find") /\ at \in {"look", "find"}
      OBVIOUS
    <3>3. Request(s, c)
      BY <3>1
    <3> HIDE DEF at
    <3>4. c \in Called /\ c.at = at /\ c.op = op /\ c.by = u /\ c.on = v
      BY <3>2, IdleTyped DEF Called
    <3> HIDE DEF c
    <3>5. InOrder(c) /\ c.op # "none"
      BY <3>2, <3>4 DEF InOrder, OfUsers, OfGroups, OfRooms
    <3> QED BY <3>2, <3>3, <3>4, <3>5
  <2>2. CASE AskOfGroup(s)
    <3>1. PICK op \in OfGroups, u \in Users, g \in Groups, p \in BOOLEAN :
            Request(s, [Idle EXCEPT !.op = op, !.at = "group", !.by = u, !.on = g,
                                    !.private = p])
      BY <2>2 DEF AskOfGroup
    <3> DEFINE c == [Idle EXCEPT !.op = op, !.at = "group", !.by = u, !.on = g, !.private = p]
    <3>2. Request(s, c)
      BY <3>1
    <3>3. c \in Called /\ c.at = "group" /\ c.op = op /\ c.by = u /\ c.on = g
      BY IdleTyped DEF Called
    <3> HIDE DEF c
    <3>4. InOrder(c) /\ c.op # "none"
      BY <3>3 DEF InOrder, OfUsers, OfGroups, OfRooms
    <3> QED BY <3>2, <3>3, <3>4
  <2>3. CASE AskOfRoom(s)
    <3>1. PICK op \in OfRooms, u \in Users, r \in Rooms, x \in Roles :
            Request(s, [Idle EXCEPT !.op = op, !.at = "room", !.by = u, !.on = r, !.role = x])
      BY <2>3 DEF AskOfRoom
    <3> DEFINE c == [Idle EXCEPT !.op = op, !.at = "room", !.by = u, !.on = r, !.role = x]
    <3>2. Request(s, c)
      BY <3>1
    <3>3. c \in Called /\ c.at = "room" /\ c.op = op /\ c.by = u /\ c.on = r
      BY IdleTyped DEF Called
    <3> HIDE DEF c
    <3>4. InOrder(c) /\ c.op # "none"
      BY <3>3 DEF InOrder, OfUsers, OfGroups, OfRooms
    <3> QED BY <3>2, <3>3, <3>4
  <2> QED BY <2>1, <2>2, <2>3 DEF Asking
<1> QED BY <1>1, RequestIs

SeatsCount == \A r \in Rooms : IsFiniteSet(seats[r])

LEMMA SittingTyped ==
  ASSUME NEW r, IsFiniteSet(seats[r]), NEW x
  PROVE  Sitting(r, x) \in Nat
BY FS_Subset, FS_CardinalityType DEF Sitting

\* The count of the seats.
LEMMA SeatsRead ==
  ASSUME CallsInv, SeatsCount, NEW s \in Slots, At(s, "enter", "seats"),
         call' = [call EXCEPT ![s].at = "peak",
                              ![s].seen = [x \in Roles |-> Sitting(call[s].on, x)]]
  PROVE  /\ Touches(s) /\ Same(s) /\ call'[s].at = "peak"
         /\ \A x \in Roles : call'[s].seen[x] = Sitting(call[s].on, x)
<1> DEFINE q == [x \in Roles |-> Sitting(call[s].on, x)]
           c == [call[s] EXCEPT !.at = "peak", !.seen = q]
<1>1. call[s] \in Called /\ call[s].on \in Rooms
  BY DEF CallsInv, InOrder, At, OfRooms
<1>2. q \in [Roles -> Nat] /\ \A x \in Roles : q[x] = Sitting(call[s].on, x)
  BY <1>1, SittingTyped DEF SeatsCount
<1>3. call' = [call EXCEPT ![s] = c]
  OBVIOUS
<1> HIDE DEF q
<1>4. /\ c \in Called /\ c.at = "peak" /\ c.seen = q /\ c.op = call[s].op /\ c.by = call[s].by
      /\ c.on = call[s].on /\ c.known = call[s].known /\ c.private = call[s].private
  BY <1>1, <1>2 DEF Called
<1> HIDE DEF c
<1>5. call' \in [Slots -> Called] /\ call'[s] = c /\ \A m \in Slots : m # s => call'[m] = call[m]
  BY <1>3, <1>4 DEF CallsInv
<1> QED BY <1>2, <1>4, <1>5 DEF Touches, Same

\* One step of a request: it ends, or goes on to another statement.
LEMMA StepIs ==
  ASSUME CallsInv, SeatsCount, NEW s \in Slots, Step(s)
  PROVE  /\ Touches(s) /\ InOrder(call'[s]) /\ call[s].at # "idle"
         /\ call'[s] = Idle \/ (Same(s) /\ call'[s].at # "idle")
         /\ UNCHANGED <<requests, faults>>
<1>u. UNCHANGED <<requests, faults>>
  BY DEF Step
<1>i. InOrder(call[s]) /\ call[s] \in Called
  BY DEF CallsInv
<1>d. ASSUME Done(s)
      PROVE  Touches(s) /\ InOrder(call'[s]) /\ call'[s] = Idle
  BY <1>d, DoneIs, IdleTyped DEF Ends
<1>m. ASSUME NEW at \in Points, To(s, at), NEW op, call[s].op = op,
             \/ op \in OfUsers \ {"thread"} /\ at = "write"
             \/ op = "thread" /\ at = "insert"
             \/ op = "create" /\ at = "owner"
             \/ op = "join" /\ at \in {"member", "count"}
             \/ op \in OfRooms /\ at \in {"map", "seats"}
      PROVE  Touches(s) /\ InOrder(call'[s]) /\ Same(s) /\ call'[s].at # "idle"
  <2>1. Moves(s, at)
    BY <1>m, ToIs
  <2> QED BY <1>i, <1>m, <2>1 DEF Moves, Same, InOrder, OfUsers, OfGroups, OfRooms, Points
<1>1. CASE FindByHandle(s)
  <2>1. call[s].at = "find" /\ call[s].op \in OfUsers \ {"thread"}
    BY <1>1, <1>i DEF FindByHandle, InOrder, Called, OfUsers, OfGroups, OfRooms
  <2>2. Done(s) \/ To(s, "write")
    BY <1>1 DEF FindByHandle
  <2> QED BY <1>u, <1>d, <1>m, <2>1, <2>2 DEF Points
<1>2. CASE Relate(s)
  BY <1>2, <1>u, <1>d DEF Relate
<1>3. CASE CreateGroup(s)
  <2>1. call[s].op = "create" /\ call[s].at # "idle" /\ (Done(s) \/ To(s, "owner"))
    BY <1>3 DEF CreateGroup, At
  <2> QED BY <1>u, <1>d, <1>m, <2>1 DEF Points
<1>4. CASE JoinGroup(s)
  <2>1. /\ call[s].op = "join" /\ call[s].at # "idle"
        /\ Done(s) \/ To(s, "member") \/ To(s, "count")
    BY <1>4 DEF JoinGroup, At
  <2> QED BY <1>u, <1>d, <1>m, <2>1 DEF Points
<1>5. CASE GetOrCreateThread(s)
  <2>1. call[s].op = "thread" /\ call[s].at # "idle" /\ (Done(s) \/ To(s, "insert"))
    BY <1>5 DEF GetOrCreateThread, At
  <2> QED BY <1>u, <1>d, <1>m, <2>1 DEF Points
<1>6. CASE StartRoom(s) \/ EndRoom(s)
  <2>1. /\ call[s].op \in OfRooms /\ call[s].at # "idle" /\ (Done(s) \/ To(s, "map"))
    BY <1>6 DEF StartRoom, EndRoom, SetStatus, At, OfRooms
  <2> QED BY <1>u, <1>d, <1>m, <2>1 DEF Points
<1>7. CASE CreateRoom(s) \/ LeaveRoom(s) \/ RelaySignal(s) \/ GetSignals(s)
  BY <1>7, <1>u, <1>d DEF CreateRoom, LeaveRoom, RelaySignal, GetSignals, At
<1>8. CASE JoinRoom(s)
  <2>1. CASE Done(s) \/ To(s, "seats")
    <3>1. call[s].op \in OfRooms /\ call[s].at # "idle"
      BY <1>8 DEF JoinRoom, At, OfRooms
    <3> QED BY <1>u, <1>d, <1>m, <2>1, <3>1 DEF Points
  <2>2. CASE ~(Done(s) \/ To(s, "seats"))
    <3>1. /\ At(s, "enter", "seats")
          /\ call' = [call EXCEPT ![s].at = "peak",
                                  ![s].seen = [x \in Roles |-> Sitting(call[s].on, x)]]
      BY <1>8, <2>2 DEF JoinRoom
    <3>2. Touches(s) /\ Same(s) /\ call'[s].at = "peak"
      BY <3>1, SeatsRead
    <3> QED BY <1>i, <1>u, <3>1, <3>2 DEF At, Same, InOrder, OfUsers, OfGroups, OfRooms
  <2> QED BY <2>1, <2>2
<1> QED BY <1>1, <1>2, <1>3, <1>4, <1>5, <1>6, <1>7, <1>8 DEF Step

\* The steps of all, with what each does to the calls.
LEMMA CallsStep ==
  ASSUME CallsInv, SeatsCount, [Next]_vars
  PROVE  CallsInv'
<1>1. ASSUME NEW s \in Slots, Step(s)
      PROVE  CallsInv'
  BY <1>1, StepIs DEF CallsInv, Touches
<1>2. ASSUME NEW s \in Slots, Asking(s)
      PROVE  CallsInv'
  BY <1>2, AskingIs DEF CallsInv, Touches
<1>3. ASSUME NEW u \in Users, Erase(u)
      PROVE  CallsInv'
  BY <1>3, CommunityAssumption DEF Erase, Fault, CallsInv
<1>4. CASE Restart
  BY <1>4, CommunityAssumption, IdleTyped DEF Restart, Fault, CallsInv
<1>5. ASSUME NEW s \in Slots, StatementFails(s)
      PROVE  CallsInv'
  <2>1. Ends(s)
    BY <1>5, DoneIs DEF StatementFails
  <2>2. requests' \in 0 .. MaxRequests /\ faults' \in 0 .. MaxFaults
    BY <1>5, CommunityAssumption DEF StatementFails, Fault, CallsInv
  <2> QED BY <2>1, <2>2, IdleTyped DEF Ends, Touches, CallsInv
<1>6. CASE UNCHANGED vars
  BY <1>6 DEF vars, CallsInv
<1> QED BY <1>1, <1>2, <1>3, <1>4, <1>5, <1>6 DEF Next, Asking

-----------------------------------------------------------------------------
\* A relation is written about two users, and by one of six operations.
LEMMA Writing ==
  ASSUME CallsInv, NEW s \in Slots, call[s].at = "write"
  PROVE  /\ <<call[s].by, call[s].on>> \in Users \X Users
         /\ call[s].op \in {"follow", "unfollow", "mute", "unmute", "block", "unblock"}
BY DEF CallsInv, InOrder, Called, OfUsers, OfGroups, OfRooms

LEMMA RelationsStep ==
  ASSUME CallsInv, RelationsInv, [Next]_vars
  PROVE  RelationsInv'
<1>1. ASSUME NEW s \in Slots, Relate(s)
      PROVE  RelationsInv'
  BY <1>1, Writing DEF Relate, BlockedAfter, RelationsInv, relations
<1>2. ASSUME NEW u \in Users, Erase(u)
      PROVE  RelationsInv'
  <2>1. /\ users' \subseteq users
        /\ follows' = {p \in follows : u \notin {p[1], p[2]}}
        /\ blocked' = {p \in blocked : u \notin {p[1], p[2]}}
    BY <1>2 DEF Erase
  <2> QED BY <2>1 DEF RelationsInv
<1>3. ASSUME UNCHANGED <<users, relations>>
      PROVE  RelationsInv'
  BY <1>3 DEF RelationsInv, relations
<1>4. ASSUME NEW s \in Slots, Step(s)
      PROVE  Relate(s) \/ UNCHANGED <<users, relations>>
  BY <1>4 DEF Step, FindByHandle
<1>5. ASSUME NEW s \in Slots, Asking(s)
      PROVE  UNCHANGED <<users, relations>>
  BY <1>5, AskingIs
<1> QED BY <1>1, <1>2, <1>3, <1>4, <1>5 DEF Next, Asking, StatementFails, Restart, vars


-----------------------------------------------------------------------------
CountsInv == CallsInv /\ SeatsCount /\ GroupsInv

LEMMA CountedFinite ==
  ASSUME NEW g
  PROVE  /\ IsFiniteSet(Counted(g)) /\ Cardinality(Counted(g)) \in Nat
         /\ Counting(g) = Cardinality(Counted(g))
<1>1. Counted(g) \subseteq Slots
  BY DEF Counted
<1> QED BY <1>1, CommunityAssumption, FS_Subset, FS_CardinalityType DEF Counting, Counted

\* A group whose rows stay, and a call that is at no statement that counts.
LEMMA GroupStays ==
  ASSUME NEW g \in Groups, GroupInv(g), NEW s \in Slots, Touches(s),
         group'[g] = group[g], members'[g] = members[g], lost'[g] = lost[g],
         erased'[g] = erased[g], g \in owned' <=> g \in owned,
         call[s].on = g => ~At(s, "create", "owner") /\ ~At(s, "join", "count"),
         call'[s].on = g =>
           /\ ~At(s, "create", "owner")' /\ ~At(s, "join", "count")'
           /\ call'[s].op \in OfGroups => call'[s].at = "group" \/ group[g].creator # NoOne
  PROVE  GroupInv(g)'
<1>1. /\ \A m \in Slots : m # s => call'[m] = call[m]
  BY DEF Touches
<1>2. Owning(g)' = Owning(g)
  BY <1>1 DEF Owning, At
<1>3. Counted(g)' = Counted(g)
  BY <1>1 DEF Counted, At
<1>4. group[g].creator = NoOne =>
        \A m \in Slots : (call'[m].op \in OfGroups /\ call'[m].on = g) => call'[m].at = "group"
  BY <1>1 DEF GroupInv
<1>5. Owed(g)' = Owed(g)
  BY DEF Owed
<1> HIDE DEF Owning, Counted
<1> QED BY <1>2, <1>3, <1>4, <1>5 DEF GroupInv

LEMMA GroupsStay ==
  ASSUME CountsInv, NEW s \in Slots, Touches(s), UNCHANGED communities,
         ~At(s, "create", "owner") /\ ~At(s, "join", "count"),
         ~At(s, "create", "owner")' /\ ~At(s, "join", "count")',
         call'[s].op \in OfGroups => \/ call'[s].at = "group"
                                     \/ group[call'[s].on].creator # NoOne
  PROVE  GroupsInv'
<1>1. ASSUME NEW g \in Groups
      PROVE  GroupInv(g)'
  BY GroupStays DEF CountsInv, GroupsInv, communities
<1> QED BY <1>1 DEF CountsInv, GroupsInv, communities

LEMMA CreateGroupStep ==
  ASSUME CountsInv, NEW s \in Slots, CreateGroup(s)
  PROVE  GroupsInv'
<1>0. PICK g \in Groups, u \in Users : g = call[s].on /\ u = call[s].by
  BY DEF CreateGroup, At, CountsInv, CallsInv, InOrder, OfGroups
<1>1. call[s].op = "create" /\ g = call[s].on /\ u = call[s].by /\ GroupInv(g)
  BY <1>0 DEF CreateGroup, At, CountsInv, GroupsInv
<1>2. CASE At(s, "create", "group") /\ Done(s) /\ UNCHANGED communities
  BY <1>2, DoneIs, IdleTyped, GroupsStay DEF At, Ends, CountsInv, OfGroups
<1>3. CASE /\ At(s, "create", "group") /\ To(s, "owner") /\ group[g].creator = NoOne
           /\ group' = [group EXCEPT ![g] = [creator |-> u, count |-> 1,
                                             private |-> call[s].private]]
           /\ UNCHANGED <<members, owned, lost, erased>>
  <2> DEFINE row == [creator |-> u, count |-> 1, private |-> call[s].private]
  <2>1. Moves(s, "owner")
    BY <1>3, ToIs DEF CountsInv, Points
  <2>2. row \in [creator : Users \cup {NoOne}, count : Nat, private : BOOLEAN]
    BY <1>1 DEF CountsInv, CallsInv, Called
  <2>3. row.creator = u /\ row.count = 1 /\ u # NoOne
    BY <1>1, CommunityAssumption
  <2>4. group' = [group EXCEPT ![g] = row]
    BY <1>3
  <2> HIDE DEF row
  <2>5. group' \in [Groups -> [creator : Users \cup {NoOne}, count : Nat, private : BOOLEAN]]
        /\ group'[g] = row
    BY <1>1, <2>2, <2>4 DEF CountsInv, GroupsInv
  <2>6. GroupInv(g)'
    <3>1. Counted(g)' = {} /\ Owning(g)' = {s}
      BY <1>1, <1>3, <2>1 DEF GroupInv, Counted, Owning, At, Moves, Touches, Same, OfGroups
    <3>2. members[g] = {} /\ lost[g] = 0 /\ erased[g] = 0 /\ g \notin owned
      BY <1>1, <1>3 DEF GroupInv
    <3>3. Cardinality({}) = 0 /\ IsFiniteSet({})
      BY FS_EmptySet
    <3> QED BY <1>3, <2>3, <2>5, <3>1, <3>2, <3>3 DEF GroupInv, Owed
  <2>7. ASSUME NEW h \in Groups, h # g
        PROVE  GroupInv(h)'
    <3>1. group'[h] = group[h] /\ GroupInv(h)
      BY <2>4, <2>7 DEF CountsInv, GroupsInv
    <3> QED BY <1>1, <1>3, <2>1, <2>7, <3>1, GroupStays DEF Moves, Same
  <2> QED BY <1>3, <2>5, <2>6, <2>7 DEF CountsInv, GroupsInv
<1>4. CASE At(s, "create", "owner") /\ Done(s) /\ UNCHANGED <<group, lost, erased>>
           /\ IF u \in members[g] THEN UNCHANGED <<members, owned>>
              ELSE members' = [members EXCEPT ![g] = @ \cup {u}] /\ owned' = owned \cup {g}
  <2>1. Ends(s)
    BY <1>4, DoneIs DEF CountsInv
  <2>2. Owning(g) = {s} /\ Owning(g)' = {} /\ g \notin owned /\ group[g].creator # NoOne
    <3>1. s \in Owning(g)
      BY <1>1, <1>4 DEF Owning
    <3>2. Owning(g) = {s}
      BY <1>1, <3>1 DEF GroupInv
    <3>3. Owning(g)' = {}
      BY <2>1, <3>2, IdleTyped DEF Owning, Ends, Touches, At
    <3>4. group[g].creator # NoOne
      BY <1>1, <1>4 DEF GroupInv, At, OfGroups
    <3> QED BY <1>1, <3>1, <3>2, <3>3, <3>4 DEF GroupInv
  <2>3. Counted(g)' = Counted(g)
    BY <1>4, <2>1, IdleTyped DEF Counted, Ends, Touches, At
  <2>4. members' \in [Groups -> SUBSET Users] /\ owned' \subseteq Groups
    BY <1>1, <1>4 DEF CountsInv, GroupsInv
  <2>5. GroupInv(g)'
    <3>1. /\ group[g].count \in Nat /\ Cardinality(Counted(g)) \in Nat /\ lost[g] \in Nat
          /\ erased[g] \in Nat /\ IsFiniteSet(members[g]) /\ Cardinality(members[g]) \in Nat
      BY <1>1, CountedFinite, FS_CardinalityType DEF CountsInv, GroupsInv, GroupInv
    <3>2. CASE u \in members[g]
      BY <1>1, <1>4, <2>2, <2>3, <3>2 DEF GroupInv, Owed
    <3>3. CASE u \notin members[g]
      <4>1. members'[g] = members[g] \cup {u} /\ g \in owned'
        BY <1>1, <1>4, <3>3 DEF CountsInv, GroupsInv
      <4>2. /\ IsFiniteSet(members'[g])
            /\ Cardinality(members'[g]) = Cardinality(members[g]) + 1
        BY <3>1, <3>3, <4>1, FS_AddElement
      <4>3. group[g].count + Cardinality(Counted(g)) + lost[g]
              = Cardinality(members[g]) + erased[g] + 1
        BY <1>1, <2>2 DEF GroupInv, Owed
      <4> QED BY <1>4, <2>2, <2>3, <3>1, <4>1, <4>2, <4>3 DEF GroupInv, Owed
    <3> QED BY <3>2, <3>3
  <2>6. ASSUME NEW h \in Groups, h # g
        PROVE  GroupInv(h)'
    <3>1. members'[h] = members[h] /\ (h \in owned' <=> h \in owned) /\ GroupInv(h)
      BY <1>4, <2>6 DEF CountsInv, GroupsInv
    <3> QED BY <1>1, <1>4, <2>1, <2>6, <3>1, GroupStays, IdleTyped DEF Ends, At, OfGroups
  <2> QED BY <1>4, <2>4, <2>5, <2>6 DEF CountsInv, GroupsInv
<1> QED BY <1>0, <1>2, <1>3, <1>4 DEF CreateGroup, communities

LEMMA JoinGroupStep ==
  ASSUME CountsInv, NEW s \in Slots, JoinGroup(s)
  PROVE  GroupsInv'
<1>0. PICK g \in Groups, u \in Users : g = call[s].on /\ u = call[s].by
  BY DEF JoinGroup, At, CountsInv, CallsInv, InOrder, OfGroups
<1>1. call[s].op = "join" /\ g = call[s].on /\ u = call[s].by /\ GroupInv(g)
  BY <1>0 DEF JoinGroup, At, CountsInv, GroupsInv
<1>2. CASE At(s, "join", "group")
  <2>1. UNCHANGED communities /\ (Done(s) \/ (To(s, "member") /\ group[g].creator # NoOne))
    BY <1>1, <1>2 DEF JoinGroup, At
  <2>2. CASE Done(s)
    BY <1>2, <2>1, <2>2, DoneIs, IdleTyped, GroupsStay DEF At, Ends, CountsInv, OfGroups
  <2>3. CASE To(s, "member") /\ group[g].creator # NoOne
    <3>1. Moves(s, "member")
      BY <2>3, ToIs DEF CountsInv, Points
    <3> QED BY <1>1, <1>2, <2>1, <2>3, <3>1, GroupsStay DEF At, Moves, Same
  <2> QED BY <2>1, <2>2, <2>3
<1>3. CASE At(s, "join", "member") /\ ~(u \in users /\ u \notin members[g])
  <2>1. UNCHANGED communities /\ Done(s)
    BY <1>1, <1>3 DEF JoinGroup, At, AfterMember, communities
  <2> QED BY <1>3, <2>1, DoneIs, IdleTyped, GroupsStay DEF At, Ends, CountsInv, OfGroups
<1>4. CASE At(s, "join", "member") /\ u \in users /\ u \notin members[g]
  <2>1. /\ members' = [members EXCEPT ![g] = @ \cup {u}] /\ To(s, "count")
        /\ UNCHANGED <<group, owned, lost, erased>>
    BY <1>1, <1>4 DEF JoinGroup, At, AfterMember
  <2>2. Moves(s, "count")
    BY <2>1, ToIs DEF CountsInv, Points
  <2>3. Counted(g)' = Counted(g) \cup {s} /\ s \notin Counted(g) /\ Owning(g)' = Owning(g)
    BY <1>1, <1>4, <2>2 DEF Counted, Owning, At, Moves, Touches, Same
  <2>4. members' \in [Groups -> SUBSET Users] /\ members'[g] = members[g] \cup {u}
    BY <2>1 DEF CountsInv, GroupsInv
  <2>5. GroupInv(g)'
    <3>1. /\ group[g].count \in Nat /\ Cardinality(Counted(g)) \in Nat /\ lost[g] \in Nat
          /\ erased[g] \in Nat /\ IsFiniteSet(members[g]) /\ Cardinality(members[g]) \in Nat
          /\ IsFiniteSet(Counted(g))
      BY <1>1, CountedFinite, FS_CardinalityType DEF CountsInv, GroupsInv, GroupInv
    <3>2. /\ IsFiniteSet(members'[g])
          /\ Cardinality(members'[g]) = Cardinality(members[g]) + 1
          /\ Cardinality(Counted(g)') = Cardinality(Counted(g)) + 1
      <4>1. /\ IsFiniteSet(members'[g])
            /\ Cardinality(members'[g]) = Cardinality(members[g]) + 1
        BY <1>4, <2>4, <3>1, FS_AddElement
      <4>2. Cardinality(Counted(g)') = Cardinality(Counted(g)) + 1
        BY <2>3, <3>1, FS_AddElement
      <4> QED BY <4>1, <4>2
    <3>3. group[g].creator # NoOne
      BY <1>1, <1>4 DEF GroupInv, At, OfGroups
    <3>4. Owed(g)' = Owed(g) /\ Owed(g) \in Nat
      BY <2>1 DEF Owed
    <3> QED BY <1>1, <2>1, <2>3, <3>1, <3>2, <3>3, <3>4 DEF GroupInv
  <2>6. ASSUME NEW h \in Groups, h # g
        PROVE  GroupInv(h)'
    <3>1. members'[h] = members[h] /\ GroupInv(h)
      BY <2>1, <2>6 DEF CountsInv, GroupsInv
    <3> QED BY <1>1, <2>1, <2>2, <2>6, <3>1, GroupStays DEF Moves, Same
  <2> QED BY <2>1, <2>4, <2>5, <2>6 DEF CountsInv, GroupsInv
<1>5. CASE At(s, "join", "count")
  <2>1. /\ group' = [group EXCEPT ![g].count = @ + 1] /\ Done(s)
        /\ UNCHANGED <<members, owned, lost, erased>>
    BY <1>1, <1>5 DEF JoinGroup, At
  <2>2. Ends(s)
    BY <2>1, DoneIs DEF CountsInv
  <2> DEFINE n == group[g].count + 1
             row == [group[g] EXCEPT !.count = n]
  <2>3. n \in Nat /\ group' = [group EXCEPT ![g] = row]
    BY <2>1 DEF CountsInv, GroupsInv
  <2>4. row \in [creator : Users \cup {NoOne}, count : Nat, private : BOOLEAN]
        /\ row.count = n /\ row.creator = group[g].creator
    <3> HIDE DEF n
    <3> QED BY <2>3 DEF CountsInv, GroupsInv
  <2>5. group' \in [Groups -> [creator : Users \cup {NoOne}, count : Nat, private : BOOLEAN]]
        /\ group'[g] = row
    <3> HIDE DEF row
    <3> QED BY <2>3, <2>4 DEF CountsInv, GroupsInv
  <2>6. Counted(g)' = Counted(g) \ {s} /\ s \in Counted(g) /\ Owning(g)' = Owning(g)
    BY <1>1, <1>5, <2>2, IdleTyped DEF Counted, Owning, At, Ends, Touches
  <2>7. GroupInv(g)'
    <3>1. /\ group[g].count \in Nat /\ Cardinality(Counted(g)) \in Nat /\ lost[g] \in Nat
          /\ erased[g] \in Nat /\ IsFiniteSet(members[g]) /\ Cardinality(members[g]) \in Nat
          /\ IsFiniteSet(Counted(g))
      BY <1>1, CountedFinite, FS_CardinalityType DEF CountsInv, GroupsInv, GroupInv
    <3>2. Cardinality(Counted(g)') = Cardinality(Counted(g)) - 1
      BY <2>6, <3>1, FS_RemoveElement
    <3>3. group[g].creator # NoOne /\ group'[g].creator # NoOne /\ group'[g].count = n
      <4> HIDE DEF n, row
      <4> QED BY <1>1, <1>5, <2>4, <2>5 DEF GroupInv, At, OfGroups
    <3>4. Owed(g)' = Owed(g) /\ Owed(g) \in Nat
      BY <2>1 DEF Owed
    <3> HIDE DEF row
    <3> QED BY <1>1, <2>1, <2>6, <3>1, <3>2, <3>3, <3>4 DEF GroupInv
  <2>8. ASSUME NEW h \in Groups, h # g
        PROVE  GroupInv(h)'
    <3>1. group'[h] = group[h] /\ GroupInv(h)
      BY <2>1, <2>8 DEF CountsInv, GroupsInv
    <3> QED BY <1>1, <2>1, <2>2, <2>8, <3>1, GroupStays, IdleTyped DEF Ends, At, OfGroups
  <2> HIDE DEF row
  <2> QED BY <2>1, <2>5, <2>7, <2>8 DEF CountsInv, GroupsInv
<1> QED BY <1>2, <1>3, <1>4, <1>5 DEF JoinGroup

LEMMA EraseCounts ==
  ASSUME CountsInv, NEW u \in Users, Erase(u)
  PROVE  GroupsInv'
<1>1. /\ members' = [g \in Groups |-> members[g] \ {u}]
      /\ erased' = [g \in Groups |-> IF u \in members[g] THEN erased[g] + 1 ELSE erased[g]]
      /\ UNCHANGED <<group, owned, lost, call>>
  BY DEF Erase
<1>2. members' \in [Groups -> SUBSET Users] /\ erased' \in [Groups -> Nat]
  BY <1>1 DEF CountsInv, GroupsInv
<1>3. ASSUME NEW g \in Groups
      PROVE  GroupInv(g)'
  <2>1. /\ Counted(g)' = Counted(g) /\ Owning(g)' = Owning(g) /\ Owed(g)' = Owed(g)
        /\ Owed(g) \in Nat
    BY <1>1 DEF Counted, Owning, At, Owed
  <2>2. /\ IsFiniteSet(members[g]) /\ Cardinality(members[g]) \in Nat /\ erased[g] \in Nat
        /\ Cardinality(Counted(g)) \in Nat /\ lost[g] \in Nat /\ group[g].count \in Nat
        /\ GroupInv(g)
    BY CountedFinite, FS_CardinalityType DEF CountsInv, GroupsInv, GroupInv
  <2>3. CASE u \in members[g]
    <3>1. /\ members'[g] = members[g] \ {u} /\ erased'[g] = erased[g] + 1
      BY <1>1, <2>3
    <3>2. IsFiniteSet(members'[g]) /\ Cardinality(members'[g]) = Cardinality(members[g]) - 1
      <4>1. /\ IsFiniteSet(members[g] \ {u})
            /\ Cardinality(members[g] \ {u}) = Cardinality(members[g]) - 1
        BY <2>2, <2>3, FS_RemoveElement
      <4> QED BY <3>1, <4>1
    <3>3. group[g].creator # NoOne
      BY <2>2, <2>3 DEF GroupInv
    <3> QED BY <1>1, <2>1, <2>2, <3>1, <3>2, <3>3 DEF GroupInv
  <2>4. CASE u \notin members[g]
    <3>1. members'[g] = members[g] /\ erased'[g] = erased[g]
      BY <1>1, <2>4
    <3> QED BY <1>1, <2>1, <2>2, <3>1 DEF GroupInv
  <2> QED BY <2>3, <2>4
<1> QED BY <1>1, <1>2, <1>3 DEF CountsInv, GroupsInv

\* A statement that fails ends its request: a join that is not counted is lost.
LEMMA FailureCounts ==
  ASSUME CountsInv, NEW s \in Slots, StatementFails(s)
  PROVE  GroupsInv'
<1>1. /\ Ends(s) /\ UNCHANGED <<group, members, owned, erased>>
      /\ lost' = [g \in Groups |-> IF At(s, "join", "count") /\ call[s].on = g
                                   THEN lost[g] + 1 ELSE lost[g]]
  BY DoneIs DEF StatementFails, CountsInv
<1>2. lost' \in [Groups -> Nat]
  BY <1>1 DEF CountsInv, GroupsInv
<1>3. ASSUME NEW g \in Groups
      PROVE  GroupInv(g)'
  <2>1. GroupInv(g) /\ Owed(g)' = Owed(g) /\ Owed(g) \in Nat
    BY <1>1 DEF CountsInv, GroupsInv, Owed
  <2>2. /\ group[g].count \in Nat /\ Cardinality(Counted(g)) \in Nat /\ lost[g] \in Nat
        /\ erased[g] \in Nat /\ Cardinality(members[g]) \in Nat
        /\ IsFiniteSet(members[g]) /\ IsFiniteSet(Counted(g))
    BY <2>1, CountedFinite, FS_CardinalityType DEF CountsInv, GroupsInv, GroupInv
  <2>3. Owning(g)' \subseteq Owning(g)
    BY <1>1, IdleTyped DEF Owning, At, Ends, Touches
  <2>4. ASSUME group[g].creator = NoOne, NEW m \in Slots,
               call'[m].op \in OfGroups, call'[m].on = g
        PROVE  call'[m].at = "group"
    BY <1>1, <2>1, <2>4, IdleTyped DEF GroupInv, Ends, Touches, OfGroups
  <2>5. CASE s \in Counted(g)
    <3>1. At(s, "join", "count") /\ call[s].on = g /\ lost'[g] = lost[g] + 1
      BY <1>1, <2>5 DEF Counted
    <3>2. Counted(g)' = Counted(g) \ {s}
      BY <1>1, IdleTyped DEF Counted, At, Ends, Touches
    <3>3. Cardinality(Counted(g)') = Cardinality(Counted(g)) - 1
      BY <2>2, <2>5, <3>2, FS_RemoveElement
    <3>4. group[g].creator # NoOne
      BY <2>1, <3>1 DEF GroupInv, At, OfGroups
    <3> HIDE DEF Counted, Owning, Owed
    <3> QED BY <1>1, <2>1, <2>2, <2>3, <3>1, <3>3, <3>4 DEF GroupInv
  <2>6. CASE s \notin Counted(g)
    <3>1. lost'[g] = lost[g]
      BY <1>1, <2>6 DEF Counted
    <3>2. Counted(g)' = Counted(g)
      BY <1>1, <2>6, IdleTyped DEF Counted, At, Ends, Touches
    <3> HIDE DEF Counted, Owning, Owed
    <3> QED BY <1>1, <2>1, <2>3, <2>4, <3>1, <3>2 DEF GroupInv
  <2> QED BY <2>5, <2>6
<1> QED BY <1>1, <1>2, <1>3 DEF CountsInv, GroupsInv

LEMMA RestartCounts ==
  ASSUME CountsInv, Restart
  PROVE  GroupsInv'
<1>1. /\ \A s \in Slots : call'[s] = Idle
      /\ lost' = [g \in Groups |-> lost[g] + Counting(g)]
      /\ UNCHANGED <<group, members, owned, erased>>
  BY DEF Restart
<1>2. lost' \in [Groups -> Nat]
  BY <1>1, CountedFinite DEF CountsInv, GroupsInv
<1>3. ASSUME NEW g \in Groups
      PROVE  GroupInv(g)'
  <2>1. Counted(g)' = {} /\ Owning(g)' = {} /\ Owed(g)' = Owed(g) /\ Owed(g) \in Nat
    BY <1>1, IdleTyped DEF Counted, Owning, At, Owed
  <2>2. /\ Cardinality(members[g]) \in Nat /\ erased[g] \in Nat /\ Cardinality({}) = 0
        /\ Cardinality(Counted(g)) \in Nat /\ lost[g] \in Nat /\ group[g].count \in Nat
        /\ lost'[g] = lost[g] + Cardinality(Counted(g)) /\ GroupInv(g)
    BY <1>1, CountedFinite, FS_CardinalityType, FS_EmptySet DEF CountsInv, GroupsInv, GroupInv
  <2>3. group[g].creator = NoOne => Counted(g) = {}
    BY <2>2 DEF GroupInv, Counted, At, OfGroups
  <2>4. \A s \in Slots : call'[s].op \notin OfGroups
    BY <1>1, IdleTyped DEF OfGroups
  <2>5. group[g].creator = NoOne => lost'[g] = 0
    <3>1. lost'[g] = lost[g] + Cardinality(Counted(g)) /\ Cardinality({}) = 0
      BY <2>2
    <3>2. group[g].creator = NoOne => lost[g] = 0
      BY <2>2 DEF GroupInv
    <3> HIDE DEF Counted
    <3> QED BY <2>3, <3>1, <3>2
  <2>6. group[g].creator # NoOne
          => group[g].count + 0 + lost'[g] = Cardinality(members[g]) + erased[g] + Owed(g)
    BY <2>1, <2>2 DEF GroupInv
  <2>7. IsFiniteSet(members[g]) /\ group[g].creator = NoOne
          => members[g] = {} /\ erased[g] = 0 /\ g \notin owned
    BY <2>2 DEF GroupInv
  <2>8. IsFiniteSet(members[g])
    BY <2>2 DEF GroupInv
  <2>9. group'[g].creator # NoOne
          => group'[g].count + Cardinality(Counted(g)') + lost'[g]
               = Cardinality(members'[g]) + erased'[g] + Owed(g)'
    <3> HIDE DEF Counted, Owed
    <3> QED BY <1>1, <2>1, <2>2, <2>6
  <2> HIDE DEF Counted, Owning, Owed
  <2> QED BY <1>1, <2>1, <2>4, <2>5, <2>7, <2>8, <2>9 DEF GroupInv
<1> QED BY <1>1, <1>2, <1>3 DEF CountsInv, GroupsInv

LEMMA GroupsStep ==
  ASSUME CountsInv, [Next]_vars
  PROVE  GroupsInv'
<1>1. ASSUME NEW s \in Slots, Step(s)
      PROVE  GroupsInv'
  <2>1. CASE CreateGroup(s) \/ JoinGroup(s)
    BY <2>1, CreateGroupStep, JoinGroupStep
  <2>2. CASE ~(CreateGroup(s) \/ JoinGroup(s))
    <3>1. UNCHANGED communities /\ call[s].op \notin OfGroups
      <4>1. CASE FindByHandle(s)
        BY <4>1 DEF FindByHandle, CountsInv, CallsInv, InOrder, OfGroups
      <4>2. CASE Relate(s)
        BY <4>2 DEF Relate, CountsInv, CallsInv, InOrder, OfGroups
      <4>3. CASE GetOrCreateThread(s) /\ UNCHANGED communities
        BY <4>3 DEF GetOrCreateThread, At, OfGroups
      <4>4. CASE /\ UNCHANGED communities
                 /\ \/ CreateRoom(s) \/ StartRoom(s) \/ EndRoom(s) \/ JoinRoom(s)
                    \/ LeaveRoom(s) \/ RelaySignal(s) \/ GetSignals(s)
        BY <4>4 DEF CreateRoom, StartRoom, EndRoom, SetStatus, JoinRoom, LeaveRoom, RelaySignal,
                    GetSignals, At, OfGroups
      <4> QED BY <1>1, <2>2, <4>1, <4>2, <4>3, <4>4 DEF Step
    <3>2. Touches(s) /\ (call'[s] = Idle \/ Same(s))
      BY <1>1, StepIs DEF CountsInv
    <3>3. call'[s].op \notin OfGroups
      BY <3>1, <3>2, IdleTyped DEF Same, OfGroups
    <3> QED BY <3>1, <3>2, <3>3, GroupsStay DEF At, OfGroups
  <2> QED BY <2>1, <2>2
<1>2. ASSUME NEW s \in Slots, Asking(s)
      PROVE  GroupsInv'
  <2>1. /\ Touches(s) /\ call[s].at = "idle" /\ InOrder(call'[s]) /\ UNCHANGED communities
        /\ call'[s].at \in {"find", "look", "group", "room"}
    BY <1>2, AskingIs DEF CountsInv
  <2>2. call'[s].op \in OfGroups => call'[s].at = "group"
    BY <2>1 DEF InOrder, OfGroups
  <2>3. /\ ~At(s, "create", "owner") /\ ~At(s, "join", "count")
        /\ ~At(s, "create", "owner")' /\ ~At(s, "join", "count")'
    BY <2>1 DEF At
  <2> QED BY <2>1, <2>2, <2>3, GroupsStay
<1>3. CASE UNCHANGED vars
  <2>1. UNCHANGED <<communities, call>>
    BY <1>3 DEF vars
  <2>2. ASSUME NEW g \in Groups
        PROVE  GroupInv(g)'
    <3>1. /\ Owning(g)' = Owning(g) /\ Counted(g)' = Counted(g) /\ Owed(g)' = Owed(g)
      BY <2>1 DEF Owning, Counted, At, Owed, communities
    <3>2. GroupInv(g)
      BY DEF CountsInv, GroupsInv
    <3> HIDE DEF Owning, Counted, Owed
    <3> QED BY <2>1, <3>1, <3>2 DEF GroupInv, communities
  <2> QED BY <2>1, <2>2 DEF CountsInv, GroupsInv, communities
<1> QED BY <1>1, <1>2, <1>3, EraseCounts, FailureCounts, RestartCounts
        DEF Next, Asking

-----------------------------------------------------------------------------
LEMMA ThreadsStep ==
  ASSUME CallsInv, SeatsCount, ThreadsInv, [Next]_vars
  PROVE  ThreadsInv'
<1>a. ASSUME NEW m \in Slots, call'[m] = Idle \/ call'[m] = call[m], threads \subseteq threads'
      PROVE  (call[m].known => /\ call[m].op = "thread" /\ call[m].at = "look"
                               /\ ThreadsOf({call[m].by, call[m].on}) # {})'
  BY <1>a, IdleTyped DEF ThreadsInv, ThreadsOf
<1>1. ASSUME NEW s \in Slots, Step(s)
      PROVE  ThreadsInv'
  <2>1. Touches(s) /\ (call'[s] = Idle \/ Same(s))
    BY <1>1, StepIs
  <2>2. CASE At(s, "thread", "look") /\ UNCHANGED threads
             /\ (IF Found(s) # {} THEN Done(s) ELSE To(s, "insert"))
    <3>1. CASE Done(s)
      <4>1. call'[s] = Idle
        BY <3>1, DoneIs DEF Ends
      <4>2. \A m \in Slots : (call[m].known => /\ call[m].op = "thread" /\ call[m].at = "look"
                               /\ ThreadsOf({call[m].by, call[m].on}) # {})'
        BY <1>a, <2>1, <2>2, <4>1 DEF Touches
      <4> QED BY <2>2, <4>2 DEF ThreadsInv
    <3>2. CASE Found(s) = {} /\ To(s, "insert")
      <4>1. ~call[s].known
        BY <3>2 DEF ThreadsInv, Found
      <4>2. ~call'[s].known
        BY <3>2, <4>1, ToIs DEF Moves, Same, Points
      <4>3. \A m \in Slots : (call[m].known => /\ call[m].op = "thread" /\ call[m].at = "look"
                               /\ ThreadsOf({call[m].by, call[m].on}) # {})'
        BY <1>a, <2>1, <2>2, <4>2 DEF Touches
      <4> QED BY <2>2, <4>3 DEF ThreadsInv
    <3> QED BY <2>2, <3>1, <3>2
  <2>3. CASE /\ At(s, "thread", "insert") /\ Done(s)
             /\ threads' = IF call[s].by \in users
                     THEN threads \cup {[who |-> {call[s].by, call[s].on}, by |-> call[s].by,
                                         n |-> Cardinality(threads), known |-> call[s].known]}
                     ELSE threads
    <3> DEFINE t == [who |-> {call[s].by, call[s].on}, by |-> call[s].by,
                     n |-> Cardinality(threads), known |-> call[s].known]
    <3>1. call'[s] = Idle
      BY <2>3, DoneIs DEF Ends
    <3>2. call[s].by \in Users /\ call[s].on \in Users /\ ~call[s].known
      BY <2>3 DEF ThreadsInv, CallsInv, InOrder, OfUsers, At
    <3>3. t.who \subseteq Users /\ t.by \in t.who /\ t.n \in Nat /\ ~t.known
      BY <3>2, FS_CardinalityType DEF ThreadsInv
    <3>4. threads' = threads \/ threads' = threads \cup {t}
      BY <2>3
    <3> HIDE DEF t
    <3>5. IsFiniteSet(threads')
      BY <3>4, FS_AddElement DEF ThreadsInv
    <3>6. \A m \in Slots : (call[m].known => /\ call[m].op = "thread" /\ call[m].at = "look"
                             /\ ThreadsOf({call[m].by, call[m].on}) # {})'
      BY <1>a, <2>1, <3>1, <3>4 DEF Touches
    <3> QED BY <3>3, <3>4, <3>5, <3>6 DEF ThreadsInv
  <2>4. CASE UNCHANGED threads /\ call[s].op # "thread"
    <3>1. ~call'[s].known
      BY <2>1, <2>4, IdleTyped DEF ThreadsInv, Same
    <3>2. \A m \in Slots : (call[m].known => /\ call[m].op = "thread" /\ call[m].at = "look"
                             /\ ThreadsOf({call[m].by, call[m].on}) # {})'
      BY <1>a, <2>1, <2>4, <3>1 DEF Touches
    <3> QED BY <2>4, <3>2 DEF ThreadsInv
  <2>5. \/ GetOrCreateThread(s)
        \/ UNCHANGED threads /\ call[s].op # "thread"
    <3>1. CASE FindByHandle(s)
      BY <3>1 DEF FindByHandle, CallsInv, InOrder
    <3>2. CASE Relate(s)
      BY <3>2 DEF Relate, CallsInv, InOrder
    <3>3. CASE (CreateGroup(s) \/ JoinGroup(s)) /\ UNCHANGED threads
      BY <3>3 DEF CreateGroup, JoinGroup, At
    <3>4. CASE /\ \/ CreateRoom(s) \/ StartRoom(s) \/ EndRoom(s) \/ JoinRoom(s)
                  \/ LeaveRoom(s) \/ RelaySignal(s) \/ GetSignals(s)
               /\ UNCHANGED threads
      BY <3>4 DEF CreateRoom, StartRoom, EndRoom, SetStatus, JoinRoom, LeaveRoom, RelaySignal,
                  GetSignals, At
    <3> QED BY <1>1, <3>1, <3>2, <3>3, <3>4 DEF Step
  <2> QED BY <2>2, <2>3, <2>4, <2>5 DEF GetOrCreateThread
<1>2. ASSUME NEW s \in Slots, Asking(s)
      PROVE  ThreadsInv'
  <2>1. /\ Touches(s) /\ UNCHANGED threads
        /\ call'[s].at \in {"find", "look", "group", "room"} /\ InOrder(call'[s])
        /\ call'[s].known => /\ call'[s].op = "thread"
                             /\ ThreadsOf({call'[s].by, call'[s].on}) # {}
    BY <1>2, AskingIs
  <2>2. call'[s].known => call'[s].at = "look"
    BY <2>1 DEF InOrder
  <2>3. \A m \in Slots : (call[m].known => /\ call[m].op = "thread" /\ call[m].at = "look"
                           /\ ThreadsOf({call[m].by, call[m].on}) # {})'
    <3> SUFFICES ASSUME NEW m \in Slots
                 PROVE  (call[m].known => /\ call[m].op = "thread" /\ call[m].at = "look"
                           /\ ThreadsOf({call[m].by, call[m].on}) # {})'
      OBVIOUS
    <3>1. CASE m = s
      BY <2>1, <2>2, <3>1 DEF ThreadsOf
    <3>2. CASE m # s
      BY <1>a, <2>1, <3>2 DEF Touches
    <3> QED BY <3>1, <3>2
  <2> QED BY <2>1, <2>3 DEF ThreadsInv
<1>3. ASSUME UNCHANGED threads, \A m \in Slots : call'[m] = Idle \/ call'[m] = call[m]
      PROVE  ThreadsInv'
  <2>1. \A m \in Slots : (call[m].known => /\ call[m].op = "thread" /\ call[m].at = "look"
                           /\ ThreadsOf({call[m].by, call[m].on}) # {})'
    BY <1>3, <1>a
  <2> QED BY <1>3, <2>1 DEF ThreadsInv
<1>4. ASSUME NEW s \in Slots, StatementFails(s)
      PROVE  ThreadsInv'
  <2>1. Ends(s) /\ UNCHANGED threads
    BY <1>4, DoneIs DEF StatementFails
  <2> QED BY <1>3, <2>1 DEF Ends, Touches
<1> QED BY <1>1, <1>2, <1>3, <1>4 DEF Next, Asking, Erase, Restart, vars

-----------------------------------------------------------------------------
LEMMA SittingShrinks ==
  ASSUME NEW r, IsFiniteSet(seats[r]), seats'[r] \subseteq seats[r], NEW x
  PROVE  IsFiniteSet(seats'[r]) /\ Sitting(r, x) \in Nat /\ Sitting(r, x)' \in Nat
         /\ Sitting(r, x)' =< Sitting(r, x)
<1>1. IsFiniteSet(seats'[r])
  BY FS_Subset
<1>2. {p \in seats'[r] : p.role = x} \subseteq {p \in seats[r] : p.role = x}
  OBVIOUS
<1>3. IsFiniteSet({p \in seats[r] : p.role = x})
  BY FS_Subset
<1>4. IsFiniteSet({p \in seats'[r] : p.role = x})
  BY <1>2, <1>3, FS_Subset
<1> QED BY <1>1, <1>2, <1>3, <1>4, FS_Subset, FS_CardinalityType DEF Sitting

\* A room no one is in.
LEMMA RoomEmpty ==
  ASSUME NEW r \in Rooms, seats'[r] = {}, room'[r] \in Room,
         room'[r].status = "none" => room'[r].host = NoOne
  PROVE  RoomInv(r)'
<1>1. ASSUME NEW x \in Roles
      PROVE  Covered(r, x)'
  <2>1. Sitting(r, x)' = Cardinality({})
    BY DEF Sitting
  <2>2. room'[r].peak[x] \in Nat
    BY DEF Room
  <2> QED BY <2>1, <2>2, FS_EmptySet DEF Covered
<1>2. IsFiniteSet(seats'[r])
  BY FS_EmptySet
<1> QED BY <1>1, <1>2 DEF RoomInv

\* A room whose peaks stay, that no one enters and that no one goes on entering.
LEMMA RoomStays ==
  ASSUME NEW r \in Rooms, RoomInv(r), CallsInv, room[r] \in Room, seats'[r] \subseteq seats[r],
         room'[r].peak = room[r].peak, r \in worn => r \in worn',
         room'[r].status = "none" => room'[r].host = NoOne,
         room'[r].host = NoOne => seats'[r] = {},
         Entered(r, "seats")' = Entered(r, "seats"), Entered(r, "peak")' = Entered(r, "peak"),
         \A m \in Entered(r, "peak") : call'[m].seen = call[m].seen
  PROVE  RoomInv(r)'
<1>1. IsFiniteSet(seats[r])
  BY DEF RoomInv
<1>2. ASSUME NEW x \in Roles, Covered(r, x)
      PROVE  Covered(r, x)'
  <2>1. Sitting(r, x) \in Nat /\ Sitting(r, x)' \in Nat /\ Sitting(r, x)' =< Sitting(r, x)
    BY <1>1, SittingShrinks
  <2>2. room[r].peak[x] \in Nat
    BY DEF Room
  <2>3. CASE Sitting(r, x) =< room[r].peak[x]
    <3> HIDE DEF Sitting
    <3> QED BY <2>1, <2>2, <2>3 DEF Covered
  <2>4. ASSUME NEW m \in Entered(r, "peak"), Sitting(r, x) =< call[m].seen[x]
        PROVE  Covered(r, x)'
    <3>1. call[m].seen[x] \in Nat
      BY <2>4 DEF Entered, CallsInv, Called
    <3>2. Sitting(r, x)' =< call'[m].seen[x]
      <4> HIDE DEF Sitting
      <4> QED BY <2>1, <2>4, <3>1
    <3> QED BY <3>2 DEF Covered
  <2> QED BY <1>2, <2>3, <2>4 DEF Covered
<1>3. IsFiniteSet(seats'[r])
  BY <1>1, FS_Subset
<1> HIDE DEF Covered, Entered
<1> QED BY <1>2, <1>3 DEF RoomInv

VoiceInv == CallsInv /\ RoomsInv

\* A slot that is not at a statement that enters a room, before nor after.
LEMMA EnteredStays ==
  ASSUME NEW s \in Slots, Touches(s), NEW r,
         call[s].op = "enter" /\ call[s].on = r => call[s].at \notin {"seats", "peak"},
         call'[s].op = "enter" /\ call'[s].on = r => call'[s].at \notin {"seats", "peak"}
  PROVE  /\ Entered(r, "seats")' = Entered(r, "seats")
         /\ Entered(r, "peak")' = Entered(r, "peak")
         /\ \A m \in Entered(r, "peak") : call'[m].seen = call[m].seen
BY DEF Touches, Entered, At

\* The slot s enters no room, before nor after the step.
Apart(s) == /\ Touches(s)
            /\ call[s].op = "enter" => call[s].at \notin {"seats", "peak"}
            /\ call'[s].op = "enter" => call'[s].at \notin {"seats", "peak"}

\* Steps that leave the rooms and the seats alone.
LEMMA RoomsStay ==
  ASSUME VoiceInv, NEW s \in Slots, Apart(s), UNCHANGED <<room, seats, worn>>
  PROVE  \A r \in Rooms : RoomInv(r)'
<1>1. ASSUME NEW r \in Rooms
      PROVE  RoomInv(r)'
  <2>1. room[r] \in Room /\ RoomInv(r)
    BY DEF VoiceInv, RoomsInv
  <2>2. room[r].status = "none" => room[r].host = NoOne
    BY <2>1 DEF RoomInv
  <2>3. room[r].host = NoOne => seats[r] = {}
    BY <2>1 DEF RoomInv
  <2>4. /\ Entered(r, "seats")' = Entered(r, "seats")
        /\ Entered(r, "peak")' = Entered(r, "peak")
        /\ \A m \in Entered(r, "peak") : call'[m].seen = call[m].seen
    BY EnteredStays DEF Apart
  <2> QED BY <2>1, <2>2, <2>3, <2>4, RoomStays DEF VoiceInv
<1> QED BY <1>1

\* Steps that change the row of one room, its peaks apart.
LEMMA RowStep ==
  ASSUME VoiceInv, NEW s \in Slots, Apart(s), NEW r \in Rooms, NEW row \in Room,
         room' = [room EXCEPT ![r] = row], UNCHANGED <<seats, signals, worn>>,
         row.status # "none", row.host # NoOne,
         row.peak = room[r].peak \/ room[r].host = NoOne
  PROVE  RoomsInv'
<1>1. room' \in [Rooms -> Room] /\ room'[r] = row
  BY DEF VoiceInv, RoomsInv
<1>2. ASSUME NEW q \in Rooms
      PROVE  RoomInv(q)'
  <2>1. /\ Entered(q, "seats")' = Entered(q, "seats")
        /\ Entered(q, "peak")' = Entered(q, "peak")
        /\ \A m \in Entered(q, "peak") : call'[m].seen = call[m].seen
    BY EnteredStays DEF Apart
  <2>2. RoomInv(q) /\ room[q] \in Room
    BY DEF VoiceInv, RoomsInv
  <2>3. CASE q # r
    <3>1. room'[q] = room[q]
      BY <2>3 DEF VoiceInv, RoomsInv
    <3>2. /\ room[q].status = "none" => room[q].host = NoOne
          /\ room[q].host = NoOne => seats[q] = {}
      BY <2>2 DEF RoomInv
    <3> QED BY <2>1, <2>2, <3>1, <3>2, RoomStays DEF VoiceInv
  <2>4. CASE q = r /\ room[r].host = NoOne
    <3>1. seats'[r] = {}
      BY <2>2, <2>4 DEF RoomInv
    <3> QED BY <1>1, <2>4, <3>1, RoomEmpty
  <2>5. CASE q = r /\ row.peak = room[r].peak
    BY <1>1, <2>1, <2>2, <2>5, RoomStays DEF VoiceInv
  <2> QED BY <2>3, <2>4, <2>5
<1> QED BY <1>1, <1>2 DEF VoiceInv, RoomsInv

LEMMA CreateRoomStep ==
  ASSUME VoiceInv, NEW s \in Slots, CreateRoom(s)
  PROVE  RoomsInv'
<1>1. PICK r \in Rooms, u \in Users : r = call[s].on /\ u = call[s].by
  BY DEF CreateRoom, At, VoiceInv, CallsInv, InOrder, OfRooms
<1>2. Apart(s)
  BY DoneIs, IdleTyped DEF CreateRoom, At, Apart, Ends, VoiceInv
<1>3. UNCHANGED <<seats, signals, worn>>
  BY DEF CreateRoom
<1>4. CASE room' = room
  BY <1>2, <1>3, <1>4, RoomsStay DEF VoiceInv, RoomsInv
<1>5. CASE room[r].status = "none"
           /\ room' = [room EXCEPT ![r] = [NoRoom EXCEPT !.host = u, !.status = "scheduled"]]
  <2> DEFINE row == [NoRoom EXCEPT !.host = u, !.status = "scheduled"]
  <2>1. row \in Room /\ row.host = u /\ row.status = "scheduled"
    BY DEF NoRoom, Room
  <2>2. room' = [room EXCEPT ![r] = row]
    BY <1>5
  <2> HIDE DEF row
  <2>3. u # NoOne /\ row.status # "none"
    BY <2>1, CommunityAssumption
  <2>4. room[r].host = NoOne
    BY <1>5 DEF VoiceInv, RoomsInv, RoomInv
  <2> QED BY <1>2, <1>3, <2>1, <2>2, <2>3, <2>4, RowStep
<1> QED BY <1>1, <1>4, <1>5 DEF CreateRoom

LEMMA StatusStep ==
  ASSUME VoiceInv, NEW s \in Slots, StartRoom(s) \/ EndRoom(s)
  PROVE  RoomsInv'
<1>1. PICK r \in Rooms, u \in Users : r = call[s].on /\ u = call[s].by
  BY DEF StartRoom, EndRoom, SetStatus, At, VoiceInv, CallsInv, InOrder, OfRooms
<1>2. PICK status \in {"live", "ended"}, op \in {"start", "end"} : SetStatus(s, op, status)
  BY DEF StartRoom, EndRoom
<1>3. CASE /\ At(s, op, "room") /\ To(s, "map")
           /\ room' = IF room[r].host = u THEN [room EXCEPT ![r].status = status] ELSE room
           /\ UNCHANGED <<seats, signals, worn>>
  <2>1. Apart(s)
    BY <1>3, ToIs DEF At, Apart, Moves, Same, VoiceInv, Points
  <2>2. CASE room' = room
    BY <1>3, <2>1, <2>2, RoomsStay DEF VoiceInv, RoomsInv
  <2>3. CASE room[r].host = u /\ room' = [room EXCEPT ![r].status = status]
    <3> DEFINE row == [room[r] EXCEPT !.status = status]
    <3>1. room[r] \in Room
      BY DEF VoiceInv, RoomsInv
    <3>2. row \in Room /\ row.host = u /\ row.status # "none" /\ row.peak = room[r].peak
      BY <2>3, <3>1 DEF Room
    <3>3. room' = [room EXCEPT ![r] = row]
      BY <2>3
    <3> HIDE DEF row
    <3>4. u # NoOne
      BY CommunityAssumption
    <3> QED BY <1>3, <2>1, <3>2, <3>3, <3>4, RowStep
  <2> QED BY <1>3, <2>2, <2>3
<1>4. CASE /\ At(s, op, "map") /\ Done(s)
           /\ signals' = [signals EXCEPT ![r] = {}]
           /\ UNCHANGED <<room, seats, worn>>
  <2>1. Apart(s)
    BY <1>4, DoneIs, IdleTyped DEF At, Apart, Ends, VoiceInv
  <2>2. signals' \in [Rooms -> SUBSET Users]
    BY <1>4 DEF VoiceInv, RoomsInv
  <2> QED BY <1>4, <2>1, <2>2, RoomsStay DEF VoiceInv, RoomsInv
<1> QED BY <1>1, <1>2, <1>3, <1>4 DEF SetStatus

LEMMA SignalsStep ==
  ASSUME VoiceInv, NEW s \in Slots, RelaySignal(s) \/ GetSignals(s)
  PROVE  RoomsInv'
<1>1. call[s].on \in Rooms /\ call[s].by \in Users
  BY DEF RelaySignal, GetSignals, At, VoiceInv, CallsInv, InOrder, OfRooms
<1>2. Apart(s)
  BY DoneIs, IdleTyped DEF RelaySignal, GetSignals, At, Apart, Ends, VoiceInv
<1>3. CASE RelaySignal(s)
  <2>1. signals' \in [Rooms -> SUBSET Users] /\ UNCHANGED <<room, seats, worn>>
    BY <1>1, <1>3 DEF RelaySignal, VoiceInv, RoomsInv
  <2> QED BY <1>2, <2>1, RoomsStay DEF VoiceInv, RoomsInv
<1>4. CASE GetSignals(s)
  <2>1. UNCHANGED <<room, seats, signals, worn>>
    BY <1>4 DEF GetSignals, voice
  <2> QED BY <1>2, <2>1, RoomsStay DEF VoiceInv, RoomsInv
<1> QED BY <1>3, <1>4

LEMMA LeaveRoomStep ==
  ASSUME VoiceInv, NEW s \in Slots, LeaveRoom(s)
  PROVE  RoomsInv'
<1>1. PICK r \in Rooms, u \in Users : r = call[s].on /\ u = call[s].by
  BY DEF LeaveRoom, At, VoiceInv, CallsInv, InOrder, OfRooms
<1>2. Apart(s)
  BY DoneIs, IdleTyped DEF LeaveRoom, At, Apart, Ends, VoiceInv
<1>3. /\ seats' = [seats EXCEPT ![r] = {p \in @ : p.user # u}]
      /\ UNCHANGED <<room, signals, worn>>
  BY <1>1 DEF LeaveRoom
<1>4. seats' \in [Rooms -> SUBSET Seat] /\ \A q \in Rooms : seats'[q] \subseteq seats[q]
  BY <1>3 DEF VoiceInv, RoomsInv
<1>5. ASSUME NEW q \in Rooms
      PROVE  RoomInv(q)'
  <2>1. RoomInv(q) /\ room[q] \in Room
    BY DEF VoiceInv, RoomsInv
  <2>2. /\ room[q].status = "none" => room[q].host = NoOne
        /\ room[q].host = NoOne => seats'[q] = {}
    BY <1>4, <2>1 DEF RoomInv
  <2>3. /\ Entered(q, "seats")' = Entered(q, "seats")
        /\ Entered(q, "peak")' = Entered(q, "peak")
        /\ \A m \in Entered(q, "peak") : call'[m].seen = call[m].seen
    BY <1>2, EnteredStays DEF Apart
  <2> QED BY <1>3, <1>4, <2>1, <2>2, <2>3, RoomStays DEF VoiceInv
<1> QED BY <1>3, <1>4, <1>5 DEF VoiceInv, RoomsInv

\* The other rooms, in a step of a join of room r.
LEMMA OthersStay ==
  ASSUME VoiceInv, NEW s \in Slots, NEW r \in Rooms, call[s].on = r, Touches(s),
         call'[s] = Idle \/ Same(s), NEW q \in Rooms, q # r,
         room'[q] = room[q], seats'[q] = seats[q], q \in worn => q \in worn'
  PROVE  RoomInv(q)'
<1>1. RoomInv(q) /\ room[q] \in Room
  BY DEF VoiceInv, RoomsInv
<1>2. /\ room[q].status = "none" => room[q].host = NoOne
      /\ room[q].host = NoOne => seats[q] = {}
  BY <1>1 DEF RoomInv
<1>3. call[s].on # q /\ call'[s].on # q
  BY IdleTyped, CommunityAssumption DEF Same
<1>4. /\ Entered(q, "seats")' = Entered(q, "seats")
      /\ Entered(q, "peak")' = Entered(q, "peak")
      /\ \A m \in Entered(q, "peak") : call'[m].seen = call[m].seen
  BY <1>3, EnteredStays
<1> QED BY <1>1, <1>2, <1>4, RoomStays DEF VoiceInv

LEMMA JoinRoomStep ==
  ASSUME VoiceInv, NEW s \in Slots, JoinRoom(s)
  PROVE  RoomsInv'
<1>1. PICK r \in Rooms, u \in Users : r = call[s].on /\ u = call[s].by
  BY DEF JoinRoom, At, VoiceInv, CallsInv, InOrder, OfRooms
<1>2. RoomInv(r) /\ room[r] \in Room /\ IsFiniteSet(seats[r]) /\ call[s].op = "enter"
  BY DEF VoiceInv, RoomsInv, RoomInv, JoinRoom, At
<1>3. CASE At(s, "enter", "room") /\ Done(s) /\ UNCHANGED voice
  <2>1. Apart(s)
    BY <1>3, DoneIs, IdleTyped DEF At, Apart, Ends, VoiceInv
  <2> QED BY <1>3, <2>1, RoomsStay DEF VoiceInv, RoomsInv, voice
<1>4. CASE /\ At(s, "enter", "room") /\ room[r].host # NoOne /\ To(s, "seats")
           /\ seats' = [seats EXCEPT ![r] =
                @ \cup {[user |-> u, role |-> call[s].role,
                         n |-> Cardinality({p \in seats[r] : p.user = u})]}]
           /\ UNCHANGED <<room, signals, worn>>
  <2> DEFINE seat == [user |-> u, role |-> call[s].role,
                      n |-> Cardinality({p \in seats[r] : p.user = u})]
  <2>1. Moves(s, "seats")
    BY <1>4, ToIs DEF VoiceInv, Points
  <2>2. seat \in Seat
    <3>1. Cardinality({p \in seats[r] : p.user = u}) \in Nat
      BY <1>2, FS_Subset, FS_CardinalityType
    <3>2. call[s].role \in Roles
      BY DEF VoiceInv, CallsInv, Called
    <3> QED BY <3>1, <3>2 DEF Seat
  <2>3. seats' = [seats EXCEPT ![r] = @ \cup {seat}]
    BY <1>4
  <2> HIDE DEF seat
  <2>4. seats' \in [Rooms -> SUBSET Seat] /\ seats'[r] = seats[r] \cup {seat}
    BY <2>2, <2>3 DEF VoiceInv, RoomsInv
  <2>5. RoomInv(r)'
    <3>1. IsFiniteSet(seats'[r])
      BY <1>2, <2>4, FS_AddElement
    <3>2. s \in Entered(r, "seats")'
      BY <1>1, <1>2, <2>1 DEF Entered, At, Moves, Same
    <3>3. room'[r].host # NoOne /\ (room'[r].status = "none" => room'[r].host = NoOne)
      BY <1>2, <1>4 DEF RoomInv
    <3> QED BY <3>1, <3>2, <3>3 DEF RoomInv
  <2>6. ASSUME NEW q \in Rooms, q # r
        PROVE  RoomInv(q)'
    <3>1. seats'[q] = seats[q]
      BY <2>3, <2>6 DEF VoiceInv, RoomsInv
    <3> QED BY <1>1, <1>4, <2>1, <2>6, <3>1, OthersStay DEF Moves
  <2> QED BY <1>4, <2>4, <2>5, <2>6 DEF VoiceInv, RoomsInv
<1>5. CASE /\ At(s, "enter", "seats") /\ UNCHANGED <<room, seats, signals>> /\ worn' = worn \ {r}
           /\ call' = [call EXCEPT ![s].at = "peak", ![s].seen = [x \in Roles |-> Sitting(r, x)]]
  <2>1. SeatsCount
    BY DEF VoiceInv, RoomsInv, RoomInv, SeatsCount
  <2>2. /\ Touches(s) /\ Same(s) /\ call'[s].at = "peak"
        /\ \A x \in Roles : call'[s].seen[x] = Sitting(r, x)
    BY <1>1, <1>5, <2>1, SeatsRead DEF VoiceInv
  <2>3. RoomInv(r)'
    <3>1. s \in Entered(r, "peak")'
      BY <1>1, <1>2, <2>2 DEF Entered, At, Same
    <3>2. ASSUME NEW x \in Roles
          PROVE  Covered(r, x)'
      <4>1. Sitting(r, x)' = Sitting(r, x) /\ Sitting(r, x) \in Nat
        BY <1>2, <1>5, SittingTyped DEF Sitting
      <4>2. Sitting(r, x)' =< call'[s].seen[x]
        BY <2>2, <4>1
      <4> QED BY <3>1, <4>2 DEF Covered
    <3>3. /\ IsFiniteSet(seats[r]) /\ (room[r].status = "none" => room[r].host = NoOne)
          /\ room[r].host = NoOne => seats[r] = {}
      BY <1>2 DEF RoomInv
    <3> QED BY <1>5, <3>2, <3>3 DEF RoomInv
  <2>4. ASSUME NEW q \in Rooms, q # r
        PROVE  RoomInv(q)'
    BY <1>1, <1>5, <2>2, <2>4, OthersStay
  <2> QED BY <1>5, <2>3, <2>4 DEF VoiceInv, RoomsInv
<1>6. CASE /\ At(s, "enter", "peak") /\ Done(s)
           /\ room' = IF room[r].host = NoOne THEN room ELSE [room EXCEPT ![r].peak = PeakAfter(s)]
           /\ UNCHANGED <<seats, signals, worn>>
  <2> DEFINE row == [room[r] EXCEPT !.peak = PeakAfter(s)]
  <2>1. Ends(s) /\ s \in Entered(r, "peak")
    BY <1>1, <1>6, DoneIs DEF VoiceInv, Entered
  <2>2. /\ PeakAfter(s) \in [Roles -> Nat]
        /\ \A x \in Roles : /\ PeakAfter(s)[x] >= room[r].peak[x]
                            /\ PeakAfter(s)[x] >= call[s].seen[x]
    <3>1. /\ \A x \in Roles : room[r].peak[x] \in Nat
          /\ \A x \in Roles : call[s].seen[x] \in Nat
      BY <1>2 DEF Room, VoiceInv, CallsInv, Called
    <3> QED BY <1>1, <3>1 DEF PeakAfter, Greatest
  <2>3. row \in Room /\ row.peak = PeakAfter(s) /\ row.host = room[r].host
        /\ row.status = room[r].status
    BY <1>2, <2>2 DEF Room
  <2>4. \/ room' = room /\ room[r].host = NoOne
       \/ room' = [room EXCEPT ![r] = row]
    BY <1>6
  <2> HIDE DEF row
  <2>5. /\ room' \in [Rooms -> Room]
        /\ \/ room' = room /\ room[r].host = NoOne
           \/ room'[r] = row
        /\ \A q \in Rooms : q # r => room'[q] = room[q]
    BY <2>3, <2>4 DEF VoiceInv, RoomsInv
  <2>6. /\ Entered(r, "seats")' = Entered(r, "seats")
        /\ Entered(r, "peak")' = Entered(r, "peak") \ {s}
        /\ \A m \in Entered(r, "peak") : m # s => call'[m].seen = call[m].seen
    BY <1>6, <2>1, IdleTyped DEF Entered, Ends, Touches, At
  <2>7. RoomInv(r)'
    <3>1. CASE room[r].host = NoOne
      BY <1>2, <1>6, <2>3, <2>5, <3>1, RoomEmpty DEF RoomInv
    <3>2. CASE room'[r] = row /\ room[r].host # NoOne
      <4>1. ASSUME NEW x \in Roles, Covered(r, x)
            PROVE  Covered(r, x)'
        <5>1. Sitting(r, x)' = Sitting(r, x) /\ Sitting(r, x) \in Nat
          BY <1>2, <1>6, SittingTyped DEF Sitting
        <5>2. /\ room[r].peak[x] \in Nat /\ PeakAfter(s)[x] \in Nat /\ call[s].seen[x] \in Nat
              /\ room'[r].peak[x] = PeakAfter(s)[x] /\ PeakAfter(s)[x] >= room[r].peak[x]
              /\ PeakAfter(s)[x] >= call[s].seen[x]
          BY <1>2, <2>2, <2>3, <3>2 DEF Room, VoiceInv, CallsInv, Called
        <5>3. CASE Sitting(r, x) =< room[r].peak[x] \/ Sitting(r, x) =< call[s].seen[x]
          <6>1. Sitting(r, x) =< room'[r].peak[x]
            <7> HIDE DEF Sitting
            <7> QED BY <5>1, <5>2, <5>3
          <6> QED BY <5>1, <6>1 DEF Covered
        <5>4. ASSUME NEW m \in Entered(r, "peak"), m # s, Sitting(r, x) =< call[m].seen[x]
              PROVE  Covered(r, x)'
          <6>1. m \in Entered(r, "peak")' /\ Sitting(r, x)' =< call'[m].seen[x]
            BY <2>6, <5>1, <5>4
          <6> QED BY <6>1 DEF Covered
        <5> QED BY <4>1, <5>3, <5>4 DEF Covered
      <4>2. Entered(r, "seats") # {} \/ (\A x \in Roles : Covered(r, x)) \/ r \in worn
        BY <1>2 DEF RoomInv
      <4>3. (Entered(r, "seats") # {})' \/ (\A x \in Roles : Covered(r, x))' \/ r \in worn'
        BY <1>6, <2>6, <4>1, <4>2
      <4>4. /\ IsFiniteSet(seats'[r]) /\ room'[r].host # NoOne
            /\ room'[r].status # "none"
        BY <1>2, <1>6, <2>3, <3>2 DEF RoomInv
      <4> QED BY <4>3, <4>4 DEF RoomInv
    <3> QED BY <2>5, <3>1, <3>2
  <2>8. ASSUME NEW q \in Rooms, q # r
        PROVE  RoomInv(q)'
    BY <1>1, <1>6, <2>1, <2>5, <2>8, OthersStay DEF Ends
  <2> QED BY <1>6, <2>5, <2>7, <2>8 DEF VoiceInv, RoomsInv
<1> QED BY <1>1, <1>3, <1>4, <1>5, <1>6 DEF JoinRoom, voice

LEMMA EraseRooms ==
  ASSUME VoiceInv, NEW u \in Users, Erase(u)
  PROVE  RoomsInv'
<1> DEFINE row == [NoRoom EXCEPT !.status = "erased"]
<1>1. /\ room' = [r \in Rooms |-> IF room[r].host = u THEN row ELSE room[r]]
      /\ seats' = [r \in Rooms |-> IF room[r].host = u THEN {}
                                  ELSE {p \in seats[r] : p.user # u}]
      /\ UNCHANGED <<signals, worn, call>>
  BY DEF Erase
<1>2. row \in Room /\ row.status = "erased" /\ row.host = NoOne
  BY DEF NoRoom, Room
<1> HIDE DEF row
<1>3. room' \in [Rooms -> Room] /\ seats' \in [Rooms -> SUBSET Seat]
  BY <1>1, <1>2 DEF VoiceInv, RoomsInv
<1>4. ASSUME NEW r \in Rooms
      PROVE  RoomInv(r)'
  <2>1. RoomInv(r) /\ room[r] \in Room
    BY DEF VoiceInv, RoomsInv
  <2>2. CASE room[r].host = u
    <3>1. room'[r] = row /\ seats'[r] = {}
      BY <1>1, <2>2
    <3> QED BY <1>2, <3>1, RoomEmpty
  <2>3. CASE room[r].host # u
    <3>1. room'[r] = room[r] /\ seats'[r] \subseteq seats[r]
      BY <1>1, <2>3
    <3>2. /\ room[r].status = "none" => room[r].host = NoOne
          /\ room[r].host = NoOne => seats'[r] = {}
      BY <2>1, <3>1 DEF RoomInv
    <3>3. /\ Entered(r, "seats")' = Entered(r, "seats")
          /\ Entered(r, "peak")' = Entered(r, "peak")
          /\ \A m \in Entered(r, "peak") : call'[m].seen = call[m].seen
      BY <1>1 DEF Entered, At
    <3> QED BY <1>1, <2>1, <3>1, <3>2, <3>3, RoomStays DEF VoiceInv
  <2> QED BY <2>2, <2>3
<1> QED BY <1>1, <1>3, <1>4 DEF VoiceInv, RoomsInv

LEMMA EnteringIs ==
  ASSUME NEW r
  PROVE  Entering(r) = Entered(r, "seats") \cup Entered(r, "peak")
BY DEF Entering, Entered, At

\* A restart ends the joins; the rooms they were of are worn.
LEMMA RestartRooms ==
  ASSUME VoiceInv, Restart
  PROVE  RoomsInv'
<1>1. /\ \A s \in Slots : call'[s] = Idle
      /\ worn' = worn \cup {r \in Rooms : Entering(r) # {}}
      /\ signals' = [r \in Rooms |-> {}] /\ UNCHANGED <<room, seats>>
  BY DEF Restart
<1>2. ASSUME NEW r \in Rooms
      PROVE  RoomInv(r)'
  <2>1. RoomInv(r)
    BY DEF VoiceInv, RoomsInv
  <2>2. Entered(r, "seats")' = {} /\ Entered(r, "peak")' = {}
    BY <1>1, IdleTyped DEF Entered, At
  <2>3. CASE r \in worn'
    <3>1. /\ IsFiniteSet(seats[r]) /\ (room[r].status = "none" => room[r].host = NoOne)
          /\ room[r].host = NoOne => seats[r] = {}
      BY <2>1 DEF RoomInv
    <3> QED BY <1>1, <2>2, <2>3, <3>1 DEF RoomInv
  <2>4. CASE r \notin worn'
    <3>1. Entered(r, "seats") = {} /\ Entered(r, "peak") = {} /\ r \notin worn
      BY <1>1, <2>4, EnteringIs
    <3>2. \A x \in Roles : Covered(r, x)
      BY <2>1, <3>1 DEF RoomInv
    <3> QED BY <1>1, <2>1, <2>2, <2>4, <3>1, <3>2, RoomStays DEF VoiceInv, RoomsInv, RoomInv
  <2> QED BY <2>3, <2>4
<1>3. signals' \in [Rooms -> SUBSET Users] /\ worn' \subseteq Rooms
  BY <1>1 DEF VoiceInv, RoomsInv
<1> QED BY <1>1, <1>2, <1>3 DEF VoiceInv, RoomsInv

\* A join of a room that fails wears it.
LEMMA FailureRooms ==
  ASSUME VoiceInv, NEW s \in Slots, StatementFails(s)
  PROVE  RoomsInv'
<1>1. /\ Ends(s) /\ UNCHANGED <<room, seats, signals>>
      /\ worn' = worn \cup {r \in Rooms : s \in Entering(r)}
  BY DoneIs DEF StatementFails, VoiceInv
<1>2. ASSUME NEW r \in Rooms
      PROVE  RoomInv(r)'
  <2>1. /\ RoomInv(r) /\ room[r] \in Room
        /\ r \in worn => r \in worn'
        /\ room[r].status = "none" => room[r].host = NoOne
        /\ room[r].host = NoOne => seats[r] = {}
    BY <1>1 DEF VoiceInv, RoomsInv, RoomInv
  <2>2. CASE s \in Entering(r)
    <3>1. r \in worn'
      BY <1>1, <2>2
    <3>2. /\ Entered(r, "seats")' = Entered(r, "seats") \ {s}
          /\ Entered(r, "peak")' = Entered(r, "peak") \ {s}
      BY <1>1, IdleTyped DEF Entered, At, Ends, Touches
    <3> QED BY <1>1, <2>1, <3>1, <3>2 DEF RoomInv
  <2>3. CASE s \notin Entering(r)
    <3>1. call[s].op = "enter" /\ call[s].on = r => call[s].at \notin {"seats", "peak"}
      BY <2>3 DEF Entering, At
    <3>2. /\ Touches(s)
          /\ call'[s].op = "enter" /\ call'[s].on = r => call'[s].at \notin {"seats", "peak"}
      BY <1>1, IdleTyped DEF Ends
    <3> QED BY <1>1, <2>1, <3>1, <3>2, EnteredStays, RoomStays DEF VoiceInv
  <2> QED BY <2>2, <2>3
<1> QED BY <1>1, <1>2 DEF VoiceInv, RoomsInv

LEMMA RoomsStep ==
  ASSUME VoiceInv, SeatsCount, [Next]_vars
  PROVE  RoomsInv'
<1>1. ASSUME NEW s \in Slots, Step(s)
      PROVE  RoomsInv'
  <2>1. CASE \/ CreateRoom(s) \/ StartRoom(s) \/ EndRoom(s) \/ JoinRoom(s)
             \/ LeaveRoom(s) \/ RelaySignal(s) \/ GetSignals(s)
    BY <2>1, CreateRoomStep, StatusStep, JoinRoomStep, LeaveRoomStep, SignalsStep
  <2>2. CASE UNCHANGED voice /\ call[s].op # "enter"
    <3>1. Touches(s) /\ (call'[s] = Idle \/ Same(s))
      BY <1>1, StepIs DEF VoiceInv
    <3>2. Apart(s)
      BY <2>2, <3>1, IdleTyped DEF Apart, Same
    <3> QED BY <2>2, <3>2, RoomsStay DEF VoiceInv, RoomsInv, voice
  <2>3. \/ CreateRoom(s) \/ StartRoom(s) \/ EndRoom(s) \/ JoinRoom(s)
        \/ LeaveRoom(s) \/ RelaySignal(s) \/ GetSignals(s)
        \/ UNCHANGED voice /\ call[s].op # "enter"
    <3>1. CASE FindByHandle(s)
      BY <3>1 DEF FindByHandle, VoiceInv, CallsInv, InOrder, OfRooms
    <3>2. CASE Relate(s)
      BY <3>2 DEF Relate, VoiceInv, CallsInv, InOrder, OfRooms
    <3>3. CASE (CreateGroup(s) \/ JoinGroup(s)) /\ UNCHANGED voice
      BY <3>3 DEF CreateGroup, JoinGroup, At
    <3>4. CASE GetOrCreateThread(s) /\ UNCHANGED voice
      BY <3>4 DEF GetOrCreateThread, At
    <3> QED BY <1>1, <3>1, <3>2, <3>3, <3>4 DEF Step
  <2> QED BY <2>1, <2>2, <2>3
<1>2. ASSUME NEW s \in Slots, Asking(s)
      PROVE  RoomsInv'
  <2>1. Touches(s) /\ call[s].at = "idle" /\ UNCHANGED voice
        /\ call'[s].at \in {"find", "look", "group", "room"}
    BY <1>2, AskingIs DEF VoiceInv
  <2>2. Apart(s)
    BY <2>1 DEF Apart
  <2> QED BY <2>1, <2>2, RoomsStay DEF VoiceInv, RoomsInv, voice
<1>3. CASE UNCHANGED vars
  <2>1. UNCHANGED <<room, seats, signals, worn, call>>
    BY <1>3 DEF vars, voice
  <2>2. ASSUME NEW r \in Rooms
        PROVE  RoomInv(r)'
    <3>1. /\ Entered(r, "seats")' = Entered(r, "seats")
          /\ Entered(r, "peak")' = Entered(r, "peak")
      BY <2>1 DEF Entered, At
    <3> QED BY <2>1, <3>1, RoomStays DEF VoiceInv, RoomsInv, RoomInv
  <2> QED BY <2>1, <2>2 DEF VoiceInv, RoomsInv
<1> QED BY <1>1, <1>2, <1>3, EraseRooms, FailureRooms, RestartRooms DEF Next, Asking

-----------------------------------------------------------------------------
LEMMA StepsInit == Init => StepsInv
<1> SUFFICES ASSUME Init
             PROVE  StepsInv
  OBVIOUS
<1>1. CallsInv
  BY IdleTyped, CommunityAssumption DEF Init, CallsInv
<1>2. RelationsInv
  BY DEF Init, RelationsInv
<1>3. GroupsInv
  <2>1. NoGroup \in [creator : Users \cup {NoOne}, count : Nat, private : BOOLEAN]
        /\ NoGroup.creator = NoOne
    BY DEF NoGroup
  <2>2. ASSUME NEW g \in Groups
        PROVE  GroupInv(g)
    BY <2>1, IdleTyped, FS_EmptySet DEF Init, GroupInv, Owning, At, OfGroups
  <2> QED BY <2>1, <2>2 DEF Init, GroupsInv
<1>4. ThreadsInv
  BY IdleTyped, FS_EmptySet DEF Init, ThreadsInv
<1>5. RoomsInv
  <2>1. NoRoom \in Room /\ NoRoom.host = NoOne /\ NoRoom.status = "none"
        /\ \A x \in Roles : NoRoom.peak[x] = 0
    BY DEF NoRoom, Room
  <2>2. ASSUME NEW r \in Rooms
        PROVE  RoomInv(r)
    <3>1. seats[r] = {} /\ room[r] = NoRoom /\ IsFiniteSet(seats[r])
      BY FS_EmptySet DEF Init
    <3>2. ASSUME NEW x \in Roles
          PROVE  Covered(r, x)
      <4>1. Sitting(r, x) = Cardinality({})
        BY <3>1 DEF Sitting
      <4> QED BY <2>1, <3>1, <4>1, FS_EmptySet DEF Covered
    <3> QED BY <2>1, <3>1, <3>2 DEF RoomInv
  <2> QED BY <2>1, <2>2 DEF Init, RoomsInv
<1> QED BY <1>1, <1>2, <1>3, <1>4, <1>5 DEF StepsInv

LEMMA StepsInductive == StepsInv /\ [Next]_vars => StepsInv'
<1> SUFFICES ASSUME StepsInv, [Next]_vars
             PROVE  StepsInv'
  OBVIOUS
<1>1. CallsInv /\ RelationsInv /\ GroupsInv /\ ThreadsInv /\ RoomsInv
  BY DEF StepsInv
<1>2. SeatsCount
  BY <1>1 DEF RoomsInv, RoomInv, SeatsCount
<1>3. CountsInv /\ VoiceInv
  BY <1>1, <1>2 DEF CountsInv, VoiceInv
<1> QED BY <1>1, <1>2, <1>3, CallsStep, RelationsStep, GroupsStep, ThreadsStep, RoomsStep
        DEF StepsInv

LEMMA StepsAreRight == Spec => []StepsInv
BY StepsInit, StepsInductive, PTL DEF Spec

LEMMA StepsAreSafe == StepsInv => CommunityInv
<1> SUFFICES ASSUME StepsInv
             PROVE  CommunityInv
  OBVIOUS
<1>1. TypeOK
  <2>1. /\ users \subseteq Users /\ follows \subseteq Users \X Users /\ blocked \subseteq follows
    BY DEF StepsInv, RelationsInv
  <2>2. /\ group \in [Groups -> [creator : Users \cup {NoOne}, count : Nat, private : BOOLEAN]]
        /\ members \in [Groups -> SUBSET Users] /\ owned \subseteq Groups
    BY DEF StepsInv, GroupsInv
  <2>3. /\ room \in [Rooms -> Room] /\ seats \in [Rooms -> SUBSET Seat]
        /\ signals \in [Rooms -> SUBSET Users] /\ worn \subseteq Rooms
    BY DEF StepsInv, RoomsInv
  <2>4. \A t \in threads : t.who \subseteq Users /\ t.by \in t.who /\ t.n \in Nat
    BY DEF StepsInv, ThreadsInv
  <2>5. /\ \A s \in Slots : call[s].by \in Users \cup {NoOne}
        /\ requests \in 0 .. MaxRequests /\ faults \in 0 .. MaxFaults
    BY DEF StepsInv, CallsInv, Called
  <2> QED BY <2>1, <2>2, <2>3, <2>4, <2>5 DEF TypeOK, Room, Seat
<1>2. MembersAreCounted
  <2> SUFFICES ASSUME NEW g \in Groups, group[g].creator # NoOne
               PROVE  group[g].count + Counting(g) + lost[g]
                        = Cardinality(members[g]) + erased[g] + Owed(g)
    BY DEF MembersAreCounted, Owed
  <2>1. GroupInv(g) /\ Counting(g) = Cardinality(Counted(g))
    BY CountedFinite DEF StepsInv, GroupsInv
  <2> QED BY <2>1 DEF GroupInv
<1>3. SecondThreadsOverlap
  BY DEF StepsInv, ThreadsInv, SecondThreadsOverlap
<1>4. PeaksCoverSeats
  <2> SUFFICES ASSUME NEW r \in Rooms, Entering(r) = {}, r \notin worn, NEW x \in Roles
               PROVE  room[r].peak[x] >= Sitting(r, x)
    BY DEF PeaksCoverSeats
  <2>1. RoomInv(r) /\ room[r] \in Room
    BY DEF StepsInv, RoomsInv
  <2>2. Entered(r, "seats") = {} /\ Entered(r, "peak") = {}
    BY EnteringIs
  <2>3. Sitting(r, x) =< room[r].peak[x]
    BY <2>1, <2>2 DEF RoomInv, Covered
  <2>4. Sitting(r, x) \in Nat /\ room[r].peak[x] \in Nat
    BY <2>1, SittingTyped DEF RoomInv, Room
  <2> HIDE DEF Sitting
  <2> QED BY <2>3, <2>4
<1> QED BY <1>1, <1>2, <1>3, <1>4 DEF CommunityInv

\* In every state what the tables and the maps say of each other holds: member_count
\* is off by what was cut loose from it and by nothing else (group.service.ts), a
\* second thread of a pair comes of overlapping requests only (dm.service.ts), and the
\* peaks of a room cover its seats (voice.service.ts); whatever statements fail.
THEOREM CommunityIsSafe == Spec => []CommunityInv
BY StepsAreRight, StepsAreSafe, PTL

\* A pair loses its block in a step of its own mute, unmute, unblock or unfollow, or
\* of an erasure (identity.service.ts).
THEOREM BlocksOutlive == Spec => BlocksOutliveFollows
<1> DEFINE A == \A p \in blocked \ blocked' :
                  \/ faults' # faults
                  \/ \E s \in Slots : /\ call[s].at = "write" /\ <<call[s].by, call[s].on>> = p
                                      /\ call[s].op \in {"mute", "unmute", "unblock", "unfollow"}
<1>1. ASSUME StepsInv, [Next]_vars
      PROVE  [A]_vars
  <2>1. CASE UNCHANGED blocked
    BY <2>1
  <2>2. ASSUME NEW s \in Slots, Relate(s)
        PROVE  A
    <3>1. call[s].at = "write"
      BY <2>2 DEF Relate
    <3>2. call[s].op \in {"follow", "unfollow", "mute", "unmute", "block", "unblock"}
      BY <1>1, <3>1, Writing DEF StepsInv
    <3>3. blocked' = blocked \/ blocked' = BlockedAfter(s, <<call[s].by, call[s].on>>)
      BY <2>2 DEF Relate, relations
    <3> QED BY <3>1, <3>2, <3>3 DEF BlockedAfter
  <2>3. ASSUME NEW u \in Users, Erase(u)
        PROVE  A
    <3>1. faults' # faults
      BY <1>1, <2>3 DEF Erase, Fault, StepsInv, CallsInv
    <3> QED BY <3>1
  <2>4. ASSUME NEW s \in Slots, Step(s)
        PROVE  Relate(s) \/ UNCHANGED blocked
    BY <2>4 DEF Step, FindByHandle, relations
  <2>5. ASSUME NEW s \in Slots, Asking(s)
        PROVE  UNCHANGED blocked
    BY <1>1, <2>5, AskingIs DEF StepsInv, relations
  <2>6. Restart \/ (\E s \in Slots : StatementFails(s)) => UNCHANGED blocked
    BY DEF Restart, StatementFails, relations
  <2>7. UNCHANGED vars => UNCHANGED blocked
    BY DEF vars, relations
  <2> HIDE DEF A
  <2>8. UNCHANGED blocked => A
    BY DEF A
  <2> QED BY <1>1, <2>2, <2>3, <2>4, <2>5, <2>6, <2>7, <2>8 DEF Next, Asking
<1>2. BlocksOutliveFollows <=> [][A]_vars
  BY DEF BlocksOutliveFollows
<1> QED BY <1>1, <1>2, StepsAreRight, PTL DEF Spec

----------------------------------------------------------------------------
(* Digital wellness                                                        *)

\* Values of some of the settings, and of all of them.
Parts == UNION {[D -> Nat] : D \in SUBSET Fields}
Chosen(v) == \A f \in DOMAIN v : v[f] \in Values(f)

\* What is shown of a field nobody edited there was last chosen, unless it is
\* stale already or has been edited since it was read.
Shown(vals, edited, base) ==
  \A f \in DOMAIN vals \ edited : vals[f] = asked[f] \/ f \in stale \/ editedAt[f] > base

SettingsTyped ==
  /\ settings = NoRow \/ (settings \in [Fields -> Nat] /\ Chosen(settings))
  /\ screen \in [vals : Parts, edited : SUBSET Fields, base : Nat]
  /\ save \in [Devices -> [at : {"idle", "look", "insert", "update"}, vals : Parts,
                           edited : SUBSET Fields, base : Nat]]
  /\ asked \in [Fields -> Nat] /\ editedAt \in [Fields -> Nat] /\ edits \in Nat
  /\ stale \subseteq Fields /\ \A f \in Fields : editedAt[f] <= edits

ScreenRight ==
  /\ screen.vals = NoRow \/ (DOMAIN screen.vals = Fields /\ Chosen(screen.vals))
  /\ screen.base <= edits
  /\ Shown(screen.vals, screen.edited \cup save["web"].edited, screen.base)

SaveRight(x) ==
  LET r == save[x] IN
  /\ r.at = "idle" => r.edited = {}
  /\ r.at # "idle" =>
       /\ r.edited \subseteq DOMAIN r.vals /\ Chosen(r.vals) /\ r.base <= edits
       /\ Shown(r.vals, r.edited, r.base)
       /\ x = "web" => screen.vals = r.vals /\ DOMAIN r.vals = Fields

SettingsInv ==
  /\ SettingsTyped /\ EditsStay /\ ScreenRight
  /\ \A x \in Devices : SaveRight(x)

\* What a tick may have summed.
Sums == {0} \cup {Sum(count, d) : count \in [Days -> Nat], d \in Days}
Tick == [at : {"idle", "settings", "log", "today", "week", "parent"}, daily : Nat, weekly : Nat,
         day : Days, used : Nat, sum : Sums]

Answers == {"none", "hard", "daily", "weekly"}

\* The ticks that have not counted yet.
Pending == {t \in Tabs : tick[t].at \in {"settings", "log"}}

DaysTyped ==
  /\ minutes \in [Days -> Nat] /\ spent = minutes /\ today \in Days /\ ticks \in 0 .. MaxTicks
  /\ tick \in [Tabs -> Tick] /\ cut \subseteq Days
  /\ limits \in [Days -> [Fields -> Nat]] /\ told \in [Days -> SUBSET Answers]
  /\ \A t \in Tabs : tick[t].at \in {"today", "week", "parent"} => tick[t].day <= today

TicksAreCounted ==
  /\ IsFiniteSet(Pending)
  /\ \A d \in Days : minutes[d] + Cardinality(Pending) <= ticks

\* A day with minutes has begun, and the tick that counted the last of them knew
\* its limits.
DaysHaveBegun ==
  \A d \in Days : /\ spent[d] # 0 => d <= today
                  /\ spent[d] = 0 => limits[d]["daily"] = 0

Told(d) ==
  /\ limits[d]["daily"] # 0 /\ spent[d] >= limits[d]["daily"] => told[d] \cap {"daily", "hard"} # {}
  /\ limits[d]["weekly"] # 0 /\ Sum(spent, d) >= limits[d]["weekly"] => told[d] \ {"none"} # {}

\* Tick t was the last to count a minute of day d, and is about to tell.
Telling(t, d) ==
  LET r == tick[t] IN
  /\ r.at \in {"today", "week", "parent"} /\ r.day = d
  /\ r.daily = limits[d]["daily"] /\ r.weekly = limits[d]["weekly"]
  /\ today = d => /\ r.at \in {"week", "parent"} => r.used = spent[d]
                  /\ r.at = "parent" => r.sum = Sum(spent, d)

SomebodyTells ==
  \A d \in Days \ cut : spent[d] # 0 => Told(d) \/ \E t \in Tabs : Telling(t, d)

DaysInv == DaysTyped /\ TicksAreCounted /\ DaysHaveBegun /\ SomebodyTells

ParentsInv ==
  parental \in [Guardians -> [limit : Limits, enabled : BOOLEAN]] /\ overlay \subseteq Tabs

\* The inductive invariant of Wellness.
UsageInv == SettingsInv /\ DaysInv /\ ParentsInv

LEMMA PartsAre ==
  ASSUME NEW v
  PROVE  v \in Parts <=> \E D \in SUBSET Fields : v \in [D -> Nat]
BY DEF Parts

LEMMA PartsHave ==
  ASSUME NEW v \in Parts
  PROVE  DOMAIN v \subseteq Fields /\ \A f \in DOMAIN v : v[f] \in Nat
<1>1. PICK D \in SUBSET Fields : v \in [D -> Nat]
  BY PartsAre
<1> QED BY <1>1

LEMMA WholeIsPart ==
  ASSUME NEW v \in [Fields -> Nat]
  PROVE  v \in Parts /\ DOMAIN v = Fields /\ v # NoRow
<1>1. v \in Parts
  BY PartsAre
<1>2. "timer" \in Fields /\ DOMAIN NoRow = {}
  BY DEF Fields, NoRow
<1> QED BY <1>1, <1>2

LEMMA EmptyIsPart == NoRow \in Parts /\ DOMAIN NoRow = {} /\ Chosen(NoRow)
<1>1. NoRow \in [{} -> Nat] /\ DOMAIN NoRow = {}
  BY DEF NoRow
<1> QED BY <1>1, PartsAre DEF Chosen

LEMMA ValuesAreNumbers ==
  ASSUME NEW f
  PROVE  Values(f) \subseteq Nat
BY WellnessAssumption DEF Values

LEMMA SettingsRead ==
  ASSUME SettingsTyped
  PROVE  GetSettings \in [Fields -> Nat] /\ Chosen(GetSettings)
<1>1. Defaults \in [Fields -> Nat] /\ Chosen(Defaults)
  BY WellnessAssumption DEF Defaults, Chosen, Values
<1> QED BY <1>1 DEF GetSettings, SettingsTyped

LEMMA NothingSaved ==
  /\ NoSave.at = "idle" /\ NoSave.edited = {}
  /\ NoSave \in [at : {"idle", "look", "insert", "update"}, vals : Parts,
                 edited : SUBSET Fields, base : Nat]
BY EmptyIsPart DEF NoSave

LEMMA SettingsStay ==
  ASSUME SettingsInv, UNCHANGED <<settings, screen, save, past>>
  PROVE  SettingsInv'
BY DEF SettingsInv, SettingsTyped, EditsStay, ScreenRight, SaveRight, Shown, GetSettings, past

LEMMA LoadPageSets ==
  ASSUME SettingsInv, LoadPage
  PROVE  SettingsInv'
<1>1. /\ screen.vals = NoRow /\ screen' = [vals |-> GetSettings, edited |-> {}, base |-> edits]
      /\ UNCHANGED <<settings, save, asked, editedAt, edits, stale>>
  BY DEF LoadPage, rows, past
<1>2. /\ GetSettings \in [Fields -> Nat] /\ Chosen(GetSettings) /\ GetSettings \in Parts
      /\ DOMAIN GetSettings = Fields
  BY SettingsRead, WholeIsPart DEF SettingsInv
<1>3. SettingsTyped'
  BY <1>1, <1>2 DEF SettingsInv, SettingsTyped
<1>4. GetSettings' = GetSettings
  BY <1>1 DEF GetSettings
<1>5. EditsStay'
  BY <1>1, <1>4 DEF SettingsInv, EditsStay
<1>6. ScreenRight'
  <2>1. \A f \in Fields : GetSettings[f] = asked[f] \/ f \in stale
    BY DEF SettingsInv, EditsStay
  <2>2. /\ screen'.vals = GetSettings /\ screen'.edited = {} /\ screen'.base = edits
    BY <1>1
  <2>3. edits <= edits
    BY DEF SettingsInv, SettingsTyped
  <2> QED BY <1>1, <1>2, <2>1, <2>2, <2>3 DEF ScreenRight, Shown, Chosen
<1>7. ASSUME NEW x \in Devices
      PROVE  SaveRight(x)'
  <2>1. SaveRight(x) /\ save'[x] = save[x]
    BY <1>1 DEF SettingsInv
  <2>2. save[x].at # "idle" => x # "web"
    <3>1. "timer" \in Fields /\ DOMAIN NoRow = {}
      BY DEF Fields, NoRow
    <3> QED BY <1>1, <2>1, <3>1 DEF SaveRight
  <2>3. Shown(save[x].vals, save[x].edited, save[x].base)
          => Shown(save[x].vals, save[x].edited, save[x].base)'
    BY <1>1 DEF Shown
  <2> QED BY <1>1, <2>1, <2>2, <2>3 DEF SaveRight
<1> QED BY <1>3, <1>5, <1>6, <1>7 DEF SettingsInv

LEMMA SaveSets ==
  ASSUME SettingsInv, Save
  PROVE  SettingsInv'
<1>0. PICK f \in Fields : \E v \in Values(f) :
        /\ Send("web", [screen.vals EXCEPT ![f] = v], screen.edited \cup {f}, screen.base)
        /\ screen' = [screen EXCEPT !.vals = [screen.vals EXCEPT ![f] = v], !.edited = {}]
  BY DEF Save
<1>1. PICK v \in Values(f) :
        /\ Send("web", [screen.vals EXCEPT ![f] = v], screen.edited \cup {f}, screen.base)
        /\ screen' = [screen EXCEPT !.vals = [screen.vals EXCEPT ![f] = v], !.edited = {}]
  BY <1>0
<1>2. /\ screen.vals # NoRow
      /\ UNCHANGED <<settings, asked, editedAt, edits, stale>>
  BY DEF Save, rows, past
<1> DEFINE shown == [screen.vals EXCEPT ![f] = v]
           r == [at |-> "look", vals |-> shown, edited |-> screen.edited \cup {f},
                 base |-> screen.base]
<1>3. save' = [save EXCEPT !["web"] = r] /\ save["web"].at = "idle"
  BY <1>1 DEF Send
<1>4. /\ screen.vals \in Parts /\ screen.edited \subseteq Fields /\ screen.base \in Nat
      /\ screen \in [vals : Parts, edited : SUBSET Fields, base : Nat] /\ "web" \in Devices
      /\ screen.base <= edits
  BY DEF SettingsInv, SettingsTyped, Devices, ScreenRight
<1>5. DOMAIN screen.vals = Fields /\ Chosen(screen.vals)
  BY <1>2 DEF SettingsInv, ScreenRight
<1>6. save["web"].edited = {}
  BY <1>3, <1>4 DEF SettingsInv, SaveRight
<1>7. /\ shown \in [Fields -> Nat] /\ DOMAIN shown = Fields /\ Chosen(shown)
      /\ shown \in Parts
  <2>1. screen.vals \in [Fields -> Nat]
    <3>1. PICK D \in SUBSET Fields : screen.vals \in [D -> Nat]
      BY <1>4, PartsAre
    <3> QED BY <3>1, <1>5
  <2>2. v \in Nat
    BY ValuesAreNumbers
  <2>3. shown \in [Fields -> Nat] /\ DOMAIN shown = Fields
    BY <2>1, <2>2
  <2>4. Chosen(shown)
    BY <1>5 DEF Chosen
  <2> QED BY <2>3, <2>4, WholeIsPart
<1>8. Shown(shown, screen.edited \cup {f}, screen.base)
  <2>1. Shown(screen.vals, screen.edited, screen.base)
    BY <1>6 DEF SettingsInv, ScreenRight
  <2> QED BY <2>1, <1>5, <1>7 DEF Shown
<1>9. /\ screen'.vals = shown /\ screen'.edited = {} /\ screen'.base = screen.base
      /\ screen' \in [vals : Parts, edited : SUBSET Fields, base : Nat]
  BY <1>1, <1>4, <1>7
<1>10. /\ r.at = "look" /\ r.vals = shown /\ r.edited = screen.edited \cup {f}
       /\ r.base = screen.base
       /\ r \in [at : {"idle", "look", "insert", "update"}, vals : Parts,
                 edited : SUBSET Fields, base : Nat]
  BY <1>4, <1>7
<1> HIDE DEF shown, r
<1>11. save'["web"] = r /\ \A x \in Devices : x # "web" => save'[x] = save[x]
  BY <1>3, <1>4 DEF SettingsInv, SettingsTyped
<1>12. SettingsTyped'
  <2>1. save' \in [Devices -> [at : {"idle", "look", "insert", "update"}, vals : Parts,
                               edited : SUBSET Fields, base : Nat]]
    BY <1>3, <1>4, <1>10 DEF SettingsInv, SettingsTyped
  <2> QED BY <1>2, <1>9, <2>1 DEF SettingsInv, SettingsTyped
<1>13. EditsStay'
  BY <1>2 DEF SettingsInv, EditsStay, GetSettings
<1>15. ScreenRight'
  <2>1. screen'.vals = shown /\ screen'.edited \cup save'["web"].edited = screen.edited \cup {f}
    BY <1>9, <1>10, <1>11
  <2>2. \A g \in DOMAIN shown \ (screen.edited \cup {f}) :
           shown[g] = asked'[g] \/ g \in stale' \/ editedAt'[g] > screen'.base
    BY <1>2, <1>8, <1>9 DEF Shown
  <2>3. screen'.base <= edits'
    BY <1>2, <1>4, <1>9
  <2> QED BY <1>7, <2>1, <2>2, <2>3 DEF ScreenRight, Shown, Chosen
<1>16. ASSUME NEW x \in Devices
       PROVE  SaveRight(x)'
  <2>1. CASE x = "web"
    <3>1. \A g \in DOMAIN shown \ (screen.edited \cup {f}) :
             shown[g] = asked'[g] \/ g \in stale' \/ editedAt'[g] > screen.base
      BY <1>2, <1>8 DEF Shown
    <3> QED BY <1>2, <1>4, <1>7, <1>9, <1>10, <1>11, <2>1, <3>1 DEF SaveRight, Shown, Chosen
  <2>2. CASE x # "web"
    <3>1. save'[x] = save[x] /\ SaveRight(x)
      BY <1>11, <2>2 DEF SettingsInv
    <3> QED BY <1>2, <2>2, <3>1 DEF SaveRight, Shown, Chosen
  <2> QED BY <2>1, <2>2
<1> QED BY <1>12, <1>13, <1>15, <1>16 DEF SettingsInv

LEMMA ToggleSets ==
  ASSUME SettingsInv, Toggle
  PROVE  SettingsInv'
<1>0. PICK f \in {"daily", "timer"} :
        \E v \in Values(f) : Send("phone", [g \in {f} |-> v], {f}, edits)
  BY DEF Toggle
<1>1. PICK v \in Values(f) : Send("phone", [g \in {f} |-> v], {f}, edits)
  BY <1>0
<1>2. UNCHANGED <<settings, screen, asked, editedAt, edits, stale>>
  BY DEF Toggle, rows, past
<1> DEFINE p == [g \in {f} |-> v]
           r == [at |-> "look", vals |-> p, edited |-> {f}, base |-> edits]
<1>3. save' = [save EXCEPT !["phone"] = r] /\ save["phone"].at = "idle"
  BY <1>1 DEF Send
<1>4. p \in Parts /\ DOMAIN p = {f} /\ Chosen(p)
  <2>1. v \in Nat /\ {f} \subseteq Fields
    BY ValuesAreNumbers DEF Fields
  <2>2. p \in [{f} -> Nat]
    BY <2>1
  <2> QED BY <2>1, <2>2, PartsAre DEF Chosen
<1>5. /\ r.at = "look" /\ r.vals = p /\ r.edited = {f} /\ r.base = edits
      /\ r \in [at : {"idle", "look", "insert", "update"}, vals : Parts,
                edited : SUBSET Fields, base : Nat]
  BY <1>4 DEF SettingsInv, SettingsTyped, Fields
<1> HIDE DEF p, r
<1>6. /\ save'["phone"] = r /\ save'["web"] = save["web"]
      /\ save' \in [Devices -> [at : {"idle", "look", "insert", "update"}, vals : Parts,
                               edited : SUBSET Fields, base : Nat]]
  BY <1>3, <1>5 DEF SettingsInv, SettingsTyped, Devices
<1>7. SettingsTyped'
  BY <1>2, <1>6 DEF SettingsInv, SettingsTyped
<1>8. EditsStay' /\ ScreenRight'
  BY <1>2, <1>6 DEF SettingsInv, EditsStay, ScreenRight, GetSettings, Shown, Chosen
<1>9. ASSUME NEW x \in Devices
      PROVE  SaveRight(x)'
  <2>1. CASE x = "phone"
    <3>1. edits' <= edits'
      BY <1>2 DEF SettingsInv, SettingsTyped
    <3> QED BY <1>2, <1>4, <1>5, <1>6, <2>1, <3>1 DEF SaveRight, Shown, Chosen
  <2>2. CASE x = "web"
    <3>1. save'[x] = save[x] /\ SaveRight(x)
      BY <1>6, <2>2 DEF SettingsInv
    <3> QED BY <1>2, <3>1 DEF SaveRight, Shown, Chosen
  <2> QED BY <2>1, <2>2 DEF Devices
<1> QED BY <1>7, <1>8, <1>9 DEF SettingsInv

LEMMA LookSets ==
  ASSUME SettingsInv, NEW x \in Devices, LookForRow(x)
  PROVE  SettingsInv'
<1>1. PICK a \in {"insert", "update"} : save' = [save EXCEPT ![x].at = a]
  BY DEF LookForRow
<1>2. save[x].at = "look" /\ UNCHANGED <<settings, screen, asked, editedAt, edits, stale>>
  BY DEF LookForRow, rows, past
<1>3. /\ save' \in [Devices -> [at : {"idle", "look", "insert", "update"}, vals : Parts,
                               edited : SUBSET Fields, base : Nat]]
      /\ \A y \in Devices : /\ save'[y].vals = save[y].vals /\ save'[y].edited = save[y].edited
                            /\ save'[y].base = save[y].base
                            /\ save'[y].at = "idle" <=> save[y].at = "idle"
  BY <1>1, <1>2 DEF SettingsInv, SettingsTyped
<1>4. SettingsTyped'
  BY <1>2, <1>3 DEF SettingsInv, SettingsTyped
<1>5. EditsStay' /\ ScreenRight'
  BY <1>2, <1>3 DEF SettingsInv, EditsStay, ScreenRight, GetSettings, Shown, Chosen, Devices
<1>6. ASSUME NEW y \in Devices
      PROVE  SaveRight(y)'
  <2>1. SaveRight(y)
    BY DEF SettingsInv
  <2> QED BY <1>2, <1>3, <2>1 DEF SaveRight, Shown, Chosen
<1> QED BY <1>4, <1>5, <1>6 DEF SettingsInv

LEMMA UnsavedSets ==
  ASSUME SettingsInv, NEW x \in Devices, Unsaved(x)
  PROVE  SettingsInv'
<1>1. /\ save' = [save EXCEPT ![x] = NoSave]
      /\ screen' = IF x = "web" THEN [screen EXCEPT !.edited = screen.edited \cup save[x].edited]
                   ELSE screen
      /\ UNCHANGED <<settings, asked, editedAt, edits, stale>>
  BY DEF Unsaved, rows, past
<1>2. /\ save'[x] = NoSave /\ \A y \in Devices : y # x => save'[y] = save[y]
      /\ save' \in [Devices -> [at : {"idle", "look", "insert", "update"}, vals : Parts,
                               edited : SUBSET Fields, base : Nat]]
      /\ "web" \in Devices /\ save[x].edited \subseteq Fields
  BY <1>1, NothingSaved DEF SettingsInv, SettingsTyped, Devices
<1>3. /\ screen'.vals = screen.vals /\ screen'.base = screen.base
      /\ screen' \in [vals : Parts, edited : SUBSET Fields, base : Nat]
      /\ screen'.edited = IF x = "web" THEN screen.edited \cup save[x].edited ELSE screen.edited
  <2>1. screen \in [vals : Parts, edited : SUBSET Fields, base : Nat]
    BY DEF SettingsInv, SettingsTyped
  <2> QED BY <1>1, <1>2, <2>1
<1>4. screen'.edited \cup save'["web"].edited = screen.edited \cup save["web"].edited
  BY <1>2, <1>3, NothingSaved
<1>5. SettingsTyped'
  BY <1>1, <1>2, <1>3 DEF SettingsInv, SettingsTyped
<1>6. EditsStay' /\ ScreenRight'
  BY <1>1, <1>3, <1>4 DEF SettingsInv, EditsStay, ScreenRight, GetSettings, Shown, Chosen
<1>7. ASSUME NEW y \in Devices
      PROVE  SaveRight(y)'
  <2>1. CASE y = x
    BY <1>2, <2>1, NothingSaved DEF SaveRight
  <2>2. CASE y # x
    <3>1. save'[y] = save[y] /\ SaveRight(y)
      BY <1>2, <2>2 DEF SettingsInv
    <3> QED BY <1>1, <1>3, <3>1 DEF SaveRight, Shown, Chosen
  <2> QED BY <2>1, <2>2
<1> QED BY <1>5, <1>6, <1>7 DEF SettingsInv

\* What was shown without being edited is right still, or older than the edit.
LEMMA ShownStays ==
  ASSUME SettingsTyped, NEW x \in Devices, WriteSettings(x),
         save[x].at # "insert" \/ settings = NoRow,
         NEW vals \in Parts, NEW edited \in SUBSET Fields, NEW base \in Nat, base <= edits,
         Shown(vals, edited, base)
  PROVE  \A f \in DOMAIN vals \ edited :
            vals[f] = asked'[f] \/ f \in stale' \/ editedAt'[f] > base
<1>1. /\ editedAt' = [f \in Fields |-> IF f \in save[x].edited THEN edits + 1 ELSE editedAt[f]]
      /\ asked' = [f \in Fields |-> IF f \in save[x].edited THEN save[x].vals[f] ELSE asked[f]]
      /\ stale \ save[x].edited \subseteq stale'
  BY DEF WriteSettings
<1> SUFFICES ASSUME NEW f \in DOMAIN vals \ edited
             PROVE  vals[f] = asked'[f] \/ f \in stale' \/ editedAt'[f] > base
  OBVIOUS
<1>2. f \in Fields /\ edits \in Nat
  BY PartsHave DEF SettingsTyped
<1>3. vals[f] = asked[f] \/ f \in stale \/ editedAt[f] > base
  BY DEF Shown
<1>4. CASE f \in save[x].edited
  BY <1>1, <1>2, <1>4
<1>5. CASE f \notin save[x].edited
  BY <1>1, <1>2, <1>3, <1>5
<1> QED BY <1>4, <1>5

LEMMA WriteSets ==
  ASSUME SettingsInv, NEW x \in Devices, WriteSettings(x)
  PROVE  SettingsInv'
<1> DEFINE r == save[x]
<1>1. CASE r.at = "insert" /\ settings # NoRow
  BY <1>1, UnsavedSets DEF WriteSettings
<1>2. CASE ~(r.at = "insert" /\ settings # NoRow)
  <2>1. /\ settings' = Written(x) /\ save' = [save EXCEPT ![x] = NoSave]
        /\ edits' = edits + 1 /\ screen' = screen /\ r.at # "idle"
        /\ editedAt' = [f \in Fields |-> IF f \in r.edited THEN edits + 1 ELSE editedAt[f]]
        /\ asked' = [f \in Fields |-> IF f \in r.edited THEN r.vals[f] ELSE asked[f]]
        /\ stale' = (stale \ r.edited)
                    \cup {f \in DOMAIN r.vals \ r.edited :
                               editedAt[f] > r.base /\ r.vals[f] # asked[f]}
    BY <1>2 DEF WriteSettings
  <2>2. /\ r.edited \subseteq DOMAIN r.vals /\ Chosen(r.vals) /\ r.base <= edits
        /\ Shown(r.vals, r.edited, r.base)
        /\ x = "web" => screen.vals = r.vals
    BY <2>1 DEF SettingsInv, SaveRight
  <2>3. /\ r.vals \in Parts /\ r.edited \subseteq Fields /\ r.base \in Nat
        /\ DOMAIN r.vals \subseteq Fields /\ \A f \in DOMAIN r.vals : r.vals[f] \in Nat
        /\ edits \in Nat /\ "web" \in Devices
    BY PartsHave DEF SettingsInv, SettingsTyped, Devices
  <2>4. GetSettings \in [Fields -> Nat] /\ Chosen(GetSettings)
    BY SettingsRead DEF SettingsInv
  <2>5. Written(x) \in [Fields -> Nat] /\ Chosen(Written(x))
    BY <2>2, <2>3, <2>4 DEF Written, Chosen
  <2>6. GetSettings' = Written(x)
    BY <2>1, <2>5, WholeIsPart DEF GetSettings
  <2>7. /\ save'[x] = NoSave /\ \A y \in Devices : y # x => save'[y] = save[y]
        /\ save' \in [Devices -> [at : {"idle", "look", "insert", "update"}, vals : Parts,
                                 edited : SUBSET Fields, base : Nat]]
    BY <2>1, NothingSaved DEF SettingsInv, SettingsTyped
  <2>8. SettingsTyped'
    <3>1. settings' \in [Fields -> Nat] /\ Chosen(settings)'
      BY <2>1, <2>5 DEF Chosen
    <3>2. asked' \in [Fields -> Nat] /\ editedAt' \in [Fields -> Nat] /\ stale' \subseteq Fields
      BY <2>1, <2>2, <2>3 DEF SettingsInv, SettingsTyped
    <3>3. \A f \in Fields : editedAt'[f] <= edits'
      BY <2>1, <2>3 DEF SettingsInv, SettingsTyped
    <3> QED BY <2>1, <2>3, <2>7, <3>1, <3>2, <3>3 DEF SettingsInv, SettingsTyped
  <2>9. EditsStay'
    <3> SUFFICES ASSUME NEW f \in Fields, Written(x)[f] # asked'[f]
                 PROVE  f \in stale'
      BY <2>6 DEF EditsStay
    <3>1. Written(x)[f] = IF f \in DOMAIN r.vals THEN r.vals[f] ELSE GetSettings[f]
      BY DEF Written
    <3>2. f \notin r.edited /\ asked'[f] = asked[f]
      BY <2>1, <2>2, <3>1
    <3>3. CASE f \in DOMAIN r.vals
      <4>1. r.vals[f] = asked[f] \/ f \in stale \/ editedAt[f] > r.base
        BY <2>2, <3>2, <3>3 DEF Shown
      <4> QED BY <2>1, <3>1, <3>2, <3>3, <4>1
    <3>4. CASE f \notin DOMAIN r.vals
      BY <2>1, <3>1, <3>2, <3>4 DEF SettingsInv, EditsStay
    <3> QED BY <3>3, <3>4
  <2>10. /\ screen.vals \in Parts /\ screen.edited \subseteq Fields /\ screen.base \in Nat
         /\ save["web"].edited \subseteq Fields /\ screen.base <= edits
         /\ Shown(screen.vals, screen.edited \cup save["web"].edited, screen.base)
    BY <2>3 DEF SettingsInv, SettingsTyped, ScreenRight
  <2>11. \A f \in DOMAIN screen.vals \ (screen.edited \cup save["web"].edited) :
            screen.vals[f] = asked'[f] \/ f \in stale' \/ editedAt'[f] > screen.base
    BY <1>2, <2>10, ShownStays DEF SettingsInv
  <2>12. \A f \in DOMAIN screen.vals \ (screen.edited \cup save'["web"].edited) :
            screen.vals[f] = asked'[f] \/ f \in stale' \/ editedAt'[f] > screen.base
    <3>1. CASE x = "web"
      <4>1. \A f \in r.edited : asked'[f] = screen.vals[f]
        BY <2>1, <2>2, <2>3, <3>1
      <4> QED BY <2>11, <3>1, <4>1
    <3>2. CASE x # "web"
      BY <2>3, <2>7, <2>11, <3>2
    <3> QED BY <3>1, <3>2
  <2>13. ScreenRight'
    <3>1. screen.base <= edits + 1
      BY <2>3, <2>10
    <3>2. screen.vals = NoRow \/ (DOMAIN screen.vals = Fields /\ Chosen(screen.vals))
      BY DEF SettingsInv, ScreenRight
    <3> QED BY <2>1, <2>12, <3>1, <3>2 DEF ScreenRight, Shown, Chosen
  <2>14. ASSUME NEW y \in Devices
         PROVE  SaveRight(y)'
    <3>1. CASE y = x
      BY <2>7, <3>1, NothingSaved DEF SaveRight
    <3>2. CASE y # x
      <4> DEFINE s == save[y]
      <4>1. save'[y] = s /\ SaveRight(y)
        BY <2>7, <3>2 DEF SettingsInv
      <4>2. s.vals \in Parts /\ s.edited \subseteq Fields /\ s.base \in Nat
        BY DEF SettingsInv, SettingsTyped
      <4>3. CASE s.at = "idle"
        BY <4>1, <4>3 DEF SaveRight
      <4>4. CASE s.at # "idle"
        <5>1. /\ s.edited \subseteq DOMAIN s.vals /\ Chosen(s.vals) /\ s.base <= edits
              /\ Shown(s.vals, s.edited, s.base)
              /\ y = "web" => screen.vals = s.vals /\ DOMAIN s.vals = Fields
          BY <4>1, <4>4 DEF SaveRight
        <5>2. \A f \in DOMAIN s.vals \ s.edited :
                 s.vals[f] = asked'[f] \/ f \in stale' \/ editedAt'[f] > s.base
          BY <1>2, <4>2, <5>1, ShownStays DEF SettingsInv
        <5>3. s.base <= edits'
          BY <2>1, <2>3, <4>2, <5>1
        <5> QED BY <2>1, <4>1, <4>4, <5>1, <5>2, <5>3 DEF SaveRight, Shown, Chosen
      <4> QED BY <4>3, <4>4
    <3> QED BY <3>1, <3>2
  <2> QED BY <2>8, <2>9, <2>13, <2>14 DEF SettingsInv
<1> QED BY <1>1, <1>2

LEMMA DaysStay ==
  ASSUME DaysInv, UNCHANGED <<minutes, spent, today, tick, ticks, cut, limits, told>>
  PROVE  DaysInv'
<1>1. Pending' = Pending
  BY DEF Pending
<1>2. DaysTyped'
  BY DEF DaysInv, DaysTyped
<1>3. TicksAreCounted'
  BY <1>1 DEF DaysInv, TicksAreCounted
<1>4. DaysHaveBegun'
  BY DEF DaysInv, DaysHaveBegun
<1>5. SomebodyTells'
  BY DEF DaysInv, SomebodyTells, Told, Telling
<1> QED BY <1>2, <1>3, <1>4, <1>5 DEF DaysInv

\* A step of one tick that changes nothing else a day depends on.
LEMMA TickTyped ==
  ASSUME DaysTyped, NEW t \in Tabs, NEW r \in Tick, tick' = [tick EXCEPT ![t] = r]
  PROVE  /\ tick' \in [Tabs -> Tick] /\ tick'[t] = r
         /\ \A u \in Tabs : u # t => tick'[u] = tick[u]
BY DEF DaysTyped

LEMMA FewerPending ==
  ASSUME TicksAreCounted, Pending' \subseteq Pending, UNCHANGED <<minutes, ticks>>,
         minutes \in [Days -> Nat], ticks \in Nat
  PROVE  TicksAreCounted'
<1>1. /\ IsFiniteSet(Pending') /\ Cardinality(Pending') <= Cardinality(Pending)
      /\ Cardinality(Pending') \in Nat /\ Cardinality(Pending) \in Nat
  BY FS_Subset, FS_CardinalityType DEF TicksAreCounted
<1> DEFINE m == Cardinality(Pending)
           n == Cardinality(Pending')
<1>2. \A d \in Days : minutes[d] + m <= ticks
  BY DEF TicksAreCounted
<1>3. IsFiniteSet(Pending') /\ n <= m /\ n \in Nat /\ m \in Nat
  BY <1>1
<1> HIDE DEF m, n
<1>4. \A d \in Days : minutes[d] + n <= ticks
  BY <1>2, <1>3
<1>5. \A d \in Days : minutes'[d] + n <= ticks'
  BY <1>4
<1> QED BY <1>3, <1>5 DEF TicksAreCounted, n

LEMMA StartTickCounts ==
  ASSUME DaysInv, NEW t \in Tabs, StartTick(t)
  PROVE  DaysInv'
<1>1. /\ ticks < MaxTicks /\ ticks' = ticks + 1 /\ tick[t].at = "idle"
      /\ tick' = [tick EXCEPT ![t] = [tick[t] EXCEPT !.at = "settings"]]
      /\ UNCHANGED <<minutes, spent, today, cut, limits, told>>
  BY DEF StartTick, rows, days
<1>2. tick[t] \in Tick /\ MaxTicks \in Nat /\ ticks \in Nat /\ minutes \in [Days -> Nat]
  BY WellnessAssumption DEF DaysInv, DaysTyped
<1>3. PICK r : r = [tick[t] EXCEPT !.at = "settings"]
  OBVIOUS
<1>4. r \in Tick /\ r.at = "settings"
  BY <1>2, <1>3 DEF Tick
<1>5. /\ tick' \in [Tabs -> Tick] /\ tick'[t] = r
      /\ \A u \in Tabs : u # t => tick'[u] = tick[u]
  BY <1>1, <1>3, <1>4, TickTyped DEF DaysInv
<1>6. DaysTyped'
  BY <1>1, <1>2, <1>4, <1>5 DEF DaysInv, DaysTyped
<1>7. TicksAreCounted'
  <2>1. Pending' = Pending \cup {t} /\ t \notin Pending
    BY <1>1, <1>4, <1>5 DEF Pending
  <2>2. /\ IsFiniteSet(Pending') /\ Cardinality(Pending') = Cardinality(Pending) + 1
        /\ Cardinality(Pending) \in Nat
    BY <2>1, FS_AddElement, FS_CardinalityType DEF DaysInv, TicksAreCounted
  <2>3. PICK m \in Nat : m = Cardinality(Pending)
    BY <2>2
  <2>4. \A d \in Days : minutes[d] + m <= ticks
    BY <2>3 DEF DaysInv, TicksAreCounted
  <2>5. \A d \in Days : minutes[d] + (m + 1) <= ticks + 1
    BY <1>2, <2>4
  <2>6. Cardinality(Pending') = m + 1
    BY <2>2, <2>3
  <2> QED BY <1>1, <2>2, <2>5, <2>6 DEF TicksAreCounted
<1>8. DaysHaveBegun'
  BY <1>1 DEF DaysInv, DaysHaveBegun
<1>9. SomebodyTells'
  <2>1. \A d \in Days, u \in Tabs : Telling(u, d) => Telling(u, d)'
    BY <1>1, <1>5 DEF Telling
  <2>2. \A d \in Days : Told(d) => Told(d)'
    BY <1>1 DEF Told
  <2> QED BY <1>1, <2>1, <2>2 DEF DaysInv, SomebodyTells
<1> QED BY <1>6, <1>7, <1>8, <1>9 DEF DaysInv

LEMMA ReadSettingsCounts ==
  ASSUME DaysInv, SettingsTyped, NEW t \in Tabs, ReadSettings(t)
  PROVE  DaysInv'
<1>1. GetSettings["daily"] \in Nat /\ GetSettings["weekly"] \in Nat
  BY SettingsRead DEF Fields
<1>2. PICK a \in Nat, b \in Nat : a = GetSettings["daily"] /\ b = GetSettings["weekly"]
  BY <1>1
<1>3. /\ tick[t].at = "settings"
      /\ tick' = [tick EXCEPT ![t] = [tick[t] EXCEPT !.at = "log", !.daily = a, !.weekly = b]]
      /\ UNCHANGED <<minutes, spent, today, ticks, cut, limits, told>>
  BY <1>2 DEF ReadSettings, rows, days
<1>4. PICK r : r = [tick[t] EXCEPT !.at = "log", !.daily = a, !.weekly = b]
  OBVIOUS
<1>5. r \in Tick /\ r.at = "log"
  BY <1>4 DEF Tick, DaysInv, DaysTyped
<1>6. /\ tick' \in [Tabs -> Tick] /\ tick'[t] = r
      /\ \A u \in Tabs : u # t => tick'[u] = tick[u]
  BY <1>3, <1>4, <1>5, TickTyped DEF DaysInv
<1>7. DaysTyped'
  BY <1>3, <1>5, <1>6 DEF DaysInv, DaysTyped
<1>8. TicksAreCounted'
  <2>1. Pending' \subseteq Pending
    BY <1>3, <1>6 DEF Pending
  <2> QED BY <1>3, <2>1, FewerPending DEF DaysInv, DaysTyped
<1>9. DaysHaveBegun'
  BY <1>3 DEF DaysInv, DaysHaveBegun
<1>10. SomebodyTells'
  <2>1. \A d \in Days, u \in Tabs : Telling(u, d) => Telling(u, d)'
    BY <1>3, <1>6 DEF Telling
  <2>2. \A d \in Days : Told(d) => Told(d)'
    BY <1>3 DEF Told
  <2> QED BY <1>3, <2>1, <2>2 DEF DaysInv, SomebodyTells
<1> QED BY <1>7, <1>8, <1>9, <1>10 DEF DaysInv

\* The sum of a week depends on the days of that week.
LEMMA OnlyItsWeekCounts ==
  ASSUME NEW count, NEW changed, NEW d, \A e \in Window(d) : changed[e] = count[e]
  PROVE  Sum(changed, d) = Sum(count, d)
<1>1. [e \in Window(d) |-> changed[e]] = [e \in Window(d) |-> count[e]]
  OBVIOUS
<1> QED BY <1>1 DEF Sum

LEMMA LogSessionCounts ==
  ASSUME DaysInv, NEW t \in Tabs, LogSession(t)
  PROVE  DaysInv'
<1>1. /\ tick[t].at = "log"
      /\ tick' = [tick EXCEPT ![t] = [tick[t] EXCEPT !.at = "today", !.day = today]]
      /\ minutes' = [minutes EXCEPT ![today] = minutes[today] + 1]
      /\ spent' = [spent EXCEPT ![today] = spent[today] + 1]
      /\ limits' = [limits EXCEPT ![today].daily = tick[t].daily,
                                  ![today].weekly = tick[t].weekly]
      /\ UNCHANGED <<today, ticks, cut, told>>
  BY DEF LogSession, Added
<1>2. /\ tick[t] \in Tick /\ today \in Days /\ minutes \in [Days -> Nat] /\ spent = minutes
      /\ limits \in [Days -> [Fields -> Nat]] /\ ticks \in Nat /\ Days \subseteq Nat
  BY DEF DaysInv, DaysTyped, Days
<1>3. PICK r : r = [tick[t] EXCEPT !.at = "today", !.day = today]
  OBVIOUS
<1>4. /\ r \in Tick /\ r.at = "today" /\ r.day = today /\ r.daily = tick[t].daily
      /\ r.weekly = tick[t].weekly
  BY <1>2, <1>3 DEF Tick
<1>5. /\ tick' \in [Tabs -> Tick] /\ tick'[t] = r
      /\ \A u \in Tabs : u # t => tick'[u] = tick[u]
  BY <1>1, <1>3, <1>4, TickTyped DEF DaysInv
<1>6. /\ limits' \in [Days -> [Fields -> Nat]]
      /\ limits'[today]["daily"] = r.daily /\ limits'[today]["weekly"] = r.weekly
      /\ \A d \in Days : d # today => limits'[d] = limits[d]
  <2>1. tick[t].daily \in Nat /\ tick[t].weekly \in Nat
    BY <1>2 DEF Tick
  <2>2. PICK a \in Nat, b \in Nat : a = tick[t].daily /\ b = tick[t].weekly
    BY <2>1
  <2>3. "daily" \in Fields /\ "weekly" \in Fields
    BY DEF Fields
  <2> QED BY <1>1, <1>2, <1>4, <2>2, <2>3
<1>7. /\ minutes' \in [Days -> Nat] /\ spent' = minutes'
      /\ minutes'[today] = minutes[today] + 1
      /\ \A d \in Days : d # today => minutes'[d] = minutes[d]
  BY <1>1, <1>2
<1>8. DaysTyped'
  <2>1. \A u \in Tabs : tick'[u].at \in {"today", "week", "parent"} => tick'[u].day <= today'
    BY <1>1, <1>2, <1>4, <1>5 DEF DaysInv, DaysTyped
  <2> QED BY <1>1, <1>5, <1>6, <1>7, <2>1 DEF DaysInv, DaysTyped
<1>9. TicksAreCounted'
  <2>1. Pending' = Pending \ {t} /\ t \in Pending
    BY <1>1, <1>4, <1>5 DEF Pending
  <2>2. /\ IsFiniteSet(Pending') /\ Cardinality(Pending') = Cardinality(Pending) - 1
        /\ Cardinality(Pending) \in Nat
    BY <2>1, FS_RemoveElement, FS_CardinalityType DEF DaysInv, TicksAreCounted
  <2>3. PICK m \in Nat : m = Cardinality(Pending)
    BY <2>2
  <2>4. \A d \in Days : minutes[d] + m <= ticks
    BY <2>3 DEF DaysInv, TicksAreCounted
  <2>5. \A d \in Days : minutes'[d] \in Nat /\ minutes[d] \in Nat /\ minutes'[d] <= minutes[d] + 1
    BY <1>2, <1>7
  <2>6. \A d \in Days : minutes'[d] + (m - 1) <= ticks
    BY <1>2, <2>4, <2>5
  <2>7. Cardinality(Pending') = m - 1
    BY <2>2, <2>3
  <2> QED BY <1>1, <2>2, <2>6, <2>7 DEF TicksAreCounted
<1>10. DaysHaveBegun'
  <2>1. minutes'[today] # 0
    BY <1>2, <1>7
  <2> QED BY <1>1, <1>2, <1>6, <1>7, <2>1 DEF DaysInv, DaysHaveBegun
<1>11. SomebodyTells'
  <2> SUFFICES ASSUME NEW d \in Days, d \notin cut, spent'[d] # 0
               PROVE  Told(d)' \/ \E u \in Tabs : Telling(u, d)'
    BY <1>1 DEF SomebodyTells
  <2>1. CASE d = today
    <3>1. Telling(t, d)'
      BY <1>1, <1>4, <1>5, <1>6, <2>1 DEF Telling
    <3> QED BY <3>1
  <2>2. CASE d # today
    <3>1. spent'[d] = spent[d] /\ spent[d] # 0 /\ limits'[d] = limits[d]
      <4>1. limits'[d] = limits[d]
        BY <1>6, <2>2
      <4>2. minutes'[d] = minutes[d] /\ spent' = minutes'
        BY <1>7, <2>2
      <4>3. spent = minutes
        BY <1>2
      <4> QED BY <4>1, <4>2, <4>3
    <3>2. d < today
      <4>1. d \in Nat /\ today \in Nat
        BY <1>2
      <4>2. d <= today
        BY <3>1 DEF DaysInv, DaysHaveBegun
      <4> QED BY <2>2, <4>1, <4>2
    <3>3. Sum(spent', d) = Sum(spent, d)
      <4>1. \A e \in Window(d) : e \in Days /\ e # today
        BY <1>2, <3>2, WellnessAssumption DEF Window
      <4>2. \A e \in Window(d) : spent'[e] = spent[e]
        BY <1>2, <1>7, <4>1
      <4> QED BY <4>2, OnlyItsWeekCounts
    <3>4. Told(d) => Told(d)'
      BY <1>1, <3>1, <3>3 DEF Told
    <3>5. \A u \in Tabs : Telling(u, d) => Telling(u, d)'
      BY <1>1, <1>5, <2>2, <3>1 DEF Telling
    <3> QED BY <3>1, <3>4, <3>5 DEF DaysInv, SomebodyTells
  <2> QED BY <2>1, <2>2
<1> QED BY <1>8, <1>9, <1>10, <1>11 DEF DaysInv

LEMMA ReadTodayCounts ==
  ASSUME DaysInv, NEW t \in Tabs, ReadToday(t)
  PROVE  DaysInv'
<1>1. /\ tick[t].at = "today"
      /\ tick' = [tick EXCEPT ![t] = [tick[t] EXCEPT !.at = "week", !.used = minutes[today]]]
      /\ UNCHANGED <<minutes, spent, today, ticks, cut, limits, told>>
  BY DEF ReadToday, rows, days
<1>2. tick[t] \in Tick /\ today \in Days /\ minutes \in [Days -> Nat] /\ spent = minutes
  BY DEF DaysInv, DaysTyped
<1>3. PICK r : r = [tick[t] EXCEPT !.at = "week", !.used = minutes[today]]
  OBVIOUS
<1>4. /\ r \in Tick /\ r.at = "week" /\ r.used = spent[today] /\ r.day = tick[t].day
      /\ r.daily = tick[t].daily /\ r.weekly = tick[t].weekly
  BY <1>2, <1>3 DEF Tick
<1>5. /\ tick' \in [Tabs -> Tick] /\ tick'[t] = r
      /\ \A u \in Tabs : u # t => tick'[u] = tick[u]
  BY <1>1, <1>3, <1>4, TickTyped DEF DaysInv
<1>6. DaysTyped'
  <2>1. \A u \in Tabs : tick'[u].at \in {"today", "week", "parent"} => tick'[u].day <= today'
    BY <1>1, <1>4, <1>5 DEF DaysInv, DaysTyped
  <2> QED BY <1>1, <1>5, <2>1 DEF DaysInv, DaysTyped
<1>7. TicksAreCounted'
  <2>1. Pending' \subseteq Pending
    BY <1>1, <1>4, <1>5 DEF Pending
  <2> QED BY <1>1, <2>1, FewerPending DEF DaysInv, DaysTyped
<1>8. DaysHaveBegun'
  BY <1>1 DEF DaysInv, DaysHaveBegun
<1>9. SomebodyTells'
  <2>1. ASSUME NEW d \in Days, NEW u \in Tabs, Telling(u, d)
        PROVE  Telling(u, d)'
    <3>1. CASE u # t
      BY <1>1, <1>5, <2>1, <3>1 DEF Telling
    <3>2. CASE u = t
      BY <1>1, <1>4, <1>5, <2>1, <3>2 DEF Telling
    <3> QED BY <3>1, <3>2
  <2>2. \A d \in Days : Told(d) => Told(d)'
    BY <1>1 DEF Told
  <2> QED BY <1>1, <2>1, <2>2 DEF DaysInv, SomebodyTells
<1> QED BY <1>6, <1>7, <1>8, <1>9 DEF DaysInv

LEMMA ReadWeekCounts ==
  ASSUME DaysInv, NEW t \in Tabs, ReadWeek(t)
  PROVE  DaysInv'
<1>1. PICK s : s = Sum(minutes, today)
  OBVIOUS
<1>2. /\ tick[t].at = "week"
      /\ tick' = [tick EXCEPT ![t] = [tick[t] EXCEPT !.at = "parent", !.sum = s]]
      /\ UNCHANGED <<minutes, spent, today, ticks, cut, limits, told>>
  BY <1>1 DEF ReadWeek, rows, days
<1>3. tick[t] \in Tick /\ today \in Days /\ minutes \in [Days -> Nat] /\ spent = minutes
  BY DEF DaysInv, DaysTyped
<1>4. s \in Sums
  BY <1>1, <1>3 DEF Sums
<1>5. PICK r : r = [tick[t] EXCEPT !.at = "parent", !.sum = s]
  OBVIOUS
<1>6. /\ r \in Tick /\ r.at = "parent" /\ r.sum = s /\ r.day = tick[t].day
      /\ r.daily = tick[t].daily /\ r.weekly = tick[t].weekly /\ r.used = tick[t].used
  BY <1>3, <1>4, <1>5 DEF Tick
<1>7. /\ tick' \in [Tabs -> Tick] /\ tick'[t] = r
      /\ \A u \in Tabs : u # t => tick'[u] = tick[u]
  BY <1>2, <1>5, <1>6, TickTyped DEF DaysInv
<1>8. DaysTyped'
  <2>1. \A u \in Tabs : tick'[u].at \in {"today", "week", "parent"} => tick'[u].day <= today'
    BY <1>2, <1>6, <1>7 DEF DaysInv, DaysTyped
  <2> QED BY <1>2, <1>7, <2>1 DEF DaysInv, DaysTyped
<1>9. TicksAreCounted'
  <2>1. Pending' \subseteq Pending
    BY <1>2, <1>6, <1>7 DEF Pending
  <2> QED BY <1>2, <2>1, FewerPending DEF DaysInv, DaysTyped
<1>10. DaysHaveBegun'
  BY <1>2 DEF DaysInv, DaysHaveBegun
<1>11. SomebodyTells'
  <2>1. Sum(spent, today) = s
    BY <1>1, <1>3
  <2>2. ASSUME NEW d \in Days, NEW u \in Tabs, Telling(u, d)
        PROVE  Telling(u, d)'
    <3>1. Sum(spent, d)' = Sum(spent, d)
      BY <1>2
    <3> QED BY <1>2, <1>6, <1>7, <2>1, <2>2, <3>1 DEF Telling
  <2>3. \A d \in Days : Told(d) => Told(d)'
    BY <1>2 DEF Told
  <2> QED BY <1>2, <2>2, <2>3 DEF DaysInv, SomebodyTells
<1> QED BY <1>8, <1>9, <1>10, <1>11 DEF DaysInv

LEMMA NoTickTyped == NoTick \in Tick /\ NoTick.at = "idle"
BY WellnessAssumption DEF NoTick, Tick, Sums, Days

LEMMA EndTickCounts ==
  ASSUME DaysInv, NEW t \in Tabs, EndTick(t)
  PROVE  DaysInv'
<1> DEFINE r == tick[t]
<1>1. PICK caps : told' = [told EXCEPT ![r.day] = told[r.day] \cup {Exceeded(r, caps)}]
  BY DEF EndTick
<1>2. /\ r.at = "parent" /\ tick' = [tick EXCEPT ![t] = NoTick]
      /\ cut' = IF r.day = today THEN cut ELSE cut \cup {r.day}
      /\ UNCHANGED <<minutes, spent, today, ticks, limits>>
  BY DEF EndTick, rows
<1>3. PICK e : e = Exceeded(r, caps)
  OBVIOUS
<1>4. /\ e \in {"none", "hard", "daily", "weekly"}
      /\ r.daily # 0 /\ r.used >= r.daily => e \in {"hard", "daily"}
      /\ r.weekly # 0 /\ r.sum >= r.weekly => e # "none"
  BY <1>3 DEF Exceeded
<1>5. /\ tick' \in [Tabs -> Tick] /\ tick'[t] = NoTick
      /\ \A u \in Tabs : u # t => tick'[u] = tick[u]
  BY <1>2, NoTickTyped, TickTyped DEF DaysInv
<1>6. r.day \in Days /\ told \in [Days -> SUBSET Answers] /\ cut \subseteq Days
  BY DEF DaysInv, DaysTyped, Tick
<1>7. /\ told' \in [Days -> SUBSET Answers] /\ e \in told'[r.day]
      /\ \A d \in Days : told[d] \subseteq told'[d]
  <2>1. PICK k \in Days : k = r.day
    BY <1>6
  <2>2. told' = [told EXCEPT ![k] = told[k] \cup {e}]
    BY <1>1, <1>3, <2>1
  <2>3. e \in Answers
    BY <1>4 DEF Answers
  <2>4. told[k] \cup {e} \in SUBSET Answers
    BY <1>6, <2>3
  <2>5. told' \in [Days -> SUBSET Answers] /\ told'[k] = told[k] \cup {e}
    BY <1>6, <2>2, <2>4
  <2>6. \A d \in Days : d # k => told'[d] = told[d]
    BY <1>6, <2>2
  <2> QED BY <2>1, <2>5, <2>6
<1>8. DaysTyped'
  <2>1. \A u \in Tabs : tick'[u].at \in {"today", "week", "parent"} => tick'[u].day <= today'
    BY <1>2, <1>5, NoTickTyped DEF DaysInv, DaysTyped
  <2> QED BY <1>2, <1>5, <1>6, <1>7, <2>1 DEF DaysInv, DaysTyped
<1>9. TicksAreCounted'
  <2>1. Pending' \subseteq Pending
    BY <1>5, NoTickTyped DEF Pending
  <2> QED BY <1>2, <2>1, FewerPending DEF DaysInv, DaysTyped
<1>10. DaysHaveBegun'
  BY <1>2 DEF DaysInv, DaysHaveBegun
<1>11. SomebodyTells'
  <2> SUFFICES ASSUME NEW d \in Days, d \notin cut', spent[d] # 0
               PROVE  Told(d)' \/ \E u \in Tabs : Telling(u, d)'
    BY <1>2 DEF SomebodyTells
  <2>1. Sum(spent, d)' = Sum(spent, d) /\ limits' = limits /\ spent' = spent
    BY <1>2
  <2>2. CASE Told(d)
    BY <1>7, <2>1, <2>2 DEF Told
  <2>3. CASE ~Told(d)
    <3>1. PICK u \in Tabs : Telling(u, d)
      BY <1>2, <2>3 DEF DaysInv, SomebodyTells
    <3>2. CASE u # t
      <4>1. Telling(u, d)'
        BY <1>2, <1>5, <2>1, <3>1, <3>2 DEF Telling
      <4> QED BY <4>1
    <3>3. CASE u = t
      <4>1. /\ r.day = d /\ today = d /\ r.used = spent[d] /\ r.sum = Sum(spent, d)
            /\ r.daily = limits[d]["daily"] /\ r.weekly = limits[d]["weekly"]
        BY <1>2, <3>1, <3>3 DEF Telling
      <4>2. limits[d]["daily"] # 0 /\ spent[d] >= limits[d]["daily"] => e \in {"hard", "daily"}
        BY <1>4, <4>1
      <4>3. limits[d]["weekly"] # 0 /\ Sum(spent, d) >= limits[d]["weekly"] => e # "none"
        BY <1>4, <4>1
      <4>4. e \in told'[d]
        BY <1>7, <4>1
      <4> QED BY <2>1, <4>2, <4>3, <4>4 DEF Told
    <3> QED BY <3>2, <3>3
  <2> QED BY <2>2, <2>3
<1> QED BY <1>8, <1>9, <1>10, <1>11 DEF DaysInv

LEMMA TickFailsCounts ==
  ASSUME DaysInv, NEW t \in Tabs, TickFails(t)
  PROVE  DaysInv'
<1>1. /\ tick' = [tick EXCEPT ![t] = NoTick]
      /\ cut' = IF tick[t].at \in {"settings", "log"} THEN cut ELSE cut \cup {tick[t].day}
      /\ UNCHANGED <<minutes, spent, today, ticks, limits, told>>
  BY DEF TickFails, rows
<1>2. /\ tick' \in [Tabs -> Tick] /\ tick'[t] = NoTick
      /\ \A u \in Tabs : u # t => tick'[u] = tick[u]
  BY <1>1, NoTickTyped, TickTyped DEF DaysInv
<1>3. tick[t].day \in Days
  BY DEF DaysInv, DaysTyped, Tick
<1>4. DaysTyped'
  <2>1. \A u \in Tabs : tick'[u].at \in {"today", "week", "parent"} => tick'[u].day <= today'
    BY <1>1, <1>2, NoTickTyped DEF DaysInv, DaysTyped
  <2> QED BY <1>1, <1>2, <1>3, <2>1 DEF DaysInv, DaysTyped
<1>5. TicksAreCounted'
  <2>1. Pending' \subseteq Pending
    BY <1>2, NoTickTyped DEF Pending
  <2> QED BY <1>1, <2>1, FewerPending DEF DaysInv, DaysTyped
<1>6. DaysHaveBegun'
  BY <1>1 DEF DaysInv, DaysHaveBegun
<1>7. SomebodyTells'
  <2>1. \A d \in Days : Told(d) => Told(d)'
    BY <1>1 DEF Told
  <2>2. \A d \in Days \ cut', u \in Tabs : Telling(u, d) => u # t
    BY <1>1 DEF Telling
  <2>3. \A d \in Days, u \in Tabs : u # t /\ Telling(u, d) => Telling(u, d)'
    BY <1>1, <1>2 DEF Telling
  <2>4. cut \subseteq cut'
    BY <1>1
  <2> QED BY <1>1, <2>1, <2>2, <2>3, <2>4 DEF DaysInv, SomebodyTells
<1> QED BY <1>4, <1>5, <1>6, <1>7 DEF DaysInv

LEMMA MidnightCounts ==
  ASSUME DaysInv, Midnight
  PROVE  DaysInv'
<1>1. /\ today < MaxDay /\ today' = today + 1
      /\ UNCHANGED <<minutes, spent, tick, ticks, cut, limits, told>>
  BY DEF Midnight, rows, days
<1>2. today \in Nat /\ today' \in Days /\ MaxDay \in Nat /\ Days \subseteq Nat
  BY <1>1, WellnessAssumption DEF DaysInv, DaysTyped, Days
<1>3. DaysTyped'
  <2>1. \A t \in Tabs : tick[t].at \in {"today", "week", "parent"} => tick[t].day <= today + 1
    <3> SUFFICES ASSUME NEW t \in Tabs, tick[t].at \in {"today", "week", "parent"}
                 PROVE  tick[t].day <= today + 1
      OBVIOUS
    <3>1. tick[t] \in Tick /\ tick[t].day <= today
      BY DEF DaysInv, DaysTyped
    <3>2. tick[t].day \in Nat
      BY <1>2, <3>1 DEF Tick
    <3> QED BY <1>2, <3>1, <3>2
  <2> QED BY <1>1, <1>2, <2>1 DEF DaysInv, DaysTyped
<1>4. TicksAreCounted'
  <2>1. Pending' = Pending
    BY <1>1 DEF Pending
  <2> QED BY <1>1, <2>1 DEF DaysInv, TicksAreCounted
<1>5. DaysHaveBegun'
  BY <1>1, <1>2 DEF DaysInv, DaysHaveBegun
<1>6. SomebodyTells'
  <2>1. \A d \in Days : Told(d) => Told(d)'
    BY <1>1 DEF Told
  <2>2. \A d \in Days : spent[d] # 0 => d # today'
    BY <1>1, <1>2 DEF DaysInv, DaysHaveBegun
  <2>3. \A d \in Days, u \in Tabs : d # today' /\ Telling(u, d) => Telling(u, d)'
    BY <1>1 DEF Telling
  <2> QED BY <1>1, <2>1, <2>2, <2>3 DEF DaysInv, SomebodyTells
<1> QED BY <1>3, <1>4, <1>5, <1>6 DEF DaysInv

LEMMA ParentsStay ==
  ASSUME ParentsInv, UNCHANGED <<parental, overlay>>
  PROVE  ParentsInv'
BY DEF ParentsInv

LEMMA ControlsSet ==
  ASSUME ParentsInv, NEW g \in Guardians, SetParentalControls(g)
  PROVE  ParentsInv'
<1>1. PICK n \in Limits, b \in BOOLEAN :
         parental' = [parental EXCEPT ![g] = [limit |-> n, enabled |-> b]]
  BY DEF SetParentalControls
<1> QED BY <1>1 DEF ParentsInv, SetParentalControls

\* UsageInv is inductive: what the pages show and the saves carry is right of all
\* but the stale settings, and of every day with minutes the user has been told
\* what its limits ask for, or the tick that counted the last minute will.
THEOREM UsageInvariant == WellnessSpec => []UsageInv
<1>1. WellnessInit => UsageInv
  <2> SUFFICES ASSUME WellnessInit
               PROVE  UsageInv
    OBVIOUS
  <2>1. Defaults \in [Fields -> Nat] /\ Defaults["daily"] = 0
    BY DEF Defaults, Fields
  <2>2. SettingsInv
    <3>1. SettingsTyped
      BY <2>1, EmptyIsPart, NothingSaved DEF WellnessInit, SettingsTyped
    <3>2. EditsStay
      BY DEF WellnessInit, EditsStay, GetSettings
    <3>3. ScreenRight
      BY EmptyIsPart DEF WellnessInit, ScreenRight, Shown
    <3>4. \A x \in Devices : SaveRight(x)
      BY NothingSaved DEF WellnessInit, SaveRight
    <3> QED BY <3>1, <3>2, <3>3, <3>4 DEF SettingsInv
  <2>3. DaysInv
    <3>1. 0 \in Days /\ Days \subseteq Nat
      BY WellnessAssumption DEF Days
    <3>2. \A t \in Tabs : tick[t] = NoTick /\ tick[t].at = "idle"
      BY NoTickTyped DEF WellnessInit
    <3>3. DaysTyped
      BY <2>1, <3>1, <3>2, NoTickTyped, WellnessAssumption DEF WellnessInit, DaysTyped
    <3>4. TicksAreCounted
      <4>1. Pending = {}
        BY <3>2 DEF Pending
      <4> QED BY <4>1, FS_EmptySet DEF WellnessInit, TicksAreCounted
    <3>5. DaysHaveBegun
      BY <2>1 DEF WellnessInit, DaysHaveBegun
    <3>6. SomebodyTells
      BY DEF WellnessInit, SomebodyTells
    <3> QED BY <3>3, <3>4, <3>5, <3>6 DEF DaysInv
  <2>4. ParentsInv
    BY WellnessAssumption DEF WellnessInit, ParentsInv
  <2> QED BY <2>2, <2>3, <2>4 DEF UsageInv
<1>2. UsageInv /\ [WellnessNext]_wellness => UsageInv'
  <2> SUFFICES ASSUME UsageInv, [WellnessNext]_wellness
               PROVE  UsageInv'
    OBVIOUS
  <2> USE DEF UsageInv
  <2>0. SettingsTyped
    BY DEF SettingsInv
  <2>1. CASE LoadPage
    BY <2>1, LoadPageSets, DaysStay, ParentsStay DEF LoadPage, rows, days
  <2>2. CASE Save
    BY <2>2, SaveSets, DaysStay, ParentsStay DEF Save, rows, days
  <2>3. CASE Toggle
    BY <2>3, ToggleSets, DaysStay, ParentsStay DEF Toggle, rows, days
  <2>4. CASE Midnight
    BY <2>4, MidnightCounts, SettingsStay, ParentsStay DEF Midnight, rows
  <2>5. ASSUME NEW x \in Devices, LookForRow(x)
        PROVE  UsageInv'
    BY <2>5, LookSets, DaysStay, ParentsStay DEF LookForRow, rows, days
  <2>6. ASSUME NEW x \in Devices, WriteSettings(x)
        PROVE  UsageInv'
    <3>1. UNCHANGED <<minutes, parental, today, overlay, tick, ticks, days>>
      BY <2>6 DEF WriteSettings, Unsaved, rows
    <3> QED BY <2>6, <3>1, WriteSets, DaysStay, ParentsStay DEF days
  <2>7. ASSUME NEW x \in Devices, SaveFails(x)
        PROVE  UsageInv'
    <3>1. UNCHANGED <<minutes, parental, today, overlay, tick, ticks, days>> /\ Unsaved(x)
      BY <2>7 DEF SaveFails, Unsaved, rows
    <3> QED BY <3>1, UnsavedSets, DaysStay, ParentsStay DEF days
  <2>8. ASSUME NEW g \in Guardians, SetParentalControls(g)
        PROVE  UsageInv'
    BY <2>8, ControlsSet, SettingsStay, DaysStay DEF SetParentalControls, days
  <2>9. ASSUME NEW t \in Tabs, Mount(t)
        PROVE  UsageInv'
    <3>1. UNCHANGED <<rows, today, tick, screen, save, ticks, past, days>>
          /\ overlay' = overlay \cup {t}
      BY <2>9 DEF Mount
    <3>2. ParentsInv'
      BY <3>1 DEF ParentsInv, rows
    <3> QED BY <3>1, <3>2, SettingsStay, DaysStay DEF rows, days
  <2>10. ASSUME NEW t \in Tabs, StartTick(t)
         PROVE  UsageInv'
    BY <2>10, StartTickCounts, SettingsStay, ParentsStay DEF StartTick, rows
  <2>11. ASSUME NEW t \in Tabs, ReadSettings(t)
         PROVE  UsageInv'
    BY <2>0, <2>11, ReadSettingsCounts, SettingsStay, ParentsStay DEF ReadSettings, rows
  <2>12. ASSUME NEW t \in Tabs, LogSession(t)
         PROVE  UsageInv'
    BY <2>12, LogSessionCounts, SettingsStay, ParentsStay DEF LogSession
  <2>13. ASSUME NEW t \in Tabs, ReadToday(t)
         PROVE  UsageInv'
    BY <2>13, ReadTodayCounts, SettingsStay, ParentsStay DEF ReadToday, rows
  <2>14. ASSUME NEW t \in Tabs, ReadWeek(t)
         PROVE  UsageInv'
    BY <2>14, ReadWeekCounts, SettingsStay, ParentsStay DEF ReadWeek, rows
  <2>15. ASSUME NEW t \in Tabs, EndTick(t)
         PROVE  UsageInv'
    BY <2>15, EndTickCounts, SettingsStay, ParentsStay DEF EndTick, rows
  <2>16. ASSUME NEW t \in Tabs, TickFails(t)
         PROVE  UsageInv'
    BY <2>16, TickFailsCounts, SettingsStay, ParentsStay DEF TickFails, rows
  <2>17. CASE UNCHANGED wellness
    BY <2>17, SettingsStay, DaysStay, ParentsStay DEF wellness, rows, days
  <2> QED BY <2>1, <2>2, <2>3, <2>4, <2>5, <2>6, <2>7, <2>8, <2>9, <2>10, <2>11, <2>12,
             <2>13, <2>14, <2>15, <2>16, <2>17 DEF WellnessNext
<1> QED BY <1>1, <1>2, PTL DEF WellnessSpec

\* WellnessInv follows: a setting has the value chosen last unless an older page
\* saved over it, and a user who reaches a limit is told, whichever reports
\* overlap, fail or straddle midnight.
THEOREM UsageIsTold == WellnessSpec => []WellnessInv
<1>1. UsageInv => WellnessInv
  <2> SUFFICES ASSUME UsageInv
               PROVE  WellnessInv
    OBVIOUS
  <2>1. WellnessTypeOK
    <3>1. \/ settings = NoRow
          \/ (DOMAIN settings = Fields /\ \A f \in Fields : settings[f] \in Values(f))
      BY DEF UsageInv, SettingsInv, SettingsTyped, Chosen
    <3>2. minutes \in [Days -> 0 .. MaxTicks]
      <4> SUFFICES ASSUME NEW d \in Days
                   PROVE  minutes[d] \in 0 .. MaxTicks
        BY DEF UsageInv, DaysInv, DaysTyped
      <4>1. PICK m \in Nat : m = Cardinality(Pending)
        BY FS_CardinalityType DEF UsageInv, DaysInv, TicksAreCounted
      <4>2. minutes[d] + m <= ticks /\ ticks \in 0 .. MaxTicks /\ minutes[d] \in Nat
        BY <4>1 DEF UsageInv, DaysInv, DaysTyped, TicksAreCounted
      <4> QED BY <4>2, WellnessAssumption
    <3>3. \A g \in Guardians : parental[g].limit \in Limits /\ parental[g].enabled \in BOOLEAN
      BY DEF UsageInv, ParentsInv
    <3>4. \A t \in Tabs : tick[t].at \in {"idle", "settings", "log", "today", "week", "parent"}
      BY DEF UsageInv, DaysInv, DaysTyped, Tick
    <3>5. \A x \in Devices : save[x].at \in {"idle", "look", "insert", "update"}
      BY DEF UsageInv, SettingsInv, SettingsTyped
    <3>6. today \in Days /\ overlay \subseteq Tabs /\ stale \subseteq Fields /\ cut \subseteq Days
      BY DEF UsageInv, SettingsInv, SettingsTyped, DaysInv, DaysTyped, ParentsInv
    <3> QED BY <3>1, <3>2, <3>3, <3>4, <3>5, <3>6 DEF WellnessTypeOK
  <2>2. EditsStay
    BY DEF UsageInv, SettingsInv
  <2>3. LimitsAreTold
    <3> SUFFICES ASSUME NEW d \in Days, d \notin cut,
                        \A t \in Tabs : \/ tick[t].at \in {"idle", "settings", "log"}
                                        \/ tick[t].day # d
                 PROVE  /\ limits[d]["daily"] # 0 /\ spent[d] >= limits[d]["daily"]
                             => told[d] \cap {"daily", "hard"} # {}
                        /\ spent[d] # 0 /\ limits[d]["weekly"] # 0
                             /\ Sum(spent, d) >= limits[d]["weekly"] => told[d] \ {"none"} # {}
      BY DEF LimitsAreTold
    <3>1. \A t \in Tabs : ~Telling(t, d)
      BY DEF Telling
    <3>2. spent[d] # 0 => Told(d)
      BY <3>1 DEF UsageInv, DaysInv, SomebodyTells
    <3>3. spent[d] = 0 => limits[d]["daily"] = 0
      BY DEF UsageInv, DaysInv, DaysHaveBegun
    <3> QED BY <3>2, <3>3 DEF Told
  <2> QED BY <2>1, <2>2, <2>3 DEF WellnessInv
<1> QED BY <1>1, UsageInvariant, PTL
=============================================================================
