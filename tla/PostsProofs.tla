---------------------------- MODULE PostsProofs ----------------------------
(***************************************************************************)
(* Proofs about posts.  PostEngagement, for any finite sets of users and   *)
(* request slots and any set of posts: type correctness, the counter that  *)
(* equals its rows, the exact toggle, and the bound on pins.  MediaUploads,*)
(* for any pages and files: posts, rows, objects and previews.             *)
(***************************************************************************)
EXTENDS PostEngagement, MediaUploads, FiniteSetTheorems, TLAPS

\* The counter's arithmetic stays in Nat.
LEMMA CountedTyped ==
  ASSUME TypeOK, NEW p \in Posts, NEW n \in Nat
  PROVE  Counted(p, n) \in [Posts -> Post]
<1>1. CASE ~HasRow(p)
  BY <1>1 DEF Counted, TypeOK
<1>2. CASE HasRow(p)
  <2>1. [post[p] EXCEPT !.likeCount = n] \in Post
    BY DEF TypeOK, Post
  <2> QED BY <1>2, <2>1 DEF Counted, TypeOK
<1> QED BY <1>1, <1>2

LEMMA DisturbedTyped ==
  ASSUME TypeOK, NEW s \in Slots, request[s].pc # "idle"
  PROVE  [request[s] EXCEPT !.disturbed = TRUE] \in Request
<1>1. request[s] \in [pc : {"insert", "delete", "pin"}, user : Users,
                      post : Posts, disturbed : BOOLEAN]
  BY DEF TypeOK, Request, Idle
<1> QED BY <1>1 DEF Request

LEMMA RowIsAPost ==
  ASSUME NEW state \in {"unused", "live", "deleted", "gone"}
  PROVE  NoRow(state) \in Post
BY DEF NoRow, Post

\* The state of every variable stays in its type: in particular no counter
\* ever falls below zero, whatever order the triggers fire in.
LEMMA TypeStep ==
  ASSUME TypeOK, [Next]_vars
  PROVE  TypeOK'
<1>i. Idle \in Request
  BY DEF Request
<1>1. ASSUME NEW p \in Posts, NEW u \in Users, Create(p, u)
      PROVE  TypeOK'
  <2>1. [state |-> "live", author |-> u, likeCount |-> 0,
         isPinned |-> FALSE] \in Post
    BY DEF Post
  <2> QED BY <1>1, <2>1 DEF Create, TypeOK
<1>2. ASSUME NEW p \in Posts, Delete(p)
      PROVE  TypeOK'
  <2>1. [post[p] EXCEPT !.state = "deleted"] \in Post
    BY DEF TypeOK, Post
  <2> QED BY <1>2, <2>1 DEF Delete, TypeOK
<1>3. ASSUME NEW s \in Slots, NEW p \in Posts, NEW u \in Users,
             LikeRead(s, p, u)
      PROVE  TypeOK'
  <2>1. \A t \in Slots : Writing(t, p, u)
          => [request[t] EXCEPT !.disturbed = TRUE] \in Request
    BY DisturbedTyped DEF Writing
  <2>2. \A b \in BOOLEAN :
          [pc |-> IF AlreadyLiked(p, u) THEN "delete" ELSE "insert",
           user |-> u, post |-> p, disturbed |-> b] \in Request
    BY DEF Request
  <2>3. request' \in [Slots -> Request]
    BY <1>3, <2>1, <2>2 DEF LikeRead, TypeOK
  <2> QED BY <1>3, <2>3 DEF LikeRead, TypeOK
<1>4. ASSUME NEW s \in Slots, NEW p \in Posts, NEW u \in Users,
             PinClear(s, p, u)
      PROVE  TypeOK'
  <2>1. [pc |-> "pin", user |-> u, post |-> p, disturbed |-> FALSE]
          \in Request
    BY DEF Request
  <2>2. \A q \in Posts : [post[q] EXCEPT !.isPinned = FALSE] \in Post
    BY DEF TypeOK, Post
  <2> QED BY <1>4, <2>1, <2>2 DEF PinClear, Unpin, TypeOK
<1>5. ASSUME NEW s \in Slots, LikeInsert(s)
      PROVE  TypeOK'
  <2>1. request[s].post \in Posts /\ request[s].user \in Users
    BY <1>5 DEF LikeInsert, TypeOK, Request, Idle
  <2>2. post[request[s].post].likeCount + 1 \in Nat
    BY <2>1 DEF TypeOK, Post
  <2>3. post' \in [Posts -> Post] /\ likes' \in SUBSET (Posts \X Users)
    BY <1>5, <2>1, <2>2, CountedTyped DEF LikeInsert, InsertLike, TypeOK
  <2> QED BY <1>5, <1>i, <2>3 DEF LikeInsert, TypeOK
<1>6. ASSUME NEW s \in Slots, LikeDelete(s)
      PROVE  TypeOK'
  <2>1. request[s].post \in Posts
    BY <1>6 DEF LikeDelete, TypeOK, Request, Idle
  <2>2. Decremented(post[request[s].post].likeCount) \in Nat
    BY <2>1 DEF TypeOK, Post, Decremented
  <2>3. post' \in [Posts -> Post] /\ likes' \in SUBSET (Posts \X Users)
    BY <1>6, <2>1, <2>2, CountedTyped DEF LikeDelete, TypeOK
  <2> QED BY <1>6, <1>i, <2>3 DEF LikeDelete, TypeOK
<1>7. ASSUME NEW s \in Slots, PinSet(s)
      PROVE  TypeOK'
  <2>1. \A q \in Posts : [post[q] EXCEPT !.isPinned = TRUE] \in Post
    BY DEF TypeOK, Post
  <2> QED BY <1>7, <1>i, <2>1 DEF PinSet, TypeOK
<1>8. ASSUME NEW s \in Slots, Abandon(s)
      PROVE  TypeOK'
  BY <1>8, <1>i DEF Abandon, TypeOK
<1>9. ASSUME NEW u \in Users, HardDeleteUser(u)
      PROVE  TypeOK'
  <2>1. \A q \in Posts :
          [post[q] EXCEPT !.likeCount = Decremented(@)] \in Post
    BY DEF TypeOK, Post, Decremented
  <2>2. \A s \in Slots : request[s].pc \in {"insert", "delete"}
          => [request[s] EXCEPT !.disturbed = TRUE] \in Request
    BY DisturbedTyped
  <2>3. post' \in [Posts -> Post]
    BY <1>9, <2>1, RowIsAPost DEF HardDeleteUser, TypeOK
  <2>4. request' \in [Slots -> Request]
    BY <1>9, <2>2 DEF HardDeleteUser, TypeOK
  <2> QED BY <1>9, <2>3, <2>4 DEF HardDeleteUser, TypeOK
<1>10. CASE UNCHANGED vars
  BY <1>10 DEF vars, TypeOK
<1> QED
  BY <1>1, <1>2, <1>3, <1>4, <1>5, <1>6, <1>7, <1>8, <1>9, <1>10 DEF Next

THEOREM TypeCorrect == Spec => []TypeOK
<1>1. Init => TypeOK
  BY RowIsAPost DEF Init, TypeOK, Request
<1>2. TypeOK /\ [Next]_vars => TypeOK'
  BY TypeStep
<1> QED BY <1>1, <1>2, PTL DEF Spec
-----------------------------------------------------------------------------
(***************************************************************************)
(* The counter.                                                            *)
(***************************************************************************)
LEMMA LikersFinite ==
  ASSUME NEW p
  PROVE  /\ IsFiniteSet(LikersOf(p))
         /\ Cardinality(LikersOf(p)) \in Nat
<1>1. LikersOf(p) \in SUBSET Users
  BY DEF LikersOf
<1> QED BY <1>1, FS_Subset, FS_CardinalityType, FiniteAssumption

\* One row more, one row fewer: what the trigger must add and take away.
LEMMA LikeAdded ==
  ASSUME NEW p, NEW u \in Users, <<p, u>> \notin likes,
         likes' = likes \cup {<<p, u>>}
  PROVE  Cardinality(LikersOf(p)') = Cardinality(LikersOf(p)) + 1
<1>1. LikersOf(p)' = LikersOf(p) \cup {u} /\ u \notin LikersOf(p)
  BY DEF LikersOf
<1> QED BY <1>1, LikersFinite, FS_AddElement

LEMMA LikeRemoved ==
  ASSUME NEW p, NEW u \in Users, <<p, u>> \in likes,
         LikersOf(p)' = LikersOf(p) \ {u}
  PROVE  /\ Cardinality(LikersOf(p)') = Cardinality(LikersOf(p)) - 1
         /\ Cardinality(LikersOf(p)) > 0
<1>1. u \in LikersOf(p)
  BY DEF LikersOf
<1>2. Cardinality(LikersOf(p)) # 0
  BY <1>1, LikersFinite, FS_EmptySet
<1> QED BY <1>1, <1>2, LikersFinite, FS_RemoveElement

\* A step that leaves the rows of a post and its counter alone.
LEMMA CountUntouched ==
  ASSUME CountMatchesRows, NEW q \in Posts, HasRow(q)', q \notin early',
         HasRow(q), q \notin early, LikersOf(q)' = LikersOf(q),
         post'[q].likeCount = post[q].likeCount
  PROVE  post'[q].likeCount = Cardinality(LikersOf(q)')
BY DEF CountMatchesRows

LEMMA CountStep ==
  ASSUME TypeOK, CountMatchesRows, [Next]_vars
  PROVE  CountMatchesRows'
<1> SUFFICES ASSUME NEW q \in Posts, HasRow(q)', q \notin early'
             PROVE  post'[q].likeCount = Cardinality(LikersOf(q)')
  BY DEF CountMatchesRows
<1> USE DEF TypeOK
<1>1. ASSUME NEW p \in Posts, NEW u \in Users, Create(p, u)
      PROVE  post'[q].likeCount = Cardinality(LikersOf(q)')
  <2>1. CASE q = p
    <3>1. LikersOf(p)' = {} /\ post'[p].likeCount = 0
      BY <1>1, <2>1 DEF Create, LikersOf
    <3> QED BY <2>1, <3>1, FS_EmptySet
  <2>2. CASE q # p
    BY <1>1, <2>2, CountUntouched DEF Create, LikersOf, HasRow
  <2> QED BY <2>1, <2>2
<1>2. ASSUME NEW p \in Posts, Delete(p)
      PROVE  post'[q].likeCount = Cardinality(LikersOf(q)')
  <2>1. HasRow(q) /\ post'[q].likeCount = post[q].likeCount
    BY <1>2 DEF Delete, HasRow, Post
  <2> QED BY <1>2, <2>1, CountUntouched DEF Delete, LikersOf
<1>3. ASSUME NEW s \in Slots, NEW p \in Posts, NEW u \in Users,
             LikeRead(s, p, u)
      PROVE  post'[q].likeCount = Cardinality(LikersOf(q)')
  BY <1>3, CountUntouched DEF LikeRead, LikersOf, HasRow
<1>4. ASSUME NEW s \in Slots, NEW p \in Posts, NEW u \in Users,
             PinClear(s, p, u)
      PROVE  post'[q].likeCount = Cardinality(LikersOf(q)')
  <2>1. HasRow(q) /\ post'[q].likeCount = post[q].likeCount
    BY <1>4 DEF PinClear, Unpin, HasRow, Post
  <2> QED BY <1>4, <2>1, CountUntouched DEF PinClear, LikersOf
<1>5. ASSUME NEW s \in Slots, LikeInsert(s)
      PROVE  post'[q].likeCount = Cardinality(LikersOf(q)')
  <2> DEFINE p == request[s].post
             u == request[s].user
  <2>1. p \in Posts /\ u \in Users
    BY <1>5 DEF LikeInsert, Request, Idle
  <2>2. HasRow(q) /\ q \notin early
    BY <1>5, <2>1 DEF LikeInsert, InsertLike, Counted, HasRow, Post
  <2>3. CASE post' = post /\ LikersOf(q)' = LikersOf(q)
    BY <2>2, <2>3, CountUntouched
  <2>4. CASE <<p, u>> \notin likes /\ InsertLike(p, u)
    <3>1. CASE q = p
      <4>1. post'[q].likeCount = post[q].likeCount + 1
        BY <2>1, <2>2, <2>4, <3>1 DEF InsertLike, Counted, Post
      <4>2. Cardinality(LikersOf(q)') = Cardinality(LikersOf(q)) + 1
        BY <2>1, <2>4, <3>1, LikeAdded DEF InsertLike
      <4> QED BY <2>2, <4>1, <4>2 DEF CountMatchesRows
    <3>2. CASE q # p
      <4>1. post'[q] = post[q] /\ LikersOf(q)' = LikersOf(q)
        BY <2>1, <2>4, <3>2 DEF InsertLike, Counted, LikersOf
      <4> QED BY <2>2, <4>1, CountUntouched
    <3> QED BY <3>1, <3>2
  <2>5. CASE <<p, u>> \in likes /\ InsertLike(p, u)
    BY <2>2, <2>5, CountUntouched DEF InsertLike, LikersOf
  <2> QED BY <1>5, <2>3, <2>4, <2>5 DEF LikeInsert, LikersOf
<1>6. ASSUME NEW s \in Slots, LikeDelete(s)
      PROVE  post'[q].likeCount = Cardinality(LikersOf(q)')
  <2> DEFINE p == request[s].post
             u == request[s].user
  <2>1. p \in Posts /\ u \in Users
    BY <1>6 DEF LikeDelete, Request, Idle
  <2>2. HasRow(q) /\ q \notin early
    BY <1>6, <2>1 DEF LikeDelete, Counted, HasRow, Post
  <2>3. CASE <<p, u>> \notin likes
    BY <1>6, <2>2, <2>3, CountUntouched DEF LikeDelete, LikersOf
  <2>4. CASE <<p, u>> \in likes /\ q # p
    <3>1. post'[q] = post[q] /\ LikersOf(q)' = LikersOf(q)
      BY <1>6, <2>1, <2>4 DEF LikeDelete, Counted, LikersOf
    <3> QED BY <2>2, <3>1, CountUntouched
  <2>5. CASE <<p, u>> \in likes /\ q = p
    <3>1. post'[q].likeCount = Decremented(post[q].likeCount)
      BY <1>6, <2>1, <2>2, <2>5 DEF LikeDelete, Counted, Post
    <3>2. LikersOf(q)' = LikersOf(q) \ {u}
      BY <1>6, <2>1, <2>5 DEF LikeDelete, LikersOf
    <3> QED BY <2>1, <2>2, <2>5, <3>1, <3>2, LikeRemoved
            DEF CountMatchesRows, Decremented
  <2> QED BY <2>3, <2>4, <2>5
<1>7. ASSUME NEW s \in Slots, PinSet(s)
      PROVE  post'[q].likeCount = Cardinality(LikersOf(q)')
  <2>1. HasRow(q) /\ post'[q].likeCount = post[q].likeCount
    BY <1>7 DEF PinSet, HasRow, Post
  <2> QED BY <1>7, <2>1, CountUntouched DEF PinSet, LikersOf
<1>8. ASSUME NEW s \in Slots, Abandon(s)
      PROVE  post'[q].likeCount = Cardinality(LikersOf(q)')
  BY <1>8, CountUntouched DEF Abandon, LikersOf, HasRow
<1>9. ASSUME NEW u \in Users, HardDeleteUser(u)
      PROVE  post'[q].likeCount = Cardinality(LikersOf(q)')
  <2>1. HasRow(q) /\ post[q].author # u /\ q \notin early
    BY <1>9 DEF HardDeleteUser, HasRow, NoRow
  <2>2. LikersOf(q)' = LikersOf(q) \ {u}
    BY <1>9 DEF HardDeleteUser, LikersOf
  <2>3. CASE <<q, u>> \in likes
    <3>1. post'[q].likeCount = Decremented(post[q].likeCount)
      BY <1>9, <2>1, <2>3 DEF HardDeleteUser, Post
    <3> QED BY <2>1, <2>2, <2>3, <3>1, LikeRemoved
            DEF CountMatchesRows, Decremented
  <2>4. CASE <<q, u>> \notin likes
    <3>1. post'[q] = post[q]
      BY <1>9, <2>1, <2>4 DEF HardDeleteUser
    <3>2. LikersOf(q)' = LikersOf(q)
      BY <2>2, <2>4 DEF LikersOf
    <3> QED BY <2>1, <3>1, <3>2, CountUntouched
  <2> QED BY <2>3, <2>4
<1>10. CASE UNCHANGED vars
  BY <1>10, CountUntouched DEF vars, LikersOf, HasRow
<1> QED
  BY <1>1, <1>2, <1>3, <1>4, <1>5, <1>6, <1>7, <1>8, <1>9, <1>10 DEF Next

\* The like counter of a post equals the number of its likes rows in every
\* reachable state, unless the post was liked before it existed.
THEOREM CounterIsExact == Spec => []CountMatchesRows
<1>1. Init => CountMatchesRows
  BY DEF Init, CountMatchesRows, HasRow, NoRow
<1>2. TypeOK /\ CountMatchesRows /\ [Next]_vars => CountMatchesRows'
  BY CountStep
<1> QED BY <1>1, <1>2, TypeCorrect, PTL DEF Spec
-----------------------------------------------------------------------------
(***************************************************************************)
(* The toggle.                                                             *)
(***************************************************************************)
\* Why an undisturbed read stays true: two requests of one user for one post
\* that are both about to write have disturbed each other.
OverlapsAreMarked ==
  \A s, t \in Slots :
    (s # t /\ request[s].pc \in {"insert", "delete"}
       /\ Writing(t, request[s].post, request[s].user))
      => request[s].disturbed

ToggleInv == UndisturbedToggleIsExact /\ OverlapsAreMarked

\* A step that starts no request and changes no likes row of a request that
\* is still undisturbed.
LEMMA ToggleKept ==
  ASSUME ToggleInv,
         \A s \in Slots : request'[s] = request[s] \/ request'[s] = Idle,
         \A s \in Slots :
           (request'[s].pc \in {"insert", "delete"} /\ ~request'[s].disturbed)
             => (<<request[s].post, request[s].user>> \in likes
                   <=> <<request[s].post, request[s].user>> \in likes')
  PROVE  ToggleInv'
<1>1. UndisturbedToggleIsExact'
  BY DEF ToggleInv, UndisturbedToggleIsExact, Idle
<1>2. OverlapsAreMarked'
  BY DEF ToggleInv, OverlapsAreMarked, Writing, Idle
<1> QED BY <1>1, <1>2 DEF ToggleInv

LEMMA ToggleStep ==
  ASSUME TypeOK, ToggleInv, [Next]_vars
  PROVE  ToggleInv'
<1> USE DEF TypeOK
<1>1. ASSUME NEW s \in Slots, NEW p \in Posts, NEW u \in Users,
             LikeRead(s, p, u)
      PROVE  ToggleInv'
  <2> DEFINE overlaps == \E t \in Slots : Writing(t, p, u)
             new == [pc |-> IF AlreadyLiked(p, u) THEN "delete" ELSE "insert",
                     user |-> u, post |-> p, disturbed |-> overlaps]
  <2>1. request'[s] = new
    BY <1>1 DEF LikeRead
  <2>2. ASSUME NEW t \in Slots, t # s
        PROVE  /\ request'[t].pc = request[t].pc
               /\ request'[t].post = request[t].post
               /\ request'[t].user = request[t].user
               /\ Writing(t, p, u) => request'[t].disturbed
               /\ ~Writing(t, p, u) => request'[t] = request[t]
    <3>1. CASE Writing(t, p, u)
      <4>1. request'[t] = [request[t] EXCEPT !.disturbed = TRUE]
        BY <1>1, <2>2, <3>1 DEF LikeRead
      <4>2. request[t].pc # "idle"
        BY <3>1 DEF Writing
      <4>3. request[t] \in [pc : {"insert", "delete", "pin"}, user : Users,
                            post : Posts, disturbed : BOOLEAN]
        BY <4>2 DEF Request, Idle
      <4> QED BY <3>1, <4>1, <4>3
    <3>2. CASE ~Writing(t, p, u)
      BY <1>1, <2>2, <3>2 DEF LikeRead
    <3> QED BY <3>1, <3>2
  <2>3. likes' = likes /\ request[s].pc = "idle"
    BY <1>1 DEF LikeRead
  <2>4. UndisturbedToggleIsExact'
    <3> SUFFICES ASSUME NEW t \in Slots,
                        request'[t].pc \in {"insert", "delete"},
                        ~request'[t].disturbed
                 PROVE  request'[t].pc = "delete"
                          <=> <<request'[t].post, request'[t].user>> \in likes
      BY <2>3 DEF UndisturbedToggleIsExact
    <3>1. CASE t = s
      BY <2>1, <3>1 DEF AlreadyLiked
    <3>2. CASE t # s
      BY <2>2, <3>2 DEF ToggleInv, UndisturbedToggleIsExact
    <3> QED BY <3>1, <3>2
  <2>5. OverlapsAreMarked'
    <3> SUFFICES ASSUME NEW t \in Slots, NEW v \in Slots, t # v,
                        request'[t].pc \in {"insert", "delete"},
                        request'[v].pc \in {"insert", "delete"},
                        request'[v].post = request'[t].post,
                        request'[v].user = request'[t].user
                 PROVE  request'[t].disturbed
      BY DEF OverlapsAreMarked, Writing
    <3>1. CASE t = s
      <4>1. Writing(v, p, u)
        BY <2>1, <2>2, <3>1 DEF Writing
      <4> QED BY <2>1, <3>1, <4>1
    <3>2. CASE t # s /\ v = s
      <4>1. Writing(t, p, u)
        BY <2>1, <2>2, <3>2 DEF Writing
      <4> QED BY <2>2, <3>2, <4>1
    <3>3. CASE t # s /\ v # s
      <4>1. request[t].disturbed
        BY <2>2, <3>3 DEF ToggleInv, OverlapsAreMarked, Writing
      <4> QED BY <2>2, <3>3, <4>1
    <3> QED BY <3>1, <3>2, <3>3
  <2> QED BY <2>4, <2>5 DEF ToggleInv
<1>2. ASSUME NEW s \in Slots, LikeInsert(s)
      PROVE  ToggleInv'
  <2>1. \A t \in Slots : request'[t] = request[t] \/ request'[t] = Idle
    BY <1>2 DEF LikeInsert
  <2>2. \A l : l # <<request[s].post, request[s].user>>
                => (l \in likes <=> l \in likes')
    BY <1>2 DEF LikeInsert, InsertLike
  <2>3. ASSUME NEW t \in Slots, request'[t].pc \in {"insert", "delete"},
               ~request'[t].disturbed
        PROVE  <<request[t].post, request[t].user>>
                 # <<request[s].post, request[s].user>>
    <3>1. t # s /\ request'[t] = request[t]
      BY <1>2, <2>1, <2>3 DEF LikeInsert, Idle
    <3> QED BY <1>2, <2>3, <3>1
            DEF LikeInsert, ToggleInv, OverlapsAreMarked, Writing
  <2> QED BY <2>1, <2>2, <2>3, ToggleKept
<1>3. ASSUME NEW s \in Slots, LikeDelete(s)
      PROVE  ToggleInv'
  <2>1. \A t \in Slots : request'[t] = request[t] \/ request'[t] = Idle
    BY <1>3 DEF LikeDelete
  <2>2. \A l : l # <<request[s].post, request[s].user>>
                => (l \in likes <=> l \in likes')
    BY <1>3 DEF LikeDelete
  <2>3. ASSUME NEW t \in Slots, request'[t].pc \in {"insert", "delete"},
               ~request'[t].disturbed
        PROVE  <<request[t].post, request[t].user>>
                 # <<request[s].post, request[s].user>>
    <3>1. t # s /\ request'[t] = request[t]
      BY <1>3, <2>1, <2>3 DEF LikeDelete, Idle
    <3> QED BY <1>3, <2>3, <3>1
            DEF LikeDelete, ToggleInv, OverlapsAreMarked, Writing
  <2> QED BY <2>1, <2>2, <2>3, ToggleKept
<1>4. ASSUME NEW s \in Slots, NEW p \in Posts, NEW u \in Users,
             PinClear(s, p, u)
      PROVE  ToggleInv'
  <2>1. \A t \in Slots : request'[t] = request[t] \/ request'[t].pc = "pin"
    BY <1>4 DEF PinClear
  <2>2. likes' = likes
    BY <1>4 DEF PinClear
  <2> QED BY <2>1, <2>2
          DEF ToggleInv, UndisturbedToggleIsExact, OverlapsAreMarked, Writing
<1>5. ASSUME NEW s \in Slots, PinSet(s) \/ Abandon(s)
      PROVE  ToggleInv'
  BY <1>5, ToggleKept DEF PinSet, Abandon
<1>6. ASSUME NEW u \in Users, HardDeleteUser(u)
      PROVE  ToggleInv'
  <2>1. ASSUME NEW t \in Slots
        PROVE  /\ request'[t].pc = request[t].pc
               /\ request'[t].post = request[t].post
               /\ request'[t].user = request[t].user
               /\ request[t].disturbed => request'[t].disturbed
               /\ (request[t].pc \in {"insert", "delete"}
                     /\ request[t].user = u) => request'[t].disturbed
    <3>1. CASE request[t].pc \in {"insert", "delete"} /\ request[t].user = u
      <4>1. request'[t] = [request[t] EXCEPT !.disturbed = TRUE]
        BY <1>6, <3>1 DEF HardDeleteUser
      <4>2. request[t] \in [pc : {"insert", "delete", "pin"}, user : Users,
                            post : Posts, disturbed : BOOLEAN]
        BY <3>1 DEF Request, Idle
      <4> QED BY <4>1, <4>2
    <3>2. CASE ~(request[t].pc \in {"insert", "delete"}
                   /\ request[t].user = u)
      BY <1>6, <3>2 DEF HardDeleteUser
    <3> QED BY <3>1, <3>2
  <2>2. \A p, v : v # u => (<<p, v>> \in likes <=> <<p, v>> \in likes')
    BY <1>6 DEF HardDeleteUser
  <2>3. UndisturbedToggleIsExact'
    <3> SUFFICES ASSUME NEW t \in Slots,
                        request'[t].pc \in {"insert", "delete"},
                        ~request'[t].disturbed
                 PROVE  request'[t].pc = "delete"
                          <=> <<request'[t].post, request'[t].user>> \in likes'
      BY DEF UndisturbedToggleIsExact
    <3> QED BY <2>1, <2>2 DEF ToggleInv, UndisturbedToggleIsExact
  <2>4. OverlapsAreMarked'
    BY <2>1 DEF ToggleInv, OverlapsAreMarked, Writing
  <2> QED BY <2>3, <2>4 DEF ToggleInv
<1>7. ASSUME UNCHANGED <<request, likes>>
      PROVE  ToggleInv'
  BY <1>7 DEF ToggleInv, UndisturbedToggleIsExact, OverlapsAreMarked, Writing
<1> QED
  BY <1>1, <1>2, <1>3, <1>4, <1>5, <1>6, <1>7 DEF Next, vars, Create, Delete

\* When no other request of the same user for the same post overlaps, what
\* like read is still true when it writes.
THEOREM ToggleIsExact == Spec => []UndisturbedToggleIsExact
<1>1. Init => ToggleInv
  BY DEF Init, ToggleInv, UndisturbedToggleIsExact, OverlapsAreMarked, Idle
<1>2. TypeOK /\ ToggleInv /\ [Next]_vars => ToggleInv'
  BY ToggleStep
<1>3. ToggleInv => UndisturbedToggleIsExact
  BY DEF ToggleInv
<1> QED BY <1>1, <1>2, <1>3, TypeCorrect, PTL DEF Spec
-----------------------------------------------------------------------------
(***************************************************************************)
(* The pins.                                                               *)
(***************************************************************************)
\* A request that has unpinned but not yet pinned accounts for the pin it is
\* about to set.
PinInv ==
  \A a \in Users :
    /\ IsFiniteSet(PinnedBy(a))
    /\ Cardinality(PinnedBy(a)) + Cardinality(Pinning(a))
         =< Cardinality(Slots)

LEMMA PinningFinite ==
  ASSUME NEW a
  PROVE  /\ IsFiniteSet(Pinning(a))
         /\ Cardinality(Pinning(a)) \in Nat
         /\ Cardinality(Pinning(a)) =< Cardinality(Slots)
<1>1. Pinning(a) \in SUBSET Slots
  BY DEF Pinning
<1> QED BY <1>1, FS_Subset, FS_CardinalityType, FiniteAssumption

\* A step that neither pins for an author nor starts to.
LEMMA PinsShrink ==
  ASSUME PinInv, NEW a \in Users,
         PinnedBy(a)' \subseteq PinnedBy(a), Pinning(a)' \subseteq Pinning(a)
  PROVE  /\ IsFiniteSet(PinnedBy(a)')
         /\ Cardinality(PinnedBy(a)') + Cardinality(Pinning(a)')
              =< Cardinality(Slots)
<1>1. /\ IsFiniteSet(PinnedBy(a)) /\ IsFiniteSet(Pinning(a))
      /\ Cardinality(PinnedBy(a)) + Cardinality(Pinning(a))
           =< Cardinality(Slots)
  BY PinningFinite DEF PinInv
<1>2. /\ IsFiniteSet(PinnedBy(a)') /\ IsFiniteSet(Pinning(a)')
      /\ Cardinality(PinnedBy(a)') =< Cardinality(PinnedBy(a))
      /\ Cardinality(Pinning(a)') =< Cardinality(Pinning(a))
  BY <1>1, FS_Subset
<1>3. /\ Cardinality(PinnedBy(a)) \in Nat /\ Cardinality(Pinning(a)) \in Nat
      /\ Cardinality(PinnedBy(a)') \in Nat /\ Cardinality(Pinning(a)') \in Nat
      /\ Cardinality(Slots) \in Nat
  BY <1>1, <1>2, FS_CardinalityType, FiniteAssumption
<1> QED BY <1>1, <1>2, <1>3

LEMMA PinStep ==
  ASSUME TypeOK, PinInv, [Next]_vars
  PROVE  PinInv'
<1> SUFFICES ASSUME NEW a \in Users
             PROVE  /\ IsFiniteSet(PinnedBy(a)')
                    /\ Cardinality(PinnedBy(a)') + Cardinality(Pinning(a)')
                         =< Cardinality(Slots)
  BY DEF PinInv
<1> DEFINE Goal == /\ IsFiniteSet(PinnedBy(a)')
                   /\ Cardinality(PinnedBy(a)') + Cardinality(Pinning(a)')
                        =< Cardinality(Slots)
<1> USE DEF TypeOK
<1>1. ASSUME NEW p \in Posts, NEW u \in Users, Create(p, u)
      PROVE  Goal
  <2>1. PinnedBy(a)' \subseteq PinnedBy(a) /\ Pinning(a)' \subseteq Pinning(a)
    BY <1>1 DEF Create, PinnedBy, Pinning, HasRow
  <2> QED BY <2>1, PinsShrink
<1>2. ASSUME NEW p \in Posts, Delete(p)
      PROVE  Goal
  <2>1. PinnedBy(a)' \subseteq PinnedBy(a) /\ Pinning(a)' \subseteq Pinning(a)
    BY <1>2 DEF Delete, PinnedBy, Pinning, HasRow, Post
  <2> QED BY <2>1, PinsShrink
<1>3. ASSUME NEW s \in Slots, NEW p \in Posts, NEW u \in Users,
             LikeRead(s, p, u)
      PROVE  Goal
  <2>1. ASSUME NEW t \in Slots, request'[t].pc = "pin"
        PROVE  request'[t] = request[t]
    <3>1. CASE t # s /\ ~Writing(t, p, u)
      BY <1>3, <3>1 DEF LikeRead
    <3>2. CASE t = s
      BY <1>3, <2>1, <3>2 DEF LikeRead
    <3>3. CASE t # s /\ Writing(t, p, u)
      <4>1. request'[t] = [request[t] EXCEPT !.disturbed = TRUE]
        BY <1>3, <3>3 DEF LikeRead
      <4>2. request[t] \in [pc : {"insert", "delete", "pin"}, user : Users,
                            post : Posts, disturbed : BOOLEAN]
        BY <3>3 DEF Request, Idle, Writing
      <4> QED BY <2>1, <3>3, <4>1, <4>2 DEF Writing
    <3> QED BY <3>1, <3>2, <3>3
  <2>2. PinnedBy(a)' \subseteq PinnedBy(a) /\ Pinning(a)' \subseteq Pinning(a)
    BY <1>3, <2>1 DEF LikeRead, PinnedBy, Pinning, HasRow
  <2> QED BY <2>2, PinsShrink
<1>4. ASSUME NEW s \in Slots, NEW p \in Posts, NEW u \in Users,
             PinClear(s, p, u)
      PROVE  Goal
  <2>1. CASE a = u
    <3>1. PinnedBy(a)' = {}
      BY <1>4, <2>1 DEF PinClear, Unpin, PinnedBy, HasRow, Post
    <3>2. Cardinality(Pinning(a)') \in Nat
            /\ Cardinality(Pinning(a)') =< Cardinality(Slots)
      <4>1. Pinning(a)' \in SUBSET Slots
        BY DEF Pinning
      <4> QED BY <4>1, FS_Subset, FS_CardinalityType, FiniteAssumption
    <3> QED BY <3>1, <3>2, FS_EmptySet
  <2>2. CASE a # u
    <3>1. PinnedBy(a)' \subseteq PinnedBy(a)
      BY <1>4, <2>2 DEF PinClear, Unpin, PinnedBy, HasRow, Post
    <3>2. Pinning(a)' \subseteq Pinning(a)
      BY <1>4, <2>2 DEF PinClear, Pinning
    <3> QED BY <3>1, <3>2, PinsShrink
  <2> QED BY <2>1, <2>2
<1>5. ASSUME NEW s \in Slots, LikeInsert(s)
      PROVE  Goal
  <2>1. PinnedBy(a)' \subseteq PinnedBy(a)
    BY <1>5 DEF LikeInsert, InsertLike, Counted, PinnedBy, HasRow, Post
  <2>2. Pinning(a)' \subseteq Pinning(a)
    BY <1>5 DEF LikeInsert, Pinning, Idle
  <2> QED BY <2>1, <2>2, PinsShrink
<1>6. ASSUME NEW s \in Slots, LikeDelete(s)
      PROVE  Goal
  <2>1. PinnedBy(a)' \subseteq PinnedBy(a)
    BY <1>6 DEF LikeDelete, Counted, PinnedBy, HasRow, Post
  <2>2. Pinning(a)' \subseteq Pinning(a)
    BY <1>6 DEF LikeDelete, Pinning, Idle
  <2> QED BY <2>1, <2>2, PinsShrink
<1>7. ASSUME NEW s \in Slots, PinSet(s)
      PROVE  Goal
  <2> DEFINE p == request[s].post
  <2>1. Pinning(a)' \subseteq Pinning(a)
    BY <1>7 DEF PinSet, Pinning, Idle
  <2>2. CASE PinnedBy(a)' \subseteq PinnedBy(a)
    BY <2>1, <2>2, PinsShrink
  <2>3. CASE ~(PinnedBy(a)' \subseteq PinnedBy(a))
    <3>1. request[s].user = a /\ PinnedBy(a)' \subseteq PinnedBy(a) \cup {p}
      BY <1>7, <2>3, SMTT(30) DEF PinSet, PinnedBy, HasRow, Post
    <3>2. Pinning(a)' = Pinning(a) \ {s} /\ s \in Pinning(a)
      BY <1>7, <3>1 DEF PinSet, Pinning, Idle
    <3>3. IsFiniteSet(PinnedBy(a)) /\ IsFiniteSet(PinnedBy(a) \cup {p})
            /\ Cardinality(PinnedBy(a) \cup {p})
                 =< Cardinality(PinnedBy(a)) + 1
      <4>1. IsFiniteSet(PinnedBy(a)) /\ Cardinality(PinnedBy(a)) \in Nat
        BY FS_CardinalityType DEF PinInv
      <4>2. /\ IsFiniteSet(PinnedBy(a) \cup {p})
            /\ Cardinality(PinnedBy(a) \cup {p}) =
                 IF p \in PinnedBy(a) THEN Cardinality(PinnedBy(a))
                 ELSE Cardinality(PinnedBy(a)) + 1
        BY <4>1, FS_AddElement, Zenon
      <4> QED BY <4>1, <4>2
    <3>4. IsFiniteSet(PinnedBy(a)')
            /\ Cardinality(PinnedBy(a)') =< Cardinality(PinnedBy(a) \cup {p})
      BY <3>1, <3>3, FS_Subset
    <3>5. Cardinality(Pinning(a)') = Cardinality(Pinning(a)) - 1
      BY <3>2, PinningFinite, FS_RemoveElement
    <3>6. /\ Cardinality(PinnedBy(a)) \in Nat
          /\ Cardinality(PinnedBy(a)') \in Nat
          /\ Cardinality(PinnedBy(a) \cup {p}) \in Nat
          /\ Cardinality(Pinning(a)) \in Nat
          /\ Cardinality(Slots) \in Nat
      BY <3>3, <3>4, PinningFinite, FS_CardinalityType, FiniteAssumption
    <3>7. Cardinality(PinnedBy(a)) + Cardinality(Pinning(a))
            =< Cardinality(Slots)
      BY DEF PinInv
    <3> QED BY <3>3, <3>4, <3>5, <3>6, <3>7
  <2> QED BY <2>2, <2>3
<1>8. ASSUME NEW s \in Slots, Abandon(s)
      PROVE  Goal
  <2>1. PinnedBy(a)' \subseteq PinnedBy(a) /\ Pinning(a)' \subseteq Pinning(a)
    BY <1>8 DEF Abandon, PinnedBy, Pinning, HasRow, Idle
  <2> QED BY <2>1, PinsShrink
<1>9. ASSUME NEW u \in Users, HardDeleteUser(u)
      PROVE  Goal
  <2>1. PinnedBy(a)' \subseteq PinnedBy(a)
    BY <1>9 DEF HardDeleteUser, PinnedBy, HasRow, NoRow, Post
  <2>2. ASSUME NEW t \in Slots, request'[t].pc = "pin"
        PROVE  request'[t] = request[t]
    <3>1. CASE request[t].pc \in {"insert", "delete"} /\ request[t].user = u
      <4>1. request'[t] = [request[t] EXCEPT !.disturbed = TRUE]
        BY <1>9, <3>1 DEF HardDeleteUser
      <4>2. request[t] \in [pc : {"insert", "delete", "pin"}, user : Users,
                            post : Posts, disturbed : BOOLEAN]
        BY <3>1 DEF Request, Idle
      <4> QED BY <2>2, <3>1, <4>1, <4>2
    <3>2. CASE ~(request[t].pc \in {"insert", "delete"}
                   /\ request[t].user = u)
      BY <1>9, <3>2 DEF HardDeleteUser
    <3> QED BY <3>1, <3>2
  <2>3. Pinning(a)' \subseteq Pinning(a)
    BY <2>2 DEF Pinning
  <2> QED BY <2>1, <2>3, PinsShrink
<1>10. CASE UNCHANGED vars
  <2>1. PinnedBy(a)' \subseteq PinnedBy(a) /\ Pinning(a)' \subseteq Pinning(a)
    BY <1>10 DEF vars, PinnedBy, Pinning, HasRow
  <2> QED BY <2>1, PinsShrink
<1> QED
  BY <1>1, <1>2, <1>3, <1>4, <1>5, <1>6, <1>7, <1>8, <1>9, <1>10 DEF Next

\* The pinned posts of an author and his pins under way are never more than
\* requests can be in flight at once; with one caller at a time, one.
THEOREM PinsAreBounded == Spec => []PinsBoundedByRequests
<1>1. Init => PinInv
  <2> SUFFICES ASSUME Init, NEW a \in Users
               PROVE  /\ IsFiniteSet(PinnedBy(a))
                      /\ Cardinality(PinnedBy(a)) + Cardinality(Pinning(a))
                           =< Cardinality(Slots)
    BY DEF PinInv
  <2>1. PinnedBy(a) = {} /\ Pinning(a) = {}
    BY DEF Init, PinnedBy, Pinning, HasRow, NoRow, Idle
  <2> QED BY <2>1, FS_EmptySet, FS_CardinalityType, FiniteAssumption
<1>2. TypeOK /\ PinInv /\ [Next]_vars => PinInv'
  BY PinStep
<1>3. PinInv => PinsBoundedByRequests
  <2> SUFFICES ASSUME PinInv, NEW a \in Users
               PROVE  Cardinality(PinnedBy(a)) + Cardinality(Pinning(a))
                        =< Cardinality(Slots)
    BY DEF PinsBoundedByRequests
  <2> QED BY Zenon DEF PinInv
<1> QED BY <1>1, <1>2, <1>3, TypeCorrect, PTL DEF Spec

----------------------------------------------------------------------------
(* Pictures and their posts                                                *)

Stages == {"edit", "presign", "upload", "register", "create", "posted"}
Page == [file : Files \cup {None}, chosen : Files \cup {None}, preview : Files \cup {None},
         reading : SUBSET Files, at : Stages, sent : Files \cup {None}, words : BOOLEAN,
         key : Nat, media : Nat]

\* The variables have their types, and no page clicked more often than all did.
Bounds ==
  /\ client \in [Pages -> {"web", "mobile"}] /\ s3 \in BOOLEAN
  /\ page \in [Pages -> Page]
  /\ keys \in Nat /\ stored \subseteq 1 .. keys /\ unseen \subseteq 1 .. keys
  /\ crossed \subseteq Pages /\ repeated \in [Pages -> Nat]
  /\ publishes \in [Pages -> Nat] /\ clicks \in 0 .. MaxPublishes
  /\ \A p \in Pages : publishes[p] <= clicks
  /\ faults \in 0 .. MaxFaults /\ picks \in 0 .. MaxPicks

\* Rows are numbered from one, and a number or a key has one row.
RowsRight ==
  /\ IsFiniteSet(rows)
  /\ \A r \in rows : /\ r.by \in Pages /\ r.key \in 0 .. keys
                     /\ r.id \in 1 .. Cardinality(rows)
  /\ \A r, q \in rows : r.key = q.key \/ r.id = q.id => r = q

\* Posts are numbered from zero, and name rows that are there.
PostsRight ==
  /\ IsFiniteSet(posts)
  /\ \A x \in posts : /\ x.by \in Pages /\ x.media \in 0 .. Cardinality(rows)
                      /\ x.n \in Nat /\ x.n < Cardinality(posts)

\* What a publish of page p knows of its key and its media, and what the page
\* shows.
KeyRight(p) ==
  /\ page[p].key <= keys
  /\ page[p].at = "presign" => page[p].key = 0
  /\ page[p].at = "upload" => page[p].key > 0
  /\ (page[p].at = "register" /\ s3 /\ Web(p)) => page[p].key \in stored \cup unseen \cup {0}
MediaRight(p) ==
  /\ page[p].media # 0 => page[p].at = "create" /\ page[p].sent # None
  /\ page[p].at \in {"presign", "upload", "register"} => page[p].sent # None
  /\ page[p].media # 0 =>
       /\ \E r \in rows : r.id = page[p].media /\ r.by = p
       /\ \A x \in posts : x.media # page[p].media
ShowsFile(p) ==
  p \notin crossed => IF page[p].reading = {} THEN page[p].preview = page[p].file
                      ELSE page[p].reading = {page[p].file}

PostsOf(p) == {x \in posts : x.by = p}
OrphansOf(p) == {r \in rows : r.by = p /\ \A x \in posts : x.media # r.id}

\* A publish that has no row yet.
Rowless(p) ==
  page[p].at \in {"presign", "upload", "register"}
  \/ (page[p].at = "create" /\ page[p].media = 0)

\* A publish makes a post, leaves a row, or has neither yet.
PostsCounted(p) ==
  Cardinality(PostsOf(p)) = repeated[p] + (IF page[p].at = "posted" THEN 1 ELSE 0)
RowsCounted(p) ==
  Web(p) => Cardinality(OrphansOf(p)) + Cardinality(PostsOf(p))
                + (IF Rowless(p) THEN 1 ELSE 0) <= publishes[p]

PageRight(p) ==
  KeyRight(p) /\ MediaRight(p) /\ ShowsFile(p) /\ PostsCounted(p) /\ RowsCounted(p)

\* The inductive invariant.
DraftsInv ==
  /\ Bounds /\ RowsRight /\ PostsRight
  /\ PostsHaveTheirMedia /\ RowsHaveObjects
  /\ \A p \in Pages : PageRight(p)

\* One page changes.
Paged(p, f) ==
  /\ page' \in [Pages -> Page] /\ page'[p] = f
  /\ \A q \in Pages \ {p} : page'[q] = page[q]

LEMMA PagePut ==
  ASSUME Bounds, NEW p \in Pages, NEW f \in Page, page' = [page EXCEPT ![p] = f]
  PROVE  Paged(p, f)
BY DEF Bounds, Paged

LEMMA PageTyped ==
  ASSUME Bounds, NEW p \in Pages
  PROVE  /\ page[p] \in Page /\ page[p].at \in Stages /\ page[p].key \in Nat
         /\ page[p].media \in Nat /\ page[p].reading \in SUBSET Files
         /\ page[p].sent \in Files \cup {None} /\ page[p].file \in Files \cup {None}
         /\ publishes[p] \in Nat /\ repeated[p] \in Nat
BY DEF Bounds, Page

LEMMA CountsTyped ==
  ASSUME RowsRight, PostsRight, NEW p \in Pages
  PROVE  /\ IsFiniteSet(OrphansOf(p)) /\ Cardinality(OrphansOf(p)) \in Nat
         /\ IsFiniteSet(PostsOf(p)) /\ Cardinality(PostsOf(p)) \in Nat
         /\ Cardinality(rows) \in Nat /\ Cardinality(posts) \in Nat
<1>1. OrphansOf(p) \subseteq rows /\ PostsOf(p) \subseteq posts
  BY DEF OrphansOf, PostsOf
<1> QED BY <1>1, FS_Subset, FS_CardinalityType DEF RowsRight, PostsRight

\* A page that goes on while the rows and the posts stay.
LEMMA QuietPage ==
  ASSUME DraftsInv, NEW p \in Pages, NEW f, Paged(p, f), Bounds',
         UNCHANGED <<client, s3, rows, posts, repeated>>,
         keys <= keys', stored \subseteq stored', unseen \subseteq unseen',
         \A q \in Pages \ {p} : (q \in crossed' <=> q \in crossed) /\ publishes'[q] = publishes[q],
         KeyRight(p)', MediaRight(p)', ShowsFile(p)',
         f.at = "posted" <=> page[p].at = "posted",
         publishes'[p] \in {publishes[p], publishes[p] + 1},
         Rowless(p)' => Rowless(p) \/ publishes'[p] = publishes[p] + 1
  PROVE  DraftsInv'
<1>1. RowsRight' /\ PostsRight' /\ PostsHaveTheirMedia' /\ RowsHaveObjects'
  BY DEF DraftsInv, RowsRight, PostsRight, PostsHaveTheirMedia, RowsHaveObjects, Web, Bounds
<1>2. \A q \in Pages : OrphansOf(q)' = OrphansOf(q) /\ PostsOf(q)' = PostsOf(q) /\ Web(q)' = Web(q)
  BY DEF OrphansOf, PostsOf, Web
<1>3. ASSUME NEW q \in Pages \ {p}
      PROVE  PageRight(q)'
  <2>1. page'[q] = page[q] /\ PageRight(q) /\ page[q] \in Page
    BY DEF Paged, DraftsInv, Bounds
  <2>2. KeyRight(q)'
    BY <1>2, <2>1 DEF PageRight, KeyRight, Page, Bounds, DraftsInv
  <2>3. MediaRight(q)' /\ ShowsFile(q)'
    BY <2>1 DEF PageRight, MediaRight, ShowsFile
  <2>4. PostsCounted(q)' /\ RowsCounted(q)'
    BY <1>2, <2>1 DEF PageRight, PostsCounted, RowsCounted, Rowless
  <2> QED BY <2>2, <2>3, <2>4 DEF PageRight
<1>4. PageRight(p)'
  <2>1. PostsCounted(p)'
    BY <1>2 DEF DraftsInv, PageRight, PostsCounted, Paged
  <2>2. RowsCounted(p)'
    <3>1. RowsCounted(p) /\ publishes[p] \in Nat
      BY PageTyped DEF DraftsInv, PageRight
    <3>2. Cardinality(OrphansOf(p)) \in Nat /\ Cardinality(PostsOf(p)) \in Nat
      BY CountsTyped DEF DraftsInv
    <3> QED BY <1>2, <3>1, <3>2 DEF RowsCounted
  <2> QED BY <2>1, <2>2 DEF PageRight
<1> QED BY <1>1, <1>3, <1>4 DEF DraftsInv

LEMMA PickStep ==
  ASSUME DraftsInv, NEW p \in Pages, Pick(p)
  PROVE  DraftsInv'
<1>b. Bounds /\ page[p] \in Page /\ page[p].at # "posted" /\ PageRight(p)
  BY PageTyped DEF DraftsInv, Pick, Open
<1>1. PICK f \in Files :
        /\ picks < MaxPicks /\ picks' = picks + 1
        /\ page' = [page EXCEPT ![p].file = f, ![p].chosen = f,
                      ![p].preview = IF Web(p) THEN @ ELSE f,
                      ![p].reading = IF Web(p) THEN @ \cup {f} ELSE @]
        /\ crossed' = IF page[p].reading # {} THEN crossed \cup {p} ELSE crossed
        /\ UNCHANGED <<client, s3, server, clicked, faults, unseen, repeated>>
  BY DEF Pick
<1> DEFINE g == [page[p] EXCEPT !.file = f, !.chosen = f,
                      !.preview = IF Web(p) THEN @ ELSE f,
                      !.reading = IF Web(p) THEN @ \cup {f} ELSE @]
<1>2. page' = [page EXCEPT ![p] = g]
  BY <1>1
<1>3. /\ g \in Page /\ g.file = f
      /\ g.preview = IF Web(p) THEN page[p].preview ELSE f
      /\ g.reading = IF Web(p) THEN page[p].reading \cup {f} ELSE page[p].reading
      /\ g.at = page[p].at /\ g.sent = page[p].sent /\ g.key = page[p].key
      /\ g.media = page[p].media
  BY <1>b DEF Page
<1> HIDE DEF g
<1>4. Paged(p, g)
  BY <1>b, <1>2, <1>3, PagePut
<1>5. UNCHANGED <<client, s3, rows, posts, keys, stored, publishes, clicks, faults, unseen,
                repeated>>
  BY <1>1 DEF server, clicked
<1>6. Bounds'
  BY <1>b, <1>1, <1>4, <1>5, UploadsAssumption DEF Bounds, Paged
<1>7. KeyRight(p)' /\ MediaRight(p)'
  BY <1>b, <1>3, <1>4, <1>5 DEF PageRight, KeyRight, MediaRight, Paged, Web
<1>8. ShowsFile(p)'
  BY <1>b, <1>1, <1>3, <1>4 DEF PageRight, ShowsFile, Paged
<1>9. Rowless(p)' => Rowless(p)
  BY <1>3, <1>4 DEF Rowless, Paged
<1>10. keys <= keys'
  BY <1>b, <1>5 DEF Bounds
<1> QED BY <1>b, <1>1, <1>3, <1>4, <1>5, <1>6, <1>7, <1>8, <1>9, <1>10, QuietPage

LEMMA EndReadingStep ==
  ASSUME DraftsInv, NEW p \in Pages, EndReading(p)
  PROVE  DraftsInv'
<1>b. Bounds /\ page[p] \in Page /\ PageRight(p)
  BY PageTyped DEF DraftsInv
<1>1. PICK f \in page[p].reading :
        /\ page' = [page EXCEPT ![p].reading = @ \ {f}, ![p].preview = PreviewAfter(p, f)]
        /\ crossed' = IF page[p].reading = {f} /\ page[p].file = f THEN crossed \ {p} ELSE crossed
        /\ UNCHANGED <<client, s3, server, clicked, picks, faults, unseen, repeated>>
  BY DEF EndReading
<1> DEFINE g == [page[p] EXCEPT !.reading = @ \ {f}, !.preview = PreviewAfter(p, f)]
<1>2. page' = [page EXCEPT ![p] = g]
  BY <1>1
<1>f. f \in Files
  BY <1>b DEF Page
<1>3. /\ g \in Page /\ g.reading = page[p].reading \ {f} /\ g.preview = f
      /\ g.at = page[p].at /\ g.sent = page[p].sent /\ g.key = page[p].key
      /\ g.media = page[p].media /\ g.file = page[p].file
  BY <1>b, <1>f DEF Page, PreviewAfter
<1> HIDE DEF g
<1>4. Paged(p, g)
  BY <1>b, <1>2, <1>3, PagePut
<1>5. UNCHANGED <<client, s3, rows, posts, keys, stored, publishes, clicks, picks, faults, unseen,
                repeated>>
  BY <1>1 DEF server, clicked
<1>6. Bounds'
  BY <1>b, <1>1, <1>4, <1>5 DEF Bounds, Paged
<1>7. KeyRight(p)' /\ MediaRight(p)'
  BY <1>b, <1>3, <1>4, <1>5 DEF PageRight, KeyRight, MediaRight, Paged, Web
<1>8. ShowsFile(p)'
  <2>1. page'[p] = g
    BY <1>4 DEF Paged
  <2>2. CASE page[p].reading = {f} /\ page[p].file = f
    BY <1>3, <2>1, <2>2 DEF ShowsFile
  <2>3. CASE ~(page[p].reading = {f} /\ page[p].file = f)
    BY <1>b, <1>1, <1>3, <2>1, <2>3 DEF PageRight, ShowsFile
  <2> QED BY <2>2, <2>3
<1>9. Rowless(p)' => Rowless(p)
  BY <1>3, <1>4 DEF Rowless, Paged
<1>10. keys <= keys'
  BY <1>b, <1>5 DEF Bounds
<1> QED BY <1>b, <1>1, <1>3, <1>4, <1>5, <1>6, <1>7, <1>8, <1>9, <1>10, QuietPage

LEMMA RemoveStep ==
  ASSUME DraftsInv, NEW p \in Pages, Remove(p)
  PROVE  DraftsInv'
<1>b. Bounds /\ page[p] \in Page /\ PageRight(p)
  BY PageTyped DEF DraftsInv
<1>1. /\ page' = [page EXCEPT ![p].file = None, ![p].preview = None]
      /\ crossed' = IF page[p].reading # {} THEN crossed \cup {p} ELSE crossed
      /\ UNCHANGED <<client, s3, server, clicked, picks, faults, unseen, repeated>>
  BY DEF Remove
<1> DEFINE g == [page[p] EXCEPT !.file = None, !.preview = None]
<1>2. page' = [page EXCEPT ![p] = g]
  BY <1>1
<1>3. /\ g \in Page /\ g.file = None /\ g.preview = None /\ g.reading = page[p].reading
      /\ g.at = page[p].at /\ g.sent = page[p].sent /\ g.key = page[p].key
      /\ g.media = page[p].media
  BY <1>b DEF Page
<1> HIDE DEF g
<1>4. Paged(p, g)
  BY <1>b, <1>2, <1>3, PagePut
<1>5. UNCHANGED <<client, s3, rows, posts, keys, stored, publishes, clicks, picks, faults, unseen,
                repeated>>
  BY <1>1 DEF server, clicked
<1>6. Bounds'
  BY <1>b, <1>1, <1>4, <1>5 DEF Bounds, Paged
<1>7. KeyRight(p)' /\ MediaRight(p)'
  BY <1>b, <1>3, <1>4, <1>5 DEF PageRight, KeyRight, MediaRight, Paged, Web
<1>8. ShowsFile(p)'
  BY <1>b, <1>1, <1>3, <1>4 DEF PageRight, ShowsFile, Paged
<1>9. Rowless(p)' => Rowless(p)
  BY <1>3, <1>4 DEF Rowless, Paged
<1>10. keys <= keys'
  BY <1>b, <1>5 DEF Bounds
<1> QED BY <1>b, <1>1, <1>3, <1>4, <1>5, <1>6, <1>7, <1>8, <1>9, <1>10, QuietPage

LEMMA PublishStep ==
  ASSUME DraftsInv, NEW p \in Pages, Publish(p)
  PROVE  DraftsInv'
<1>b. Bounds /\ page[p] \in Page /\ PageRight(p) /\ page[p].at = "edit"
  BY PageTyped DEF DraftsInv, Publish
<1>1. PICK words \in BOOLEAN :
        /\ clicks < MaxPublishes /\ clicks' = clicks + 1
        /\ publishes' = [publishes EXCEPT ![p] = @ + 1]
        /\ page' = [page EXCEPT ![p].at = IF page[p].file = None THEN "create" ELSE "presign",
                      ![p].sent = page[p].file, ![p].words = words, ![p].key = 0, ![p].media = 0]
        /\ UNCHANGED <<client, s3, server, picks, faults, history>>
  BY DEF Publish
<1> DEFINE g == [page[p] EXCEPT !.at = IF page[p].file = None THEN "create" ELSE "presign",
                      !.sent = page[p].file, !.words = words, !.key = 0, !.media = 0]
<1>2. page' = [page EXCEPT ![p] = g]
  BY <1>1
<1>3. /\ g \in Page /\ g.file = page[p].file /\ g.preview = page[p].preview
      /\ g.reading = page[p].reading
      /\ g.at = IF page[p].file = None THEN "create" ELSE "presign"
      /\ g.sent = page[p].file /\ g.key = 0 /\ g.media = 0
  BY <1>b DEF Page, Stages
<1> HIDE DEF g
<1>4. Paged(p, g)
  BY <1>b, <1>2, <1>3, PagePut
<1>5. UNCHANGED <<client, s3, rows, posts, keys, stored, picks, faults, unseen, repeated,
                crossed>>
  BY <1>1 DEF server, history
<1>6. /\ publishes' \in [Pages -> Nat] /\ publishes'[p] = publishes[p] + 1
      /\ \A q \in Pages \ {p} : publishes'[q] = publishes[q]
  BY <1>b, <1>1 DEF Bounds
<1>7. Bounds'
  <2>1. clicks' \in 0 .. MaxPublishes /\ \A q \in Pages : publishes'[q] <= clicks'
    BY <1>b, <1>1, <1>6, UploadsAssumption DEF Bounds
  <2> QED BY <1>b, <1>4, <1>5, <1>6, <2>1 DEF Bounds, Paged
<1>8. KeyRight(p)' /\ MediaRight(p)' /\ ShowsFile(p)'
  BY <1>b, <1>3, <1>4, <1>5 DEF PageRight, KeyRight, MediaRight, ShowsFile, Paged, Web, Bounds
<1>9. keys <= keys'
  BY <1>b, <1>5 DEF Bounds
<1>10. g.at # "posted"
  BY <1>3
<1> QED BY <1>b, <1>3, <1>4, <1>5, <1>6, <1>7, <1>8, <1>9, <1>10, QuietPage

\* A call of a publish that changes neither rows nor posts.
LEMMA QuietCall ==
  ASSUME DraftsInv, NEW p \in Pages, NEW f \in Page, page' = [page EXCEPT ![p] = f],
         UNCHANGED <<client, s3, rows, posts, repeated, publishes, clicks, picks, crossed>>,
         faults' = faults \/ Fault,
         keys' \in Nat, keys <= keys',
         stored \subseteq stored', stored' \subseteq 1 .. keys',
         unseen \subseteq unseen', unseen' \subseteq 1 .. keys',
         f.file = page[p].file, f.preview = page[p].preview, f.reading = page[p].reading,
         page[p].at # "posted", f.at # "posted",
         KeyRight(p)', MediaRight(p)', Rowless(p)' => Rowless(p)
  PROVE  DraftsInv'
<1>b. Bounds /\ page[p] \in Page /\ PageRight(p)
  BY PageTyped DEF DraftsInv
<1>1. Paged(p, f)
  BY <1>b, PagePut
<1>2. faults' \in 0 .. MaxFaults
  BY <1>b, UploadsAssumption DEF Bounds, Fault
<1>3. Bounds'
  BY <1>b, <1>1, <1>2 DEF Bounds, Paged
<1>4. ShowsFile(p)'
  BY <1>b, <1>1 DEF PageRight, ShowsFile, Paged
<1> QED BY <1>b, <1>1, <1>3, <1>4, QuietPage

\* The draft again: it keeps what it shows, and knows nothing of the publish.
LEMMA DraftKnows ==
  ASSUME Bounds, NEW p \in Pages
  PROVE  /\ Draft(p) \in Page /\ Draft(p).at = "edit" /\ Draft(p).key = 0 /\ Draft(p).media = 0
         /\ Draft(p).file = page[p].file /\ Draft(p).preview = page[p].preview
         /\ Draft(p).reading = page[p].reading
BY PageTyped DEF Draft, Page, Stages

LEMMA GivesUpQuietly ==
  ASSUME DraftsInv, NEW p \in Pages, page[p].at # "posted", GivesUp(p), Fault \/ faults' = faults,
         UNCHANGED <<client, s3, rows, posts, repeated, publishes, clicks, picks, crossed>>,
         keys' \in Nat, keys <= keys',
         stored \subseteq stored', stored' \subseteq 1 .. keys',
         unseen \subseteq unseen', unseen' \subseteq 1 .. keys'
  PROVE  DraftsInv'
<1> DEFINE g == Draft(p)
<1>b. Bounds /\ page[p] \in Page
  BY PageTyped DEF DraftsInv
<1>1. page' = [page EXCEPT ![p] = g]
  BY DEF GivesUp, AfterAlert
<1>2. /\ g \in Page /\ g.at = "edit" /\ g.key = 0 /\ g.media = 0
      /\ g.file = page[p].file /\ g.preview = page[p].preview /\ g.reading = page[p].reading
  BY <1>b, DraftKnows
<1> HIDE DEF g
<1>3. page'[p] = g
  BY <1>b, <1>1 DEF Bounds
<1>4. KeyRight(p)' /\ MediaRight(p)' /\ ~Rowless(p)'
  BY <1>2, <1>3 DEF KeyRight, MediaRight, Rowless
<1> QED BY <1>b, <1>1, <1>2, <1>4, QuietCall

\* A call whose failure is not looked at: the publish goes on, with the key it
\* had, or none, and without a media.
LEMMA GoesQuietly ==
  ASSUME DraftsInv, NEW p \in Pages, NEW at \in {"register", "create"}, Goes(p, at),
         page[p].at \in {"presign", "upload", "register"}, Fault \/ faults' = faults,
         at = "register" /\ Web(p) /\ s3 => page[p].key \in stored' \cup unseen' \cup {0},
         UNCHANGED <<client, s3, rows, posts, repeated, publishes, clicks, picks, crossed, keys>>,
         stored \subseteq stored', stored' \subseteq 1 .. keys',
         unseen \subseteq unseen', unseen' \subseteq 1 .. keys'
  PROVE  DraftsInv'
<1> DEFINE g == [page[p] EXCEPT !.at = at]
<1>b. Bounds /\ page[p] \in Page /\ PageRight(p)
  BY PageTyped DEF DraftsInv
<1>1. page' = [page EXCEPT ![p] = g]
  BY DEF Goes
<1>2. /\ g \in Page /\ g.at = at /\ g.key = page[p].key /\ g.media = page[p].media
      /\ g.file = page[p].file /\ g.preview = page[p].preview /\ g.reading = page[p].reading
      /\ g.sent = page[p].sent
  BY <1>b DEF Page, Stages
<1> HIDE DEF g
<1>3. page'[p] = g
  BY <1>b, <1>1 DEF Bounds
<1>4. page[p].media = 0 /\ page[p].sent # None
  BY <1>b DEF PageRight, MediaRight
<1>5. KeyRight(p)'
  BY <1>b, <1>2, <1>3 DEF PageRight, KeyRight, Web
<1>6. MediaRight(p)'
  BY <1>2, <1>3, <1>4 DEF MediaRight
<1>7. Rowless(p)
  BY DEF Rowless
<1>8. keys' \in Nat /\ keys <= keys'
  BY <1>b DEF Bounds
<1> QED BY <1>b, <1>1, <1>2, <1>5, <1>6, <1>7, <1>8, QuietCall

\* Without the answer of a call for the media a web page gives up and a mobile
\* one goes on.
LEMMA ThrowsQuietly ==
  ASSUME DraftsInv, NEW p \in Pages, Throws(p),
         page[p].at \in {"presign", "upload", "register"}, Fault,
         UNCHANGED <<client, s3, rows, posts, repeated, publishes, clicks, picks, crossed, keys,
                     stored, unseen>>
  PROVE  DraftsInv'
<1>1. /\ keys' \in Nat /\ keys <= keys' /\ stored' \subseteq 1 .. keys' /\ stored \subseteq stored'
      /\ unseen \subseteq unseen' /\ unseen' \subseteq 1 .. keys'
  BY DEF DraftsInv, Bounds
<1>2. CASE Web(p)
  BY <1>1, <1>2, GivesUpQuietly DEF Throws
<1>3. CASE ~Web(p)
  BY <1>1, <1>3, GoesQuietly DEF Throws
<1> QED BY <1>2, <1>3

LEMMA PresignStep ==
  ASSUME DraftsInv, NEW p \in Pages, Presign(p)
  PROVE  DraftsInv'
<1>b. Bounds /\ page[p] \in Page /\ PageRight(p) /\ page[p].at = "presign"
  BY PageTyped DEF DraftsInv, Presign
<1>s. /\ UNCHANGED <<client, s3, stored, rows, posts, publishes, clicks, picks, crossed, unseen,
                     repeated>>
      /\ stored \subseteq 1 .. keys /\ unseen \subseteq 1 .. keys /\ keys \in Nat
  BY <1>b DEF Presign, clicked, history, Bounds
<1>k. page[p].key = 0
  BY <1>b DEF PageRight, KeyRight
<1>1. CASE /\ NoFault /\ keys' = keys + 1
           /\ page' = [page EXCEPT ![p].key = keys + 1,
                        ![p].at = IF Web(p) THEN AfterPresign ELSE "register"]
  <2> DEFINE g == [page[p] EXCEPT !.key = keys + 1,
                        !.at = IF Web(p) THEN AfterPresign ELSE "register"]
  <2>1. page' = [page EXCEPT ![p] = g]
    BY <1>1
  <2>2. /\ g \in Page /\ g.at = (IF Web(p) THEN "upload" ELSE "register")
        /\ g.key = keys + 1 /\ g.media = page[p].media /\ g.sent = page[p].sent
        /\ g.file = page[p].file /\ g.preview = page[p].preview /\ g.reading = page[p].reading
    <3>1. keys + 1 \in Nat /\ (IF Web(p) THEN AfterPresign ELSE "register") \in Stages
      BY <1>s DEF AfterPresign, Stages
    <3> QED BY <1>b, <3>1 DEF Page, AfterPresign
  <2> HIDE DEF g
  <2>3. page'[p] = g
    BY <1>b, <2>1 DEF Bounds
  <2>4. page[p].media = 0 /\ page[p].sent # None
    BY <1>b DEF PageRight, MediaRight
  <2>5. KeyRight(p)'
    <3>1. g.key = keys' /\ keys' > 0 /\ g.at # "presign" /\ Web(p)' = Web(p)
      BY <1>1, <1>s, <2>2 DEF Web
    <3>2. g.at = "register" => ~Web(p)
      BY <2>2
    <3>3. g.key <= keys'
      BY <1>1, <1>s, <2>2
    <3> QED BY <2>3, <3>1, <3>2, <3>3 DEF KeyRight
  <2>6. MediaRight(p)'
    BY <2>2, <2>3, <2>4 DEF MediaRight
  <2>7. Rowless(p) /\ g.at # "posted"
    BY <1>b, <2>2 DEF Rowless
  <2>8. /\ keys' \in Nat /\ keys <= keys'
        /\ stored' \subseteq 1 .. keys' /\ unseen' \subseteq 1 .. keys'
    BY <1>1, <1>s
  <2> QED BY <1>1, <1>b, <1>s, <2>1, <2>2, <2>5, <2>6, <2>7, <2>8, QuietCall DEF NoFault
<1>2. CASE UNCHANGED keys /\ Goes(p, "register") /\ (Fault \/ NoFault) /\ Web(p)
  BY <1>2, <1>b, <1>s, <1>k, GoesQuietly DEF NoFault
<1>3. CASE UNCHANGED keys /\ Goes(p, "create") /\ Fault
  BY <1>3, <1>b, <1>s, GoesQuietly
<1>4. CASE UNCHANGED keys /\ Throws(p) /\ Fault
  BY <1>4, <1>b, <1>s, ThrowsQuietly
<1> QED BY <1>1, <1>2, <1>3, <1>4 DEF Presign

LEMMA UploadStep ==
  ASSUME DraftsInv, NEW p \in Pages, Upload(p)
  PROVE  DraftsInv'
<1>b. Bounds /\ page[p] \in Page /\ PageRight(p) /\ page[p].at = "upload"
  BY PageTyped DEF DraftsInv, Upload
<1>s. /\ UNCHANGED <<client, s3, rows, posts, keys, publishes, clicks, picks, crossed, repeated>>
      /\ stored \subseteq 1 .. keys /\ unseen \subseteq 1 .. keys /\ keys \in Nat
  BY <1>b DEF Upload, clicked, Bounds
<1>k. page[p].key \in 1 .. keys
  BY <1>b, PageTyped DEF PageRight, KeyRight, Bounds
<1>1. CASE /\ UNCHANGED unseen /\ stored' \in {stored, stored \cup {page[p].key}}
           /\ Fault /\ GivesUp(p)
  <2>1. stored \subseteq stored' /\ stored' \subseteq 1 .. keys'
    BY <1>1, <1>s, <1>k
  <2> QED BY <1>1, <1>b, <1>s, <2>1, GivesUpQuietly
<1>2. CASE /\ UNCHANGED unseen /\ stored' = stored \cup {page[p].key}
           /\ NoFault /\ Goes(p, "register")
  <2>1. stored \subseteq stored' /\ stored' \subseteq 1 .. keys' /\ page[p].key \in stored'
    BY <1>2, <1>s, <1>k
  <2> QED BY <1>2, <1>b, <1>s, <2>1, GoesQuietly DEF NoFault
<1>3. CASE /\ UNCHANGED stored /\ unseen' = unseen \cup {page[p].key}
           /\ (Fault \/ NoFault) /\ Goes(p, "register")
  <2>1. unseen \subseteq unseen' /\ unseen' \subseteq 1 .. keys' /\ page[p].key \in unseen'
    BY <1>3, <1>s, <1>k
  <2> QED BY <1>3, <1>b, <1>s, <2>1, GoesQuietly DEF NoFault
<1> QED BY <1>1, <1>2, <1>3 DEF Upload

\* A row is written: nobody names it yet but the publish that wrote it.
LEMMA RowAdded ==
  ASSUME DraftsInv, NEW p \in Pages, NEW f \in Page, page' = [page EXCEPT ![p] = f],
         NEW r, r = [key |-> page[p].key, by |-> p, id |-> Cardinality(rows) + 1],
         page[p].at = "register", FreeKey(page[p].key), rows' = rows \cup {r},
         UNCHANGED <<client, s3, stored, posts, keys, publishes, clicks, picks, crossed, unseen,
                     repeated>>,
         faults' = faults \/ Fault,
         f.file = page[p].file, f.preview = page[p].preview, f.reading = page[p].reading,
         f.key <= keys, f.at \in {"edit", "create"},
         \/ f.media = Cardinality(rows) + 1 /\ f.at = "create" /\ f.sent # None
         \/ f.media = 0 /\ (Web(p) => f.at = "edit")
  PROVE  DraftsInv'
<1>b. Bounds /\ page[p] \in Page /\ PageRight(p) /\ RowsRight /\ PostsRight
  BY PageTyped DEF DraftsInv
<1>1. Paged(p, f)
  BY <1>b, PagePut
<1>2. Bounds'
  <2>1. faults' \in 0 .. MaxFaults
    BY <1>b, UploadsAssumption DEF Bounds, Fault
  <2> QED BY <1>b, <1>1, <2>1 DEF Bounds, Paged
<1> DEFINE n == Cardinality(rows) + 1
<1>3. /\ IsFiniteSet(rows') /\ Cardinality(rows') = n /\ n \in Nat /\ n > 0
      /\ Cardinality(rows) \in Nat /\ r \notin rows
  <2>1. r \notin rows
    BY DEF FreeKey
  <2> QED BY <1>b, <2>1, FS_AddElement, FS_CardinalityType DEF RowsRight
<1> HIDE DEF n
<1>4. r.by = p /\ r.id = n /\ r.key = page[p].key /\ r.key \in 0 .. keys
  BY <1>b, PageTyped DEF n, PageRight, KeyRight, Bounds
<1>5. \A q \in rows : q.id < n /\ q.key # r.key /\ q.id \in Nat
  BY <1>b, <1>3, <1>4 DEF RowsRight, n, FreeKey
<1>6. \A x \in posts : x.media \in Nat /\ x.media < n
  BY <1>b, <1>3 DEF PostsRight, n
<1>7. RowsRight'
  <2>1. \A q \in rows' : q.by \in Pages /\ q.key \in 0 .. keys' /\ q.id \in 1 .. n
    <3>1. \A q \in rows : q.by \in Pages /\ q.key \in 0 .. keys /\ q.id \in 1 .. n
      BY <1>b, <1>3 DEF RowsRight, n
    <3> QED BY <1>3, <1>4, <3>1
  <2>2. \A q, s \in rows' : q.key = s.key \/ q.id = s.id => q = s
    BY <1>b, <1>4, <1>5 DEF RowsRight
  <2> QED BY <1>3, <2>1, <2>2 DEF RowsRight
<1>8. PostsRight'
  BY <1>b, <1>3, <1>6 DEF PostsRight
<1>9. PostsHaveTheirMedia'
  BY DEF DraftsInv, PostsHaveTheirMedia, Web
<1>10. RowsHaveObjects'
  BY <1>b, <1>4 DEF DraftsInv, RowsHaveObjects, PageRight, KeyRight, Web
<1>11. \A q \in Pages : PostsOf(q)' = PostsOf(q) /\ Web(q)' = Web(q)
  BY DEF PostsOf, Web
<1>12. ASSUME NEW q \in Pages \ {p}
       PROVE  PageRight(q)'
  <2>1. page'[q] = page[q] /\ PageRight(q)
    BY <1>1 DEF Paged, DraftsInv
  <2>2. OrphansOf(q)' = OrphansOf(q)
    BY <1>4 DEF OrphansOf
  <2>3. KeyRight(q)' /\ ShowsFile(q)'
    BY <1>11, <2>1 DEF PageRight, KeyRight, ShowsFile
  <2>4. MediaRight(q)'
    BY <2>1 DEF PageRight, MediaRight
  <2>5. PostsCounted(q)' /\ RowsCounted(q)'
    BY <1>11, <2>1, <2>2 DEF PageRight, PostsCounted, RowsCounted, Rowless
  <2> QED BY <2>3, <2>4, <2>5 DEF PageRight
<1>13. PageRight(p)'
  <2>1. page'[p] = f
    BY <1>1 DEF Paged
  <2>2. KeyRight(p)' /\ ShowsFile(p)'
    BY <1>b, <2>1 DEF PageRight, KeyRight, ShowsFile
  <2>3. MediaRight(p)'
    <3>1. f.media # 0 => f.media = n /\ f.at = "create" /\ f.sent # None
      BY DEF n
    <3>2. r \in rows'
      OBVIOUS
    <3>3. f.media # 0 => \E q \in rows' : q.id = f.media /\ q.by = p
      BY <1>4, <3>1, <3>2
    <3>4. f.media # 0 => \A x \in posts' : x.media # f.media
      BY <1>6, <3>1
    <3> QED BY <2>1, <3>1, <3>3, <3>4 DEF MediaRight
  <2>4. PostsCounted(p)'
    BY <1>b, <1>11, <2>1 DEF PageRight, PostsCounted
  <2>5. RowsCounted(p)'
    <3> SUFFICES ASSUME Web(p)
                 PROVE  Cardinality(OrphansOf(p)') + Cardinality(PostsOf(p)')
                          + (IF Rowless(p)' THEN 1 ELSE 0) <= publishes[p]
      BY <1>11 DEF RowsCounted
    <3>1. OrphansOf(p)' = OrphansOf(p) \cup {r} /\ r \notin OrphansOf(p)
      BY <1>3, <1>4, <1>6 DEF OrphansOf
    <3>2. Cardinality(OrphansOf(p)') = Cardinality(OrphansOf(p)) + 1
      BY <1>b, <3>1, CountsTyped, FS_AddElement
    <3>3. Rowless(p) /\ ~Rowless(p)'
      BY <1>3, <2>1 DEF Rowless, n
    <3>4. Cardinality(OrphansOf(p)) + Cardinality(PostsOf(p)) + 1 <= publishes[p]
      BY <1>b, <3>3 DEF PageRight, RowsCounted
    <3>5. Cardinality(OrphansOf(p)) \in Nat /\ Cardinality(PostsOf(p)) \in Nat
      BY <1>b, CountsTyped
    <3> QED BY <1>11, <3>2, <3>3, <3>4, <3>5
  <2> QED BY <2>2, <2>3, <2>4, <2>5 DEF PageRight
<1> QED BY <1>2, <1>7, <1>8, <1>9, <1>10, <1>12, <1>13 DEF DraftsInv

LEMMA RegisterStep ==
  ASSUME DraftsInv, NEW p \in Pages, Register(p)
  PROVE  DraftsInv'
<1>b. Bounds /\ page[p] \in Page /\ PageRight(p) /\ page[p].at = "register" /\ RowsRight
  BY PageTyped DEF DraftsInv, Register
<1>s. /\ UNCHANGED <<client, s3, stored, posts, keys, publishes, clicks, picks, crossed, unseen,
                     repeated>>
      /\ stored \subseteq 1 .. keys /\ unseen \subseteq 1 .. keys /\ keys \in Nat
  BY <1>b DEF Register, clicked, Bounds
<1> DEFINE n == Cardinality(rows) + 1
           r == [key |-> page[p].key, by |-> p, id |-> n]
<1>n. n \in Nat
  BY <1>b, FS_CardinalityType DEF RowsRight
<1>k. page[p].key <= keys /\ 0 <= keys /\ page[p].media = 0 /\ page[p].sent # None
  BY <1>b, <1>s DEF PageRight, KeyRight, MediaRight
<1>1. CASE /\ FreeKey(page[p].key) /\ rows' = rows \cup {r} /\ NoFault
           /\ page' = [page EXCEPT ![p].at = "create", ![p].media = n]
  <2> DEFINE g == [page[p] EXCEPT !.at = "create", !.media = n]
  <2>1. page' = [page EXCEPT ![p] = g]
    BY <1>1
  <2>2. /\ g \in Page /\ g.at = "create" /\ g.media = n /\ g.key = page[p].key
        /\ g.sent = page[p].sent
        /\ g.file = page[p].file /\ g.preview = page[p].preview /\ g.reading = page[p].reading
    BY <1>b, <1>n DEF Page, Stages
  <2> HIDE DEF g
  <2> QED BY <1>1, <1>b, <1>k, <1>s, <2>1, <2>2, RowAdded DEF NoFault
<1>2. CASE FreeKey(page[p].key) /\ rows' = rows \cup {r} /\ Fault /\ Throws(p)
  <2>1. CASE Web(p)
    <3> DEFINE g == Draft(p)
    <3>1. page' = [page EXCEPT ![p] = g]
      BY <1>2, <2>1 DEF Throws, GivesUp, AfterAlert
    <3>2. /\ g \in Page /\ g.at = "edit" /\ g.media = 0 /\ g.key = 0
          /\ g.file = page[p].file /\ g.preview = page[p].preview /\ g.reading = page[p].reading
      BY <1>b, DraftKnows
    <3> HIDE DEF g
    <3> QED BY <1>2, <1>b, <1>k, <1>s, <3>1, <3>2, RowAdded
  <2>2. CASE ~Web(p)
    <3> DEFINE g == [page[p] EXCEPT !.at = "create"]
    <3>1. page' = [page EXCEPT ![p] = g]
      BY <1>2, <2>2 DEF Throws, Goes
    <3>2. /\ g \in Page /\ g.at = "create" /\ g.media = page[p].media /\ g.key = page[p].key
          /\ g.file = page[p].file /\ g.preview = page[p].preview /\ g.reading = page[p].reading
      BY <1>b DEF Page, Stages
    <3> HIDE DEF g
    <3> QED BY <1>2, <1>b, <1>k, <1>s, <2>2, <3>1, <3>2, RowAdded
  <2> QED BY <2>1, <2>2
<1>3. CASE UNCHANGED rows /\ (Fault \/ NoFault) /\ Goes(p, "create")
  BY <1>3, <1>b, <1>s, GoesQuietly DEF NoFault
<1>4. CASE UNCHANGED rows /\ Fault /\ Throws(p)
  BY <1>4, <1>b, <1>s, ThrowsQuietly
<1> QED BY <1>1, <1>2, <1>3, <1>4 DEF Register, RowIsTaken

\* What a post carries: the row its page registered, or nothing.
LEMMA MediaIsTheirs ==
  ASSUME DraftsInv, NEW p \in Pages, page[p].at = "create", ValidPost(p)
  PROVE  /\ Media(p) \in 0 .. Cardinality(rows)
         /\ Web(p) => Media(p) = page[p].media
         /\ Web(p) /\ page[p].sent # None => page[p].media # 0
         /\ ~(Web(p) /\ page[p].sent # None) => Media(p) = 0
         /\ Media(p) # 0 => \E r \in rows : r.id = Media(p) /\ r.by = p
<1>1. page[p].media # 0 => page[p].sent # None /\ \E r \in rows : r.id = page[p].media /\ r.by = p
  BY DEF DraftsInv, PageRight, MediaRight
<1>2. Cardinality(rows) \in Nat /\ \A r \in rows : r.id \in 1 .. Cardinality(rows)
  BY CountsTyped DEF DraftsInv, RowsRight
<1> QED BY <1>1, <1>2 DEF Media, ValidPost

\* A post is made: its row, if it names one, is no orphan any longer.
LEMMA PostAdded ==
  ASSUME DraftsInv, NEW p \in Pages, NEW f \in Page, page' = [page EXCEPT ![p] = f],
         NEW x, x = [by |-> p, media |-> Media(p), file |-> page[p].sent, n |-> Cardinality(posts)],
         page[p].at = "create", ValidPost(p), posts' = posts \cup {x},
         UNCHANGED <<client, s3, stored, rows, keys, publishes, clicks, picks, unseen>>,
         faults' = faults \/ Fault,
         f.key = 0, f.media = 0, ShowsFile(p)',
         \A q \in Pages \ {p} : q \in crossed' <=> q \in crossed,
         crossed' \subseteq Pages,
         \/ f.at = "edit" /\ repeated' = [repeated EXCEPT ![p] = @ + 1]
         \/ f.at = "posted" /\ UNCHANGED repeated
  PROVE  DraftsInv'
<1>b. Bounds /\ page[p] \in Page /\ PageRight(p) /\ RowsRight /\ PostsRight
  BY PageTyped DEF DraftsInv
<1>1. Paged(p, f)
  BY <1>b, PagePut
<1>2. /\ repeated' \in [Pages -> Nat]
      /\ \A q \in Pages \ {p} : repeated'[q] = repeated[q]
      /\ repeated'[p] + (IF f.at = "posted" THEN 1 ELSE 0) = repeated[p] + 1
  BY <1>b DEF Bounds
<1>3. Bounds'
  <2>1. faults' \in 0 .. MaxFaults
    BY <1>b, UploadsAssumption DEF Bounds, Fault
  <2> QED BY <1>b, <1>1, <1>2, <2>1 DEF Bounds, Paged
<1>m. /\ Media(p) \in 0 .. Cardinality(rows)
      /\ Web(p) => Media(p) = page[p].media
      /\ Web(p) /\ page[p].sent # None => page[p].media # 0
      /\ ~(Web(p) /\ page[p].sent # None) => Media(p) = 0
      /\ Media(p) # 0 => \E r \in rows : r.id = Media(p) /\ r.by = p
  BY MediaIsTheirs
<1> DEFINE m == Media(p)
<1>4. x.by = p /\ x.media = m /\ x.file = page[p].sent /\ x.n = Cardinality(posts)
  OBVIOUS
<1>5. /\ x \notin posts /\ IsFiniteSet(posts') /\ Cardinality(posts') = Cardinality(posts) + 1
      /\ Cardinality(posts) \in Nat
  <2>1. x \notin posts /\ Cardinality(posts) \in Nat
    BY <1>4, <1>b, FS_CardinalityType DEF PostsRight
  <2> QED BY <1>b, <2>1, FS_AddElement DEF PostsRight
<1>w. \A q \in Pages : Web(q)' = Web(q)
  BY DEF Web
<1> HIDE DEF m
<1>6. RowsRight' /\ RowsHaveObjects'
  BY <1>b DEF RowsRight, DraftsInv, RowsHaveObjects, Web
<1>7. PostsRight'
  <2>1. \A z \in posts : /\ z.by \in Pages /\ z.media \in 0 .. Cardinality(rows)
                         /\ z.n \in Nat /\ z.n < Cardinality(posts) + 1
    BY <1>b, <1>5 DEF PostsRight
  <2>2. /\ x.by \in Pages /\ x.media \in 0 .. Cardinality(rows)
        /\ x.n \in Nat /\ x.n < Cardinality(posts) + 1
    BY <1>4, <1>5, <1>m DEF m
  <2>3. \A z \in posts' : /\ z.by \in Pages /\ z.media \in 0 .. Cardinality(rows')
                          /\ z.n \in Nat /\ z.n < Cardinality(posts')
    BY <1>5, <2>1, <2>2
  <2> QED BY <1>5, <2>3 DEF PostsRight
<1>8. PostsHaveTheirMedia'
  <2>1. IF Web(p) /\ x.file # None THEN \E r \in rows : r.id = x.media /\ r.by = p
        ELSE x.media = 0
    BY <1>4, <1>m DEF m
  <2> QED BY <1>4, <2>1 DEF DraftsInv, PostsHaveTheirMedia, Web
<1>9. ASSUME NEW q \in Pages \ {p}
      PROVE  PageRight(q)'
  <2>1. page'[q] = page[q] /\ PageRight(q) /\ Web(q)' = Web(q)
    BY <1>1, <1>w DEF Paged, DraftsInv
  <2>2. PostsOf(q)' = PostsOf(q)
    BY <1>4 DEF PostsOf
  <2>3. OrphansOf(q)' = OrphansOf(q)
    <3>1. \A r \in rows : r.by = q => r.id # m
      <4> SUFFICES ASSUME NEW r \in rows, r.by = q, r.id = m
                   PROVE  FALSE
        OBVIOUS
      <4>1. r.id # 0
        BY <1>b DEF RowsRight
      <4>2. PICK s \in rows : s.id = m /\ s.by = p
        BY <4>1, <1>m DEF m
      <4> QED BY <1>b, <4>2 DEF RowsRight
    <3> QED BY <1>4, <3>1 DEF OrphansOf
  <2>4. KeyRight(q)' /\ ShowsFile(q)'
    BY <2>1 DEF PageRight, KeyRight, ShowsFile
  <2>5. MediaRight(q)'
    <3>1. page[q].media # 0 => page[q].media # m
      <4> SUFFICES ASSUME page[q].media # 0, page[q].media = m
                   PROVE  FALSE
        OBVIOUS
      <4>1. PICK r \in rows : r.id = page[q].media /\ r.by = q
        BY <2>1 DEF PageRight, MediaRight
      <4>2. PICK s \in rows : s.id = m /\ s.by = p
        BY <1>m DEF m
      <4> QED BY <1>b, <4>1, <4>2 DEF RowsRight
    <3> QED BY <1>4, <2>1, <3>1 DEF PageRight, MediaRight
  <2>6. PostsCounted(q)' /\ RowsCounted(q)'
    BY <1>2, <2>1, <2>2, <2>3 DEF PageRight, PostsCounted, RowsCounted, Rowless
  <2> QED BY <2>4, <2>5, <2>6 DEF PageRight
<1>10. PageRight(p)'
  <2>1. page'[p] = f /\ f.at \in {"edit", "posted"} /\ page[p].at # "posted"
    BY <1>1 DEF Paged
  <2>2. KeyRight(p)' /\ MediaRight(p)'
    BY <1>b, <2>1 DEF KeyRight, MediaRight, Bounds
  <2>3. PostsOf(p)' = PostsOf(p) \cup {x} /\ x \notin PostsOf(p)
    BY <1>4, <1>5 DEF PostsOf
  <2>4. /\ Cardinality(PostsOf(p)') = Cardinality(PostsOf(p)) + 1
        /\ Cardinality(PostsOf(p)) \in Nat /\ Cardinality(OrphansOf(p)) \in Nat
    BY <1>b, <2>3, CountsTyped, FS_AddElement
  <2>5. PostsCounted(p)'
    <3>1. Cardinality(PostsOf(p)) = repeated[p]
      BY <1>b, <2>1, PageTyped DEF PageRight, PostsCounted
    <3> QED BY <1>2, <2>1, <2>4, <3>1 DEF PostsCounted
  <2>6. RowsCounted(p)'
    <3> SUFFICES ASSUME Web(p)
                 PROVE  Cardinality(OrphansOf(p)') + Cardinality(PostsOf(p)') <= publishes[p]
      <4>1. ~Rowless(p)'
        BY <2>1 DEF Rowless
      <4>2. OrphansOf(p)' \subseteq OrphansOf(p)
        BY DEF OrphansOf
      <4>3. Cardinality(OrphansOf(p)') \in Nat
        BY <1>b, <4>2, CountsTyped, FS_Subset, FS_CardinalityType
      <4> QED BY <1>w, <2>4, <4>1, <4>3 DEF RowsCounted
    <3>1. /\ Cardinality(OrphansOf(p)) + Cardinality(PostsOf(p))
                + (IF page[p].media = 0 THEN 1 ELSE 0) <= publishes[p]
          /\ publishes[p] \in Nat
      BY <1>b, PageTyped DEF PageRight, RowsCounted, Rowless
    <3>2. m = page[p].media
      BY <1>m DEF m
    <3>3. CASE page[p].media = 0
      <4>1. OrphansOf(p)' = OrphansOf(p)
        BY <1>b, <1>4, <3>2, <3>3 DEF OrphansOf, RowsRight
      <4> QED BY <2>4, <3>1, <3>3, <4>1
    <3>4. CASE page[p].media # 0
      <4>1. PICK r \in rows : r.id = m /\ r.by = p
        BY <1>m, <3>2, <3>4 DEF m
      <4>2. r \in OrphansOf(p)
        BY <1>b, <3>2, <3>4, <4>1 DEF OrphansOf, PageRight, MediaRight
      <4>3. OrphansOf(p)' = OrphansOf(p) \ {r}
        <5>1. \A q \in rows : q.id = m => q = r
          BY <1>b, <4>1 DEF RowsRight
        <5> QED BY <1>4, <4>1, <5>1 DEF OrphansOf
      <4>4. Cardinality(OrphansOf(p)') = Cardinality(OrphansOf(p)) - 1
        BY <1>b, <4>2, <4>3, CountsTyped, FS_RemoveElement
      <4> QED BY <2>4, <3>1, <3>4, <4>4
    <3> QED BY <3>3, <3>4
  <2> QED BY <2>2, <2>5, <2>6 DEF PageRight
<1> QED BY <1>3, <1>6, <1>7, <1>8, <1>9, <1>10 DEF DraftsInv

LEMMA CreatePostStep ==
  ASSUME DraftsInv, NEW p \in Pages, CreatePost(p)
  PROVE  DraftsInv'
<1>b. Bounds /\ page[p] \in Page /\ PageRight(p) /\ page[p].at = "create"
  BY PageTyped DEF DraftsInv, CreatePost
<1>s. /\ UNCHANGED <<client, s3, stored, rows, keys, publishes, clicks, picks, unseen>>
      /\ stored \subseteq 1 .. keys /\ unseen \subseteq 1 .. keys /\ keys \in Nat
      /\ crossed' = IF page'[p].at = "posted" THEN crossed \ {p} ELSE crossed
  BY <1>b DEF CreatePost, clicked, Bounds
<1> DEFINE x == [by |-> p, media |-> Media(p), file |-> page[p].sent, n |-> Cardinality(posts)]
           d == Draft(p)
<1>d. /\ d \in Page /\ d.at = "edit" /\ d.media = 0 /\ d.key = 0
      /\ d.file = page[p].file /\ d.preview = page[p].preview /\ d.reading = page[p].reading
  BY <1>b, DraftKnows
<1>1. CASE /\ ValidPost(p) /\ posts' = posts \cup {x} /\ NoFault /\ UNCHANGED repeated
           /\ page' = [page EXCEPT ![p] = AfterPost(p)]
  <2> DEFINE g == AfterPost(p)
  <2>1. /\ g \in Page /\ g.at = "posted" /\ g.media = 0 /\ g.key = 0
        /\ g.file = None /\ g.preview = None /\ g.reading = {}
    BY DEF AfterPost, Fresh, Page, Stages
  <2>2. page' = [page EXCEPT ![p] = g]
    BY <1>1
  <2> HIDE DEF g
  <2>3. page'[p] = g
    BY <1>b, <2>2 DEF Bounds
  <2>4. /\ crossed' \subseteq Pages /\ \A q \in Pages \ {p} : q \in crossed' <=> q \in crossed
        /\ ShowsFile(p)'
    BY <1>b, <1>s, <2>1, <2>3 DEF Bounds, ShowsFile
  <2> QED BY <1>1, <1>b, <1>s, <2>1, <2>2, <2>4, PostAdded DEF NoFault
<1>2. CASE /\ ValidPost(p) /\ posts' = posts \cup {x} /\ Fault /\ GivesUp(p)
           /\ repeated' = [repeated EXCEPT ![p] = @ + 1]
  <2>1. page' = [page EXCEPT ![p] = d]
    BY <1>2 DEF GivesUp, AfterAlert
  <2> HIDE DEF d
  <2>2. page'[p] = d
    BY <1>b, <1>d, <2>1 DEF Bounds
  <2>3. /\ crossed' \subseteq Pages /\ \A q \in Pages \ {p} : q \in crossed' <=> q \in crossed
        /\ ShowsFile(p)'
    BY <1>b, <1>d, <1>s, <2>2 DEF Bounds, ShowsFile, PageRight
  <2> QED BY <1>2, <1>b, <1>d, <1>s, <2>1, <2>3, PostAdded
<1>3. CASE (Fault \/ NoFault) /\ GivesUp(p) /\ UNCHANGED <<posts, repeated>>
  <2>1. page'[p] = d
    BY <1>3, <1>b, <1>d DEF GivesUp, AfterAlert, Bounds
  <2>2. UNCHANGED crossed
    BY <1>d, <1>s, <2>1
  <2> QED BY <1>3, <1>b, <1>s, <2>2, GivesUpQuietly DEF NoFault
<1> QED BY <1>1, <1>2, <1>3 DEF CreatePost

LEMMA DraftsInit ==
  ASSUME UploadsInit
  PROVE  DraftsInv
<1>1. /\ Fresh \in Page /\ Fresh.at = "edit" /\ Fresh.media = 0 /\ Fresh.key = 0
      /\ Fresh.file = None /\ Fresh.preview = None /\ Fresh.reading = {}
  BY DEF Fresh, Page, Stages
<1>2. \A p \in Pages : page[p] = Fresh
  BY DEF UploadsInit
<1>3. Bounds
  BY <1>1, UploadsAssumption DEF UploadsInit, Bounds
<1>4. IsFiniteSet({}) /\ Cardinality({}) = 0
  BY FS_EmptySet
<1>5. RowsRight /\ PostsRight /\ PostsHaveTheirMedia /\ RowsHaveObjects
  BY <1>4 DEF UploadsInit, RowsRight, PostsRight, PostsHaveTheirMedia, RowsHaveObjects
<1>6. ASSUME NEW p \in Pages
      PROVE  PageRight(p)
  <2>1. KeyRight(p) /\ MediaRight(p) /\ ShowsFile(p) /\ ~Rowless(p)
    BY <1>1, <1>2 DEF UploadsInit, KeyRight, MediaRight, ShowsFile, Rowless
  <2>2. PostsOf(p) = {} /\ OrphansOf(p) = {}
    BY DEF UploadsInit, PostsOf, OrphansOf
  <2>3. PostsCounted(p) /\ RowsCounted(p)
    BY <1>1, <1>2, <1>4, <2>1, <2>2 DEF UploadsInit, PostsCounted, RowsCounted
  <2> QED BY <2>1, <2>3 DEF PageRight
<1> QED BY <1>3, <1>5, <1>6 DEF DraftsInv

LEMMA DraftsNext ==
  ASSUME DraftsInv, [UploadsNext]_uploadsVars
  PROVE  DraftsInv'
<1>1. CASE UNCHANGED uploadsVars
  <2>1. UNCHANGED <<client, s3, page, stored, rows, posts, keys, publishes, clicks, picks, faults,
                    crossed, unseen, repeated>>
    BY <1>1 DEF uploadsVars, server, clicked, history
  <2>2. Bounds' /\ RowsRight' /\ PostsRight' /\ PostsHaveTheirMedia' /\ RowsHaveObjects'
    BY <2>1 DEF DraftsInv, Bounds, RowsRight, PostsRight, PostsHaveTheirMedia, RowsHaveObjects, Web
  <2>3. \A p \in Pages : PageRight(p) => PageRight(p)'
    BY <2>1 DEF PageRight, KeyRight, MediaRight, ShowsFile, PostsCounted, RowsCounted, Rowless,
                PostsOf, OrphansOf, Web
  <2> QED BY <2>2, <2>3 DEF DraftsInv
<1>2. ASSUME NEW p \in Pages, Pick(p) \/ EndReading(p) \/ Remove(p) \/ Publish(p)
      PROVE  DraftsInv'
  BY <1>2, PickStep, EndReadingStep, RemoveStep, PublishStep
<1>3. ASSUME NEW p \in Pages, Step(p)
      PROVE  DraftsInv'
  BY <1>3, PresignStep, UploadStep, RegisterStep, CreatePostStep DEF Step
<1> QED BY <1>1, <1>2, <1>3 DEF UploadsNext

\* Every reachable state is well typed, rows and posts are numbered once, and
\* every page knows its key and its media and counts its posts.
THEOREM DraftsInvariant == UploadsSpec => []DraftsInv
<1>1. UploadsInit => DraftsInv
  BY DraftsInit
<1>2. DraftsInv /\ [UploadsNext]_uploadsVars => DraftsInv'
  BY DraftsNext
<1> QED BY <1>1, <1>2, PTL DEF UploadsSpec

\* Posts have their media, media their objects, a publish leaves one orphan at
\* most, and the preview is of the file that is sent, for any number of drafts.
THEOREM UploadsAreRight == UploadsSpec => []UploadsInv
<1>1. ASSUME DraftsInv
      PROVE  UploadsTypeOK
  <2>1. \A p \in Pages :
          /\ page[p].at \in {"edit", "presign", "upload", "register", "create", "posted"}
          /\ {page[p].file, page[p].chosen, page[p].preview, page[p].sent}
               \subseteq Files \cup {None}
          /\ page[p].reading \subseteq Files /\ page[p].key \in 0 .. keys
          /\ page[p].media \in Nat
    BY <1>1 DEF DraftsInv, Bounds, Page, Stages, PageRight, KeyRight
  <2>2. \A x \in posts : x.by \in Pages /\ x.media \in Nat
    BY <1>1 DEF DraftsInv, PostsRight
  <2>3. \A r, q \in rows : r.key = q.key => r = q
    BY <1>1 DEF DraftsInv, RowsRight
  <2>4. publishes \in [Pages -> 0 .. MaxPublishes]
    BY <1>1, UploadsAssumption DEF DraftsInv, Bounds
  <2> QED BY <1>1, <2>1, <2>2, <2>3, <2>4 DEF UploadsTypeOK, DraftsInv, Bounds
<1>2. ASSUME DraftsInv
      PROVE  OrphansComeFromFailures
  <2> SUFFICES ASSUME NEW p \in Pages, Web(p)
               PROVE  Cardinality(OrphansOf(p)) <= publishes[p] - Cardinality(PostsOf(p))
    BY DEF OrphansComeFromFailures, OrphansOf, PostsOf
  <2>1. RowsCounted(p) /\ publishes[p] \in Nat
    BY <1>2, PageTyped DEF DraftsInv, PageRight
  <2>2. Cardinality(OrphansOf(p)) \in Nat /\ Cardinality(PostsOf(p)) \in Nat
    BY <1>2, CountsTyped DEF DraftsInv
  <2> QED BY <2>1, <2>2 DEF RowsCounted
<1>3. ASSUME DraftsInv
      PROVE  PreviewIsFile
  BY <1>3 DEF DraftsInv, PageRight, ShowsFile, PreviewIsFile
<1>4. DraftsInv => UploadsInv
  BY <1>1, <1>2, <1>3 DEF UploadsInv, DraftsInv
<1> QED BY <1>4, DraftsInvariant, PTL

\* A draft is posted once, and once more for every publish that failed after
\* its post was made.
THEOREM DraftsArePostedOnce == UploadsSpec => []OnePostPerDraft
<1>1. DraftsInv => OnePostPerDraft
  BY DEF DraftsInv, PageRight, PostsCounted, PostsOf, OnePostPerDraft
<1> QED BY <1>1, DraftsInvariant, PTL
=============================================================================
