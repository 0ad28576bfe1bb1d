-------------------------- MODULE FeedPagingProofs --------------------------
(***************************************************************************)
(* Proofs about FeedPaging, for any posts, devices, page sizes, lifetimes  *)
(* and clock: the pages of a scan go back in time, skip nothing that stood *)
(* (ties apart) and are stale for less than Ttl + Lag.                     *)
(*                                                                         *)
(* The predicates below take the rows f, the time t and the record they    *)
(* speak of as parameters, so that a step is a change of parameters.       *)
(***************************************************************************)
EXTENDS FeedPaging, FiniteSetTheorems, WellFoundedInduction, TLAPS

Known(f, p) == f[p].state # "none"

UntiedIn(f, p) ==
  \A q \in Posts \ {p} : f[q].state = "none" \/ f[q].at # f[p].at

\* What a page for cursor c knows of the posts it had to choose from.
PageSound(f, g, c) ==
  /\ \A p \in g.posts : Known(f, p) /\ f[p].at < c
  /\ \A p \in g.pool : Known(f, p)
  /\ g.more =>
       /\ g.next < c
       /\ \A p \in g.posts : g.next =< f[p].at
       /\ \E p \in g.posts : f[p].at = g.next
       /\ \A p \in g.pool : g.next < f[p].at /\ f[p].at < c => p \in g.posts
  /\ ~g.more => \A p \in g.pool : f[p].at < c => p \in g.posts

Asking(d) == d.pc \in {"ask", "follows", "select", "store"}

\* What a scan knows of the posts at and after its cursor.
ScanSound(f, d) ==
  /\ \A p \in d.shown \cup d.page : Known(f, p)
  /\ \A p \in d.page, q \in d.shown : f[p].at < f[q].at
  /\ Asking(d) =>
       /\ \A p \in d.shown \cup d.page : d.cursor =< f[p].at
       /\ \A p \in d.standing :
            d.cursor =< f[p].at =>
              /\ Known(f, p)
              /\ UntiedIn(f, p) => p \in d.shown \cup d.page
       /\ d.cursor # Latest => \A p \in d.standing : Known(f, p)
  /\ d.pc = "end" =>
       \A p \in d.standing :
         Known(f, p) /\ (UntiedIn(f, p) => p \in d.shown \cup d.page)

\* A fetched page was read at readAt, at most Lag ago.
FetchSound(f, t, d) ==
  d.pc = "store" =>
    /\ PageSound(f, d.fetched, d.cursor)
    /\ d.readAt =< t /\ t =< d.readAt + Lag
    /\ \A p \in d.fetched.posts :
         f[p].state = "deleted" => d.readAt =< f[p].gone

\* A page that can be served was stored at most Ttl ago.
CacheSound(f, t, g, c) ==
  g.until > t =>
    /\ PageSound(f, g, c)
    /\ g.until =< t + Ttl
    /\ \A p \in g.posts :
         f[p].state = "deleted" => g.until =< f[p].gone + Ttl + Lag

FeedInv ==
  /\ \A c \in Cursors : CacheSound(post, now, cache[c], c)
  /\ \A r \in Readers : ScanSound(post, reader[r])
                        /\ FetchSound(post, now, reader[r])

\* What an insert or a delete at time t may do to the rows: created_at stays.
Grows(f, h, t) ==
  \A p \in Posts :
    /\ Known(f, p) => Known(h, p) /\ h[p].at = f[p].at
    /\ h[p].state = "deleted" =>
         \/ f[p].state = "deleted" /\ h[p].gone = f[p].gone
         \/ h[p].gone = t
-----------------------------------------------------------------------------
(***************************************************************************)
(* Types.                                                                  *)
(***************************************************************************)
LEMMA ExpiredIsPage == Expired \in Page
BY FeedAssumption DEF Expired, Page, Cursors, Latest

LEMMA OffIsReader == Off \in Reader
BY ExpiredIsPage, FeedAssumption DEF Off, Reader, Cursors, Latest, Times

\* A device's record changes: the types that have to be shown again.
LEMMA ReaderStep ==
  ASSUME TypeOK, NEW r \in Readers, NEW x \in Reader,
         x.pc \in {"follows", "select"} => x.limit \in Limits,
         reader' = [reader EXCEPT ![r] = x]
  PROVE  /\ reader' \in [Readers -> Reader]
         /\ \A s \in Readers :
              reader'[s].pc \in {"follows", "select"}
                => reader'[s].limit \in Limits
BY DEF TypeOK

LEMMA AnsweredTyped ==
  ASSUME NEW d \in Reader, NEW g \in Page
  PROVE  /\ Answered(d, g) \in Reader
         /\ Answered(d, g).pc = IF g.more THEN "ask" ELSE "end"
         /\ Answered(d, g).cursor = g.next
         /\ Answered(d, g).shown = d.shown \cup d.page
         /\ Answered(d, g).page = g.posts
         /\ Answered(d, g).standing = d.standing \cap g.pool
<1>1. g.posts \in SUBSET Posts /\ g.pool \in SUBSET Posts /\ g.next \in Cursors
  BY DEF Page
<1>2. /\ d.shown \cup d.page \in SUBSET Posts
      /\ d.standing \cap g.pool \in SUBSET Posts
  BY <1>1 DEF Reader
<1>3. 0 \in Times
  BY FeedAssumption DEF Times
<1>4. Answered(d, g) \in Reader
  BY <1>1, <1>2, <1>3, ExpiredIsPage DEF Answered, Reader
<1>5. /\ Answered(d, g).pc = IF g.more THEN "ask" ELSE "end"
      /\ Answered(d, g).cursor = g.next
      /\ Answered(d, g).page = g.posts
  BY DEF Answered, Reader
<1>6. /\ Answered(d, g).shown = d.shown \cup d.page
      /\ Answered(d, g).standing = d.standing \cap g.pool
  BY DEF Answered, Reader
<1> QED BY <1>4, <1>5, <1>6

\* The oldest time of a nonempty set of posts exists.
LEMMA OldestExists ==
  ASSUME NEW f \in [Posts -> Row], NEW S \in SUBSET Posts, S # {}
  PROVE  \E c \in {f[p].at : p \in S} : \A p \in S : c =< f[p].at
<1> DEFINE T == {f[p].at : p \in S}
<1>1. T \subseteq Nat /\ T # {}
  BY FeedAssumption DEF Row, Times
<1>2. PICK c \in T : \A y \in T : ~(<<y, c>> \in OpToRel(<, Nat))
  BY <1>1, NatLessThanWellFounded, WFMin
<1>3. \A y \in T : ~(y < c)
  BY <1>1, <1>2 DEF OpToRel
<1>4. ASSUME NEW y \in T
      PROVE  c =< y
  <2>1. c \in Nat /\ y \in Nat
    BY <1>1
  <2> HIDE DEF T
  <2> QED BY <1>3, <2>1
<1> QED BY <1>2, <1>4

LEMMA NextCursorIs ==
  ASSUME TypeOK, NEW S \in SUBSET Posts, S # {}, NEW T
  PROVE  /\ \E p \in S : post[p].at = NextCursor(S, T)
         /\ \A p \in S : NextCursor(S, T) =< post[p].at
<1> DEFINE C == {post[p].at : p \in S}
           Oldest(c) == \A p \in S : c =< post[p].at
<1>1. \E c \in C : Oldest(c)
  BY OldestExists DEF TypeOK
<1>2. NextCursor(S, T) = CHOOSE c \in C : Oldest(c)
  BY DEF NextCursor
<1>3. NextCursor(S, T) \in C /\ Oldest(NextCursor(S, T))
  <2> HIDE DEF C, Oldest
  <2> QED BY <1>1, <1>2
<1> QED BY <1>3
\* What Select stores is a page that is sound for its cursor.
LEMMA SelectedPage ==
  ASSUME TypeOK, NEW D \in SUBSET Authors, NEW c \in Cursors,
         NEW n \in Limits, NEW S \in SUBSET Before(Pool(D), c),
         Newest(S, Before(Pool(D), c), n)
  PROVE  /\ Fetched(S, Before(Pool(D), c), Pool(D)) \in Page
         /\ PageSound(post, Fetched(S, Before(Pool(D), c), Pool(D)), c)
         /\ \A p \in S : Live(p)
<1> DEFINE T == Before(Pool(D), c)
           x == NextCursor(S, T)
           g == Fetched(S, T, Pool(D))
<1>1. /\ S \in SUBSET Posts /\ Pool(D) \in SUBSET Posts
      /\ \A p \in Pool(D) : Live(p) /\ (p \in T <=> post[p].at < c)
      /\ \A p \in S : p \in T
      /\ T \subseteq Pool(D)
  BY DEF Pool, Before
<1>2. \A p \in Posts : post[p].at \in Int
  BY FeedAssumption DEF TypeOK, Row, Times
<1>3. ASSUME S # T
      PROVE  /\ x \in Cursors /\ x < c
             /\ \A p \in S : x =< post[p].at
             /\ \E p \in S : post[p].at = x
             /\ \A p \in T : x < post[p].at => p \in S
  <2>1. Cardinality({}) = 0
    BY FS_EmptySet
  <2>2. S # {}
    <3>1. n \in Nat \ {0} /\ Cardinality(S) = n
      BY <1>3, FeedAssumption DEF Newest
    <3> QED BY <2>1, <3>1
  <2>3. /\ \E p \in S : post[p].at = x
        /\ \A p \in S : x =< post[p].at
    BY <1>1, <2>2, NextCursorIs
  <2>4. x \in Times /\ x < c
    BY <1>1, <2>3 DEF TypeOK, Row
  <2>5. x \in Cursors
    BY <2>4, FeedAssumption DEF Times, Cursors, Latest
  <2>6. \A p \in T : x < post[p].at => p \in S
    BY <1>1, <1>2, <2>3 DEF Newest
  <2> QED BY <2>3, <2>4, <2>5, <2>6
<1>4. /\ g.posts = S /\ g.pool = Pool(D) /\ g.more = (S # T)
      /\ g.next = IF S # T THEN x ELSE Latest
  BY DEF Fetched
<1>5. Latest \in Cursors
  BY FeedAssumption DEF Latest, Cursors
<1>6. g \in Page
  BY <1>1, <1>3, <1>5 DEF Fetched, Page
<1>7. PageSound(post, g, c)
  <2> HIDE DEF g, x, T
  <2> QED BY <1>1, <1>3, <1>4 DEF PageSound, Known, Live
<1> QED BY <1>1, <1>6, <1>7

LEMMA TypeStep ==
  ASSUME TypeOK, [Next]_vars
  PROVE  TypeOK'
<1> USE DEF TypeOK
<1>1. ASSUME NEW p \in Posts, NEW t \in Times, Insert(p, t)
      PROVE  TypeOK'
  <2>1. [post[p] EXCEPT !.state = "live", !.at = t] \in Row
    BY DEF Row
  <2> QED BY <1>1, <2>1 DEF Insert
<1>2. ASSUME NEW p \in Posts, Delete(p)
      PROVE  TypeOK'
  <2>1. [post[p] EXCEPT !.state = "deleted", !.gone = now] \in Row
    BY DEF Row
  <2> QED BY <1>2, <2>1 DEF Delete
<1>3. ASSUME NEW a \in Authors, Follow(a) \/ Unfollow(a)
      PROVE  TypeOK'
  BY <1>3 DEF Follow, Unfollow
<1>4. ASSUME NEW r \in Readers, Open(r)
      PROVE  TypeOK'
  <2>1. [Off EXCEPT !.pc = "ask"] \in Reader
    BY OffIsReader DEF Reader
  <2> QED BY <1>4, <2>1, ReaderStep DEF Open, Off
<1>5. ASSUME NEW r \in Readers, AskHit(r)
      PROVE  TypeOK'
  <2>1. reader[r] \in Reader /\ cache[reader[r].cursor] \in Page
    BY DEF Reader
  <2>2. Answered(reader[r], cache[reader[r].cursor]) \in Reader
    BY <2>1, AnsweredTyped
  <2> QED BY <1>5, <2>1, <2>2, ReaderStep, AnsweredTyped DEF AskHit
<1>6. ASSUME NEW r \in Readers, NEW n \in Limits, AskMiss(r, n)
      PROVE  TypeOK'
  <2>1. /\ [reader[r] EXCEPT !.pc = "follows", !.limit = n] \in Reader
        /\ [reader[r] EXCEPT !.pc = "follows", !.limit = n].limit = n
    BY DEF Reader
  <2>2. reader' = [reader EXCEPT ![r] =
                     [reader[r] EXCEPT !.pc = "follows", !.limit = n]]
    BY <1>6 DEF AskMiss
  <2> QED BY <1>6, <2>1, <2>2, ReaderStep DEF AskMiss
<1>7. ASSUME NEW r \in Readers, ReadFollows(r)
      PROVE  TypeOK'
  <2>1. Answered(reader[r], Expired) \in Reader
    BY ExpiredIsPage, AnsweredTyped
  <2>2. /\ [reader[r] EXCEPT !.pc = "select", !.dids = follows] \in Reader
        /\ [reader[r] EXCEPT !.pc = "select", !.dids = follows].limit
             \in Limits
    BY <1>7, ZenonT(60) DEF Reader, ReadFollows
  <2>3. CASE follows = {}
    BY <1>7, <2>1, <2>3, ReaderStep, ExpiredIsPage, AnsweredTyped
    DEF ReadFollows
  <2>4. CASE follows # {}
    BY <1>7, <2>2, <2>4, ReaderStep DEF ReadFollows
  <2> QED BY <2>3, <2>4
<1>8. ASSUME NEW r \in Readers, Select(r)
      PROVE  TypeOK'
  <2> DEFINE P == Pool(reader[r].dids)
             T == Before(P, reader[r].cursor)
  <2>1. PICK S \in SUBSET T :
          /\ Newest(S, T, reader[r].limit)
          /\ reader' = [reader EXCEPT ![r] =
               [reader[r] EXCEPT !.pc = "store", !.readAt = now,
                                 !.fetched = Fetched(S, T, P)]]
    BY <1>8 DEF Select
  <2>2. Fetched(S, T, P) \in Page
    <3>1. /\ reader[r].dids \in SUBSET Authors
          /\ reader[r].cursor \in Cursors /\ reader[r].limit \in Limits
      BY <1>8 DEF Reader, Select
    <3> QED BY <2>1, <3>1, SelectedPage
  <2>3. [reader[r] EXCEPT !.pc = "store", !.readAt = now,
                          !.fetched = Fetched(S, T, P)] \in Reader
    BY <2>2, ZenonT(60) DEF Reader
  <2>4. [reader[r] EXCEPT !.pc = "store", !.readAt = now,
                          !.fetched = Fetched(S, T, P)].pc = "store"
    BY DEF Reader
  <2> QED BY <1>8, <2>1, <2>3, <2>4, ReaderStep DEF Select
<1>9. ASSUME NEW r \in Readers, Store(r)
      PROVE  TypeOK'
  <2>1. reader[r].fetched \in Page /\ reader[r].cursor \in Cursors
    BY DEF Reader
  <2>2. Expiry \in Nat
    BY FeedAssumption DEF Expiry, Times
  <2>3. [reader[r].fetched EXCEPT !.until = Expiry] \in Page
    BY <2>1, <2>2 DEF Page
  <2>4. Answered(reader[r], reader[r].fetched) \in Reader
    BY <2>1, AnsweredTyped
  <2>5. reader' \in [Readers -> Reader]
          /\ \A s \in Readers :
               reader'[s].pc \in {"follows", "select"}
                 => reader'[s].limit \in Limits
    BY <1>9, <2>1, <2>4, ReaderStep, AnsweredTyped DEF Store
  <2> QED BY <1>9, <2>1, <2>3, <2>5 DEF Store
<1>10. ASSUME NEW r \in Readers, Fail(r)
       PROVE  TypeOK'
  <2>1. 0 \in Times
    BY FeedAssumption DEF Times
  <2>2. /\ [reader[r] EXCEPT !.pc = "ask", !.limit = 0, !.dids = {},
                             !.fetched = Expired, !.readAt = 0] \in Reader
        /\ [reader[r] EXCEPT !.pc = "ask", !.limit = 0, !.dids = {},
                             !.fetched = Expired, !.readAt = 0].pc = "ask"
    BY <2>1, ExpiredIsPage, ZenonT(60) DEF Reader
  <2> QED BY <1>10, <2>1, <2>2, ReaderStep DEF Fail
<1>11. CASE Tick
  <2>1. now' \in Times
    BY <1>11, FeedAssumption DEF Tick, Times
  <2> QED BY <1>11, <2>1, ExpiredIsPage DEF Tick
<1>12. CASE UNCHANGED vars
  BY <1>12 DEF vars
<1> QED
  BY <1>1, <1>2, <1>3, <1>4, <1>5, <1>6, <1>7, <1>8, <1>9, <1>10, <1>11, <1>12
  DEF Next
-----------------------------------------------------------------------------
(***************************************************************************)
(* Pages and scans.                                                        *)
(***************************************************************************)
LEMMA ExpiredSound ==
  ASSUME NEW f, NEW c
  PROVE  PageSound(f, Expired, c)
BY DEF PageSound, Expired

\* Rows may come and go: a page stays what it was.
LEMMA PageStaysSound ==
  ASSUME NEW f, NEW h, NEW t, Grows(f, h, t), NEW g \in Page, NEW c,
         PageSound(f, g, c)
  PROVE  PageSound(h, g, c)
<1>1. g.posts \subseteq Posts /\ g.pool \subseteq Posts
  BY DEF Page
<1>2. \A p \in g.posts \cup g.pool : Known(h, p) /\ h[p].at = f[p].at
  BY <1>1 DEF PageSound, Grows
<1> QED BY <1>2 DEF PageSound

\* More rows only make fewer posts untied.
LEMMA UntiedBefore ==
  ASSUME NEW f, NEW h, NEW t, Grows(f, h, t), NEW p \in Posts, Known(f, p),
         UntiedIn(h, p)
  PROVE  UntiedIn(f, p)
BY DEF Grows, Known, UntiedIn

LEMMA ScanStaysSound ==
  ASSUME NEW f \in [Posts -> Row], NEW h \in [Posts -> Row], NEW t,
         Grows(f, h, t), NEW d \in Reader, ScanSound(f, d)
  PROVE  ScanSound(h, d)
<1>1. /\ d.shown \subseteq Posts /\ d.page \subseteq Posts
      /\ d.standing \subseteq Posts
      /\ d.cursor \in Cursors
  BY DEF Reader
<1>2. \A p \in Posts : Known(f, p) => Known(h, p) /\ h[p].at = f[p].at
  BY DEF Grows
<1>3. \A p \in Posts : h[p].at < Latest
  BY FeedAssumption DEF Row, Times, Latest
<1>4. \A p \in Posts : Known(f, p) /\ UntiedIn(h, p) => UntiedIn(f, p)
  BY UntiedBefore
<1>5. \A p \in d.shown \cup d.page : Known(f, p) /\ Known(h, p)
                                    /\ h[p].at = f[p].at
  BY <1>1, <1>2 DEF ScanSound
<1>6. \A p \in d.page, q \in d.shown : h[p].at < h[q].at
  BY <1>5 DEF ScanSound
<1>7. ASSUME Asking(d)
      PROVE  /\ \A p \in d.shown \cup d.page : d.cursor =< h[p].at
             /\ d.cursor # Latest => \A p \in d.standing : Known(h, p)
             /\ \A p \in d.standing :
                  d.cursor =< h[p].at =>
                    /\ Known(h, p)
                    /\ UntiedIn(h, p) => p \in d.shown \cup d.page
  <2>1. \A p \in d.shown \cup d.page : d.cursor =< h[p].at
    BY <1>5, <1>7 DEF ScanSound
  <2>2. d.cursor # Latest
          => \A p \in d.standing : Known(f, p) /\ Known(h, p)
                                   /\ h[p].at = f[p].at
    BY <1>1, <1>2, <1>7 DEF ScanSound
  <2>3. ASSUME NEW p \in d.standing, d.cursor =< h[p].at
        PROVE  /\ Known(h, p)
               /\ UntiedIn(h, p) => p \in d.shown \cup d.page
    <3>1. d.cursor # Latest
      <4>1. d.cursor \in Int /\ h[p].at \in Int /\ Latest \in Int
        BY <1>1, FeedAssumption DEF Cursors, Row, Times, Latest
      <4> QED BY <1>1, <1>3, <2>3, <4>1
    <3>2. Known(f, p) /\ Known(h, p) /\ d.cursor =< f[p].at
      BY <2>2, <2>3, <3>1
    <3> QED BY <1>1, <1>4, <1>7, <3>2 DEF ScanSound
  <2> QED BY <2>1, <2>2, <2>3
<1>8. ASSUME d.pc = "end", NEW p \in d.standing
      PROVE  Known(h, p) /\ (UntiedIn(h, p) => p \in d.shown \cup d.page)
  BY <1>1, <1>2, <1>4, <1>8 DEF ScanSound
<1> QED BY <1>5, <1>6, <1>7, <1>8 DEF ScanSound

\* The next page of a scan: older than what was shown, with nothing between.
LEMMA AnsweredSound ==
  ASSUME NEW f \in [Posts -> Row], NEW d \in Reader, NEW g \in Page,
         Asking(d), ScanSound(f, d), PageSound(f, g, d.cursor)
  PROVE  ScanSound(f, Answered(d, g))
<1> DEFINE e == Answered(d, g)
<1>1. /\ e.pc = IF g.more THEN "ask" ELSE "end"
      /\ e.cursor = g.next
      /\ e.shown = d.shown \cup d.page
      /\ e.page = g.posts
      /\ e.standing = d.standing \cap g.pool
  BY AnsweredTyped
<1>2. /\ d.shown \subseteq Posts /\ d.page \subseteq Posts
      /\ d.standing \subseteq Posts /\ d.cursor \in Int
      /\ g.posts \subseteq Posts /\ g.pool \subseteq Posts
      /\ g.next \in Int /\ g.more \in BOOLEAN
      /\ \A p \in Posts : f[p].at \in Int
  BY FeedAssumption DEF Reader, Page, Cursors, Latest, Row, Times
<1>3. \A p \in e.page, q \in e.shown : f[p].at < f[q].at
  BY <1>1, <1>2 DEF ScanSound, PageSound
<1>4. \A p \in e.shown \cup e.page : Known(f, p)
  BY <1>1 DEF ScanSound, PageSound
<1>5. \A p \in e.standing : Known(f, p)
  BY <1>1 DEF PageSound
<1>6. ASSUME NEW p \in e.standing, UntiedIn(f, p), d.cursor =< f[p].at
      PROVE  p \in e.shown
  BY <1>1, <1>6 DEF ScanSound
<1>7. CASE g.more
  <2>1. \A p \in e.shown \cup e.page : g.next =< f[p].at
    BY <1>1, <1>2, <1>7 DEF ScanSound, PageSound
  <2>2. ASSUME NEW p \in e.standing, g.next =< f[p].at, UntiedIn(f, p)
        PROVE  p \in e.shown \cup e.page
    <3>1. CASE d.cursor =< f[p].at
      BY <1>6, <2>2, <3>1
    <3>2. CASE f[p].at < d.cursor /\ g.next < f[p].at
      BY <1>1, <1>7, <3>2 DEF PageSound
    <3>3. CASE f[p].at = g.next
      <4>1. PICK q \in g.posts : f[q].at = g.next /\ Known(f, q)
        BY <1>7 DEF PageSound
      <4>2. q = p
        BY <1>2, <2>2, <3>3, <4>1 DEF UntiedIn, Known
      <4> QED BY <1>1, <4>1, <4>2
    <3>4. p \in Posts
      BY <1>1, <1>2
    <3> QED BY <1>2, <2>2, <3>1, <3>2, <3>3, <3>4
  <2>3. e.pc # "end"
    BY <1>1, <1>7
  <2>4. ScanSound(f, e)
    <3> HIDE DEF e
    <3> QED BY <1>1, <1>3, <1>4, <1>5, <2>1, <2>2, <2>3 DEF ScanSound
  <2> QED BY <2>4
<1>8. CASE ~g.more
  <2>1. ASSUME NEW p \in e.standing, UntiedIn(f, p)
        PROVE  p \in e.shown \cup e.page
    <3>1. CASE d.cursor =< f[p].at
      BY <1>6, <2>1, <3>1
    <3>2. CASE f[p].at < d.cursor
      BY <1>1, <1>8, <3>2 DEF PageSound
    <3>3. p \in Posts
      BY <1>1, <1>2
    <3> QED BY <1>2, <3>1, <3>2, <3>3
  <2>2. e.pc = "end"
    BY <1>1, <1>8
  <2>3. ScanSound(f, e)
    <3> HIDE DEF e
    <3> QED BY <1>3, <1>4, <1>5, <2>1, <2>2 DEF ScanSound, Asking
  <2> QED BY <2>3
<1> QED BY <1>2, <1>7, <1>8
-----------------------------------------------------------------------------
(***************************************************************************)
(* The steps.                                                              *)
(***************************************************************************)
\* Rows that come and go leave devices and pages sound.
LEMMA RowsStep ==
  ASSUME TypeOK, TypeOK', FeedInv, Grows(post, post', now),
         UNCHANGED <<now, cache, reader>>
  PROVE  FeedInv'
<1>1. ASSUME NEW c \in Cursors
      PROVE  CacheSound(post', now, cache[c], c)
  <2> SUFFICES ASSUME cache[c].until > now
               PROVE  /\ PageSound(post', cache[c], c)
                      /\ cache[c].until =< now + Ttl
                      /\ \A p \in cache[c].posts :
                           post'[p].state = "deleted"
                             => cache[c].until =< post'[p].gone + Ttl + Lag
    BY DEF CacheSound
  <2>1. cache[c] \in Page /\ CacheSound(post, now, cache[c], c)
    BY DEF TypeOK, FeedInv
  <2>2. PageSound(post', cache[c], c)
    BY <2>1, PageStaysSound DEF CacheSound
  <2>3. ASSUME NEW p \in cache[c].posts, post'[p].state = "deleted"
        PROVE  cache[c].until =< post'[p].gone + Ttl + Lag
    <3>1. p \in Posts /\ cache[c].until \in Int /\ now \in Int
      BY <2>1, FeedAssumption DEF Page, TypeOK, Times
    <3>2. \/ post[p].state = "deleted" /\ post'[p].gone = post[p].gone
          \/ post'[p].gone = now
      BY <2>3, <3>1 DEF Grows
    <3> QED BY <2>1, <3>1, <3>2, FeedAssumption DEF CacheSound
  <2> QED BY <2>1, <2>2, <2>3 DEF CacheSound
<1>2. ASSUME NEW r \in Readers
      PROVE  ScanSound(post', reader[r]) /\ FetchSound(post', now, reader[r])
  <2>1. /\ reader[r] \in Reader
        /\ ScanSound(post, reader[r]) /\ FetchSound(post, now, reader[r])
    BY DEF TypeOK, FeedInv
  <2>2. ScanSound(post', reader[r])
    BY <2>1, ScanStaysSound DEF TypeOK
  <2>3. ASSUME reader[r].pc = "store"
        PROVE  /\ PageSound(post', reader[r].fetched, reader[r].cursor)
               /\ \A p \in reader[r].fetched.posts :
                    post'[p].state = "deleted"
                      => reader[r].readAt =< post'[p].gone
    <3>1. reader[r].fetched \in Page
      BY <2>1 DEF Reader
    <3>2. reader[r].fetched.posts \subseteq Posts
      BY <3>1 DEF Page
    <3> QED BY <2>1, <2>3, <3>1, <3>2, PageStaysSound DEF FetchSound, Grows
  <2> QED BY <2>1, <2>2, <2>3 DEF FetchSound
<1> QED BY <1>1, <1>2 DEF FeedInv

\* A device's record changes.
LEMMA DeviceStep ==
  ASSUME TypeOK, FeedInv, NEW r \in Readers, NEW x \in Reader,
         ScanSound(post, x), FetchSound(post, now, x),
         reader' = [reader EXCEPT ![r] = x], UNCHANGED <<now, post>>
  PROVE  \A s \in Readers : ScanSound(post', reader'[s])
                            /\ FetchSound(post', now', reader'[s])
BY DEF FeedInv, TypeOK

\* A device goes on with the request for the same page.
LEMMA SameScan ==
  ASSUME NEW f, NEW d, NEW e, ScanSound(f, d), Asking(d), Asking(e),
         e.shown = d.shown, e.page = d.page, e.standing = d.standing,
         e.cursor = d.cursor
  PROVE  ScanSound(f, e)
BY DEF ScanSound, Asking

LEMMA FeedStep ==
  ASSUME TypeOK, TypeOK', FeedInv, [Next]_vars
  PROVE  FeedInv'
<1>1. ASSUME NEW p \in Posts, NEW t \in Times, Insert(p, t)
      PROVE  FeedInv'
  <2>1. Grows(post, post', now)
    BY <1>1 DEF Insert, Grows, Known, TypeOK, Row
  <2> QED BY <1>1, <2>1, RowsStep DEF Insert
<1>2. ASSUME NEW p \in Posts, Delete(p)
      PROVE  FeedInv'
  <2>1. Grows(post, post', now)
    BY <1>2 DEF Delete, Live, Grows, Known, TypeOK, Row
  <2> QED BY <1>2, <2>1, RowsStep DEF Delete
<1>3. ASSUME NEW a \in Authors, Follow(a) \/ Unfollow(a)
      PROVE  FeedInv'
  BY <1>3 DEF Follow, Unfollow, FeedInv
<1>4. ASSUME NEW r \in Readers, Open(r)
      PROVE  FeedInv'
  <2> DEFINE x == [Off EXCEPT !.pc = "ask"]
  <2>1. x \in Reader
    BY OffIsReader DEF Reader
  <2>2. ScanSound(post, x)
    <3>1. /\ x.pc = "ask" /\ x.cursor = Latest /\ x.shown = {} /\ x.page = {}
          /\ x.standing = Posts
      BY DEF Off
    <3>2. \A p \in Posts : ~(Latest =< post[p].at)
      BY FeedAssumption DEF TypeOK, Row, Times, Latest
    <3> HIDE DEF x
    <3> QED BY <3>1, <3>2 DEF ScanSound
  <2>3. FetchSound(post, now, x)
    BY DEF FetchSound, Off
  <2>4. \A s \in Readers : ScanSound(post', reader'[s])
                           /\ FetchSound(post', now', reader'[s])
    BY <1>4, <2>1, <2>2, <2>3, DeviceStep DEF Open
  <2> QED BY <1>4, <2>4 DEF Open, FeedInv
<1>5. ASSUME NEW r \in Readers, NEW g \in Page,
             Asking(reader[r]), PageSound(post, g, reader[r].cursor),
             reader' = [reader EXCEPT ![r] = Answered(reader[r], g)],
             UNCHANGED <<now, post>>
      PROVE  \A s \in Readers : ScanSound(post', reader'[s])
                                /\ FetchSound(post', now', reader'[s])
  <2>1. /\ reader[r] \in Reader /\ Answered(reader[r], g) \in Reader
        /\ Answered(reader[r], g).pc # "store"
    BY AnsweredTyped DEF TypeOK
  <2>2. ScanSound(post, Answered(reader[r], g))
    BY <1>5, <2>1, AnsweredSound DEF FeedInv, TypeOK
  <2>3. FetchSound(post, now, Answered(reader[r], g))
    BY <2>1 DEF FetchSound
  <2> QED BY <1>5, <2>1, <2>2, <2>3, DeviceStep
<1>6. ASSUME NEW r \in Readers, AskHit(r)
      PROVE  FeedInv'
  <2>1. /\ reader[r].cursor \in Cursors
        /\ cache[reader[r].cursor] \in Page
    BY DEF TypeOK, Reader
  <2>2. PageSound(post, cache[reader[r].cursor], reader[r].cursor)
    BY <1>6, <2>1 DEF AskHit, Hit, FeedInv, CacheSound
  <2>3. \A s \in Readers : ScanSound(post', reader'[s])
                           /\ FetchSound(post', now', reader'[s])
    BY <1>5, <1>6, <2>1, <2>2 DEF AskHit, Asking
  <2> QED BY <1>6, <2>3 DEF AskHit, FeedInv
<1>7. ASSUME NEW r \in Readers, NEW n \in Limits, AskMiss(r, n)
      PROVE  FeedInv'
  <2> DEFINE x == [reader[r] EXCEPT !.pc = "follows", !.limit = n]
  <2>1. /\ x \in Reader /\ x.pc = "follows" /\ x.cursor = reader[r].cursor
        /\ x.shown = reader[r].shown /\ x.page = reader[r].page
        /\ x.standing = reader[r].standing
    BY DEF TypeOK, Reader
  <2>2. reader' = [reader EXCEPT ![r] = x]
    BY <1>7 DEF AskMiss
  <2>3. ScanSound(post, x) /\ FetchSound(post, now, x)
    <3> HIDE DEF x
    <3> QED BY <1>7, <2>1, SameScan
            DEF AskMiss, Asking, FeedInv, FetchSound
  <2>4. \A s \in Readers : ScanSound(post', reader'[s])
                           /\ FetchSound(post', now', reader'[s])
    <3> HIDE DEF x
    <3> QED BY <1>7, <2>1, <2>2, <2>3, DeviceStep DEF AskMiss
  <2> QED BY <1>7, <2>4 DEF AskMiss, FeedInv
<1>8. ASSUME NEW r \in Readers, ReadFollows(r)
      PROVE  FeedInv'
  <2> DEFINE x == [reader[r] EXCEPT !.pc = "select", !.dids = follows]
  <2>1. CASE follows = {}
    <3>1. \A s \in Readers : ScanSound(post', reader'[s])
                             /\ FetchSound(post', now', reader'[s])
      BY <1>5, <1>8, <2>1, ExpiredIsPage, ExpiredSound
      DEF ReadFollows, Asking
    <3> QED BY <1>8, <3>1 DEF ReadFollows, FeedInv
  <2>2. CASE follows # {}
    <3>1. /\ x \in Reader /\ x.pc = "select" /\ x.cursor = reader[r].cursor
          /\ x.shown = reader[r].shown /\ x.page = reader[r].page
          /\ x.standing = reader[r].standing
      BY DEF TypeOK, Reader
    <3>2. reader' = [reader EXCEPT ![r] = x]
      BY <1>8, <2>2 DEF ReadFollows
    <3>3. ScanSound(post, x) /\ FetchSound(post, now, x)
      <4> HIDE DEF x
      <4> QED BY <1>8, <3>1, SameScan
              DEF ReadFollows, Asking, FeedInv, FetchSound
    <3>4. \A s \in Readers : ScanSound(post', reader'[s])
                             /\ FetchSound(post', now', reader'[s])
      <4> HIDE DEF x
      <4> QED BY <1>8, <3>1, <3>2, <3>3, DeviceStep DEF ReadFollows
    <3> QED BY <1>8, <3>4 DEF ReadFollows, FeedInv
  <2> QED BY <2>1, <2>2
<1>9. ASSUME NEW r \in Readers, Select(r)
      PROVE  FeedInv'
  <2> DEFINE P == Pool(reader[r].dids)
             c == reader[r].cursor
             T == Before(P, c)
  <2>1. PICK S \in SUBSET T :
          /\ Newest(S, T, reader[r].limit)
          /\ reader' = [reader EXCEPT ![r] =
               [reader[r] EXCEPT !.pc = "store", !.readAt = now,
                                 !.fetched = Fetched(S, T, P)]]
    BY <1>9 DEF Select
  <2> DEFINE g == Fetched(S, T, P)
             x == [reader[r] EXCEPT !.pc = "store", !.readAt = now,
                                    !.fetched = g]
  <2>2. g \in Page /\ PageSound(post, g, c) /\ \A p \in g.posts : Live(p)
    <3>1. /\ reader[r].dids \in SUBSET Authors
          /\ reader[r].cursor \in Cursors /\ reader[r].limit \in Limits
      BY <1>9 DEF TypeOK, Reader, Select
    <3>2. g.posts = S
      BY DEF Fetched
    <3> QED BY <2>1, <3>1, <3>2, SelectedPage
  <2>3. /\ x.pc = "store" /\ x.cursor = reader[r].cursor
        /\ x.shown = reader[r].shown /\ x.page = reader[r].page
        /\ x.standing = reader[r].standing
        /\ x.readAt = now /\ x.fetched = g
    <3> HIDE DEF g
    <3> QED BY DEF TypeOK, Reader
  <2>4. x \in Reader
    <3> HIDE DEF g
    <3> QED BY <2>2, ZenonT(60) DEF TypeOK, Reader
  <2>5. ScanSound(post, x)
    <3> HIDE DEF x
    <3> QED BY <1>9, <2>3, SameScan DEF Select, Asking, FeedInv
  <2>6. FetchSound(post, now, x)
    <3>1. now \in Int /\ now =< now + Lag
      BY FeedAssumption DEF TypeOK, Times
    <3> HIDE DEF x, g
    <3> QED BY <2>2, <2>3, <3>1 DEF FetchSound, Live
  <2>7. \A s \in Readers : ScanSound(post', reader'[s])
                           /\ FetchSound(post', now', reader'[s])
    <3>1. reader' = [reader EXCEPT ![r] = x]
      BY <2>1
    <3> HIDE DEF x
    <3> QED BY <1>9, <2>4, <2>5, <2>6, <3>1, DeviceStep DEF Select
  <2> QED BY <1>9, <2>7 DEF Select, FeedInv
<1>10. ASSUME NEW r \in Readers, Store(r)
       PROVE  FeedInv'
  <2> DEFINE d == reader[r]
             g == [d.fetched EXCEPT !.until = Expiry]
  <2>1. /\ d \in Reader /\ d.fetched \in Page /\ d.cursor \in Cursors
        /\ d.pc = "store" /\ FetchSound(post, now, d)
    BY <1>10 DEF TypeOK, Reader, Store, FeedInv
  <2>2. \A s \in Readers : ScanSound(post', reader'[s])
                           /\ FetchSound(post', now', reader'[s])
    <3>1. PageSound(post, d.fetched, d.cursor) /\ Asking(d)
      BY <2>1 DEF FetchSound, Asking
    <3> QED BY <1>5, <1>10, <2>1, <3>1 DEF Store
  <2>3. /\ g.posts = d.fetched.posts /\ g.pool = d.fetched.pool
        /\ g.more = d.fetched.more /\ g.next = d.fetched.next
        /\ g.until = now + Ttl
    BY <2>1 DEF Page, Expiry
  <2>4. CacheSound(post, now, g, d.cursor)
    <3>1. PageSound(post, g, d.cursor)
      <4>1. PageSound(post, d.fetched, d.cursor)
        BY <2>1 DEF FetchSound
      <4> HIDE DEF g, d
      <4> QED BY <2>3, <4>1 DEF PageSound
    <3>2. ASSUME NEW p \in g.posts, post[p].state = "deleted"
          PROVE  now + Ttl =< post[p].gone + Ttl + Lag
      <4>1. d.readAt =< post[p].gone /\ now =< d.readAt + Lag
        BY <2>1, <2>3, <3>2 DEF FetchSound
      <4>2. p \in Posts /\ now \in Int /\ d.readAt \in Int
        BY <2>1, <2>3, FeedAssumption DEF Page, Reader, TypeOK, Times
      <4>3. post[p].gone \in Int
        BY <4>2, FeedAssumption DEF TypeOK, Row, Times
      <4> QED BY <4>1, <4>2, <4>3, FeedAssumption
    <3>3. now + Ttl \in Int
      BY FeedAssumption DEF TypeOK, Times
    <3> HIDE DEF g, d
    <3> QED BY <2>3, <3>1, <3>2, <3>3 DEF CacheSound
  <2>5. ASSUME NEW c \in Cursors
        PROVE  CacheSound(post', now', cache'[c], c)
    <3>1. cache' = [cache EXCEPT ![d.cursor] = g]
      BY <1>10 DEF Store
    <3> HIDE DEF g, d
    <3> QED BY <1>10, <2>4, <3>1 DEF Store, FeedInv, TypeOK
  <2> QED BY <2>2, <2>5 DEF FeedInv
<1>11. ASSUME NEW r \in Readers, Fail(r)
       PROVE  FeedInv'
  <2> DEFINE x == [reader[r] EXCEPT !.pc = "ask", !.limit = 0, !.dids = {},
                                    !.fetched = Expired, !.readAt = 0]
  <2>1. /\ x.pc = "ask" /\ x.cursor = reader[r].cursor
        /\ x.shown = reader[r].shown /\ x.page = reader[r].page
        /\ x.standing = reader[r].standing
    BY DEF TypeOK, Reader
  <2>2. reader' = [reader EXCEPT ![r] = x] /\ x \in Reader
    <3>1. 0 \in Times
      BY FeedAssumption DEF Times
    <3> QED BY <1>11, <3>1, ExpiredIsPage DEF Fail, TypeOK, Reader
  <2>3. ScanSound(post, x) /\ FetchSound(post, now, x)
    <3> HIDE DEF x
    <3> QED BY <1>11, <2>1, SameScan DEF Fail, Asking, FeedInv, FetchSound
  <2>4. \A s \in Readers : ScanSound(post', reader'[s])
                           /\ FetchSound(post', now', reader'[s])
    <3> HIDE DEF x
    <3> QED BY <1>11, <2>2, <2>3, DeviceStep DEF Fail
  <2> QED BY <1>11, <2>4 DEF Fail, FeedInv
<1>12. CASE Tick
  <2>1. now \in Int /\ now' = now + 1 /\ post' = post /\ reader' = reader
    BY <1>12, FeedAssumption DEF Tick, TypeOK, Times
  <2>2. ASSUME NEW c \in Cursors
        PROVE  CacheSound(post', now', cache'[c], c)
    <3>1. CASE cache[c].until > now + 1
      <4>1. cache'[c] = cache[c] /\ cache[c].until \in Int
        BY <1>12, <3>1 DEF Tick, TypeOK, Page
      <4>2. CacheSound(post, now, cache[c], c)
        BY DEF FeedInv
      <4> QED BY <2>1, <3>1, <4>1, <4>2, FeedAssumption DEF CacheSound
    <3>2. CASE ~(cache[c].until > now + 1)
      <4>1. cache'[c].until = 0
        BY <1>12, <3>2 DEF Tick, Expired
      <4>2. ~(0 > now + 1)
        BY FeedAssumption DEF TypeOK, Times
      <4> QED BY <2>1, <4>1, <4>2 DEF CacheSound
    <3> QED BY <3>1, <3>2
  <2>3. ASSUME NEW r \in Readers
        PROVE  ScanSound(post', reader'[r]) /\ FetchSound(post', now', reader'[r])
    <3>1. ScanSound(post, reader[r]) /\ FetchSound(post, now, reader[r])
      BY DEF FeedInv
    <3>2. reader[r].readAt \in Int
      BY FeedAssumption DEF TypeOK, Reader, Times
    <3>3. reader[r].pc = "store" => now + 1 =< reader[r].readAt + Lag
      BY <1>12, <2>1, <3>2, FeedAssumption DEF Tick
    <3> QED BY <2>1, <3>1, <3>2, <3>3 DEF FetchSound
  <2> QED BY <2>2, <2>3 DEF FeedInv
<1>13. CASE UNCHANGED vars
  BY <1>13 DEF vars, FeedInv
<1> QED
  BY <1>1, <1>2, <1>3, <1>4, <1>6, <1>7, <1>8, <1>9, <1>10, <1>11, <1>12, <1>13
  DEF Next

LEMMA InitSound == Init => TypeOK /\ FeedInv
<1> SUFFICES ASSUME Init
             PROVE  TypeOK /\ FeedInv
  OBVIOUS
<1>1. 0 \in Times
  BY FeedAssumption DEF Times
<1>2. TypeOK
  <2>1. [state |-> "none", at |-> 0, gone |-> 0] \in Row
    BY <1>1 DEF Row
  <2>2. \A r \in Readers : reader[r].pc = "off"
    BY DEF Init, Off
  <2> QED BY <1>1, <2>1, <2>2, ExpiredIsPage, OffIsReader DEF Init, TypeOK
<1>3. \A c \in Cursors : CacheSound(post, now, cache[c], c)
  BY DEF Init, CacheSound, Expired
<1>4. /\ Off.pc = "off" /\ Off.shown = {} /\ Off.page = {}
  BY DEF Off
<1>5. \A r \in Readers : ScanSound(post, reader[r])
                         /\ FetchSound(post, now, reader[r])
  BY <1>4 DEF Init, ScanSound, FetchSound, Asking
<1> QED BY <1>2, <1>3, <1>5 DEF FeedInv
-----------------------------------------------------------------------------
LEMMA Invariance == Spec => [](TypeOK /\ FeedInv)
<1>1. TypeOK /\ FeedInv /\ [Next]_vars => (TypeOK /\ FeedInv)'
  BY TypeStep, FeedStep
<1> QED BY <1>1, InitSound, PTL DEF Spec

\* Every cursor, page and device record keeps its type: in particular each
\* cursor handed out is the time of a post.
THEOREM TypeCorrect == Spec => []TypeOK
BY Invariance, PTL

\* Each page of a scan is older than every page before it, from whatever
\* cached pages of other limits and other times the scan is put together.
THEOREM FeedGoesBack == Spec => []PagesGoBack
<1>1. FeedInv => PagesGoBack
  BY DEF FeedInv, ScanSound, PagesGoBack
<1> QED BY <1>1, Invariance, PTL

\* A finished scan has shown every post that stood for all of its pages and
\* shares its time with no other.
THEOREM FeedSkipsNothing == Spec => []NothingIsSkipped
<1>1. FeedInv => NothingIsSkipped
  BY DEF FeedInv, ScanSound, NothingIsSkipped, Untied, UntiedIn
<1> QED BY <1>1, Invariance, PTL

\* A deleted post is served for less than Ttl + Lag after its deletion.
THEOREM FeedIsFresh == Spec => []NothingStaleIsServed
<1>1. ASSUME TypeOK, FeedInv
      PROVE  NothingStaleIsServed
  <2> SUFFICES ASSUME NEW c \in Cursors, Hit(c), NEW p \in cache[c].posts,
                      post[p].state = "deleted"
               PROVE  now - post[p].gone < Ttl + Lag
    BY DEF NothingStaleIsServed
  <2>1. /\ cache[c].until > now
        /\ cache[c].until =< post[p].gone + Ttl + Lag
    BY <1>1 DEF Hit, FeedInv, CacheSound
  <2>2. cache[c].until \in Int /\ p \in Posts /\ now \in Int
    BY <1>1, FeedAssumption DEF TypeOK, Page, Times
  <2>3. post[p].gone \in Int
    BY <1>1, <2>2, FeedAssumption DEF TypeOK, Row, Times
  <2> QED BY <2>1, <2>2, <2>3, FeedAssumption
<1> QED BY <1>1, Invariance, PTL
=============================================================================
