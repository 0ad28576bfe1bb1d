----------------------------- MODULE FeedPaging -----------------------------
(***************************************************************************)
(* The chronological home feed of one user: FeedService.buildFeed          *)
(* (apps/api/src/modules/feed/feed.service.ts) over posts, follows and the *)
(* 30-second pages of OrbitCache (packages/db/src/index.ts), read page by  *)
(* page by several devices of that user.                                   *)
(*                                                                         *)
(* buildFeed is four statements (look in the cache, read the follows, read *)
(* the posts, store the page) with other requests, new posts, deletions    *)
(* and follows in between.  The key of a page is its cursor; the limit the *)
(* device asked for is not part of it.  created_at is the time at which    *)
(* the INSERT began, in milliseconds as the driver hands it out, so rows   *)
(* become visible out of order and may share a time.                       *)
(***************************************************************************)
EXTENDS Integers, FiniteSets

CONSTANTS
  Posts,      \* rows of posts
  Authors,    \* accounts the user may follow
  AuthorOf,   \* the author of each post
  Readers,    \* devices of the user
  Limits,     \* page sizes the devices ask for
  Ttl,        \* lifetime of a cached page
  Lag,        \* longest time from the SELECT of posts to the stored page
  MaxTime     \* bound: the clock stops here

ASSUME FeedAssumption ==
  /\ AuthorOf \in [Posts -> Authors]
  /\ Limits \subseteq Nat \ {0}
  /\ Ttl \in Nat \ {0} /\ Lag \in Nat /\ MaxTime \in Nat

VARIABLES
  now,
  post,       \* the row of each post
  follows,    \* the authors the user follows
  cache,      \* orbit_cache: cursor -> page
  reader      \* what each device has shown and is asking for

vars == <<now, post, follows, cache, reader>>

Times == 0..MaxTime
Latest == MaxTime + 1           \* the cursor of the first page: none
Cursors == 0..Latest

Row == [state : {"none", "live", "deleted"},
        at : Times, gone : Times]

\* pool is not stored: it names the posts the WHERE clause without the cursor
\* matched, so that the properties can say what a page had to choose from.
Page == [posts : SUBSET Posts, pool : SUBSET Posts, more : BOOLEAN,
         next : Cursors, until : Nat]
Expired == [posts |-> {}, pool |-> {}, more |-> FALSE, next |-> Latest,
            until |-> 0]

\* shown: the posts of the earlier pages; page: the last page; standing: the
\* posts every page of the scan had to choose from.
Reader == [pc : {"off", "ask", "follows", "select", "store", "end"},
           cursor : Cursors, limit : Limits \cup {0}, dids : SUBSET Authors,
           fetched : Page, readAt : Times,
           shown : SUBSET Posts, page : SUBSET Posts,
           standing : SUBSET Posts]

TypeOK ==
  /\ now \in Times
  /\ post \in [Posts -> Row]
  /\ follows \subseteq Authors
  /\ cache \in [Cursors -> Page]
  /\ reader \in [Readers -> Reader]
  /\ \A r \in Readers :
       reader[r].pc \in {"follows", "select"} => reader[r].limit \in Limits
-----------------------------------------------------------------------------
Live(p) == post[p].state = "live"
Hit(c) == cache[c].until > now

Off == [pc |-> "off", cursor |-> Latest, limit |-> 0, dids |-> {},
        fetched |-> Expired, readAt |-> 0, shown |-> {}, page |-> {},
        standing |-> Posts]

Init ==
  /\ now = 0
  /\ post = [p \in Posts |-> [state |-> "none", at |-> 0, gone |-> 0]]
  /\ follows = Authors
  /\ cache = [c \in Cursors |-> Expired]
  /\ reader = [r \in Readers |-> Off]

(***************************************************************************)
(* Posts and follows.                                                      *)
(***************************************************************************)
\* created_at DEFAULT NOW() is the time the INSERT began, t; the row is seen
\* when it commits, at most Lag later.  PostService.create then deletes
\* feed:chronological:<author>, the key of no page (every key ends in
\* :<modes>:<cursor>): the cache stays as it is.
Insert(p, t) ==
  /\ post[p].state = "none"
  /\ t =< now /\ now - t =< Lag
  /\ post' = [post EXCEPT ![p] = [@ EXCEPT !.state = "live", !.at = t]]
  /\ UNCHANGED <<now, follows, cache, reader>>

Delete(p) ==
  /\ Live(p)
  /\ post' = [post EXCEPT ![p] = [@ EXCEPT !.state = "deleted", !.gone = now]]
  /\ UNCHANGED <<now, follows, cache, reader>>

Follow(a) ==
  /\ follows' = follows \cup {a}
  /\ UNCHANGED <<now, post, cache, reader>>

Unfollow(a) ==
  /\ follows' = follows \ {a}
  /\ UNCHANGED <<now, post, cache, reader>>

(***************************************************************************)
(* buildFeed.                                                              *)
(***************************************************************************)
\* The answer reaches the device, which asks for the next page or is done.
Answered(d, g) ==
  [d EXCEPT !.pc = IF g.more THEN "ask" ELSE "end",
            !.cursor = g.next, !.limit = 0, !.dids = {},
            !.fetched = Expired, !.readAt = 0,
            !.shown = @ \cup d.page, !.page = g.posts,
            !.standing = @ \cap g.pool]

\* A device opens the feed, or pulls to refresh.
Open(r) ==
  /\ reader[r].pc \in {"off", "end"}
  /\ reader' = [reader EXCEPT ![r] = [Off EXCEPT !.pc = "ask"]]
  /\ UNCHANGED <<now, post, follows, cache>>

\* cache.get: a page that has not expired is the answer.
AskHit(r) ==
  LET c == reader[r].cursor IN
  /\ reader[r].pc = "ask"
  /\ Hit(c)
  /\ reader' = [reader EXCEPT ![r] = Answered(@, cache[c])]
  /\ UNCHANGED <<now, post, follows, cache>>

AskMiss(r, n) ==
  /\ reader[r].pc = "ask"
  /\ ~Hit(reader[r].cursor)
  /\ reader' = [reader EXCEPT ![r].pc = "follows", ![r].limit = n]
  /\ UNCHANGED <<now, post, follows, cache>>

\* Who follows nobody gets an empty page, which is not cached.
ReadFollows(r) ==
  /\ reader[r].pc = "follows"
  /\ reader' = [reader EXCEPT ![r] =
                  IF follows = {} THEN Answered(@, Expired)
                  ELSE [@ EXCEPT !.pc = "select", !.dids = follows]]
  /\ UNCHANGED <<now, post, follows, cache>>

\* The posts of the followed authors, and those of them before the cursor.
Pool(dids) == {p \in Posts : Live(p) /\ AuthorOf[p] \in dids}
\* Mutant: "created_at <= cursor".
BeforeOrAt(S, c) == {p \in S : post[p].at =< c}
Before(S, c) == {p \in S : post[p].at < c}

\* ORDER BY created_at DESC LIMIT n: the newest n, ties in any order.
Newest(S, T, n) ==
  /\ S \subseteq T
  /\ \A p \in S, q \in T \ S : post[p].at >= post[q].at
  /\ IF Cardinality(T) > n THEN Cardinality(S) = n ELSE S = T

\* nextCursor is the created_at of the page's last post.
\* Mutant: of the extra row that was read to know that there are more.
NextCursorOfExtra(S, T) ==
  CHOOSE c \in {post[p].at : p \in T \ S} :
    \A p \in T \ S : post[p].at =< c
NextCursor(S, T) ==
  CHOOSE c \in {post[p].at : p \in S} : \A p \in S : c =< post[p].at

\* S of the matching posts T, P without the cursor clause.
Fetched(S, T, P) ==
  [posts |-> S, pool |-> P, more |-> S # T,
   next |-> IF S # T THEN NextCursor(S, T) ELSE Latest, until |-> 0]

Select(r) ==
  LET d == reader[r]
      P == Pool(d.dids)
      T == Before(P, d.cursor) IN
  /\ d.pc = "select"
  /\ \E S \in SUBSET T :
       /\ Newest(S, T, d.limit)
       /\ reader' = [reader EXCEPT ![r] =
            [d EXCEPT !.pc = "store", !.readAt = now,
                      !.fetched = Fetched(S, T, P)]]
  /\ UNCHANGED <<now, post, follows, cache>>

\* cache.set: NOW() + 30 seconds, over whatever is stored for the cursor.
\* Mutant: the lifetime is added twice.
ExpiryTwice == now + 2 * Ttl
Expiry == now + Ttl

Store(r) ==
  LET d == reader[r] IN
  /\ d.pc = "store"
  /\ cache' = [cache EXCEPT ![d.cursor] =
                 [d.fetched EXCEPT !.until = Expiry]]
  /\ reader' = [reader EXCEPT ![r] = Answered(d, d.fetched)]
  /\ UNCHANGED <<now, post, follows>>

\* A statement fails or times out, or the process dies; the device may ask
\* for the same page again.
Fail(r) ==
  /\ reader[r].pc \in {"follows", "select", "store"}
  /\ reader' = [reader EXCEPT ![r] =
                  [@ EXCEPT !.pc = "ask", !.limit = 0, !.dids = {},
                            !.fetched = Expired, !.readAt = 0]]
  /\ UNCHANGED <<now, post, follows, cache>>

\* connectionTimeoutMillis and statement_timeout end a request that waits
\* longer than Lag to store its page.  A row of orbit_cache past its time is
\* never read again: it is as good as none.
Tick ==
  /\ now < MaxTime
  /\ \A r \in Readers : reader[r].pc = "store" => now - reader[r].readAt < Lag
  /\ now' = now + 1
  /\ cache' = [c \in Cursors |-> IF cache[c].until > now + 1 THEN cache[c]
                                ELSE Expired]
  /\ UNCHANGED <<post, follows, reader>>
-----------------------------------------------------------------------------
Next ==
  \/ \E p \in Posts, t \in Times : Insert(p, t)
  \/ \E p \in Posts : Delete(p)
  \/ \E a \in Authors : Follow(a)
  \/ \E a \in Authors : Unfollow(a)
  \/ \E r \in Readers : Open(r)
  \/ \E r \in Readers : AskHit(r)
  \/ \E r \in Readers, n \in Limits : AskMiss(r, n)
  \/ \E r \in Readers : ReadFollows(r)
  \/ \E r \in Readers : Select(r)
  \/ \E r \in Readers : Store(r)
  \/ \E r \in Readers : Fail(r)
  \/ Tick

Spec == Init /\ [][Next]_vars
-----------------------------------------------------------------------------
(***************************************************************************)
(* Properties.                                                             *)
(***************************************************************************)

\* "Strict chronological" across pages: however old the cached pages are that
\* a scan is put together from, every post of a page is older than every post
\* shown before it, so that none is shown twice.
PagesGoBack ==
  \A r \in Readers : \A p \in reader[r].page, q \in reader[r].shown :
    post[p].at < post[q].at

\* No other post has the time of p.
Untied(p) ==
  \A q \in Posts \ {p} :
    post[q].state = "none" \/ post[q].at # post[p].at

\* A scan that reached the end has shown every post that was there for each
\* of its pages, whatever was posted, deleted, followed and cached meanwhile
\* and whichever page sizes the cached pages were built for -- except posts
\* that share their time with another one (a page may end between the two).
NothingIsSkipped ==
  \A r \in Readers :
    reader[r].pc = "end"
      => \A p \in reader[r].standing :
           Untied(p) => p \in reader[r].shown \cup reader[r].page

\* A page that can still be served shows no post that was deleted longer ago
\* than a page lives plus a request takes.
NothingStaleIsServed ==
  \A c \in Cursors : Hit(c) =>
    \A p \in cache[c].posts :
      post[p].state = "deleted" => now - post[p].gone < Ttl + Lag
=============================================================================
