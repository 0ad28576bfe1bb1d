--------------------------- MODULE PostEngagement ---------------------------
(***************************************************************************)
(* Likes and pins: PostService.create, delete, like and pin                *)
(* (post.service.ts), the trigger that keeps posts.like_count              *)
(* (db/migrations/006_likes_table.sql) and the rows gdpr hardDeleteUser    *)
(* takes away.  ReelService.like and its trigger are the same algorithm    *)
(* over reels and reel_likes.                                              *)
(*                                                                         *)
(* like and pin are two statements without a transaction; each statement   *)
(* (with the trigger it fires) is atomic.  The pub/sub publish that ends a *)
(* like reads and writes none of this state: see StreamPubSub.             *)
(***************************************************************************)
EXTENDS Integers, FiniteSets

CONSTANTS
  Users,     \* DIDs of authors and likers
  NoUser,    \* the author of a post id that is not in use
  Posts,     \* post ids (bounds the number of posts)
  NoPost,    \* the post of an idle slot
  Slots      \* requests in flight

ASSUME NoneAssumption == NoUser \notin Users /\ NoPost \notin Posts
ASSUME FiniteAssumption == IsFiniteSet(Users) /\ IsFiniteSet(Slots)

VARIABLES
  users,     \* DIDs with a users row
  post,      \* post[p]: the posts row
  likes,     \* the likes rows, <<post, liker>>
  early,     \* history: posts that had likes rows before they existed
  request    \* request[s]: a like or a pin between its two statements

vars == <<users, post, likes, early, request>>

\* "unused": the sequence has not reached this id; "gone": hard-deleted.
\* likes has no author column here: a post id belongs to one author.
Post == [state : {"unused", "live", "deleted", "gone"},
         author : Users \cup {NoUser}, likeCount : Nat, isPinned : BOOLEAN]
NoRow(state) == [state |-> state, author |-> NoUser, likeCount |-> 0,
                 isPinned |-> FALSE]

\* "insert", "delete": like has read the likes rows and is about to write;
\* "pin": pin has unpinned the author's posts.  disturbed (history): another
\* request of the same user for the same post was in flight meanwhile, or the
\* account was erased.
Idle    == [pc |-> "idle", user |-> NoUser, post |-> NoPost,
            disturbed |-> FALSE]
Request == [pc : {"insert", "delete", "pin"}, user : Users, post : Posts,
            disturbed : BOOLEAN] \cup {Idle}

HasRow(p)    == post[p].state \in {"live", "deleted"}
LikersOf(p)  == {u \in Users : <<p, u>> \in likes}
PinnedBy(a)  == {p \in Posts : HasRow(p) /\ post[p].author = a
                                 /\ post[p].isPinned}
Pinning(a)   == {s \in Slots : request[s].pc = "pin" /\ request[s].user = a}

TypeOK ==
  /\ users \in SUBSET Users
  /\ post \in [Posts -> Post]
  /\ likes \in SUBSET (Posts \X Users)
  /\ early \in SUBSET Posts
  /\ request \in [Slots -> Request]

Init ==
  /\ users = Users
  /\ post = [p \in Posts |-> NoRow("unused")]
  /\ likes = {}
  /\ early = {}
  /\ request = [s \in Slots |-> Idle]
-----------------------------------------------------------------------------
(***************************************************************************)
(* create and delete.                                                      *)
(***************************************************************************)
Create(p, a) ==
  /\ post[p].state = "unused"
  /\ a \in users
  /\ post' = [post EXCEPT ![p] = [state |-> "live", author |-> a,
                                  likeCount |-> 0, isPinned |-> FALSE]]
  /\ early' = IF LikersOf(p) # {} THEN early \cup {p} ELSE early
  /\ UNCHANGED <<users, likes, request>>

\* deleted_at is set; the row, its likes and its pin stay.
Delete(p) ==
  /\ post[p].state = "live"
  /\ post' = [post EXCEPT ![p].state = "deleted"]
  /\ UNCHANGED <<users, likes, early, request>>

(***************************************************************************)
(* like: SELECT, then INSERT or DELETE.  likes has no foreign key to       *)
(* posts, and like does not read posts: any post id will do.               *)
(***************************************************************************)
Writing(s, p, u) == request[s].pc \in {"insert", "delete"}
                      /\ request[s].post = p /\ request[s].user = u

\* Mutant: the query misses "AND liker_did = $3".
AlreadyLikedByAnyone(p, u) == LikersOf(p) # {}
AlreadyLiked(p, u) == <<p, u>> \in likes

LikeRead(s, p, u) ==
  /\ request[s].pc = "idle"
  /\ LET overlaps == \E t \in Slots : Writing(t, p, u) IN
     request' =
       [t \in Slots |->
          IF t = s
            THEN [pc |-> IF AlreadyLiked(p, u) THEN "delete" ELSE "insert",
                  user |-> u, post |-> p, disturbed |-> overlaps]
            ELSE IF Writing(t, p, u) THEN [request[t] EXCEPT !.disturbed = TRUE]
            ELSE request[t]]
  /\ UNCHANGED <<users, post, likes, early>>

\* sync_post_like_count: the row is matched by post id, whatever deleted_at
\* says, and is not there for an id that is unused or gone.
Decremented(n) == IF n > 0 THEN n - 1 ELSE 0

Counted(p, n) ==
  IF HasRow(p) THEN [post EXCEPT ![p].likeCount = n] ELSE post

\* Mutant: the counter is raised by the statement, not by the inserted row.
InsertLikeAlwaysCounts(p, u) ==
  /\ likes' = likes \cup {<<p, u>>}
  /\ post' = Counted(p, post[p].likeCount + 1)
\* INSERT ... ON CONFLICT DO NOTHING: the trigger fires for an inserted row.
InsertLike(p, u) ==
  /\ likes' = likes \cup {<<p, u>>}
  /\ post' = IF <<p, u>> \in likes THEN post
             ELSE Counted(p, post[p].likeCount + 1)

LikeInsert(s) ==
  /\ request[s].pc = "insert"
  /\ IF request[s].user \in users
       THEN InsertLike(request[s].post, request[s].user)
       ELSE UNCHANGED <<likes, post>>         \* likes_liker_fkey: answers 500
  /\ request' = [request EXCEPT ![s] = Idle]
  /\ UNCHANGED <<users, early>>

LikeDelete(s) ==
  LET p == request[s].post  u == request[s].user IN
  /\ request[s].pc = "delete"
  /\ likes' = likes \ {<<p, u>>}
  /\ post' = IF <<p, u>> \in likes THEN Counted(p, Decremented(post[p].likeCount))
            ELSE post
  /\ request' = [request EXCEPT ![s] = Idle]
  /\ UNCHANGED <<users, early>>

(***************************************************************************)
(* pin: unpin all of the author's posts, then pin one.                     *)
(***************************************************************************)
\* Mutant: a post that is pinned again keeps its pin meanwhile.
UnpinOthers(a, p) ==
  post' = [q \in Posts |-> IF post[q].author = a /\ q # p
                           THEN [post[q] EXCEPT !.isPinned = FALSE]
                           ELSE post[q]]
Unpin(a, p) ==
  post' = [q \in Posts |-> IF post[q].author = a
                           THEN [post[q] EXCEPT !.isPinned = FALSE]
                           ELSE post[q]]

PinClear(s, p, a) ==
  /\ request[s].pc = "idle"
  /\ Unpin(a, p)
  /\ request' = [request EXCEPT ![s] = [pc |-> "pin", user |-> a, post |-> p,
                                        disturbed |-> FALSE]]
  /\ UNCHANGED <<users, likes, early>>

\* No such post of this author: the second statement matches nothing and the
\* handler throws, with the old pin already removed.  deleted_at is not read.
PinSet(s) ==
  LET p == request[s].post IN
  /\ request[s].pc = "pin"
  /\ post' = IF HasRow(p) /\ post[p].author = request[s].user
               THEN [post EXCEPT ![p].isPinned = TRUE]
               ELSE post
  /\ request' = [request EXCEPT ![s] = Idle]
  /\ UNCHANGED <<users, likes, early>>

(***************************************************************************)
(* Around the service.                                                     *)
(***************************************************************************)
\* GdprService.hardDeleteUser: the user's own likes (with the trigger), then
\* the posts, in one transaction.  Other users' likes of those posts stay.
HardDeleteUser(u) ==
  /\ u \in users
  /\ users' = users \ {u}
  /\ likes' = {l \in likes : l[2] # u}
  /\ post' = [p \in Posts |->
                IF HasRow(p) /\ post[p].author = u THEN NoRow("gone")
                ELSE IF HasRow(p) /\ <<p, u>> \in likes
                       THEN [post[p] EXCEPT !.likeCount = Decremented(@)]
                ELSE post[p]]
  /\ request' = [s \in Slots |->
                   IF request[s].pc \in {"insert", "delete"}
                        /\ request[s].user = u
                     THEN [request[s] EXCEPT !.disturbed = TRUE]
                     ELSE request[s]]
  /\ UNCHANGED early

\* A statement fails or the process dies: the request ends where it is.
Abandon(s) ==
  /\ request[s].pc # "idle"
  /\ request' = [request EXCEPT ![s] = Idle]
  /\ UNCHANGED <<users, post, likes, early>>
-----------------------------------------------------------------------------
Next ==
  \/ \E p \in Posts, u \in Users : Create(p, u)
  \/ \E p \in Posts : Delete(p)
  \/ \E s \in Slots, p \in Posts, u \in Users : LikeRead(s, p, u)
  \/ \E s \in Slots, p \in Posts, u \in Users : PinClear(s, p, u)
  \/ \E s \in Slots : LikeInsert(s)
  \/ \E s \in Slots : LikeDelete(s)
  \/ \E s \in Slots : PinSet(s)
  \/ \E s \in Slots : Abandon(s)
  \/ \E u \in Users : HardDeleteUser(u)

Spec == Init /\ [][Next]_vars
-----------------------------------------------------------------------------
(***************************************************************************)
(* Properties.                                                             *)
(***************************************************************************)

\* The counter equals the rows it counts, however likes, unlikes, retries and
\* erasures of likers interleave, for every post that was not liked before it
\* existed.
CountMatchesRows ==
  \A p \in Posts :
    (HasRow(p) /\ p \notin early)
      => post[p].likeCount = Cardinality(LikersOf(p))

\* like decides on what it read one statement ago: when no other request of
\* the same user for the same post overlaps, that is still the truth when it
\* writes, so that the answer (liked or not) is the state of the row.
UndisturbedToggleIsExact ==
  \A s \in Slots :
    (request[s].pc \in {"insert", "delete"} /\ ~request[s].disturbed)
      => (request[s].pc = "delete"
            <=> <<request[s].post, request[s].user>> \in likes)

\* Two concurrent pins both survive, so "only 1 post can be pinned"
\* (post.service.ts:245) fails; what pin does keep: the pins an author has and
\* those under way are never more than requests can be in flight at once, and
\* one caller at a time means one pin.
PinsBoundedByRequests ==
  \A a \in Users :
    Cardinality(PinnedBy(a)) + Cardinality(Pinning(a)) =< Cardinality(Slots)
=============================================================================
