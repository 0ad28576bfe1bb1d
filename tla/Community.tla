------------------------------ MODULE Community ------------------------------
(***************************************************************************)
(* Follows, groups, threads and voice rooms: requests of users that each   *)
(* run a few statements, one step per statement, without a transaction.    *)
(* Source: apps/api/src/modules: identity (follow, mute, block), group,    *)
(* dm (getOrCreateThread) and voice, with the tables of                    *)
(* db/migrations/001 and 005 and the erasure of gdpr.service.ts.           *)
(*                                                                         *)
(* A group is named by its slug, a room by its id.  Votes, messages, names *)
(* and what a signal carries are left out.                                 *)
(***************************************************************************)
EXTENDS Integers, FiniteSets

CONSTANTS Users, Groups, Rooms,
          Slots,         \* requests that may be under way together
          MaxRequests,   \* bound of the requests
          MaxFaults,     \* bound of restarts, failing statements and erasures
          NoOne

ASSUME CommunityAssumption ==
    /\ MaxRequests \in Nat /\ MaxFaults \in Nat /\ IsFiniteSet(Slots)
    /\ NoOne \notin Users \cup Groups \cup Rooms

VARIABLES
    users,      \* the rows of users
    follows,    \* the pairs with a row in follows
    blocked,    \* the pairs whose row has is_blocked
    group,      \* group[g]: its row: creator and member_count, or creator NoOne
    members,    \* members[g]: the rows of group_members
    threads,    \* the rows of threads
    room,       \* room[r]: its row: host, status and peaks, or host NoOne
    seats,      \* seats[r]: the participants who have not left
    signals,    \* signals[r]: the peers the map in memory has an entry for
    call,       \* call[s]: the request of slot s
    requests,   \* how many requests were made
    faults,
    owned,      \* history: groups that got the row of their owner
    lost,       \* history: lost[g]: members whose joins ended uncounted
    erased,     \* history: erased[g]: members that were erased
    worn        \* history: rooms a join of which was cut short, and none counted since

relations == <<follows, blocked>>
communities == <<group, members, owned, lost, erased>>
voice == <<room, seats, signals, worn>>
vars == <<users, relations, communities, threads, voice, call, requests, faults>>

Roles == {"speaker", "listener"}
NoGroup == [creator |-> NoOne, count |-> 0, private |-> FALSE]
NoRoom == [host |-> NoOne, status |-> "none", peak |-> [x \in Roles |-> 0]]
Idle == [op |-> "none", at |-> "idle", by |-> NoOne, on |-> NoOne, role |-> "listener",
         private |-> FALSE, known |-> FALSE, seen |-> [x \in Roles |-> 0]]

Init ==
    /\ users = Users /\ follows = {} /\ blocked = {}
    /\ group = [g \in Groups |-> NoGroup] /\ members = [g \in Groups |-> {}]
    /\ threads = {}
    /\ room = [r \in Rooms |-> NoRoom] /\ seats = [r \in Rooms |-> {}]
    /\ signals = [r \in Rooms |-> {}]
    /\ call = [s \in Slots |-> Idle] /\ requests = 0 /\ faults = 0
    /\ owned = {} /\ lost = [g \in Groups |-> 0] /\ erased = [g \in Groups |-> 0]
    /\ worn = {}

----------------------------------------------------------------------------
(* Requests                                                                *)

At(s, op, at) == call[s].op = op /\ call[s].at = at
Done(s) == call' = [call EXCEPT ![s] = Idle]
To(s, at) == call' = [call EXCEPT ![s].at = at]

OfUsers == {"follow", "unfollow", "mute", "unmute", "block", "unblock", "thread"}
OfGroups == {"create", "join"}
OfRooms == {"open", "start", "end", "enter", "leave", "signal", "signals"}

\* The threads of one pair (or of one user, who asks for a thread with himself).
ThreadsOf(pair) == {t \in threads : pair \subseteq t.who}

Request(s, c) ==
    /\ call[s].at = "idle" /\ requests < MaxRequests
    /\ requests' = requests + 1
    /\ call' = [call EXCEPT ![s] =
                  [c EXCEPT !.known = c.op = "thread" /\ ThreadsOf({c.by, c.on}) # {}]]
    /\ UNCHANGED <<users, relations, communities, threads, voice, faults>>

AskOfUser(s) == \E op \in OfUsers, u, v \in Users :
    Request(s, [Idle EXCEPT !.op = op, !.at = IF op = "thread" THEN "look" ELSE "find",
                            !.by = u, !.on = v])
AskOfGroup(s) == \E op \in OfGroups, u \in Users, g \in Groups, p \in BOOLEAN :
    /\ op = "join" => ~p
    /\ Request(s, [Idle EXCEPT !.op = op, !.at = "group", !.by = u, !.on = g, !.private = p])
AskOfRoom(s) == \E op \in OfRooms, u \in Users, r \in Rooms, x \in Roles :
    /\ op # "enter" => x = "listener"
    /\ op = "open" <=> room[r].status = "none"
    /\ Request(s, [Idle EXCEPT !.op = op, !.at = "room", !.by = u, !.on = r, !.role = x])

----------------------------------------------------------------------------
(* identity.controller.ts and identity.service.ts                          *)

\* The handle is looked up; one cannot follow oneself.
FindByHandle(s) ==
    /\ call[s].at = "find"
    /\ IF call[s].on \notin users \/ (call[s].op = "follow" /\ call[s].by = call[s].on)
       THEN Done(s) ELSE To(s, "write")
    /\ UNCHANGED <<users, relations, communities, threads, voice>>

\* Mutants: a follow rewrites the row; only unblock takes the block away.
BlockedAfterRewrite(s, pair) ==
    CASE call[s].op = "block" -> blocked \cup {pair}
      [] OTHER -> blocked \ {pair}
BlockedUntilUnblock(s, pair) ==
    CASE call[s].op = "block" -> blocked \cup {pair}
      [] call[s].op = "unblock" -> blocked \ {pair}
      [] OTHER -> blocked
\* follow leaves an existing row alone; mute shares the row and clears its block;
\* the three deletes delete it.
BlockedAfter(s, pair) ==
    CASE call[s].op = "block" -> blocked \cup {pair}
      [] call[s].op = "follow" -> blocked
      [] OTHER -> blocked \ {pair}

Relate(s) ==
    LET pair == <<call[s].by, call[s].on>> IN
    /\ call[s].at = "write" /\ Done(s)
    /\ IF call[s].op \in {"unfollow", "unmute", "unblock"}
       THEN follows' = follows \ {pair} /\ blocked' = BlockedAfter(s, pair)
       ELSE IF {call[s].by, call[s].on} \subseteq users
       THEN follows' = follows \cup {pair} /\ blocked' = BlockedAfter(s, pair)
       ELSE UNCHANGED relations
    /\ UNCHANGED <<users, communities, threads, voice>>

----------------------------------------------------------------------------
(* group.service.ts                                                        *)

\* The slug is unique; member_count is 1 by default, for the owner.
CreateGroup(s) ==
    LET g == call[s].on
        u == call[s].by
    IN  \/ /\ At(s, "create", "group")
           /\ IF group[g].creator = NoOne /\ u \in users
              THEN /\ group' = [group EXCEPT ![g] =
                         [creator |-> u, count |-> 1, private |-> call[s].private]]
                   /\ To(s, "owner")
              ELSE UNCHANGED group /\ Done(s)
           /\ UNCHANGED <<members, owned, lost, erased>>
        \/ /\ At(s, "create", "owner") /\ Done(s)
           /\ IF u \in members[g] THEN UNCHANGED <<members, owned>>
              ELSE members' = [members EXCEPT ![g] = @ \cup {u}] /\ owned' = owned \cup {g}
           /\ UNCHANGED <<group, lost, erased>>

\* Mutant: who is a member already is counted again.
AfterMemberAlways(s) == "count"
\* ON CONFLICT DO NOTHING: only a new row is counted.
AfterMember(s) == IF call[s].by \in members[call[s].on] THEN "idle" ELSE "count"

JoinGroup(s) ==
    LET g == call[s].on
        u == call[s].by
    IN  \/ /\ At(s, "join", "group")
           /\ IF group[g].creator = NoOne \/ group[g].private THEN Done(s) ELSE To(s, "member")
           /\ UNCHANGED communities
        \/ /\ At(s, "join", "member")
           /\ IF u \in users /\ AfterMember(s) = "count"
              THEN members' = [members EXCEPT ![g] = @ \cup {u}] /\ To(s, "count")
              ELSE UNCHANGED members /\ Done(s)
           /\ UNCHANGED <<group, owned, lost, erased>>
        \/ /\ At(s, "join", "count") /\ Done(s)
           /\ group' = [group EXCEPT ![g].count = @ + 1]
           /\ UNCHANGED <<members, owned, lost, erased>>

----------------------------------------------------------------------------
(* dm.service.ts                                                           *)

\* Mutant: only threads the asker has created are looked for.
FoundByCreator(s) == {t \in ThreadsOf({call[s].by, call[s].on}) : t.by = call[s].by}
\* Any thread that holds both.
Found(s) == ThreadsOf({call[s].by, call[s].on})

GetOrCreateThread(s) ==
    \/ At(s, "thread", "look") /\ (IF Found(s) # {} THEN Done(s) ELSE To(s, "insert"))
       /\ UNCHANGED threads
    \/ /\ At(s, "thread", "insert") /\ Done(s)
       /\ threads' = IF call[s].by \in users
                     THEN threads \cup {[who |-> {call[s].by, call[s].on}, by |-> call[s].by,
                                         n |-> Cardinality(threads), known |-> call[s].known]}
                     ELSE threads

----------------------------------------------------------------------------
(* voice.service.ts                                                        *)

CreateRoom(s) ==
    LET r == call[s].on IN
    /\ At(s, "open", "room") /\ Done(s)
    /\ room' = IF call[s].by \in users /\ room[r].status = "none"
               THEN [room EXCEPT ![r] = [NoRoom EXCEPT !.host = call[s].by, !.status = "scheduled"]]
               ELSE room
    /\ UNCHANGED <<seats, signals, worn>>

\* The row is the host's; the map in memory is reset whoever asks.
SetStatus(s, op, status) ==
    LET r == call[s].on IN
    \/ /\ At(s, op, "room") /\ To(s, "map")
       /\ room' = IF room[r].host = call[s].by THEN [room EXCEPT ![r].status = status] ELSE room
       /\ UNCHANGED <<seats, signals, worn>>
    \/ /\ At(s, op, "map") /\ Done(s)
       /\ signals' = [signals EXCEPT ![r] = {}]
       /\ UNCHANGED <<room, seats, worn>>
StartRoom(s) == SetStatus(s, "start", "live")
EndRoom(s) == SetStatus(s, "end", "ended")

Sitting(r, x) == Cardinality({p \in seats[r] : p.role = x})
Greatest(a, b) == IF a > b THEN a ELSE b
\* Mutant: the count replaces the peak.
PeakReplaced(s) == call[s].seen
PeakAfter(s) == [x \in Roles |-> Greatest(room[call[s].on].peak[x], call[s].seen[x])]

\* A seat, a count of the seats and the peaks; the status of the room is not asked.
JoinRoom(s) ==
    LET r == call[s].on IN
    \/ /\ At(s, "enter", "room")
       /\ IF room[r].host # NoOne /\ call[s].by \in users
          THEN /\ seats' = [seats EXCEPT ![r] =
                     @ \cup {[user |-> call[s].by, role |-> call[s].role, n |-> Cardinality({p \in seats[r] : p.user = call[s].by})]}]
               /\ To(s, "seats")
          ELSE UNCHANGED seats /\ Done(s)
       /\ UNCHANGED <<room, signals, worn>>
    \/ /\ At(s, "enter", "seats")
       /\ call' = [call EXCEPT ![s].at = "peak", ![s].seen = [x \in Roles |-> Sitting(r, x)]]
       /\ worn' = worn \ {r}
       /\ UNCHANGED <<room, seats, signals>>
    \/ /\ At(s, "enter", "peak") /\ Done(s)
       /\ room' = IF room[r].host = NoOne THEN room ELSE [room EXCEPT ![r].peak = PeakAfter(s)]
       /\ UNCHANGED <<seats, signals, worn>>

\* Every seat of the user, however often he has joined.
LeaveRoom(s) ==
    LET r == call[s].on IN
    /\ At(s, "leave", "room") /\ Done(s)
    /\ seats' = [seats EXCEPT ![r] = {p \in @ : p.user # call[s].by}]
    /\ UNCHANGED <<room, signals, worn>>

\* An entry for the peer it is meant for.
RelaySignal(s) ==
    /\ At(s, "signal", "room") /\ Done(s)
    /\ \E v \in Users : signals' = [signals EXCEPT ![call[s].on] = @ \cup {v}]
    /\ UNCHANGED <<room, seats, worn>>

\* The answer, whose entries bear the name of the peer they are meant for, leaves
\* no trace here.
GetSignals(s) == At(s, "signals", "room") /\ Done(s) /\ UNCHANGED voice

----------------------------------------------------------------------------
(* Erasure, failing statements and restarts                                *)

Fault == faults < MaxFaults /\ faults' = faults + 1

\* gdpr.service.ts, one transaction.  groups.created_by and threads.created_by
\* keep the row of the user; nothing takes the member from the count.
Erase(u) ==
    /\ Fault /\ u \in users
    /\ users' = IF \/ \E g \in Groups : group[g].creator = u
                   \/ \E t \in threads : t.by = u
                THEN users ELSE users \ {u}
    /\ follows' = {p \in follows : u \notin {p[1], p[2]}}
    /\ blocked' = {p \in blocked : u \notin {p[1], p[2]}}
    /\ members' = [g \in Groups |-> members[g] \ {u}]
    /\ erased' = [g \in Groups |-> IF u \in members[g] THEN erased[g] + 1 ELSE erased[g]]
    /\ room' = [r \in Rooms |-> IF room[r].host = u
                               THEN [NoRoom EXCEPT !.status = "erased"] ELSE room[r]]
    /\ seats' = [r \in Rooms |-> IF room[r].host = u THEN {}
                                ELSE {p \in seats[r] : p.user # u}]
    /\ UNCHANGED <<group, owned, lost, threads, signals, worn, call, requests>>

Counting(g) == Cardinality({s \in Slots : At(s, "join", "count") /\ call[s].on = g})
Entering(r) == {s \in Slots : At(s, "enter", call[s].at) /\ call[s].on = r
                              /\ call[s].at \in {"seats", "peak"}}

\* A statement fails in a process that lives on: the request answers an error, and
\* what came before it stays.  (One that fails after it has done its work is that
\* statement, and the next one failing.)
StatementFails(s) ==
    /\ Fault /\ call[s].at \notin {"idle", "map"} /\ call[s].op \notin {"signal", "signals"}
    /\ Done(s)
    /\ lost' = [g \in Groups |-> IF At(s, "join", "count") /\ call[s].on = g
                                 THEN lost[g] + 1 ELSE lost[g]]
    /\ worn' = worn \cup {r \in Rooms : s \in Entering(r)}
    /\ UNCHANGED <<users, relations, group, members, owned, erased, threads, room, seats,
                   signals, requests>>

Restart ==
    /\ Fault /\ \E s \in Slots : call[s].at # "idle"
    /\ call' = [s \in Slots |-> Idle]
    /\ signals' = [r \in Rooms |-> {}]
    /\ lost' = [g \in Groups |-> lost[g] + Counting(g)]
    /\ worn' = worn \cup {r \in Rooms : Entering(r) # {}}
    /\ UNCHANGED <<users, relations, group, members, owned, erased, threads, room, seats,
                   requests>>

Step(s) ==
    /\ \/ FindByHandle(s) \/ Relate(s)
       \/ /\ CreateGroup(s) \/ JoinGroup(s)
          /\ UNCHANGED <<users, relations, threads, voice>>
       \/ GetOrCreateThread(s) /\ UNCHANGED <<users, relations, communities, voice>>
       \/ /\ \/ CreateRoom(s) \/ StartRoom(s) \/ EndRoom(s) \/ JoinRoom(s)
             \/ LeaveRoom(s) \/ RelaySignal(s) \/ GetSignals(s)
          /\ UNCHANGED <<users, relations, communities, threads>>
    /\ UNCHANGED <<requests, faults>>

Next ==
    \/ \E s \in Slots : \/ Step(s) \/ StatementFails(s)
                       \/ AskOfUser(s) \/ AskOfGroup(s) \/ AskOfRoom(s)
    \/ \E u \in Users : Erase(u)
    \/ Restart

Spec == Init /\ [][Next]_vars

----------------------------------------------------------------------------
(* Properties                                                              *)

\* Every variable has its type; a block is kept in the row of a follow.
TypeOK ==
    /\ users \subseteq Users /\ follows \subseteq Users \X Users /\ blocked \subseteq follows
    /\ group \in [Groups -> [creator : Users \cup {NoOne}, count : Nat, private : BOOLEAN]]
    /\ members \in [Groups -> SUBSET Users] /\ owned \subseteq Groups
    /\ \A t \in threads : t.who \subseteq Users /\ t.by \in t.who /\ t.n \in Nat
    /\ room \in [Rooms -> [host : Users \cup {NoOne}, peak : [Roles -> Nat],
                           status : {"none", "scheduled", "live", "ended", "erased"}]]
    /\ seats \in [Rooms -> SUBSET [user : Users, role : Roles, n : Nat]]
    /\ signals \in [Rooms -> SUBSET Users] /\ worn \subseteq Rooms
    /\ \A s \in Slots : call[s].by \in Users \cup {NoOne}
    /\ requests \in 0 .. MaxRequests /\ faults \in 0 .. MaxFaults

\* A block ends only by a mute, an unmute, an unblock or an unfollow of its own
\* pair, or with an account: following again does not lift it.
BlocksOutliveFollows ==
    [][\A p \in blocked \ blocked' :
          \/ faults' # faults
          \/ \E s \in Slots : /\ call[s].at = "write" /\ <<call[s].by, call[s].on>> = p
                              /\ call[s].op \in {"mute", "unmute", "unblock", "unfollow"}]_vars

\* member_count is off by exactly what cut it loose from the rows: joins whose
\* count is under way, or never came because its UPDATE failed or the process
\* ended (the retry finds the row and counts nothing), members erased without
\* being taken off, and an owner whose row never came (a failure, a restart, or he
\* joined his own group before the second statement).
MembersAreCounted ==
    \A g \in Groups : group[g].creator # NoOne =>
        group[g].count + Counting(g) + lost[g]
            = Cardinality(members[g]) + erased[g] + (IF g \in owned THEN 0 ELSE 1)

\* A pair gets a second thread only by two requests that overlapped: none that
\* began when a thread was there makes another.
SecondThreadsOverlap == \A t \in threads : ~t.known

\* When no one is entering a room its peaks are no lower than the seats taken,
\* unless a join was cut short, by a restart or a failing statement, and none has
\* counted the seats since.
PeaksCoverSeats ==
    \A r \in Rooms : (Entering(r) = {} /\ r \notin worn) =>
        \A x \in Roles : room[r].peak[x] >= Sitting(r, x)

\* What holds of the groups, the threads and the rooms in every state.
CommunityInv ==
    /\ TypeOK
    /\ MembersAreCounted
    /\ SecondThreadsOverlap
    /\ PeaksCoverSeats
=============================================================================
