---------------------------- MODULE ConnectionPool ----------------------------
(***************************************************************************)
(* The pool of database connections that every service shares: single      *)
(* queries, transactions, sessions with a shard, and listeners that hold a *)
(* connection until they are cancelled; callers that wait for one; and the *)
(* process around it, which shuts down or dies.                            *)
(* Source: packages/db/src/index.ts, VedadbPool; apps/api/src/main.ts.     *)
(*                                                                         *)
(* One action is one statement with the release that follows it.  What the *)
(* pg library does (who gets a connection, which ones it closes) is as the *)
(* code uses it; of several idle connections it may give any.  A           *)
(* connection that is closed and the room for one are the same.            *)
(***************************************************************************)
EXTENDS Naturals, Sequences

CONSTANTS Conns,        \* as many connections as maxConnections allows
          Callers, Channels, Shards,
          Vedadb,       \* the engine is Vedadb and not PostgreSQL
          Nobody, Lost,
          MaxUses,      \* bound of the calls
          MaxPoolFaults \* bound of the failures and crashes

ASSUME ConnectionPoolAssumption ==
    /\ Vedadb \in BOOLEAN /\ {MaxUses, MaxPoolFaults} \subseteq Nat
    /\ Nobody # Lost /\ {Nobody, Lost} \cap (Callers \cup Channels \cup Shards) = {}

VARIABLES
    conn,     \* conn[c]: who has it, and the state of its session
    use,      \* use[t]: what caller t wants a connection for and how far it is
    waiting,  \* the callers the pool has no connection for, in order
    ending,   \* the pool was told to end
    uses, poolFaults

poolVars == <<conn, use, waiting, ending, uses, poolFaults>>

\* "handlers" are the functions that were put on the client: the number of the
\* call of listen and its channel.  "deaf", history: an UNLISTEN failed on it;
\* "stuck": a ROLLBACK was never sent on it.
NewSession == [by |-> Nobody, open |-> FALSE, listens |-> {}, handlers |-> {},
          shard |-> Nobody, deaf |-> FALSE, stuck |-> FALSE]
NoUse == [pc |-> "off", op |-> "query", arg |-> Nobody, id |-> 0, on |-> Nobody]

NoConns == [c \in Conns |-> NewSession]
NoUses  == [t \in Callers |-> NoUse]

PoolInit ==
    /\ conn = NoConns /\ use = NoUses /\ waiting = <<>> /\ ending = FALSE
    /\ uses = 0 /\ poolFaults = 0

\* Another process takes over, and the database ends the old sessions.
NewProcess == conn' = NoConns /\ use' = NoUses /\ waiting' = <<>> /\ ending' = FALSE

----------------------------------------------------------------------------
(* Connections go to callers and come back                                 *)

\* The first statement of each operation.
First(op) == CASE op = "query" -> "query"
               [] op = "transaction" -> "begin"
               [] op = "shard" -> IF Vedadb THEN "set" ELSE "work"
               [] op = "listen" -> "listen"

Started(u, c) == [u EXCEPT !.pc = First(u.op), !.on = c]

\* listen puts its handler on the client before anything else.
Taken(t, u, r) == [r EXCEPT !.by = t,
                            !.handlers = @ \cup IF u.op = "listen" THEN {<<u.id, u.arg>>} ELSE {}]

Ask(t) ==
    /\ use[t].pc = "off" /\ ~ending /\ uses < MaxUses /\ uses' = uses + 1
    /\ \E w \in ({"query", "transaction"} \X {Nobody}) \cup ({"shard"} \X Shards)
                    \cup ({"listen"} \X Channels) :
         LET u == [pc |-> "waiting", op |-> w[1], arg |-> w[2], on |-> Nobody,
                   id |-> IF w[1] = "listen" THEN uses + 1 ELSE 0]
             free == {c \in Conns : conn[c].by = Nobody}
         IN  \/ \E c \in free : /\ use' = [use EXCEPT ![t] = Started(u, c)]
                                /\ conn' = [conn EXCEPT ![c] = Taken(t, u, @)]
                                /\ UNCHANGED waiting
             \/ /\ free = {}
                /\ use' = [use EXCEPT ![t] = u] /\ waiting' = Append(waiting, t)
                /\ UNCHANGED conn
    /\ UNCHANGED <<ending, poolFaults>>

\* connectionTimeoutMillis has passed.
WaitTimesOut(t) ==
    /\ use[t].pc = "waiting"
    /\ use' = [use EXCEPT ![t] = NoUse]
    /\ \E i \in 1 .. Len(waiting) :
          /\ waiting[i] = t
          /\ waiting' = SubSeq(waiting, 1, i - 1) \o SubSeq(waiting, i + 1, Len(waiting))
    /\ UNCHANGED <<conn, ending, uses, poolFaults>>

\* t gives its connection back with a session as in r: to the first that waits,
\* or to the pool, which closes it when it is ending.
Release(t, r) ==
    LET c == use[t].on
        next == Head(waiting)
    IN  IF waiting = <<>> \/ ending
        THEN /\ conn' = [conn EXCEPT ![c] = IF ending THEN NewSession ELSE [r EXCEPT !.by = Nobody]]
             /\ use' = [use EXCEPT ![t] = NoUse] /\ UNCHANGED waiting
        ELSE /\ conn' = [conn EXCEPT ![c] = Taken(next, use[next], r)]
             /\ use' = [use EXCEPT ![t] = NoUse, ![next] = Started(@, c)]
             /\ waiting' = Tail(waiting)

Stands(t, pc, op) == use[t].pc = pc /\ use[t].op = op /\ UNCHANGED <<ending, uses>>
Mine(t) == conn[use[t].on]
Succeeds == UNCHANGED poolFaults
Breaks == poolFaults < MaxPoolFaults /\ poolFaults' = poolFaults + 1
Goes(t, pc, r) ==
    /\ use' = [use EXCEPT ![t].pc = pc] /\ conn' = [conn EXCEPT ![use[t].on] = r]
    /\ UNCHANGED waiting

----------------------------------------------------------------------------
(* query, withTransaction, withSharding                                    *)

\* The library closes a connection whose query failed.
Query(t) ==
    /\ Stands(t, "query", "query")
    /\ \/ Succeeds /\ Release(t, Mine(t))
       \/ Breaks /\ Release(t, NewSession)

BeginTransaction(t) ==
    /\ Stands(t, "begin", "transaction")
    /\ \/ Succeeds /\ Goes(t, "work", [Mine(t) EXCEPT !.open = TRUE])
       \/ Breaks /\ Goes(t, "rollback", Mine(t))

\* The callback ends or throws.
Work(t) ==
    /\ Stands(t, "work", "transaction") /\ Succeeds
    /\ \/ Goes(t, "commit", Mine(t))
       \/ Goes(t, "rollback", Mine(t))

Commit(t) ==
    /\ Stands(t, "commit", "transaction")
    /\ \/ Succeeds /\ Release(t, [Mine(t) EXCEPT !.open = FALSE])
       \/ Breaks /\ Goes(t, "rollback", Mine(t))

\* Mutant: the catch throws without a ROLLBACK.
NotRolledBack(r) == r
RolledBack(r) == [r EXCEPT !.open = FALSE]

\* A ROLLBACK that is answered late is still the next statement the session
\* executes, and "finally" gives the connection back in either case.  One whose
\* query_timeout passes while the session is at the statement before it is never
\* sent; what that statement leaves, a transaction or none, is the next caller's.
Rollback(t) ==
    /\ Stands(t, "rollback", "transaction")
    /\ \/ Succeeds /\ Release(t, RolledBack(Mine(t)))
       \/ /\ Breaks
          /\ \E left \in BOOLEAN : Release(t, [Mine(t) EXCEPT !.open = left, !.stuck = TRUE])

\* Mutant: the key is set on another connection of the pool.
ShardedElsewhere(r, key) == r
\* SET has no end but the next SET: the session keeps the key.
Sharded(r, key) == [r EXCEPT !.shard = key]

SetShard(t) ==
    /\ Stands(t, "set", "shard")
    /\ \/ Succeeds /\ Goes(t, "work", Sharded(Mine(t), use[t].arg))
       \/ Breaks /\ Release(t, Mine(t))

ShardWork(t) == Stands(t, "work", "shard") /\ Succeeds /\ Release(t, Mine(t))

----------------------------------------------------------------------------
(* listen and the function it returns, which is called once                *)

\* When LISTEN fails nobody gives the connection back.
Listen(t) ==
    /\ Stands(t, "listen", "listen")
    /\ \/ Succeeds /\ Goes(t, "on", [Mine(t) EXCEPT !.listens = @ \cup {use[t].arg}])
       \/ /\ Breaks
          /\ conn' = [conn EXCEPT ![use[t].on].by = Lost]
          /\ use' = [use EXCEPT ![t] = NoUse] /\ UNCHANGED waiting

\* Mutant: the connection is given back without UNLISTEN.
StillListening(r, channel) == r
Unlistened(r, channel) == [r EXCEPT !.listens = @ \ {channel}]

\* The error of UNLISTEN is ignored; the handler stays on the client.
Cancel(t) ==
    /\ Stands(t, "on", "listen")
    /\ \/ Succeeds /\ Release(t, Unlistened(Mine(t), use[t].arg))
       \/ Breaks /\ Release(t, [Mine(t) EXCEPT !.deaf = TRUE])

----------------------------------------------------------------------------
(* The pool and the process                                                *)

\* idleTimeoutMillis has passed.
CloseIdle(c) ==
    /\ conn[c].by = Nobody /\ conn[c] # NewSession
    /\ conn' = [conn EXCEPT ![c] = NewSession]
    /\ UNCHANGED <<use, waiting, ending, uses, poolFaults>>

\* A connection breaks that no query of the pool is using.  Nothing handles the
\* "error" event of the client or of the pool: the process exits, as it does
\* for every exception that nobody caught.
Die == Breaks /\ NewProcess /\ UNCHANGED uses

\* The signal to stop; connections that are given back are closed from now on.
ShutDown ==
    /\ ~ending /\ ending' = TRUE
    /\ conn' = [c \in Conns |-> IF conn[c].by = Nobody THEN NewSession ELSE conn[c]]
    /\ UNCHANGED <<use, waiting, uses, poolFaults>>

\* The pool has ended when the last connection was given back.
Exit ==
    /\ ending /\ \A c \in Conns : conn[c].by = Nobody
    /\ NewProcess /\ UNCHANGED <<uses, poolFaults>>

Statement(t) ==
    \/ Query(t) \/ BeginTransaction(t) \/ Work(t) \/ Commit(t) \/ Rollback(t)
    \/ SetShard(t) \/ ShardWork(t) \/ Listen(t) \/ Cancel(t)

PoolNext ==
    \/ \E t \in Callers : Ask(t) \/ WaitTimesOut(t) \/ Statement(t)
    \/ \E c \in Conns : CloseIdle(c)
    \/ Die \/ ShutDown \/ Exit

PoolSpec == PoolInit /\ [][PoolNext]_poolVars

----------------------------------------------------------------------------
(* Properties                                                              *)

\* Connections and callers have the states the code gives them.
PoolTypeOK ==
    /\ \A c \in Conns : /\ conn[c].by \in Callers \cup {Nobody, Lost}
                        /\ conn[c].listens \subseteq Channels
                        /\ conn[c].shard \in Shards \cup {Nobody}
    /\ \A t \in Callers : use[t].on \in Conns \cup {Nobody}
    /\ waiting \in Seq(Callers) /\ ending \in BOOLEAN

\* Whatever fails on the way, a session that the pool may give to the next
\* caller is in no transaction, so that no request writes into, or loses with,
\* the transaction of another, unless a ROLLBACK was never sent on it; and it
\* listens to nothing unless an UNLISTEN failed on it.
SessionsAreClean ==
    \A c \in Conns : conn[c].by = Nobody
        => (conn[c].stuck \/ ~conn[c].open) /\ (conn[c].deaf \/ conn[c].listens = {})

\* The call of listen with this number has not been cancelled.
Live(id) == \E t \in Callers : use[t].id = id /\ use[t].pc = "on"

\* A handler that was cancelled stays on its client, and hears again only if
\* the connection came to a later listener of the same channel, or UNLISTEN
\* failed on it.
CancelledAreQuiet ==
    \A c \in Conns : \A h \in conn[c].handlers :
        (~Live(h[1]) /\ h[2] \in conn[c].listens)
        => \/ conn[c].deaf
           \/ \E t \in Callers : use[t].pc = "on" /\ use[t].on = c /\ use[t].arg = h[2]

\* A connection that is not in the pool is with a caller that is at work on it
\* or listens, or LISTEN failed on it: no other way to fail takes a connection
\* from the pool for good, keeps others waiting for it, or keeps the process
\* from exiting.
NothingIsLost ==
    \A c \in Conns : conn[c].by \in Callers
        => use[conn[c].by].on = c /\ use[conn[c].by].pc \notin {"off", "waiting"}

\* The callback of withSharding runs under its own key, whatever key an earlier
\* caller has left on the session.
ShardIsOwn ==
    \A t \in Callers : (Vedadb /\ use[t].op = "shard" /\ use[t].pc = "work")
        => conn[use[t].on].shard = use[t].arg

\* What holds of the pool in every state.
PoolInv == PoolTypeOK /\ SessionsAreClean /\ CancelledAreQuiet /\ NothingIsLost /\ ShardIsOwn
=============================================================================
