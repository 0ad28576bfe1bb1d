---------------------------- MODULE StreamPubSub ----------------------------
(***************************************************************************)
(* OrbitPubSub (packages/db/src/index.ts): publish inserts a row into      *)
(* orbit_streams; every subscription polls the table, hands the new rows   *)
(* to its handler and marks them processed.                                *)
(*                                                                         *)
(* A row's id is drawn when the INSERT starts and the row is visible when  *)
(* it commits, so rows become visible out of the order of their ids.  The  *)
(* loop that calls the handler has no await in it and is one step; the two *)
(* queries around it are steps of their own.  LISTEN/NOTIFY only wakes the *)
(* poll (and nothing ever notifies): it changes nothing here.              *)
(***************************************************************************)
EXTENDS Integers, FiniteSets

CONSTANTS
  Subscriptions,  \* calls of subscribe, each with a loop of its own
  Channels,
  ChannelOf,      \* ChannelOf[s]: the channel s subscribed to
  LikeMatches,    \* LikeMatches[c]: the channels with prefix c (LIKE 'c%')
  Limit,          \* rows per poll (100 in the code)
  MaxId           \* bound: number of rows ever published

ASSUME ChannelAssumption == /\ ChannelOf \in [Subscriptions -> Channels]
                            /\ LikeMatches \in [Channels -> SUBSET Channels]
ASSUME LimitAssumption == Limit \in Nat \ {0}
ASSUME MaxIdAssumption == MaxId \in Nat

Ids == 1 .. MaxId

VARIABLES
  nextId,     \* the sequence behind stream_id
  row,        \* row[i]: a row of orbit_streams
  sub,        \* sub[s]: the poll loop of a subscription
  handed,     \* history: rows given to some handler
  overtaken   \* history: rows that became visible behind a reader

vars == <<nextId, row, sub, handed, overtaken>>

\* "inserting": the id is drawn, the row not yet visible.
Row == [state : {"unused", "inserting", "new", "processed", "aborted"},
        channel : Channels]

\* "query": about to select; "polled": the rows are read; "mark": they are
\* handed out, the UPDATE is still to come; "sleep": the 100 ms pause.
Loop == [pc : {"off", "query", "polled", "mark", "sleep"},
         running : BOOLEAN, last : 0 .. MaxId, batch : SUBSET Ids]
Off  == [pc |-> "off", running |-> FALSE, last |-> 0, batch |-> {}]

Covers(s, i) == row[i].channel \in LikeMatches[ChannelOf[s]]
Visible(i)   == row[i].state \in {"new", "processed"}

TypeOK ==
  /\ nextId \in 1 .. MaxId + 1
  /\ row \in [Ids -> Row]
  /\ \A i \in Ids : row[i].state = "unused" <=> i >= nextId
  /\ sub \in [Subscriptions -> Loop]
  /\ \A s \in Subscriptions : sub[s].batch # {} <=> sub[s].pc = "polled"
  /\ handed \in SUBSET Ids
  /\ overtaken \in SUBSET Ids

Init ==
  /\ nextId = 1
  /\ row \in [Ids -> [state : {"unused"}, channel : Channels]]
  /\ sub = [s \in Subscriptions |-> Off]
  /\ handed = {}
  /\ overtaken = {}
-----------------------------------------------------------------------------
(***************************************************************************)
(* publish.  The channel of each row is fixed in Init.                     *)
(***************************************************************************)
InsertBegin ==
  /\ nextId =< MaxId
  /\ row' = [row EXCEPT ![nextId].state = "inserting"]
  /\ nextId' = nextId + 1
  /\ UNCHANGED <<sub, handed, overtaken>>

\* Some subscription has already read past id i.
IsBehindAReader(i) ==
  \E s \in Subscriptions :
    /\ sub[s].pc # "off" /\ Covers(s, i)
    /\ \E j \in sub[s].batch \cup {sub[s].last} : j >= i

InsertCommit(i) ==
  /\ row[i].state = "inserting"
  /\ row' = [row EXCEPT ![i].state = "new"]
  /\ overtaken' = IF IsBehindAReader(i) THEN overtaken \cup {i} ELSE overtaken
  /\ UNCHANGED <<nextId, sub, handed>>

InsertAbort(i) ==
  /\ row[i].state = "inserting"
  /\ row' = [row EXCEPT ![i].state = "aborted"]
  /\ UNCHANGED <<nextId, sub, handed, overtaken>>

(***************************************************************************)
(* subscribe: the poll loop.                                               *)
(***************************************************************************)
Subscribe(s) ==
  /\ sub[s].pc = "off"
  /\ sub' = [sub EXCEPT ![s] = [pc |-> "query", running |-> TRUE, last |-> 0,
                                batch |-> {}]]
  /\ UNCHANGED <<nextId, row, handed, overtaken>>

\* Mutant: the query misses "AND stream_id > $2".
CandidatesFromStart(s) ==
  {i \in Ids : row[i].state = "new" /\ Covers(s, i)}
Candidates(s) ==
  {i \in Ids : row[i].state = "new" /\ Covers(s, i) /\ i > sub[s].last}

\* Mutant: ORDER BY stream_id DESC.
NewestFirst(s) ==
  {i \in Candidates(s) :
     Cardinality({j \in Candidates(s) : j > i}) < Limit}
\* ORDER BY stream_id ASC LIMIT 100.
FirstRows(s) ==
  {i \in Candidates(s) :
     Cardinality({j \in Candidates(s) : j < i}) < Limit}

AfterPoll(rows) == IF rows = {} THEN "sleep" ELSE "polled"

Poll(s) ==
  /\ sub[s].pc = "query"
  /\ sub' = [sub EXCEPT ![s].pc = AfterPoll(FirstRows(s)),
                        ![s].batch = FirstRows(s)]
  /\ UNCHANGED <<nextId, row, handed, overtaken>>

\* The loop calls the handler for each row in order.  A handler that throws
\* at row i ends it: lastSeenId is i, the other rows and the UPDATE are left.
HandOut(s) ==
  /\ sub[s].pc = "polled"
  /\ \E i \in sub[s].batch :
       /\ handed' = handed \cup {j \in sub[s].batch : j =< i}
       /\ \/ /\ \A j \in sub[s].batch : j =< i
             /\ sub' = [sub EXCEPT ![s].pc = "mark", ![s].last = i,
                                   ![s].batch = {}]
          \/ sub' = [sub EXCEPT ![s].pc = "sleep", ![s].last = i,
                                ![s].batch = {}]
  /\ UNCHANGED <<nextId, row, overtaken>>

\* Mutant: the UPDATE misses "AND stream_id <= $2".
MarkedAll(s, i) == row[i].state = "new" /\ Covers(s, i)
Marked(s, i) == row[i].state = "new" /\ Covers(s, i) /\ i =< sub[s].last

Mark(s) ==
  /\ sub[s].pc = "mark"
  /\ row' = [i \in Ids |-> IF Marked(s, i)
                             THEN [row[i] EXCEPT !.state = "processed"]
                             ELSE row[i]]
  /\ sub' = [sub EXCEPT ![s].pc = "sleep"]
  /\ UNCHANGED <<nextId, handed, overtaken>>

\* Either query throws: "pubsub poll error", and the loop goes on.
QueryFails(s) ==
  /\ sub[s].pc \in {"query", "mark"}
  /\ sub' = [sub EXCEPT ![s].pc = "sleep"]
  /\ UNCHANGED <<nextId, row, handed, overtaken>>

\* Mutant: the loop never looks at isRunning again.
WakesAlways(s) == TRUE
WakesUp(s) == sub[s].running

Wake(s) ==
  /\ sub[s].pc = "sleep"
  /\ sub' = IF WakesUp(s) THEN [sub EXCEPT ![s].pc = "query"]
            ELSE [sub EXCEPT ![s] = Off]
  /\ UNCHANGED <<nextId, row, handed, overtaken>>

\* The function subscribe returns: the loop ends at its next test.
Unsubscribe(s) ==
  /\ sub[s].running
  /\ sub' = [sub EXCEPT ![s].running = FALSE]
  /\ UNCHANGED <<nextId, row, handed, overtaken>>

\* The process dies.
Crash(s) ==
  /\ sub[s].pc # "off"
  /\ sub' = [sub EXCEPT ![s] = Off]
  /\ UNCHANGED <<nextId, row, handed, overtaken>>
-----------------------------------------------------------------------------
PublishStep ==
  \/ InsertBegin
  \/ \E i \in Ids : InsertCommit(i)
  \/ \E i \in Ids : InsertAbort(i)

LoopStep(s) ==
  \/ Poll(s)
  \/ HandOut(s)
  \/ Mark(s)
  \/ QueryFails(s)
  \/ Wake(s)

Next ==
  \/ PublishStep
  \/ \E s \in Subscriptions :
       LoopStep(s) \/ Subscribe(s) \/ Unsubscribe(s) \/ Crash(s)

Spec == Init /\ [][Next]_vars

\* The loop runs on, and its query does not fail for ever.
Fairness ==
  \A s \in Subscriptions :
    /\ WF_vars(LoopStep(s))
    /\ SF_vars(Poll(s))

FairSpec == Spec /\ Fairness
-----------------------------------------------------------------------------
(***************************************************************************)
(* Properties.                                                             *)
(***************************************************************************)

\* The UPDATE marks by range, not by what was read: still, the only rows it
\* hides without a handler having seen them are rows that became visible
\* after a reader had passed their id.  Several subscriptions, prefixes of
\* each other, failing handlers, crashes and lost marks do not lose any.
OnlyOvertakenRowsAreLost ==
  \A i \in Ids : row[i].state = "processed" => i \in handed \cup overtaken

\* Each subscription sees published rows, in order, none twice.
Feed == INSTANCE OrderedFeed
          WITH published <- {i \in Ids : Visible(i)},
               cursor <- [s \in Subscriptions |-> sub[s].last]
ImplementsOrderedFeed == Feed!Spec

\* A visible row that no reader has passed is handed to a handler, as long as
\* a subscription that covers it goes on.
NewRowsAreHandedOut ==
  \A s \in Subscriptions, i \in Ids :
    (row[i].state = "new" /\ i \notin overtaken /\ Covers(s, i)
       /\ sub[s].running)
      ~> (i \in handed \/ ~sub[s].running)

\* A subscription that was cancelled ends.
CancelledLoopsEnd ==
  \A s \in Subscriptions :
    (sub[s].pc # "off" /\ ~sub[s].running) ~> (sub[s].pc = "off")
=============================================================================
